------------------------------- MODULE Progress -------------------------------
(***************************************************************************)
(* The progress that long work shows: the loops of system_readFile and     *)
(* system_writeFile (system_info.cpp), decrypt_modcrypt_area (main.cpp)    *)
(* and patch_applyPatternPatches (patch.cpp) as far as they report, and    *)
(* CreateProgress, UpdateProgress and ClearProgress of ui.cpp.  One action *)
(* per round of a loop.  The work itself is in Launcher, NandSession and   *)
(* Patch.                                                                  *)
(***************************************************************************)
EXTENDS Integers, Sequences

CONSTANTS
  Works,      \* [kind, size]: what is done, and the bytes of it
  Missing,    \* how many bytes fread or fwrite may fall short
  Undefined   \* values a division by zero may leave in a uint8_t

ASSUME ProgressAssumption ==
  /\ Works \subseteq [kind : {"read", "write", "modcrypt", "patch"}, size : Nat]
  /\ Missing \subseteq Nat /\ Undefined \subseteq 0 .. 255

VARIABLES
  progPc,     \* "create", "run" or "end"
  work,
  reached,    \* `pos`, or `i` of patch_applyPatternPatches
  lastReportedProgress,
  barRow      \* row 11 of the screen, with the escapes that colour it

progressVars == <<progPc, work, reached, lastReportedProgress, barRow>>

BlankRow == [k \in 1 .. 32 |-> " "]
FrameRow == [k \in 1 .. 32 |-> IF k \in {6, 27} THEN "|" ELSE " "]
(* snprintf; an escape is five characters.  The buffer has 64, and keeps    *)
(* behind the end what the stack held.                                      *)
Escapes  == 7 .. 11 \cup 32 .. 36
Template == [k \in 1 .. 42 |-> IF k \in {6, 37} THEN "|" ELSE IF k \in Escapes THEN "esc" ELSE " "]
Buffer(junk) == [k \in 1 .. 64 |-> IF k <= 42 THEN Template[k] ELSE IF k = 43 THEN "nul" ELSE junk]

(* UpdateProgress.  A mistake that BarIsTrue would show: every place is     *)
(* filled, whatever it holds.                                               *)
FilledAll(steps, k, c) == IF k \in 12 .. (11 + steps) THEN "#" ELSE c
Filled(steps, k, c)    == IF k \in 12 .. (11 + steps) /\ c = " " THEN "#" ELSE c
(* iprintf prints what stands before the first nul.                         *)
Printed(buffer) ==
  SubSeq(buffer, 1, CHOOSE m \in 0 .. 64 : /\ m < 64 => buffer[m + 1] = "nul"
                                           /\ \A k \in 1 .. m : buffer[k] # "nul")
Line(percent, junk) ==
  LET before == Buffer(junk)
  IN  Printed([k \in 1 .. 64 |-> Filled(percent \div 5, k, before[k])])

-----------------------------------------------------------------------------
bytesPerPercent == (work.size + 1) \div 101
Percents(p) == IF bytesPerPercent = 0 THEN Undefined ELSE {(p \div bytesPerPercent) % 256}

ProgressInit ==
  /\ work \in Works /\ progPc = "create"
  /\ reached = 0 /\ lastReportedProgress = 255 /\ barRow = BlankRow

CreateProgress ==
  /\ progPc = "create" /\ progPc' = "run"
  /\ barRow' = FrameRow
  /\ UNCHANGED <<work, reached, lastReportedProgress>>

(* Every loop reports a percentage that it has not just reported.           *)
Report(p) ==
  \E percent \in Percents(p) :
    /\ lastReportedProgress' = percent
    /\ IF percent = lastReportedProgress THEN UNCHANGED barRow
       ELSE \E junk \in {" ", "?"} : barRow' = Line(percent, junk)

AtMost(n) == IF n <= work.size - reached THEN n ELSE work.size - reached
TransferRound ==
  /\ progPc = "run" /\ work.kind \in {"read", "write"} /\ reached < work.size
  /\ LET wanted == AtMost(IF work.kind = "read" THEN 512 ELSE 256)
     IN  \E short \in {m \in Missing : m <= wanted} : reached' = reached + wanted - short
  /\ Report(reached')
  /\ UNCHANGED <<progPc, work>>

AreaRound ==
  /\ progPc = "run" /\ work.kind = "modcrypt" /\ reached < 16 * (work.size \div 16)
  /\ reached' = reached + 16
  /\ Report(reached')
  /\ UNCHANGED <<progPc, work>>

(* The position that was searched, not the one to come.                     *)
ScanRound ==
  /\ progPc = "run" /\ work.kind = "patch" /\ reached < work.size
  /\ reached' = reached + 1
  /\ Report(reached)
  /\ UNCHANGED <<progPc, work>>

Finished == IF work.kind = "modcrypt" THEN reached = 16 * (work.size \div 16) ELSE reached = work.size
ClearProgress ==
  /\ progPc = "run" /\ Finished
  /\ progPc' = "end"
  /\ barRow' = BlankRow
  /\ UNCHANGED <<work, reached, lastReportedProgress>>

ProgressNext == CreateProgress \/ TransferRound \/ AreaRound \/ ScanRound \/ ClearProgress
ProgressSpec == ProgressInit /\ [][ProgressNext]_progressVars

-----------------------------------------------------------------------------
(* ui.cpp:72-98, system_info.cpp:87-99.  Percentages run past 100: up to    *)
(* 200 for little work, to any byte when a division by zero gave them.      *)
(* Whatever is reported, the line keeps its length, its frame and its       *)
(* escapes; the bar, which are the places behind the first escape, stands   *)
(* for what is done, filled from the left; from 302 bytes on nothing is     *)
(* drawn beside it; and from 1615 bytes on it is full when the work is      *)
(* done, though no loop reports its end.                                    *)
BarIsTrue ==
  progPc = "run" =>
    LET drawn == {k \in DOMAIN barRow : barRow[k] = "#"}
        past  == IF work.kind = "patch" THEN reached - 1 ELSE reached
    IN  /\ barRow = FrameRow \/ [k \in DOMAIN barRow |-> IF k \in drawn THEN " " ELSE barRow[k]] = Template
        /\ work.size >= 100 => \A k \in 1 .. 20 : 11 + k \in drawn <=> past >= 5 * k * bytesPerPercent
        /\ work.size >= 302 => drawn \subseteq 12 .. 31
        /\ work.size >= 1615 /\ Finished => 12 .. 31 \subseteq drawn
=============================================================================
