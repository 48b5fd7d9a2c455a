------------------------------ MODULE Launcher ------------------------------
(***************************************************************************)
(* The way of main.cpp from the console's identity to writing the patched  *)
(* launcher: its checks, the search for the launcher and system_readFile   *)
(* (system_info.cpp), the decryption of the modcrypt areas, the power cord *)
(* and the code of ui.cpp.  Patching is one step here (module Patch), and  *)
(* so is writing (module NandSession).                                     *)
(*                                                                         *)
(* The unit of sizes and offsets is a block of 16 bytes.  A block of the   *)
(* image is [of, pads]: which block of the launcher it is, and the streams *)
(* it is wrapped in.  The stream of area a for its block number j is       *)
(* <<a, j>>; XOR with a stream puts it on or takes it off.                 *)
(***************************************************************************)
EXTENDS Integers, Sequences

CONSTANTS
  Consoles,  \* [valid, mounts, folders, files]: what the program may find
  READ_LEN,  \* blocks that one fread asks for (32 in the code)
  Code,      \* konamiSequence
  Frames,    \* sets of keys that may go down in one frame
  Faults,    \* "read": an fread may deliver less than was asked for; "open": fopen may fail
  MaxTyped   \* bound on the frames with keys

VARIABLES
  pc,        \* "identity", "mount", "find", "names", "read", "modcrypt", "decrypt",
             \* "patch", "cord", "code", "write", "error" or "success"
  console,
  region,    \* launcherRegion, from 1; 0 is no launcher
  app,       \* index of the launcher in the folder; 0 is none
  image,     \* the blocks in the target buffer; its length is `pos` of system_readFile
  header,    \* modcrypt areas in the header of the image: two of [start, len]
  area,      \* modcrypt area that is decrypted
  done,      \* its blocks that are done
  ctr,       \* counter of the AES context: the area it was set for and the steps since
  progress,  \* `progress` of WaitForKonami
  typed      \* history: the frames in which keys went down since the code is asked for

vars == <<pc, console, region, app, image, header, area, done, ctr, progress, typed>>
readVars  == <<region, app, image, header>>
cryptVars == <<area, done, ctr>>
codeVars  == <<progress, typed>>

File     == console.files[app]
NoArea   == [start |-> 0, len |-> 0]
KnownRegions == 1 .. 6     \* Japan, N.America, Europe, Australia, China, Korea

Init ==
  /\ pc = "identity"
  /\ console \in Consoles
  /\ region = 0 /\ app = 0
  /\ image = <<>> /\ header = <<NoArea, NoArea>>
  /\ area = 1 /\ done = 0 /\ ctr = <<0, 0>>
  /\ progress = 0 /\ typed = <<>>

(* A check of main: Log(LOGLEVEL_ERROR, ..) shows the error and never       *)
(* returns.                                                                 *)
Check(here, passed, next) ==
  /\ pc = here
  /\ pc' = IF passed THEN next ELSE "error"
  /\ UNCHANGED console

CheckConsoleID ==
  /\ Check("identity", console.valid, "mount")
  /\ UNCHANGED <<readVars, cryptVars, codeVars>>

MountNand ==
  /\ Check("mount", console.mounts, "find")
  /\ UNCHANGED <<readVars, cryptVars, codeVars>>

(* system_getLauncherPath takes the first region that has a folder; main    *)
(* refuses the codes above 3, China and Korea.                              *)
IsFirst(r, folders) == IF folders = {} THEN r = 0 ELSE r \in folders /\ \A f \in folders : r <= f
GetLauncherPath ==
  /\ \E r \in {0} \cup KnownRegions :
       /\ IsFirst(r, console.folders)
       /\ region' = r
       /\ Check("find", r # 0 /\ r - 1 <= 3, "names")
  /\ UNCHANGED <<app, image, header, cryptVars, codeVars>>

(* system_getAppFilename: of several the one that readdir delivers last.    *)
Apps         == {n \in 1 .. Len(console.files) : console.files[n].app}
IsLastApp(n) == IF Apps = {} THEN n = 0 ELSE n \in Apps /\ \A m \in Apps : m <= n
GetAppFilename ==
  /\ \E n \in 0 .. Len(console.files) :
       /\ IsLastApp(n)
       /\ app' = n
       /\ Check("names", n # 0, "read")
  /\ UNCHANGED <<region, image, header, cryptVars, codeVars>>

(* The streams that a pair of areas puts on block number b, from 1.         *)
Streams(areas, b) ==
  {<<a, b - 1 - areas[a].start>> :
     a \in {a \in 1 .. 2 : b \in (areas[a].start + 1) .. (areas[a].start + areas[a].len)}}
Delivered(file, b) ==
  [of |-> b, pads |-> IF file.modcrypt THEN Streams(file.areas, b) ELSE {}]

(* One round of the loop of system_readFile.                                *)
Wanted  == IF READ_LEN <= File.size - Len(image) THEN READ_LEN ELSE File.size - Len(image)
Got(n)  == IF "read" \in Faults THEN 0 .. n ELSE {n}
Fread ==
  /\ pc = "read"
  /\ Len(image) < File.size
  /\ \E n \in Got(Wanted) :
       image' = image \o [i \in 1 .. n |-> Delivered(File, Len(image) + i)]
  /\ UNCHANGED <<pc, console, region, app, header, cryptVars, codeVars>>

(* fopen fails: system_readFile returns 0.                                  *)
OpenFails ==
  /\ "open" \in Faults /\ image = <<>>
  /\ Check("read", FALSE, "modcrypt")
  /\ UNCHANGED <<readVars, cryptVars, codeVars>>

(* A mistake that LoadableImage would show: one piece is enough; and one    *)
(* that PreparationEnds would show: the loop goes on at the end.            *)
ReadOnce == image # <<>> \/ File.size = 0
ReadOn   == Len(image) > File.size
ReadAll  == Len(image) = File.size
ReadDone ==
  /\ pc = "read" /\ ReadAll
  /\ Check("read", image # <<>>, IF File.modcrypt THEN "modcrypt" ELSE "patch")
  /\ header' = File.areas
  /\ UNCHANGED <<region, app, image, cryptVars, codeVars>>

-----------------------------------------------------------------------------
(* decrypt_modcrypt_area *)

(* A mistake that LoadableImage would show: the counter is not set again    *)
(* for the second area.                                                     *)
SetCtrOnce(a) == IF a = 1 THEN <<1, 0>> ELSE ctr
SetCtr(a)     == <<a, 0>>

BeginArea ==
  /\ pc = "modcrypt"
  /\ area <= 2
  /\ ctr' = SetCtr(area)
  /\ done' = 0
  /\ pc' = "decrypt"
  /\ UNCHANGED <<console, readVars, area, codeVars>>

Toggle(S, e) == IF e \in S THEN S \ {e} ELSE S \cup {e}

DecryptBlock ==
  /\ pc = "decrypt"
  /\ done < header[area].len
  /\ image' = [image EXCEPT ![header[area].start + done + 1].pads = Toggle(@, ctr)]
  /\ ctr' = <<ctr[1], ctr[2] + 1>>      \* dsi_add_ctr
  /\ done' = done + 1
  /\ UNCHANGED <<pc, console, region, app, header, area, codeVars>>

AreaDone ==
  /\ pc = "decrypt"
  /\ done = header[area].len
  /\ area' = area + 1
  /\ pc' = "modcrypt"
  /\ UNCHANGED <<console, readVars, done, ctr, codeVars>>

(* main.cpp:270-273: the header must not announce areas any more.           *)
ClearHeader ==
  /\ pc = "modcrypt"
  /\ area > 2
  /\ header' = <<NoArea, NoArea>>
  /\ pc' = "patch"
  /\ UNCHANGED <<console, region, app, image, cryptVars, codeVars>>

-----------------------------------------------------------------------------
(* Patching finds every pattern once, or an error is shown.                 *)
PatchImage ==
  /\ \E matched \in BOOLEAN : Check("patch", matched, "cord")
  /\ UNCHANGED <<readVars, cryptVars, codeVars>>

(* One frame of WaitForPowercord.                                           *)
WaitForPowercord ==
  /\ pc = "cord"
  /\ pc' \in {"cord", "code"}
  /\ progress' = 0
  /\ typed' = <<>>
  /\ UNCHANGED <<console, readVars, cryptVars>>

(* One frame of WaitForKonami.  CodeCompleteOff and ProgressKept are         *)
(* mistakes that TypeOK and WritesWithConsent would show.                   *)
Expected(keys)     == keys = {Code[progress + 1]}
CodeCompleteOff(p) == p > Len(Code)
CodeComplete(p)    == p >= Len(Code)
ProgressKept(keys) == IF Expected(keys) THEN progress + 1 ELSE progress
Progress(keys)     == IF Expected(keys) THEN progress + 1
                      ELSE IF keys # {} THEN 0 ELSE progress

WaitForKonami ==
  /\ pc = "code"
  /\ \E keys \in Frames :
       /\ keys # {} => Len(typed) < MaxTyped
       /\ typed' = IF keys = {} THEN typed ELSE Append(typed, keys)
       /\ progress' = Progress(keys)
  /\ pc' = IF CodeComplete(progress') THEN "write" ELSE "code"
  /\ UNCHANGED <<console, readVars, cryptVars>>

(* system_writeFile, fatUnmount and nandio_shutdown.                        *)
WriteLauncher ==
  /\ \E written \in BOOLEAN : Check("write", written, "success")
  /\ UNCHANGED <<readVars, cryptVars, codeVars>>

Next == \/ CheckConsoleID \/ MountNand \/ GetLauncherPath \/ GetAppFilename
        \/ OpenFails \/ Fread \/ ReadDone
        \/ BeginArea \/ DecryptBlock \/ AreaDone \/ ClearHeader
        \/ PatchImage \/ WaitForPowercord \/ WaitForKonami \/ WriteLauncher

Spec == Init /\ [][Next]_vars

(* The program goes on by itself until it waits for the user.  A round of   *)
(* fread that delivers nothing is a step that changes nothing: fairness     *)
(* means that the card does not answer so for ever.                         *)
Preparing == \/ CheckConsoleID \/ MountNand \/ GetLauncherPath \/ GetAppFilename
             \/ OpenFails \/ Fread \/ ReadDone
             \/ BeginArea \/ DecryptBlock \/ AreaDone \/ ClearHeader \/ PatchImage
FairSpec  == Spec /\ WF_vars(Preparing)

-----------------------------------------------------------------------------
(* The code is not empty; the areas that a launcher announces lie in it and *)
(* do not run over the header, which is its first block here.               *)
ASSUME CodeAssumption == /\ Code \in Seq(UNION Frames) /\ Len(Code) > 0
                         /\ MaxTyped \in Nat /\ READ_LEN \in Nat \ {0}
Areas   == [start : Nat, len : Nat]
Files   == [app : BOOLEAN, modcrypt : BOOLEAN, size : Nat, areas : Areas \X Areas]
Fits(f) == \A a \in 1 .. 2 : /\ f.areas[a].len = 0 \/ f.areas[a].start > 0
                            /\ f.areas[a].start + f.areas[a].len <= f.size
ASSUME ConsoleAssumption ==
  /\ Consoles \subseteq [valid : BOOLEAN, mounts : BOOLEAN,
                         folders : SUBSET KnownRegions, files : Seq(Files)]
  /\ \A c \in Consoles : \A n \in 1 .. Len(c.files) : Fits(c.files[n])

-----------------------------------------------------------------------------
(* Properties *)

(* Types; and while the code is asked for, `progress` is a valid index into *)
(* it.                                                                      *)
Blocks == [of : Nat, pads : SUBSET ((1 .. 2) \X Nat)]
TypeOK ==
  /\ pc \in {"identity", "mount", "find", "names", "read", "modcrypt", "decrypt",
             "patch", "cord", "code", "write", "error", "success"}
  /\ console \in Consoles
  /\ region \in {0} \cup KnownRegions
  /\ app \in 0 .. Len(console.files)
  /\ image \in Seq(Blocks) /\ header \in Areas \X Areas
  /\ area \in 1 .. 3 /\ done \in Nat /\ ctr \in (0 .. 2) \X Nat
  /\ pc = "decrypt" => area # 3 /\ done <= header[area].len
  /\ progress \in 0 .. Len(Code) /\ (pc = "code" => progress < Len(Code))
  /\ typed \in Seq(Frames)

(* main.cpp:206-276.  The image that is patched and written is the whole    *)
(* launcher in its order, and wrapped in exactly the streams that its own   *)
(* header announces to the console: each block of each area was decrypted   *)
(* with its own counter, once, and is not decrypted again when it runs.     *)
Prepared == pc \in {"patch", "cord", "code", "write", "success"}
LoadableImage ==
  Prepared =>
    /\ Len(image) = File.size
    /\ \A b \in 1 .. Len(image) :
         image[b] = [of |-> b, pads |-> IF File.modcrypt THEN Streams(header, b) ELSE {}]

(* ui.cpp:139-196, main.cpp:139-324.  Nothing is written before the frames  *)
(* with keys end with the keys of the code, each alone in its frame and     *)
(* with no other key between them; and never on a console that main         *)
(* refuses.                                                                 *)
WritesWithConsent ==
  pc \in {"write", "success"} =>
    /\ Len(typed) >= Len(Code)
    /\ \A n \in 1 .. Len(Code) : typed[Len(typed) - Len(Code) + n] = {Code[n]}
    /\ console.valid /\ console.mounts /\ region \in 1 .. 4 /\ app # 0 /\ File.app

(* main.cpp:139-318, system_info.cpp:89-102.  However small the pieces that *)
(* fread delivers and however the areas lie, the program reaches the power  *)
(* cord or an error; no loop on the way is left without its end.            *)
PreparationEnds == <>(pc \in {"cord", "error"})
=============================================================================
