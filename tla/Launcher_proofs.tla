--------------------------- MODULE Launcher_proofs ---------------------------
(***************************************************************************)
(* Theorems about module Launcher, for every set of consoles, every code,  *)
(* every length of a piece and every way in which reading may fail.        *)
(*                                                                         *)
(* What is written depends on steps long past, so the invariant Inv says   *)
(* for every place of the program what has been established so far: the    *)
(* checks passed (Checked), the part of the launcher read (Loading), the   *)
(* blocks still encrypted (Decrypting) and the keys entered (Entered).     *)
(*                                                                         *)
(* The second part is about module Progress, for every size of work.       *)
(***************************************************************************)
EXTENDS Launcher, Progress, SequenceTheorems, TLAPS

Started  == {"identity", "error"}
Mounting == Started \cup {"mount"}
Finding  == Mounting \cup {"find"}
Naming   == Finding \cup {"names"}

Checked ==
  /\ pc \notin Started  => console.valid
  /\ pc \notin Mounting => console.mounts
  /\ pc \notin Finding  => region \in 1 .. 4
  /\ pc \notin Naming   => app # 0 /\ File.app

Loading ==
  /\ pc \in {"identity", "mount", "find", "names"} => image = <<>>
  /\ pc \in {"identity", "mount", "find", "names", "read"} => area = 1
  /\ pc = "read" => /\ Len(image) <= File.size
                    /\ \A b \in 1 .. Len(image) : image[b] = Delivered(File, b)

(* The streams of block b that are not taken off yet.                       *)
Left(b) == {s \in Streams(header, b) :
              s[1] > area \/ (s[1] = area /\ (pc = "decrypt" => s[2] >= done))}
Decrypting ==
  /\ pc \in {"modcrypt", "decrypt"} =>
       /\ File.modcrypt /\ header = File.areas /\ Len(image) = File.size
       /\ \A b \in 1 .. Len(image) : image[b] = [of |-> b, pads |-> Left(b)]
  /\ pc = "decrypt" => ctr = <<area, done>>

Entered ==
  /\ pc \in {"code", "write", "success"} =>
       /\ progress <= Len(typed)
       /\ \A n \in 1 .. progress : typed[Len(typed) - progress + n] = {Code[n]}
  /\ pc \in {"write", "success"} => progress = Len(Code)

Inv == TypeOK /\ Checked /\ Loading /\ Decrypting /\ LoadableImage /\ Entered

-----------------------------------------------------------------------------
LEMMA Consts ==
  /\ Code \in Seq(UNION Frames) /\ Len(Code) \in Nat \ {0}
  /\ MaxTyped \in Nat /\ READ_LEN \in Nat \ {0}
  BY CodeAssumption

LEMMA FileFacts ==
  ASSUME TypeOK, app # 0
  PROVE  /\ File \in Files
         /\ \A a \in 1 .. 2 : /\ File.areas[a] \in Areas
                              /\ File.areas[a].start + File.areas[a].len <= File.size
<1>1. console \in Consoles /\ app \in 1 .. Len(console.files) /\ console.files \in Seq(Files)
  BY ConsoleAssumption DEF TypeOK
<1>2. File \in Files
  BY <1>1 DEF File
<1>3. Fits(File)
  BY <1>1, ConsoleAssumption DEF File
<1> QED BY <1>2, <1>3 DEF Fits, Files

LEMMA StreamType ==
  ASSUME NEW areas \in Areas \X Areas, NEW b \in Nat \ {0}
  PROVE  Streams(areas, b) \in SUBSET ((1 .. 2) \X Nat)
<1>1. areas[1] \in Areas /\ areas[2] \in Areas
  OBVIOUS
<1>2. ASSUME NEW a \in 1 .. 2, b \in (areas[a].start + 1) .. (areas[a].start + areas[a].len)
      PROVE  b - 1 - areas[a].start \in Nat
  <2>1. areas[a].start \in Nat /\ areas[a].len \in Nat
    BY <1>1 DEF Areas
  <2> QED BY <2>1, <1>2
<1> QED BY <1>2 DEF Streams

LEMMA DeliveredType ==
  ASSUME NEW f \in Files, NEW b \in Nat \ {0}
  PROVE  Delivered(f, b) \in Blocks
<1>1. f.areas \in Areas \X Areas
  BY DEF Files
<1> QED BY <1>1, StreamType DEF Delivered, Blocks

(* What one fread appends.                                                  *)
LEMMA Appended ==
  ASSUME TypeOK, app # 0, NEW n \in Nat,
         image' = image \o [i \in 1 .. n |-> Delivered(File, Len(image) + i)]
  PROVE  /\ image' \in Seq(Blocks)
         /\ Len(image') = Len(image) + n
         /\ \A b \in 1 .. Len(image) : image'[b] = image[b]
         /\ \A b \in (Len(image) + 1) .. Len(image') : image'[b] = Delivered(File, b)
<1> DEFINE piece == [i \in 1 .. n |-> Delivered(File, Len(image) + i)]
<1>1. image \in Seq(Blocks) /\ Len(image) \in Nat
  BY DEF TypeOK
<1>2. File \in Files
  BY FileFacts
<1>3. \A i \in 1 .. n : Delivered(File, Len(image) + i) \in Blocks
  BY <1>1, <1>2, DeliveredType
<1>4. piece \in Seq(Blocks) /\ Len(piece) = n
  BY <1>3
<1>5. \A i \in 1 .. n : piece[i] = Delivered(File, Len(image) + i)
  OBVIOUS
<1> HIDE DEF piece
<1>6. image' = image \o piece
  BY DEF piece
<1>7. image' \in Seq(Blocks) /\ Len(image') = Len(image) + n
  BY <1>1, <1>4, <1>6, ConcatProperties
<1>8. \A b \in 1 .. Len(image) : image'[b] = image[b]
  BY <1>1, <1>4, <1>6
<1>9. ASSUME NEW b \in (Len(image) + 1) .. Len(image')
      PROVE  image'[b] = Delivered(File, b)
  <2>1. b - Len(image) \in 1 .. n /\ Len(image) + (b - Len(image)) = b
    BY <1>1, <1>7, <1>9
  <2>2. image'[b] = piece[b - Len(image)]
    BY <1>1, <1>4, <1>6, <2>1
  <2> QED BY <1>5, <2>1, <2>2
<1> QED BY <1>7, <1>8, <1>9

(* What one round of the decryption does to the image.                      *)
LEMMA Decrypted ==
  ASSUME TypeOK, NEW k \in 1 .. Len(image), ctr[1] # 0,
         image' = [image EXCEPT ![k].pads = Toggle(@, ctr)]
  PROVE  /\ image' \in Seq(Blocks) /\ Len(image') = Len(image)
         /\ \A b \in 1 .. Len(image) :
              image'[b] = IF b = k THEN [of |-> image[k].of, pads |-> Toggle(image[k].pads, ctr)]
                          ELSE image[b]
<1>1. image \in Seq(Blocks) /\ Len(image) \in Nat /\ image[k] \in Blocks
  BY DEF TypeOK
<1>2. ctr \in (1 .. 2) \X Nat
  BY DEF TypeOK
<1>3. Toggle(image[k].pads, ctr) \in SUBSET ((1 .. 2) \X Nat)
  BY <1>1, <1>2 DEF Blocks, Toggle
<1>4. [image[k] EXCEPT !.pads = Toggle(@, ctr)]
        = [of |-> image[k].of, pads |-> Toggle(image[k].pads, ctr)]
  BY <1>1 DEF Blocks
<1>5. [of |-> image[k].of, pads |-> Toggle(image[k].pads, ctr)] \in Blocks
  BY <1>1, <1>3 DEF Blocks
<1>6. image' = [image EXCEPT ![k] = [of |-> image[k].of, pads |-> Toggle(image[k].pads, ctr)]]
  BY <1>1, <1>4
<1> QED BY <1>1, <1>5, <1>6

-----------------------------------------------------------------------------
LEMMA InvInit == Init => Inv
<1> SUFFICES ASSUME Init PROVE Inv
  OBVIOUS
<1>1. TypeOK
  BY Consts DEF Init, TypeOK, Areas, NoArea, Blocks
<1>2. Checked /\ Loading /\ Decrypting /\ LoadableImage /\ Entered
  BY DEF Init, Checked, Loading, Decrypting, LoadableImage, Entered,
         Prepared, Started, Mounting, Finding, Naming
<1> QED BY <1>1, <1>2 DEF Inv

(* The steps before the launcher is read.                                   *)
LEMMA InvSearch ==
  ASSUME Inv, CheckConsoleID \/ MountNand \/ GetLauncherPath \/ GetAppFilename
  PROVE  Inv'
<1> USE DEF Inv
<1>1. CASE CheckConsoleID
  <2>1. TypeOK'
    BY <1>1, Consts DEF CheckConsoleID, Check, readVars, cryptVars, codeVars, TypeOK
  <2>2. Checked'
    BY <1>1 DEF CheckConsoleID, Check, readVars, cryptVars, codeVars, TypeOK,
        Checked, Started, Mounting, Finding, Naming, KnownRegions, File
  <2>3. Loading'
    BY <1>1 DEF CheckConsoleID, Check, readVars, cryptVars, codeVars, TypeOK,
        Loading, Delivered, File
  <2>4. Decrypting' /\ LoadableImage' /\ Entered'
    BY <1>1 DEF CheckConsoleID, Check, readVars, cryptVars, codeVars, Decrypting,
        LoadableImage, Entered, Prepared
  <2> QED BY <2>1, <2>2, <2>3, <2>4
<1>2. CASE MountNand
  <2>1. TypeOK'
    BY <1>2, Consts DEF MountNand, Check, readVars, cryptVars, codeVars, TypeOK
  <2>2. Checked'
    BY <1>2 DEF MountNand, Check, readVars, cryptVars, codeVars, TypeOK, Checked,
        Started, Mounting, Finding, Naming, KnownRegions, File
  <2>3. Loading'
    BY <1>2 DEF MountNand, Check, readVars, cryptVars, codeVars, TypeOK, Loading,
        Delivered, File
  <2>4. Decrypting' /\ LoadableImage' /\ Entered'
    BY <1>2 DEF MountNand, Check, readVars, cryptVars, codeVars, Decrypting,
        LoadableImage, Entered, Prepared
  <2> QED BY <2>1, <2>2, <2>3, <2>4
<1>3. CASE GetLauncherPath
  <2>1. TypeOK'
    BY <1>3, Consts DEF GetLauncherPath, Check, readVars, cryptVars, codeVars,
        TypeOK, KnownRegions
  <2>2. Checked'
    BY <1>3 DEF GetLauncherPath, Check, readVars, cryptVars, codeVars, TypeOK,
        Checked, Started, Mounting, Finding, Naming, KnownRegions, File
  <2>3. Loading'
    BY <1>3 DEF GetLauncherPath, Check, readVars, cryptVars, codeVars, TypeOK,
        Loading, Delivered, File, KnownRegions
  <2>4. Decrypting' /\ LoadableImage' /\ Entered'
    BY <1>3 DEF GetLauncherPath, Check, readVars, cryptVars, codeVars, Decrypting,
        LoadableImage, Entered, Prepared, KnownRegions
  <2> QED BY <2>1, <2>2, <2>3, <2>4
<1>4. CASE GetAppFilename
  <2>1. TypeOK'
    BY <1>4, Consts DEF GetAppFilename, Check, readVars, cryptVars, codeVars, TypeOK,
        IsLastApp, Apps
  <2>2. Checked'
    BY <1>4 DEF GetAppFilename, Check, readVars, cryptVars, codeVars, TypeOK,
        Checked, Started, Mounting, Finding, Naming, KnownRegions, File, IsLastApp, Apps
  <2>3. Loading'
    <3>1. ASSUME pc' = "read"
          PROVE  Len(image') <= File'.size /\ Len(image') = 0
      <4>1. app' # 0 /\ console' = console /\ image' = image /\ image = <<>>
        BY <1>4, <3>1 DEF GetAppFilename, Check, readVars, Loading
      <4>2. File' \in Files
        BY <2>1, <4>1, ConsoleAssumption DEF TypeOK, File
      <4> QED BY <4>1, <4>2 DEF Files
    <3>2. image' = image /\ area' = area /\ pc = "names"
      BY <1>4 DEF GetAppFilename, Check, readVars, cryptVars
    <3>3. \A b \in 1 .. 0 : FALSE
      OBVIOUS
    <3> QED BY <3>1, <3>2, <3>3 DEF Loading
  <2>4. Decrypting' /\ LoadableImage' /\ Entered'
    BY <1>4 DEF GetAppFilename, Check, readVars, cryptVars, codeVars, Decrypting,
        LoadableImage, Entered, Prepared, IsLastApp, Apps
  <2> QED BY <2>1, <2>2, <2>3, <2>4
<1> QED BY <1>1, <1>2, <1>3, <1>4

LEMMA InvRead ==
  ASSUME Inv, OpenFails \/ Fread \/ ReadDone
  PROVE  Inv'
<1> USE DEF Inv
<1>1. CASE OpenFails
  BY <1>1 DEF OpenFails, Check, readVars, cryptVars, codeVars, TypeOK, Checked, Loading,
              Decrypting, LoadableImage, Entered, Prepared, Started, Mounting, Finding, Naming
<1>2. CASE Fread
  <2>1. pc = "read" /\ pc' = pc /\ console' = console /\ region' = region /\ app' = app
        /\ header' = header /\ UNCHANGED <<cryptVars, codeVars>>
    BY <1>2 DEF Fread
  <2>2. app # 0 /\ File \in Files /\ Len(image) \in Nat /\ File.size \in Nat
    BY <2>1, FileFacts DEF Checked, TypeOK, Started, Mounting, Finding, Naming, Files
  <2>3. PICK n \in Got(Wanted) :
          image' = image \o [i \in 1 .. n |-> Delivered(File, Len(image) + i)]
    BY <1>2 DEF Fread
  <2>4. n \in Nat /\ Len(image) + n <= File.size
    <3>1. Wanted \in Nat /\ Len(image) + Wanted <= File.size
      BY <2>1, <2>2, Consts DEF Wanted, Loading
    <3>2. n \in 0 .. Wanted
      BY <2>3, <3>1 DEF Got
    <3> QED BY <2>2, <3>1, <3>2
  <2>5. /\ image' \in Seq(Blocks) /\ Len(image') = Len(image) + n
        /\ \A b \in 1 .. Len(image) : image'[b] = image[b]
        /\ \A b \in (Len(image) + 1) .. Len(image') : image'[b] = Delivered(File, b)
    BY <2>2, <2>3, <2>4, Appended
  <2>6. TypeOK'
    BY <2>1, <2>5 DEF TypeOK, cryptVars, codeVars
  <2>7. Checked'
    BY <2>1 DEF Checked, File
  <2>8. Loading'
    <3>1. \A b \in 1 .. Len(image') : image'[b] = Delivered(File, b)
      BY <2>1, <2>2, <2>4, <2>5 DEF Loading
    <3>2. File' = File
      BY <2>1 DEF File
    <3> QED BY <2>1, <2>2, <2>4, <2>5, <3>1, <3>2 DEF Loading, cryptVars, Delivered
  <2>9. Decrypting' /\ LoadableImage' /\ Entered'
    BY <2>1 DEF Decrypting, LoadableImage, Entered, Prepared
  <2> QED BY <2>6, <2>7, <2>8, <2>9
<1>3. CASE ReadDone
  <2>1. /\ pc = "read" /\ Len(image) = File.size
        /\ pc' = IF image # <<>> THEN IF File.modcrypt THEN "modcrypt" ELSE "patch" ELSE "error"
        /\ header' = File.areas
        /\ UNCHANGED <<console, region, app, image, cryptVars, codeVars>>
    BY <1>3 DEF ReadDone, ReadAll, Check
  <2>2. app # 0 /\ File \in Files /\ File' = File
    BY <2>1, FileFacts DEF Checked, Started, Mounting, Finding, Naming, File
  <2>3. File.areas \in Areas \X Areas /\ File.modcrypt \in BOOLEAN /\ area = 1
        /\ \A b \in 1 .. Len(image) : image[b] = Delivered(File, b)
    BY <2>1, <2>2 DEF Files, Loading
  <2>4. TypeOK'
    BY <2>1, <2>3 DEF TypeOK, cryptVars, codeVars
  <2>5. Checked'
    BY <2>1, <2>2, <2>3 DEF Checked, Started, Mounting, Finding, Naming
  <2>6. Loading'
    BY <2>1, <2>3 DEF Loading, cryptVars
  <2>7. Decrypting'
    <3>1. SUFFICES ASSUME pc' = "modcrypt"
                   PROVE  /\ File'.modcrypt /\ header' = File'.areas /\ Len(image') = File'.size
                          /\ \A b \in 1 .. Len(image') : image'[b] = [of |-> b, pads |-> Left(b)']
      BY <2>1, <2>3 DEF Decrypting
    <3>2. File.modcrypt
      BY <2>1, <3>1
    <3>3. ASSUME NEW b \in 1 .. Len(image)  PROVE Left(b)' = Streams(File.areas, b)
      <4>1. b \in Nat \ {0}
        BY <3>3 DEF TypeOK
      <4>2. Streams(File.areas, b) \in SUBSET ((1 .. 2) \X Nat)
        BY <2>3, <4>1, StreamType
      <4>3. Streams(header, b)' = Streams(File.areas, b)
        BY <2>1 DEF Streams
      <4>4. \A x \in (1 .. 2) \X Nat : x[1] > 1 \/ x[1] = 1
        OBVIOUS
      <4> QED BY <2>1, <2>3, <3>1, <4>2, <4>3, <4>4 DEF Left, cryptVars
    <3> QED BY <2>1, <2>2, <2>3, <3>2, <3>3 DEF Delivered
  <2>8. LoadableImage'
    BY <2>1, <2>2, <2>3 DEF LoadableImage, Prepared, Delivered
  <2>9. Entered'
    BY <2>1 DEF Entered
  <2> QED BY <2>4, <2>5, <2>6, <2>7, <2>8, <2>9
<1> QED BY <1>1, <1>2, <1>3

(* What decryption works on.                                                *)
LEMMA AreaFacts ==
  ASSUME Inv, pc \in {"modcrypt", "decrypt"}
  PROVE  /\ app # 0 /\ File \in Files /\ File.modcrypt /\ header = File.areas
         /\ header \in Areas \X Areas
         /\ image \in Seq(Blocks) /\ Len(image) = File.size /\ Len(image) \in Nat
         /\ \A a \in 1 .. 2 : /\ header[a] \in Areas
                              /\ header[a].start + header[a].len <= Len(image)
<1>1. app # 0
  BY DEF Inv, Checked, Started, Mounting, Finding, Naming
<1> QED BY <1>1, FileFacts DEF Inv, TypeOK, Decrypting

LEMMA InvDecrypt ==
  ASSUME Inv, BeginArea \/ DecryptBlock \/ AreaDone \/ ClearHeader
  PROVE  Inv'
<1> USE DEF Inv
<1>1. CASE BeginArea
  <2>1. /\ pc = "modcrypt" /\ pc' = "decrypt" /\ area \in 1 .. 2 /\ area' = area
        /\ ctr' = <<area, 0>> /\ done' = 0 /\ UNCHANGED <<console, readVars, codeVars>>
    BY <1>1 DEF BeginArea, SetCtr, TypeOK
  <2>2. TypeOK'
    <3>1. header[area].len \in Nat
      BY <2>1, AreaFacts DEF Areas
    <3> QED BY <2>1, <3>1 DEF TypeOK, readVars, codeVars
  <2>3. Checked'
    BY <2>1 DEF Checked, Started, Mounting, Finding, Naming, readVars, File
  <2>4. Loading' /\ LoadableImage' /\ Entered'
    BY <2>1 DEF Loading, LoadableImage, Prepared, Entered
  <2>5. Decrypting'
    <3>1. ASSUME NEW b \in 1 .. Len(image)  PROVE Left(b)' = Left(b)
      <4>1. b \in Nat \ {0}
        BY <3>1, AreaFacts, <2>1
      <4>2. Streams(header, b) \in SUBSET ((1 .. 2) \X Nat)
        BY <2>1, <4>1, AreaFacts, StreamType
      <4>3. Streams(header, b)' = Streams(header, b)
        BY <2>1 DEF Streams, readVars
      <4> QED BY <2>1, <4>2, <4>3 DEF Left
    <3> QED BY <2>1, <3>1 DEF Decrypting, readVars, File
  <2> QED BY <2>2, <2>3, <2>4, <2>5
<1>2. CASE DecryptBlock
  <2> DEFINE k == header[area].start + done + 1
  <2>1. /\ pc = "decrypt" /\ pc' = pc /\ area \in 1 .. 2 /\ area' = area
        /\ done \in Nat /\ done < header[area].len /\ done' = done + 1
        /\ ctr = <<area, done>> /\ ctr' = <<area, done + 1>>
        /\ image' = [image EXCEPT ![k].pads = Toggle(@, ctr)]
        /\ header' = header /\ UNCHANGED <<console, region, app, codeVars>>
    BY <1>2 DEF DecryptBlock, Decrypting, TypeOK
  <2>2. header[area].start \in Nat /\ header[area].len \in Nat /\ k \in 1 .. Len(image)
    BY <2>1, AreaFacts, SMTT(60) DEF Areas
  <2> HIDE DEF k
  <2>3. /\ image' \in Seq(Blocks) /\ Len(image') = Len(image)
        /\ \A b \in 1 .. Len(image) :
             image'[b] = IF b = k THEN [of |-> image[k].of, pads |-> Toggle(image[k].pads, ctr)]
                         ELSE image[b]
    <3>1. ctr[1] # 0 /\ TypeOK
      BY <2>1
    <3> QED BY <2>1, <2>2, <3>1, Decrypted
  <2>4. TypeOK'
    BY <2>1, <2>2, <2>3 DEF TypeOK, codeVars
  <2>5. Checked'
    BY <2>1 DEF Checked, Started, Mounting, Finding, Naming, File
  <2>6. Loading' /\ LoadableImage' /\ Entered'
    BY <2>1 DEF Loading, LoadableImage, Prepared, Entered
  <2>7. ASSUME NEW b \in 1 .. Len(image)
        PROVE  image'[b] = [of |-> b, pads |-> Left(b)']
    <3>1. b \in Nat \ {0}
      BY <2>7, AreaFacts, <2>1
    <3>2. /\ Streams(header, b) \in SUBSET ((1 .. 2) \X Nat)
          /\ Streams(header, b)' = Streams(header, b)
      BY <2>1, <3>1, AreaFacts, StreamType DEF Streams
    <3>3. image[b] = [of |-> b, pads |-> Left(b)]
      BY <2>1 DEF Decrypting
    <3>4. Left(b)' = Left(b) \ {ctr}
      BY <2>1, <3>2 DEF Left
    <3>5. ctr \in Streams(header, b) <=> b = k
      <4>1. ctr = <<area, k - 1 - header[area].start>>
        BY <2>1, <2>2, SMTT(60) DEF k
      <4>2. k \in (header[area].start + 1) .. (header[area].start + header[area].len)
        BY <2>1, <2>2, SMTT(60) DEF k
      <4>3. <<area, k - 1 - header[area].start>> \in Streams(header, k)
        BY <2>1, <4>2 DEF Streams
      <4>4. ASSUME ctr \in Streams(header, b)  PROVE b = k
        <5>1. PICK a \in 1 .. 2 : <<area, done>> = <<a, b - 1 - header[a].start>>
          BY <2>1, <4>4 DEF Streams
        <5>2. done = b - 1 - header[area].start
          BY <5>1
        <5> QED BY <2>1, <2>2, <3>1, <5>2 DEF k
      <4> QED BY <4>1, <4>3, <4>4
    <3>6. CASE b = k
      <4>1. ctr \in Left(b)
        BY <2>1, <3>5, <3>6 DEF Left
      <4>2. image[k].of = b /\ image[k].pads = Left(b)
        BY <3>3, <3>6
      <4>3. Toggle(image[k].pads, ctr) = Left(b) \ {ctr}
        BY <4>1, <4>2 DEF Toggle
      <4>4. image'[b] = [of |-> image[k].of, pads |-> Toggle(image[k].pads, ctr)]
        BY <2>3, <3>6
      <4> QED BY <3>4, <4>2, <4>3, <4>4
    <3>7. CASE b # k
      BY <2>3, <3>3, <3>4, <3>5, <3>7 DEF Left
    <3> QED BY <3>6, <3>7
  <2>8. Decrypting'
    BY <2>1, <2>3, <2>7 DEF Decrypting, File
  <2> QED BY <2>4, <2>5, <2>6, <2>8
<1>3. CASE AreaDone
  <2>1. /\ pc = "decrypt" /\ pc' = "modcrypt" /\ area \in 1 .. 2 /\ area' = area + 1
        /\ done = header[area].len /\ UNCHANGED <<console, readVars, done, ctr, codeVars>>
    BY <1>3 DEF AreaDone, TypeOK
  <2>2. TypeOK'
    BY <2>1 DEF TypeOK, readVars, codeVars
  <2>3. Checked'
    BY <2>1 DEF Checked, Started, Mounting, Finding, Naming, readVars, File
  <2>4. Loading' /\ LoadableImage' /\ Entered'
    BY <2>1 DEF Loading, LoadableImage, Prepared, Entered
  <2>5. Decrypting'
    <3>1. ASSUME NEW b \in 1 .. Len(image)  PROVE Left(b)' = Left(b)
      <4>1. b \in Nat \ {0}
        BY <3>1, AreaFacts, <2>1
      <4>2. Streams(header, b) \in SUBSET ((1 .. 2) \X Nat)
        BY <2>1, <4>1, AreaFacts, StreamType
      <4>3. Streams(header, b)' = Streams(header, b)
        BY <2>1 DEF Streams, readVars
      <4>4. \A x \in Streams(header, b) : x[1] = area => x[2] < done
        BY <2>1, <4>1, AreaFacts DEF Streams, Areas
      <4> QED BY <2>1, <4>2, <4>3, <4>4, SMTT(60) DEF Left, TypeOK
    <3> QED BY <2>1, <3>1 DEF Decrypting, readVars, File
  <2> QED BY <2>2, <2>3, <2>4, <2>5
<1>4. CASE ClearHeader
  <2>1. /\ pc = "modcrypt" /\ pc' = "patch" /\ area = 3
        /\ header' = <<NoArea, NoArea>>
        /\ UNCHANGED <<console, region, app, image, cryptVars, codeVars>>
    BY <1>4 DEF ClearHeader, TypeOK
  <2>2. TypeOK'
    BY <2>1 DEF TypeOK, cryptVars, codeVars, NoArea, Areas
  <2>3. Checked'
    BY <2>1 DEF Checked, Started, Mounting, Finding, Naming, File
  <2>4. Loading' /\ Decrypting' /\ Entered'
    BY <2>1 DEF Loading, Decrypting, Entered
  <2>5. LoadableImage'
    <3>1. ASSUME NEW b \in 1 .. Len(image)  PROVE Left(b) = {} /\ Streams(header', b) = {}
      <4>1. b \in Nat \ {0}
        BY <3>1, AreaFacts, <2>1
      <4>2. Streams(header, b) \in SUBSET ((1 .. 2) \X Nat)
        BY <2>1, <4>1, AreaFacts, StreamType
      <4>3. Left(b) = {}
        BY <2>1, <4>2 DEF Left
      <4>4. Streams(header', b) = {}
        BY <2>1, <4>1 DEF Streams, NoArea
      <4> QED BY <4>3, <4>4
    <3> QED BY <2>1, <3>1, AreaFacts, ZenonT(60) DEF LoadableImage, Decrypting, File
  <2> QED BY <2>2, <2>3, <2>4, <2>5
<1> QED BY <1>1, <1>2, <1>3, <1>4

(* The steps after the image is ready.                                      *)
LEMMA InvConsent ==
  ASSUME Inv, PatchImage \/ WaitForPowercord \/ WaitForKonami \/ WriteLauncher
  PROVE  Inv'
<1> USE DEF Inv
<1>1. UNCHANGED <<console, readVars, cryptVars>> /\ pc' # "read" /\ pc' # "decrypt"
      /\ pc' \notin Naming \ {"error"} /\ pc' # "modcrypt"
      /\ pc \in {"patch", "cord", "code", "write"}
  BY DEF PatchImage, WaitForPowercord, WaitForKonami, WriteLauncher, Check, readVars,
         Started, Mounting, Finding, Naming
<1>2. Checked'
  BY <1>1 DEF Checked, Started, Mounting, Finding, Naming, readVars, File
<1>3. Loading' /\ Decrypting'
  BY <1>1 DEF Loading, Decrypting, Naming, Finding, Mounting, Started
<1>4. LoadableImage'
  BY <1>1 DEF LoadableImage, Prepared, readVars, File, Streams
<1>5. CASE PatchImage \/ WriteLauncher
  <2>1. TypeOK'
    BY <1>1, <1>5 DEF PatchImage, WriteLauncher, Check, TypeOK, readVars, cryptVars, codeVars
  <2>2. Entered'
    BY <1>5 DEF PatchImage, WriteLauncher, Check, Entered, codeVars
  <2> QED BY <1>2, <1>3, <1>4, <2>1, <2>2
<1>6. CASE WaitForPowercord
  <2>1. TypeOK'
    BY <1>1, <1>6, Consts DEF WaitForPowercord, TypeOK, readVars, cryptVars
  <2>2. Entered'
    BY <1>6, Consts DEF WaitForPowercord, Entered
  <2> QED BY <1>2, <1>3, <1>4, <2>1, <2>2
<1>7. CASE WaitForKonami
  <2>1. PICK keys \in Frames :
          /\ typed' = IF keys = {} THEN typed ELSE Append(typed, keys)
          /\ progress' = Progress(keys)
    BY <1>7 DEF WaitForKonami
  <2>2. /\ pc = "code" /\ pc' = IF progress' >= Len(Code) THEN "write" ELSE "code"
        /\ progress \in Nat /\ progress < Len(Code)
        /\ typed \in Seq(Frames) /\ Len(typed) \in Nat /\ progress <= Len(typed)
    BY <1>7, Consts DEF WaitForKonami, CodeComplete, TypeOK, Entered
  <2>3. progress' \in Nat /\ progress' <= Len(Code)
    BY <2>1, <2>2, Consts DEF Progress
  <2>4. typed' \in Seq(Frames)
    BY <2>1, <2>2
  <2>5. TypeOK'
    BY <1>1, <2>2, <2>3, <2>4, Consts DEF TypeOK, readVars, cryptVars
  <2>6. /\ progress' <= Len(typed')
        /\ \A n \in 1 .. progress' : typed'[Len(typed') - progress' + n] = {Code[n]}
    <3>1. CASE keys = {Code[progress + 1]}
      <4>1. progress' = progress + 1 /\ typed' = Append(typed, keys)
            /\ Len(typed') = Len(typed) + 1
        BY <2>1, <2>2, <3>1 DEF Progress, Expected
      <4>2. ASSUME NEW n \in 1 .. progress'
            PROVE  typed'[Len(typed') - progress' + n] = {Code[n]}
        <5>1. Len(typed') - progress' + n = Len(typed) - progress + n
          BY <2>2, <4>1
        <5>2. CASE n = progress + 1
          BY <2>2, <3>1, <4>1, <5>1, <5>2
        <5>3. CASE n \in 1 .. progress
          <6>1. Len(typed) - progress + n \in 1 .. Len(typed)
            BY <2>2, <5>3
          <6>2. typed'[Len(typed) - progress + n] = typed[Len(typed) - progress + n]
            BY <2>2, <4>1, <6>1
          <6> QED BY <2>2, <5>1, <5>3, <6>2 DEF Entered
        <5> QED BY <2>2, <4>1, <5>2, <5>3
      <4> QED BY <2>2, <4>1, <4>2
    <3>2. CASE keys # {Code[progress + 1]} /\ keys # {}
      BY <2>1, <2>2, <3>2 DEF Progress, Expected
    <3>3. CASE keys # {Code[progress + 1]} /\ keys = {}
      BY <2>1, <2>2, <3>3 DEF Progress, Expected, Entered
    <3> QED BY <3>1, <3>2, <3>3
  <2>7. Entered'
    BY <2>2, <2>3, <2>6, Consts DEF Entered
  <2> QED BY <1>2, <1>3, <1>4, <2>5, <2>7
<1> QED BY <1>5, <1>6, <1>7

LEMMA InvStep == Inv /\ [Next]_vars => Inv'
<1> SUFFICES ASSUME Inv, [Next]_vars PROVE Inv'
  OBVIOUS
<1>1. CASE Next
  BY <1>1, InvSearch, InvRead, InvDecrypt, InvConsent DEF Next
<1>2. CASE UNCHANGED vars
  <2>1. UNCHANGED <<pc, console, region, app, image, header, area, done, ctr, progress, typed>>
    BY <1>2 DEF vars
  <2>2. TypeOK' /\ Checked' /\ Entered'
    BY <2>1 DEF Inv, TypeOK, Checked, Entered, File
  <2>3. Loading'
    BY <2>1 DEF Inv, Loading, File, Delivered
  <2>4. Decrypting'
    BY <2>1 DEF Inv, Decrypting, File, Left, Streams
  <2>5. LoadableImage'
    BY <2>1 DEF Inv, LoadableImage, Prepared, File, Streams
  <2> QED BY <2>2, <2>3, <2>4, <2>5 DEF Inv
<1> QED BY <1>1, <1>2

LEMMA InvHolds == Spec => []Inv
<1> QED BY InvInit, InvStep, PTL DEF Spec

(* The indices and buffers of every step, for every console and code.       *)
THEOREM TypeCorrect == Spec => []TypeOK
<1>1. Inv => TypeOK
  BY DEF Inv
<1> QED BY <1>1, InvHolds, PTL

(* main.cpp:206-276.  However the launcher was read and wherever its areas  *)
(* lie, the image that is patched and written is the whole launcher, each   *)
(* block decrypted once with its own counter, and announces no areas.       *)
THEOREM ImageIsLoadable == Spec => []LoadableImage
<1>1. Inv => LoadableImage
  BY DEF Inv
<1> QED BY <1>1, InvHolds, PTL

(* ui.cpp:139-196, main.cpp:139-324.  Writing begins only after the keys of *)
(* the code in a row, on a console that passed every check of main.         *)
THEOREM WritesAreWanted == Spec => []WritesWithConsent
<1>1. Inv => WritesWithConsent
  <2>1. SUFFICES ASSUME Inv, pc \in {"write", "success"} PROVE WritesWithConsent
    BY DEF WritesWithConsent
  <2>2. Checked /\ Entered
    BY <2>1 DEF Inv
  <2> QED BY <2>1, <2>2 DEF WritesWithConsent, Checked, Entered, Started, Mounting, Finding, Naming
<1> QED BY <1>1, InvHolds, PTL

-----------------------------------------------------------------------------
(* The progress bar (module Progress).                                      *)

(* The line for a percentage.                                               *)
Bar(percent) == [k \in 1 .. 42 |-> Filled(percent \div 5, k, Template[k])]

(* What is filled.                                                          *)
LEMMA FilledIs ==
  ASSUME NEW steps, NEW k, NEW c
  PROVE  /\ Filled(steps, k, c) = c \/ Filled(steps, k, c) = "#"
         /\ c # " " => Filled(steps, k, c) = c
         /\ c = " " => (Filled(steps, k, c) = "#" <=> k \in 12 .. (11 + steps))
  BY DEF Filled

(* Whatever the stack held, the line is the bar.                            *)
LEMMA LineIs ==
  ASSUME NEW percent \in 0 .. 255, NEW junk
  PROVE  Line(percent, junk) = Bar(percent)
<1> DEFINE before == Buffer(junk)
           steps == percent \div 5
           buffer == [k \in 1 .. 64 |-> Filled(steps, k, before[k])]
           Ends(m) == (m < 64 => buffer[m + 1] = "nul") /\ \A k \in 1 .. m : buffer[k] # "nul"
<1>1. \A k \in 1 .. 42 : before[k] = Template[k]
  BY DEF Buffer
<1>2. before[43] = "nul"
  BY DEF Buffer
<1> HIDE DEF before, steps
<1>3. \A k \in 1 .. 42 : buffer[k] = Bar(percent)[k]
  BY <1>1 DEF Bar, steps
<1>4. buffer[43] = "nul" /\ \A k \in 1 .. 42 : buffer[k] # "nul"
  <2>1. \A k \in 1 .. 42 : Template[k] # "nul"
    BY DEF Template
  <2>2. ASSUME NEW k \in 1 .. 42  PROVE buffer[k] = before[k] \/ buffer[k] = "#"
    <3>1. buffer[k] = Filled(steps, k, before[k])
      OBVIOUS
    <3> QED BY <3>1, FilledIs
  <2>3. buffer[43] = "nul"
    <3>1. buffer[43] = Filled(steps, 43, before[43])
      OBVIOUS
    <3>2. Filled(steps, 43, "nul") = "nul"
      BY DEF Filled
    <3> QED BY <3>1, <3>2, <1>2
  <2> QED BY <1>1, <2>1, <2>2, <2>3
<1>5. DOMAIN buffer = 1 .. 64
  OBVIOUS
<1> HIDE DEF buffer
<1>6. Ends(42)
  BY <1>4
<1>7. \A m \in 0 .. 64 : Ends(m) => m = 42
  <2> SUFFICES ASSUME NEW m \in 0 .. 64, Ends(m)  PROVE m = 42
    OBVIOUS
  <2>1. m < 42 => m + 1 \in 1 .. 42 /\ buffer[m + 1] = "nul"
    OBVIOUS
  <2>2. m > 42 => buffer[43] # "nul"
    OBVIOUS
  <2> QED BY <2>1, <2>2, <1>4
<1> HIDE DEF Ends
<1>8. (CHOOSE m \in 0 .. 64 : Ends(m)) = 42
  BY <1>6, <1>7
<1>9. Printed(buffer) = SubSeq(buffer, 1, 42)
  BY <1>8 DEF Printed, Ends
<1>10. SubSeq(buffer, 1, 42) = [k \in 1 .. 42 |-> buffer[k]]
  BY <1>5
<1>11. [k \in 1 .. 42 |-> buffer[k]] = Bar(percent)
  BY <1>3 DEF Bar
<1>12. Line(percent, junk) = Printed(buffer)
  BY DEF Line, buffer, before, steps
<1> QED BY <1>9, <1>10, <1>11, <1>12

-----------------------------------------------------------------------------
(* Percentages.  q is the quotient of p and b.                              *)
LEMMA Quotient ==
  ASSUME NEW p \in Nat, NEW b \in Nat \ {0}
  PROVE  /\ p \div b \in Nat
         /\ b * (p \div b) <= p /\ p < b * (p \div b) + b
  OBVIOUS

LEMMA QuotientBounds ==
  ASSUME NEW p \in Nat, NEW b \in Nat \ {0}, NEW m \in Nat
  PROVE  p \div b >= m <=> p >= m * b
<1> DEFINE q == p \div b
<1>1. q \in Nat /\ b * q <= p /\ p < b * q + b
  BY Quotient
<1> HIDE DEF q
<1>2. q >= m => b * q >= b * m
  BY <1>1
<1>3. q < m => b * (q + 1) <= b * m
  BY <1>1
<1>4. b * (q + 1) = b * q + b /\ b * m = m * b
  BY <1>1
<1>5. b * q \in Nat /\ b * m \in Nat
  BY <1>1
<1>6. q >= m <=> p >= m * b
  BY <1>1, <1>2, <1>3, <1>4, <1>5
<1> QED BY <1>6 DEF q

-----------------------------------------------------------------------------
(* What BarIsTrue says of the line for a percentage.                        *)
LEMMA BarLine ==
  ASSUME NEW percent \in 0 .. 255
  PROVE  /\ DOMAIN Bar(percent) = 1 .. 42
         /\ \A k \in 1 .. 42 : Bar(percent)[k] = Template[k] \/ (Template[k] = " " /\ Bar(percent)[k] = "#")
         /\ \A k \in 1 .. 42 : Template[k] # "#"
         /\ \A k \in 1 .. 20 : Bar(percent)[11 + k] = "#" <=> percent >= 5 * k
         /\ \A k \in 1 .. 42 : Bar(percent)[k] = "#" => k \in 12 .. (11 + percent \div 5)
<1>1. \A k \in 1 .. 42 : Template[k] # "#"
  BY DEF Template
<1> DEFINE steps == percent \div 5
<1>2. \A k \in 1 .. 42 : Bar(percent)[k] = Filled(steps, k, Template[k])
  BY DEF Bar
<1>6. steps \in Nat /\ \A k \in 1 .. 20 : k <= steps <=> percent >= 5 * k
  OBVIOUS
<1> HIDE DEF steps
<1>3. ASSUME NEW k \in 1 .. 20  PROVE 11 + k \in 1 .. 42 /\ Template[11 + k] = " "
  <2>1. 11 + k \in 1 .. 42 /\ 11 + k \notin {6, 37} /\ 11 + k \notin Escapes
    BY DEF Escapes
  <2> QED BY <2>1 DEF Template
<1>4. ASSUME NEW k \in 1 .. 42
      PROVE  /\ Bar(percent)[k] = Template[k] \/ (Template[k] = " " /\ Bar(percent)[k] = "#")
             /\ Bar(percent)[k] = "#" => k \in 12 .. (11 + steps)
  <2>3. Bar(percent)[k] = Filled(steps, k, Template[k])
    BY <1>2
  <2> DEFINE c == Template[k]
  <2>4. c # "#"
    BY <1>1
  <2> HIDE DEF c
  <2>1. CASE c = " "
    <3>1. Bar(percent)[k] = IF k \in 12 .. (11 + steps) THEN "#" ELSE c
      BY <2>1, <2>3 DEF Filled, c
    <3> QED BY <3>1, <2>1 DEF c
  <2>2. CASE c # " "
    <3>1. Bar(percent)[k] = c
      BY <2>2, <2>3 DEF Filled, c
    <3> QED BY <3>1, <2>4 DEF c
  <2> QED BY <2>1, <2>2
<1>5. ASSUME NEW k \in 1 .. 20
      PROVE  Bar(percent)[11 + k] = "#" <=> percent >= 5 * k
  <2>1. Bar(percent)[11 + k] = Filled(steps, 11 + k, " ")
    BY <1>2, <1>3
  <2>2. Bar(percent)[11 + k] = "#" <=> 11 + k \in 12 .. (11 + steps)
    BY <2>1 DEF Filled
  <2> QED BY <2>2, <1>6
<1>7. DOMAIN Bar(percent) = 1 .. 42
  BY DEF Bar
<1> HIDE DEF Bar, Template
<1>8. \A k \in 1 .. 42 : Bar(percent)[k] = "#" => k \in 12 .. (11 + percent \div 5)
  BY <1>4 DEF steps
<1>9. \A k \in 1 .. 42 : Bar(percent)[k] = Template[k] \/ (Template[k] = " " /\ Bar(percent)[k] = "#")
  BY <1>4
<1> QED BY <1>1, <1>5, <1>7, <1>8, <1>9

-----------------------------------------------------------------------------
(* The invariant: the line is the one for the percentage that was reported  *)
(* last, and that is the percentage of what is done; before the first       *)
(* report, and as long as the stack of a division by zero repeats the 255   *)
(* that stands for none, it is the empty frame.                             *)
Past == IF work.kind = "patch" THEN reached - 1 ELSE reached
ProgressInv ==
  /\ work \in Works /\ reached \in 0 .. work.size
  /\ progPc \in {"create", "run", "end"}
  /\ work.kind = "modcrypt" => reached % 16 = 0
  /\ progPc = "create" => reached = 0 /\ lastReportedProgress = 255
  /\ progPc = "run" =>
       \/ barRow = FrameRow /\ lastReportedProgress = 255 /\ (bytesPerPercent # 0 => reached = 0)
       \/ /\ Past \in Nat /\ lastReportedProgress \in Percents(Past)
          /\ barRow = Bar(lastReportedProgress)

(* The size of a percent, for the size of the work.                         *)
LEMMA PerPercent ==
  ASSUME work \in Works
  PROVE  /\ work.size \in Nat /\ bytesPerPercent \in Nat
         /\ 101 * bytesPerPercent <= work.size + 1 /\ work.size < 101 * bytesPerPercent + 100
         /\ work.size >= 100 => bytesPerPercent >= 1
         /\ work.size >= 302 => bytesPerPercent >= 3
         /\ work.size >= 1615 => bytesPerPercent >= 16
<1>1. work.size \in Nat
  BY ProgressAssumption
<1> QED BY <1>1 DEF bytesPerPercent

(* From 100 bytes on a percentage is the quotient, 200 at most; from 302    *)
(* bytes on it is 134 at most.                                              *)
LEMMA PercentsAre ==
  ASSUME work \in Works, NEW p \in 0 .. work.size
  PROVE  /\ Percents(p) \subseteq 0 .. 255
         /\ work.size >= 100 => /\ Percents(p) = {p \div bytesPerPercent}
                                /\ p \div bytesPerPercent \in 0 .. 200
         /\ work.size >= 302 => p \div bytesPerPercent < 135
<1> DEFINE b == bytesPerPercent
           s == work.size
<1>1. /\ s \in Nat /\ b \in Nat /\ 101 * b <= s + 1 /\ s < 101 * b + 100
      /\ s >= 100 => b >= 1
      /\ s >= 302 => b >= 3
  BY PerPercent
<1> HIDE DEF b, s
<1>2. CASE b = 0
  <2>1. Percents(p) = Undefined
    BY <1>2 DEF Percents, b
  <2> QED BY <1>1, <1>2, <2>1, ProgressAssumption DEF s, b
<1>3. CASE b # 0
  <2>1. p \in Nat /\ p <= s
    BY <1>1 DEF s
  <2>2. p \div b >= 201 <=> p >= 201 * b
    BY <1>1, <1>3, <2>1, QuotientBounds
  <2>3. p \div b >= 135 <=> p >= 135 * b
    BY <1>1, <1>3, <2>1, QuotientBounds
  <2>4. p \div b \in Nat
    BY <1>1, <1>3, <2>1, Quotient
  <2>5. p \div b < 201
    BY <1>1, <1>3, <2>1, <2>2, <2>4
  <2>6. s >= 302 => p \div b < 135
    BY <1>1, <2>1, <2>3, <2>4
  <2>7. Percents(p) = {p \div b}
    <3>1. Percents(p) = {(p \div b) % 256}
      BY <1>3 DEF Percents, b
    <3> QED BY <3>1, <2>4, <2>5
  <2> QED BY <1>1, <2>4, <2>5, <2>6, <2>7 DEF s, b
<1> QED BY <1>2, <1>3

-----------------------------------------------------------------------------
LEMMA InRange ==
  ASSUME NEW m \in Nat, NEW p \in 0 .. m  PROVE p \in Nat
  OBVIOUS

(* The percentages depend on the size of the work only, and that stays: so  *)
(* the new state keeps the invariant when it has been reported.             *)
LEMMA Reported ==
  ASSUME UNCHANGED work, progPc' = "run", work \in Works, reached' \in 0 .. work.size,
         work.kind = "modcrypt" => reached' % 16 = 0, NEW p \in 0 .. work.size,
         p = IF work.kind = "patch" THEN reached' - 1 ELSE reached',
         \/ barRow' = FrameRow /\ lastReportedProgress' = 255 /\ bytesPerPercent = 0
         \/ lastReportedProgress' \in Percents(p) /\ barRow' = Bar(lastReportedProgress')
  PROVE  ProgressInv'
<1>1. bytesPerPercent' = bytesPerPercent
  BY DEF bytesPerPercent
<1>2. Past' = p
  BY DEF Past
<1>3. p \in Nat
  <2>1. work.size \in Nat
    BY PerPercent
  <2> QED BY <2>1, InRange
<1>4. lastReportedProgress' \in Percents(p) => (lastReportedProgress \in Percents(Past))'
  BY <1>1, <1>2 DEF Percents
<1>5. (work \in Works /\ reached \in 0 .. work.size /\ (work.kind = "modcrypt" => reached % 16 = 0))'
  OBVIOUS
<1>6. CASE barRow' = FrameRow /\ lastReportedProgress' = 255 /\ bytesPerPercent = 0
  BY <1>1, <1>5, <1>6 DEF ProgressInv
<1>7. CASE lastReportedProgress' \in Percents(p) /\ barRow' = Bar(lastReportedProgress')
  <2>1. (Past \in Nat /\ lastReportedProgress \in Percents(Past) /\ barRow = Bar(lastReportedProgress))'
    BY <1>2, <1>3, <1>4, <1>7
  <2> QED BY <1>5, <2>1 DEF ProgressInv
<1> QED BY <1>6, <1>7

(* A report at p, which then is what is done.                               *)
LEMMA ReportKeeps ==
  ASSUME ProgressInv, progPc = "run", UNCHANGED work, NEW p \in 0 .. work.size, Report(p)
  PROVE  \/ barRow' = FrameRow /\ lastReportedProgress' = 255 /\ bytesPerPercent = 0
         \/ lastReportedProgress' \in Percents(p) /\ barRow' = Bar(lastReportedProgress')
<1>1. PICK percent \in Percents(p) :
        /\ lastReportedProgress' = percent
        /\ IF percent = lastReportedProgress THEN UNCHANGED barRow
           ELSE \E junk \in {" ", "?"} : barRow' = Line(percent, junk)
  BY DEF Report
<1>2. work \in Works
  BY DEF ProgressInv
<1>3. percent \in 0 .. 255
  BY <1>1, <1>2, PercentsAre
<1>4. CASE percent # lastReportedProgress
  BY <1>1, <1>3, <1>4, LineIs
<1>5. CASE percent = lastReportedProgress
  <2>1. barRow' = barRow /\ lastReportedProgress' = lastReportedProgress
    BY <1>1, <1>5
  <2>2. CASE barRow = Bar(lastReportedProgress)
    BY <1>1, <1>5, <2>1, <2>2
  <2>3. CASE barRow = FrameRow /\ lastReportedProgress = 255
    <3>1. ASSUME work.size >= 100  PROVE percent \in 0 .. 200
      <4>1. Percents(p) = {p \div bytesPerPercent} /\ p \div bytesPerPercent \in 0 .. 200
        BY <1>2, <3>1, PercentsAre
      <4>2. percent = p \div bytesPerPercent
        BY <1>1, <4>1
      <4> QED BY <4>1, <4>2
    <3>2. work.size < 100
      BY <3>1, <2>3, <1>2, <1>5, PerPercent
    <3>3. bytesPerPercent = 0
      BY <3>2, <1>2, PerPercent
    <3> QED BY <2>1, <2>3, <3>3
  <2> QED BY <2>2, <2>3 DEF ProgressInv
<1> QED BY <1>4, <1>5

(* The invariant holds initially,                                           *)
LEMMA ProgressStarts == ProgressInit => ProgressInv
<1> SUFFICES ASSUME ProgressInit  PROVE ProgressInv
  OBVIOUS
<1>1. work \in Works /\ work.size \in Nat
  BY PerPercent DEF ProgressInit
<1> QED BY <1>1 DEF ProgressInit, ProgressInv

(* and every action keeps it: a transfer,                                   *)
LEMMA TransferRoundKeeps ==
  ASSUME ProgressInv, TransferRound
  PROVE  ProgressInv'
<1>1. /\ progPc = "run" /\ work.kind \in {"read", "write"} /\ reached < work.size
      /\ Report(reached') /\ UNCHANGED <<progPc, work>>
  BY DEF TransferRound
<1>2. work \in Works /\ work.size \in Nat /\ reached \in 0 .. work.size
  BY PerPercent DEF ProgressInv
<1>3. reached' \in 0 .. work.size
  <2>1. \A m \in Nat : AtMost(m) \in Nat /\ AtMost(m) <= work.size - reached
    BY <1>1, <1>2 DEF AtMost
  <2>2. PICK wanted \in Nat, short \in Missing :
          wanted <= work.size - reached /\ short <= wanted /\ reached' = reached + wanted - short
    <3>1. AtMost(IF work.kind = "read" THEN 512 ELSE 256) \in Nat
      BY <2>1
    <3> QED BY <2>1, <3>1 DEF TransferRound
  <2>3. short \in Nat
    BY ProgressAssumption
  <2> QED BY <1>2, <2>2, <2>3
<1>4. \/ barRow' = FrameRow /\ lastReportedProgress' = 255 /\ bytesPerPercent = 0
      \/ lastReportedProgress' \in Percents(reached') /\ barRow' = Bar(lastReportedProgress')
  BY <1>1, <1>3, ReportKeeps
<1>5. UNCHANGED work /\ progPc' = "run" /\ work.kind # "patch" /\ work.kind # "modcrypt"
  BY <1>1
<1> QED BY <1>2, <1>3, <1>4, <1>5, Reported

(* a block of a modcrypt area,                                              *)
LEMMA AreaRoundKeeps ==
  ASSUME ProgressInv, AreaRound
  PROVE  ProgressInv'
<1>1. /\ progPc = "run" /\ work.kind = "modcrypt" /\ reached < 16 * (work.size \div 16)
      /\ reached' = reached + 16
      /\ Report(reached') /\ UNCHANGED <<progPc, work>>
  BY DEF AreaRound
<1>2. work \in Works /\ work.size \in Nat /\ reached \in 0 .. work.size
  BY PerPercent DEF ProgressInv
<1>3. reached' \in 0 .. work.size /\ reached' % 16 = 0
  BY <1>1, <1>2 DEF ProgressInv
<1>4. \/ barRow' = FrameRow /\ lastReportedProgress' = 255 /\ bytesPerPercent = 0
      \/ lastReportedProgress' \in Percents(reached') /\ barRow' = Bar(lastReportedProgress')
  BY <1>1, <1>3, ReportKeeps
<1>5. UNCHANGED work /\ progPc' = "run" /\ work.kind # "patch"
  BY <1>1
<1> QED BY <1>2, <1>3, <1>4, <1>5, Reported

(* a position that is searched,                                             *)
LEMMA ScanRoundKeeps ==
  ASSUME ProgressInv, ScanRound
  PROVE  ProgressInv'
<1>1. /\ progPc = "run" /\ work.kind = "patch" /\ reached < work.size
      /\ reached' = reached + 1
      /\ Report(reached) /\ UNCHANGED <<progPc, work>>
  BY DEF ScanRound
<1>2. work \in Works /\ work.size \in Nat /\ reached \in 0 .. work.size
  BY PerPercent DEF ProgressInv
<1>3. reached' \in 0 .. work.size /\ reached = reached' - 1
  BY <1>1, <1>2
<1>4. \/ barRow' = FrameRow /\ lastReportedProgress' = 255 /\ bytesPerPercent = 0
      \/ lastReportedProgress' \in Percents(reached) /\ barRow' = Bar(lastReportedProgress')
  BY <1>1, <1>2, ReportKeeps
<1>5. UNCHANGED work /\ progPc' = "run" /\ work.kind # "modcrypt"
  BY <1>1
<1> QED BY <1>1, <1>2, <1>3, <1>4, <1>5, Reported

(* The invariant.                                                           *)
THEOREM ProgressInductive == ProgressSpec => []ProgressInv
<1>1. ProgressInv /\ [ProgressNext]_progressVars => ProgressInv'
  <2> SUFFICES ASSUME ProgressInv, [ProgressNext]_progressVars  PROVE ProgressInv'
    OBVIOUS
  <2>1. CASE CreateProgress
    BY <2>1 DEF CreateProgress, ProgressInv
  <2>2. CASE TransferRound
    BY <2>2, TransferRoundKeeps
  <2>3. CASE AreaRound
    BY <2>3, AreaRoundKeeps
  <2>4. CASE ScanRound
    BY <2>4, ScanRoundKeeps
  <2>5. CASE ClearProgress
    BY <2>5 DEF ClearProgress, ProgressInv
  <2>6. CASE UNCHANGED progressVars
    BY <2>6 DEF progressVars, ProgressInv, Past, Percents, bytesPerPercent
  <2> QED BY <2>1, <2>2, <2>3, <2>4, <2>5, <2>6 DEF ProgressNext
<1> QED BY <1>1, ProgressStarts, PTL DEF ProgressSpec

(* The empty frame is true: nothing is done, or the work is too little for  *)
(* the bar to mean anything.                                                *)
LEMMA FrameIsTrue ==
  ASSUME ProgressInv, progPc = "run", barRow = FrameRow, bytesPerPercent # 0 => reached = 0
  PROVE  BarIsTrue
<1>1. work \in Works /\ work.size \in Nat /\ bytesPerPercent \in Nat
  BY PerPercent DEF ProgressInv
<1>2. {k \in DOMAIN barRow : barRow[k] = "#"} = {}
  BY DEF FrameRow
<1>3. ASSUME work.size >= 100, NEW k \in 1 .. 20
      PROVE  5 * k * bytesPerPercent > 0
  <2>1. bytesPerPercent >= 1
    BY <1>1, <1>3, PerPercent DEF ProgressInv
  <2> QED BY <1>1, <2>1
<1>4. work.size >= 100 => reached = 0
  BY <1>1, PerPercent DEF ProgressInv
<1>5. ~(work.size >= 1615 /\ Finished)
  BY <1>1, <1>4 DEF Finished
<1> QED BY <1>1, <1>2, <1>3, <1>4, <1>5 DEF BarIsTrue

(* So is the line for the percentage of what is done.                       *)
LEMMA LineIsTrue ==
  ASSUME ProgressInv, progPc = "run", NEW p \in Nat, p = Past, NEW percent \in Percents(p), barRow = Bar(percent)
  PROVE  BarIsTrue
<1> DEFINE b == bytesPerPercent
           drawn == {k \in DOMAIN barRow : barRow[k] = "#"}
<1>1. work \in Works /\ work.size \in Nat /\ b \in Nat /\ reached \in 0 .. work.size
  BY PerPercent DEF ProgressInv
<1>2. p \in 0 .. work.size
  BY <1>1 DEF Past
<1>3. percent \in 0 .. 255
  BY <1>1, <1>2, PercentsAre
<1>4. /\ DOMAIN barRow = 1 .. 42
      /\ \A k \in 1 .. 42 : barRow[k] = Template[k] \/ (Template[k] = " " /\ barRow[k] = "#")
      /\ \A k \in 1 .. 42 : Template[k] # "#"
      /\ \A k \in 1 .. 20 : barRow[11 + k] = "#" <=> percent >= 5 * k
      /\ \A k \in 1 .. 42 : barRow[k] = "#" => k \in 12 .. (11 + percent \div 5)
  <2> DEFINE row == Bar(percent)
  <2>1. /\ DOMAIN row = 1 .. 42
        /\ \A k \in 1 .. 42 : row[k] = Template[k] \/ (Template[k] = " " /\ row[k] = "#")
        /\ \A k \in 1 .. 42 : Template[k] # "#"
        /\ \A k \in 1 .. 20 : row[11 + k] = "#" <=> percent >= 5 * k
        /\ \A k \in 1 .. 42 : row[k] = "#" => k \in 12 .. (11 + percent \div 5)
    BY <1>3, BarLine
  <2>2. barRow = row
    OBVIOUS
  <2> HIDE DEF row
  <2> QED BY <2>1, <2>2
<1>9. \A k \in 1 .. 42 : k \in drawn <=> barRow[k] = "#"
  BY <1>4
<1>10. drawn \subseteq 1 .. 42
  BY <1>4
<1>5. [k \in DOMAIN barRow |-> IF k \in drawn THEN " " ELSE barRow[k]] = Template
  <2>1. \A k \in 1 .. 42 : (IF k \in drawn THEN " " ELSE barRow[k]) = Template[k]
    BY <1>4
  <2>2. Template = [k \in 1 .. 42 |-> Template[k]]
    BY DEF Template
  <2> QED BY <2>1, <2>2, <1>4
<1>6. ASSUME work.size >= 100
      PROVE  /\ percent = p \div b /\ b >= 1
             /\ \A k \in 1 .. 20 : 11 + k \in drawn <=> p >= 5 * k * b
  <2>1. percent = p \div b
    BY <1>1, <1>2, <1>6, PercentsAre
  <2>2. b >= 1
    BY <1>1, <1>6, PerPercent
  <2>3. ASSUME NEW k \in 1 .. 20
        PROVE  11 + k \in drawn <=> p >= 5 * k * b
    <3>1. 11 + k \in drawn <=> percent >= 5 * k
      <4>1. 11 + k \in 1 .. 42
        OBVIOUS
      <4> QED BY <4>1, <1>4, <1>9
    <3>2. 5 * k \in Nat /\ b \in Nat \ {0}
      BY <1>1, <2>2
    <3>3. p \div b >= 5 * k <=> p >= 5 * k * b
      BY <3>2, QuotientBounds
    <3> QED BY <2>1, <3>1, <3>3
  <2> QED BY <2>1, <2>2, <2>3
<1>7. ASSUME work.size >= 302
      PROVE  drawn \subseteq 12 .. 31
  <2>1. percent < 135
    BY <1>1, <1>2, <1>6, <1>7, PercentsAre
  <2>2. percent \div 5 <= 26
    BY <2>1, <1>3
  <2>4. ASSUME NEW k \in drawn  PROVE k \in 12 .. 31
    <3>1. k \in 1 .. 42 /\ barRow[k] = "#"
      BY <1>9, <1>10
    <3>2. Template[k] = " " /\ k \in 12 .. (11 + percent \div 5)
      BY <3>1, <1>4
    <3>5. k \in 12 .. (11 + percent \div 5)
      BY <3>2
    <3>6. percent \div 5 \in Int
      BY <1>3
    <3>3. k <= 37 /\ k >= 12
      BY <3>5, <3>6, <2>2
    <3>4. k # 37 /\ k \notin Escapes
      <4>1. Template[k] = IF k \in {6, 37} THEN "|" ELSE IF k \in Escapes THEN "esc" ELSE " "
        BY <3>1 DEF Template
      <4> QED BY <4>1, <3>2
    <3> QED BY <3>1, <3>3, <3>4 DEF Escapes
  <2> QED BY <2>4
<1>8. ASSUME work.size >= 1615, Finished
      PROVE  12 .. 31 \subseteq drawn
  <2>1. b >= 16 /\ 101 * b <= work.size + 1
    BY <1>1, <1>8, PerPercent
  <2>2. p >= work.size - 15
    <3>1. CASE work.kind = "modcrypt"
      BY <3>1, <1>1, <1>8 DEF Finished, Past
    <3>2. CASE work.kind # "modcrypt"
      BY <3>2, <1>1, <1>8 DEF Finished, Past
    <3> QED BY <3>1, <3>2
  <2>3. p >= 100 * b
    BY <2>1, <2>2, <1>1
  <2>4. \A k \in 1 .. 20 : p >= 5 * k * b
    <3> SUFFICES ASSUME NEW k \in 1 .. 20  PROVE p >= 5 * k * b
      OBVIOUS
    <3>1. k * b <= 20 * b
      BY <1>1
    <3>2. 5 * k * b = 5 * (k * b) /\ k * b \in Nat
      BY <1>1
    <3> QED BY <3>1, <3>2, <2>3, <1>1
  <2>5. \A k \in 1 .. 20 : 11 + k \in drawn
    BY <1>6, <1>8, <2>4, <1>1
  <2>6. \A j \in 12 .. 31 : j - 11 \in 1 .. 20 /\ 11 + (j - 11) = j
    OBVIOUS
  <2> QED BY <2>5, <2>6
<1>11. p = IF work.kind = "patch" THEN reached - 1 ELSE reached
  BY DEF Past
<1>12. work.size >= 100 => \A k \in 1 .. 20 : 11 + k \in drawn <=> p >= 5 * k * b
  BY <1>6
<1>13. work.size >= 302 => drawn \subseteq 12 .. 31
  BY <1>7
<1>14. work.size >= 1615 /\ Finished => 12 .. 31 \subseteq drawn
  BY <1>8
<1> HIDE DEF b, drawn
<1> QED BY <1>5, <1>11, <1>12, <1>13, <1>14, Zenon DEF BarIsTrue, b, drawn

(* ui.cpp:72-98, system_info.cpp:87-99.  The bar shows what is done: for    *)
(* every kind and size of work, however much reading and writing fall       *)
(* short, and whatever a division by zero and the stack hold.               *)
THEOREM BarIsTrueHolds == ProgressSpec => []BarIsTrue
<1>1. ASSUME ProgressInv  PROVE BarIsTrue
  <2>1. CASE progPc # "run"
    BY <2>1 DEF BarIsTrue
  <2>2. CASE progPc = "run"
    BY <1>1, <2>2, FrameIsTrue, LineIsTrue DEF ProgressInv
  <2> QED BY <2>1, <2>2
<1> QED BY <1>1, ProgressInductive, PTL
=============================================================================
