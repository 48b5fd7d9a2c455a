-------------------------- MODULE NandSession_proofs --------------------------
(* Proofs about NandIO and about NandSession, which runs on it, for           *)
(* partitions, files, chips and geometries of every size.  They hold when the *)
(* partition table is read without error at startup; whatever other transfers *)
(* fail and whenever the power goes, the disc keeps its promises and the      *)
(* system file stays whole.                                                   *)
EXTENDS NandSession, SequenceTheorems, WellFoundedInduction, TLAPS

-----------------------------------------------------------------------------
(* Part 1: NandIO.                                                            *)

(* Crypting a sector twice with the stream of its number gives it back.     *)
LEMMA CryptTwice ==
  ASSUME NEW s \in Sectors, NEW c \in Cells
  PROVE  /\ Crypt(s, c) \in Cells
         /\ Crypt(s, Crypt(s, c)) = c
  BY DEF Crypt, Toggle, Cells

(* The sizes alone.                                                         *)
LEMMA Sizes ==
  /\ NSECTORS \in Nat \ {0} /\ BOOT \in Nat \ {0} /\ FATS \in Nat \ {0}
  /\ RESERVED \in Nat \ {0} /\ SPF \in Nat \ {0} /\ CRYPT_BUF_LEN \in Nat \ {0}
  /\ BOOT + RESERVED + FATS * SPF <= NSECTORS
  BY ConstantAssumption

(* Copy number and sector within the copy are determined by the address.    *)
LEMMA CopiesApart ==
  ASSUME NEW a \in Nat, NEW b \in Nat, NEW x \in 0 .. (SPF - 1), NEW y \in 0 .. (SPF - 1),
         x + a * SPF = y + b * SPF
  PROVE  a = b /\ x = y
<1>1. SPF \in Nat \ {0}
  BY ConstantAssumption
<1>2. ASSUME NEW p \in Nat, NEW q \in Nat, p < q  PROVE p * SPF + SPF <= q * SPF
  <2>1. PICK d \in Nat : q = p + 1 + d
    <3>1. q - p - 1 \in Nat /\ q = p + 1 + (q - p - 1)  BY <1>2
    <3> QED BY <3>1
  <2>2. q * SPF = p * SPF + SPF + d * SPF
    BY <1>1, <2>1
  <2>3. d * SPF \in Nat /\ p * SPF \in Nat
    BY <1>1
  <2> QED BY <1>1, <2>2, <2>3
<1>3. a * SPF \in Nat /\ b * SPF \in Nat
  BY <1>1
<1>4. ~(a < b)
  BY <1>1, <1>2, <1>3
<1>5. ~(b < a)
  BY <1>1, <1>2, <1>3
<1> QED BY <1>1, <1>3, <1>4, <1>5

(* The copies lie on the chip, behind the boot record, and apart from the   *)
(* first one.                                                               *)
LEMMA CopyOnChip ==
  ASSUME NEW stage \in 0 .. (FATS - 1), NEW x \in 0 .. (SPF - 1)
  PROVE  /\ BOOT + RESERVED + x + stage * SPF \in Sectors
         /\ BOOT + RESERVED + x + stage * SPF > BOOT
<1>1. SPF \in Nat \ {0} /\ FATS \in Nat \ {0} /\ BOOT \in Nat \ {0} /\ RESERVED \in Nat \ {0}
      /\ NSECTORS \in Nat \ {0}
  BY ConstantAssumption
<1>2. stage \in Nat /\ FATS - 1 - stage \in Nat
  BY <1>1
<1>3. FATS * SPF = stage * SPF + SPF + (FATS - 1 - stage) * SPF
  BY <1>1, <1>2
<1>4. stage * SPF \in Nat /\ (FATS - 1 - stage) * SPF \in Nat
  BY <1>1, <1>2
<1>5. BOOT + RESERVED + FATS * SPF <= NSECTORS
  BY ConstantAssumption
<1> QED BY <1>1, <1>2, <1>3, <1>4, <1>5 DEF Sectors
-----------------------------------------------------------------------------
(* The inductive invariant.                                                 *)

(* The partition table and the boot record stay as they were delivered.     *)
ChipInv == DSiChip(nand) \/ OtherChip(nand)

(* On a DSi chip the partition is found where it is, and until the merge    *)
(* sector_buf holds the partition table.                                    *)
BootInv ==
  DSiChip(nand) =>
    /\ pc # "down" => fat_sig_fix_offset = BOOT
    /\ pc \in {"ready", "read", "write"} =>
         sector_buf.pads = {} /\ Bpb[sector_buf.data].fats <= 1

(* A running write call avoids the partition table and the boot record.     *)
CallInv ==
  pc = "write" =>
    /\ DSiChip(nand)
    /\ \A i \in 1 .. io.len : io.offset + i - 1 \notin {0, BOOT}

(* The merge works with the fields of the boot record, or with no copies    *)
(* at all when the boot record could not be read.  The copies it has done   *)
(* equal the first one as long as no transfer failed.                       *)
Done(stage, x) ==
  \/ x < merge.sector
  \/ x = merge.sector /\ pc = "merge_write" /\ stage < merge.stage
MergeInv ==
  pc \in {"merge_read", "merge_write"} =>
    /\ DSiChip(nand)
    /\ \/ merge.fats <= 1 /\ (faulted \/ FATS = 1)
       \/ merge.fats = FATS /\ merge.reserved = RESERVED /\ merge.spf = SPF
    /\ pc = "merge_write" =>
         /\ merge.fats = FATS /\ FATS > 1 /\ merge.reserved = RESERVED /\ merge.spf = SPF
         /\ merge.sector < SPF /\ merge.stage < FATS
         /\ ~faulted => sector_buf = Disk[BOOT + RESERVED + merge.sector]
    /\ ~faulted => \A stage \in 1 .. (FATS - 1), x \in 0 .. (SPF - 1) :
         Done(stage, x) =>
           Disk[BOOT + RESERVED + x + stage * SPF] = Disk[BOOT + RESERVED + x]

Inv == TypeOK /\ ChipInv /\ BootInv /\ CallInv /\ MergeInv

-----------------------------------------------------------------------------
(* What the steps have in common.                                           *)

LEMMA SectorZero == 0 \in Sectors /\ BOOT \in Sectors /\ BOOT # 0
<1>1. /\ NSECTORS \in Nat \ {0} /\ BOOT \in Nat \ {0} /\ RESERVED \in Nat \ {0}
      /\ BOOT + RESERVED + FATS * SPF <= NSECTORS /\ FATS \in Nat \ {0} /\ SPF \in Nat \ {0}
  BY ConstantAssumption
<1>2. FATS * SPF \in Nat
  BY <1>1
<1> QED BY <1>1, <1>2 DEF Sectors

LEMMA MountableIsDSi ==
  ASSUME ChipInv, Mountable
  PROVE  DSiChip(nand)
<1>1. ASSUME NEW header \in Data, nand[0] = Plain(header)  PROVE FALSE
  <2>1. Disk[0] = Crypt(0, Plain(header))
    BY <1>1, SectorZero DEF Disk, DiskOf
  <2>2. Disk[0].pads = {0}
    BY <2>1 DEF Crypt, Plain, Toggle
  <2> QED BY <2>2 DEF Mountable
<1> QED BY <1>1 DEF ChipInv, OtherChip

(* A transfer that succeeds stays on the chip.                              *)
LEMMA OnChip ==
  ASSUME NEW kind, NEW s \in Nat, NEW n \in Nat, TRUE \in Outcomes(kind, s, n)
  PROVE  s + n <= NSECTORS
  BY DEF Outcomes

LEMMA LoadedCell ==
  ASSUME TypeOK, NEW start \in Nat, NEW i \in Nat \ {0}, start + i - 1 \in Sectors
  PROVE  Loaded(start, i) \in Cells
<1>1. Crypt(start + i - 1, nand[start + i - 1]) \in Cells
  BY CryptTwice DEF TypeOK
<1>2. ASSUME NEW c \in Cells  PROVE Repair(c) \in Cells
  BY ConstantAssumption DEF Repair, Plain, Cells
<1> QED BY <1>1, <1>2 DEF Loaded

LEMMA StoredChip ==
  ASSUME nand \in [Sectors -> Cells], NEW start \in Nat, NEW k \in Nat, NEW from \in Nat,
         NEW buf \in Seq(Cells), from + k <= Len(buf)
  PROVE  Stored(start, k, buf, from) \in [Sectors -> Cells]
<1> SUFFICES ASSUME NEW s \in Sectors
             PROVE  (IF s \in start .. (start + k - 1)
                     THEN Crypt(s, buf[from + s - start + 1]) ELSE nand[s]) \in Cells
  BY DEF Stored
<1>1. CASE s \in start .. (start + k - 1)
  <2>1. s \in Nat
    BY ConstantAssumption DEF Sectors
  <2>2. from + s - start + 1 \in 1 .. Len(buf)
    BY <1>1, <2>1
  <2>3. buf[from + s - start + 1] \in Cells
    BY <2>2
  <2> QED BY <1>1, <2>3, CryptTwice
<1>2. CASE s \notin start .. (start + k - 1)
  BY <1>2
<1> QED BY <1>1, <1>2

(* The invariant's view of the chip depends on sectors 0 and BOOT only.     *)
LEMMA SameChip ==
  ASSUME nand'[0] = nand[0], nand'[BOOT] = nand[BOOT]
  PROVE  /\ DSiChip(nand') <=> DSiChip(nand)
         /\ OtherChip(nand') <=> OtherChip(nand)
  BY DEF DSiChip, OtherChip

-----------------------------------------------------------------------------
(* Every kind of step preserves the invariant.                              *)

LEMMA InitInv == Init => Inv
<1> SUFFICES ASSUME Init PROVE Inv
  OBVIOUS
<1>1. nand \in [Sectors -> Cells] /\ ChipInv
  BY DeviceAssumption DEF Init, ChipInv
<1>2. Plain(Zero) \in Cells
  BY ConstantAssumption DEF Plain, Cells
<1>3. buffer \in Seq(Cells) /\ Len(buffer) = 0
  BY DEF Init
<1>4. /\ io \in [offset : Nat, len : Nat] /\ cur \in [offset : Nat, len : Nat, pos : Nat]
      /\ merge \in [fats : Nat, reserved : Nat, spf : Nat, sector : Nat, stage : Nat \ {0}]
  BY DEF Init
<1>5. /\ Len(buffer) = io.len /\ cur.offset = io.offset + cur.pos
      /\ cur.pos + cur.len = io.len
  BY <1>3 DEF Init
<1>6. TypeOK
  BY <1>1, <1>2, <1>3, <1>4, <1>5 DEF Init, TypeOK
<1> QED BY <1>1, <1>6 DEF Init, Inv, BootInv, CallInv, MergeInv

(* A step that changes at most the result of the last call.                 *)
LEMMA UnchangedInv ==
  ASSUME Inv, ret' \in BOOLEAN,
         UNCHANGED <<nand, crypt_buf, sector_buf, fat_sig_fix_offset, is3DS, pc,
                     io, buffer, cur, merge, faulted>>
  PROVE  Inv'
<1>1. TypeOK'
  BY DEF Inv, TypeOK
<1>2. (DSiChip(nand) <=> DSiChip(nand)') /\ (OtherChip(nand) <=> OtherChip(nand)')
  BY DEF DSiChip, OtherChip
<1>3. ChipInv' /\ BootInv' /\ CallInv'
  BY <1>2 DEF Inv, ChipInv, BootInv, CallInv
<1>4. MergeInv'
  BY <1>2 DEF Inv, MergeInv, Done, Disk, DiskOf
<1> QED BY <1>1, <1>3, <1>4 DEF Inv

(* The partition table, decrypted, tells where the partition is.            *)
LEMMA StartupInv ==
  ASSUME "mbr" \notin Faults, Inv, Startup
  PROVE  Inv'
<1> USE DEF Inv
<1>1. nand[0] \in Cells /\ Crypt(0, nand[0]) \in Cells
  BY SectorZero, CryptTwice DEF TypeOK
<1>2. /\ is3DS' = IsNcsd(nand[0])
      /\ sector_buf' = Crypt(0, nand[0])
      /\ \E f \in Fields(Crypt(0, nand[0])) :
           fat_sig_fix_offset' = IF is3DS' THEN 0 ELSE f.mbr
      /\ faulted' \in BOOLEAN
  <2>1. 0 + 1 <= NSECTORS /\ ~(0 + 1 > NSECTORS)
    BY Sizes
  <2>2. Outcomes("mbr", 0, 1) = {TRUE}
    BY <2>1, Zenon DEF Outcomes
  <2> QED BY <2>2 DEF Startup
<1>3. is3DS' \in BOOLEAN
  BY <1>2 DEF IsNcsd
<1>4. Fields(Crypt(0, nand[0])) \subseteq [mbr : Nat, fats : Nat, reserved : Nat, spf : Nat]
  BY <1>1, ConstantAssumption DEF Fields, Cells
<1>5. fat_sig_fix_offset' \in Nat
  BY <1>2, <1>4
<1>6. TypeOK'
  BY <1>1, <1>2, <1>3, <1>5 DEF Startup, TypeOK
<1>7. ChipInv'
  BY DEF Startup, ChipInv, DSiChip, OtherChip
<1>8. ASSUME DSiChip(nand)
      PROVE  fat_sig_fix_offset' = BOOT /\ sector_buf'.pads = {} /\ Bpb[sector_buf'.data].fats <= 1
  <2>1. PICK table \in Data : /\ nand[0] = Crypt(0, Plain(table))
                              /\ Bpb[table].mbr = BOOT /\ Bpb[table].fats <= 1
    BY <1>8 DEF DSiChip
  <2>2. Plain(table) \in Cells
    BY DEF Plain, Cells
  <2>3. sector_buf' = Plain(table)
    BY <1>2, <2>1, <2>2, CryptTwice, SectorZero
  <2>4. nand[0].pads = {0}
    BY <2>1 DEF Crypt, Plain, Toggle
  <2>5. ~is3DS'
    BY <1>2, <2>4 DEF IsNcsd
  <2>6. Fields(Crypt(0, nand[0])) = {Bpb[table]}
    BY <1>2, <2>3 DEF Fields, Plain
  <2> QED BY <1>2, <2>1, <2>3, <2>5, <2>6 DEF Plain
<1>9. BootInv'
  BY <1>8 DEF Startup, BootInv, DSiChip
<1>10. CallInv' /\ MergeInv'
  BY DEF Startup, CallInv, MergeInv
<1> QED BY <1>6, <1>7, <1>9, <1>10

(* A call of libfat that avoids the partition table and the boot record.    *)
LEMMA EnterInv ==
  ASSUME Inv, NEW op \in {"read", "write"}, NEW offset \in Nat, NEW buf \in Seq(Cells),
         Enter(op, offset, buf),
         op = "write" => \A i \in 1 .. Len(buf) : offset + i - 1 \notin {0, BOOT}
  PROVE  Inv'
<1> USE DEF Inv
<1>1. Len(buf) \in Nat
  OBVIOUS
<1>2. TypeOK'
  BY <1>1, SMTT(30) DEF Enter, TypeOK
<1>3. ChipInv'
  BY DEF Enter, ChipInv, DSiChip, OtherChip
<1>4. BootInv'
  BY DEF Enter, BootInv, DSiChip
<1>5. op = "write" => DSiChip(nand)
  BY MountableIsDSi DEF Enter
<1>6. CallInv'
  BY <1>5 DEF Enter, CallInv, DSiChip
<1>7. MergeInv'
  BY DEF Enter, MergeInv
<1> QED BY <1>2, <1>3, <1>4, <1>6, <1>7

LEMMA ClientInv ==
  ASSUME Inv, Client
  PROVE  Inv'
<1>1. PICK r \in Requests : Enter(r.op, r.offset, r.buffer)
  BY DEF Client
<1>2. /\ r.op \in {"read", "write"} /\ r.offset \in Nat /\ r.buffer \in Seq(Cells)
      /\ r.op = "write" => \A i \in 1 .. Len(r.buffer) : r.offset + i - 1 \notin {0, BOOT}
  BY RequestAssumption
<1> QED BY <1>1, <1>2, EnterInv

LEMMA ChunkLenBounds ==
  ASSUME NEW len \in Nat \ {0}
  PROVE  ChunkLen(len) \in 1 .. len
  BY ConstantAssumption DEF ChunkLen

(* The numbers of a running call.                                           *)
LEMMA CallNumbers ==
  ASSUME TypeOK
  PROVE  /\ cur.offset \in Nat /\ cur.pos \in Nat /\ cur.len \in Nat
         /\ io.offset \in Nat /\ io.len \in Nat
         /\ cur.offset = io.offset + cur.pos /\ cur.pos + cur.len = io.len
  BY DEF TypeOK

LEMMA ReadChunkInv ==
  ASSUME Inv, ReadChunk
  PROVE  Inv'
<1> USE DEF Inv
<1> DEFINE n == ChunkLen(cur.len)
<1>1. /\ cur \in [offset : Nat, len : Nat, pos : Nat] /\ cur.len > 0 /\ cur.len \in Nat
      /\ cur.offset \in Nat /\ cur.pos \in Nat
  BY DEF TypeOK, ReadChunk
<1>2. n \in 1 .. cur.len
  BY <1>1, ChunkLenBounds
<1>3. PICK ok \in Outcomes("read", cur.offset, n) :
        IF ok
        THEN /\ buffer' = [i \in DOMAIN buffer |->
                  IF i \in (cur.pos + 1) .. (cur.pos + n)
                  THEN Loaded(cur.offset, i - cur.pos) ELSE buffer[i]]
             /\ Advance(n)
             /\ UNCHANGED <<pc, ret, faulted>>
        ELSE Return(FALSE) /\ UNCHANGED <<buffer, cur>>
  BY DEF ReadChunk
<1>4. UNCHANGED <<nand, crypt_buf, sector_buf, fat_sig_fix_offset, is3DS, io, merge>> /\ pc = "read"
  BY DEF ReadChunk
<1> HIDE DEF n
<1>5. CASE ok
  <2>1. cur.offset + n <= NSECTORS
    BY <1>1, <1>2, <1>3, <1>5 DEF Outcomes
  <2>2. ASSUME NEW i \in 1 .. Len(buffer)
        PROVE  buffer'[i] \in Cells
    <3>1. CASE i \in (cur.pos + 1) .. (cur.pos + n)
      <4>1. PICK j \in 1 .. n : i = cur.pos + j
        <5>1. i - cur.pos \in 1 .. n /\ i = cur.pos + (i - cur.pos)
          BY <1>1, <1>2, <3>1
        <5> QED BY <5>1
      <4>2. j \in Nat \ {0} /\ cur.offset + j - 1 \in Sectors
        BY <1>1, <1>2, <2>1, <4>1, Sizes, SMTT(30) DEF Sectors
      <4>3. buffer'[i] = Loaded(cur.offset, j)
        <5>1. i \in DOMAIN buffer /\ i - cur.pos = j
          BY <1>1, <4>1, SMTT(30) DEF TypeOK
        <5> QED BY <1>3, <1>5, <3>1, <5>1
      <4> QED BY <1>1, <4>2, <4>3, LoadedCell
    <3>2. CASE i \notin (cur.pos + 1) .. (cur.pos + n)
      BY <1>3, <1>5, <3>2, SMTT(30) DEF TypeOK
    <3> QED BY <3>1, <3>2
  <2>3. buffer' \in Seq(Cells) /\ Len(buffer') = Len(buffer)
    <3>1. DOMAIN buffer' = 1 .. Len(buffer) /\ Len(buffer) \in Nat
      BY <1>3, <1>5 DEF TypeOK
    <3>2. buffer' = [i \in 1 .. Len(buffer) |-> buffer'[i]]
      BY <1>3, <1>5, <3>1
    <3> QED BY <2>2, <3>1, <3>2
  <2>4. /\ cur' = [offset |-> cur.offset + n, len |-> cur.len - n, pos |-> cur.pos + n]
        /\ UNCHANGED <<pc, ret, faulted>>
    BY <1>3, <1>5 DEF Advance
  <2>5. cur' \in [offset : Nat, len : Nat, pos : Nat]
        /\ cur'.offset = cur.offset + n /\ cur'.len = cur.len - n /\ cur'.pos = cur.pos + n
    BY <1>1, <1>2, <2>4
  <2>6. cur'.offset = io'.offset + cur'.pos /\ cur'.pos + cur'.len = io'.len
    <3>1. TypeOK
      BY DEF Inv
    <3>2. /\ io.offset \in Nat /\ io.len \in Nat
          /\ cur.offset = io.offset + cur.pos /\ cur.pos + cur.len = io.len
      BY <3>1, CallNumbers
    <3> QED BY <1>1, <1>2, <1>4, <2>5, <3>2
  <2>7. TypeOK'
    BY <1>4, <2>3, <2>4, <2>5, <2>6 DEF TypeOK
  <2> QED BY <1>4, <2>4, <2>7 DEF ChipInv, DSiChip, OtherChip, BootInv, CallInv, MergeInv
<1>6. CASE ~ok
  <2>1. TypeOK'
    BY <1>3, <1>4, <1>6 DEF TypeOK, Return
  <2> QED BY <1>3, <1>4, <1>6, <2>1 DEF Return, ChipInv, DSiChip, OtherChip, BootInv, CallInv, MergeInv
<1> QED BY <1>5, <1>6

(* A chunk, or a part of one, written by a running call leaves the sectors  *)
(* alone that BootInv and ChipInv speak of.                                 *)
LEMMA CallStores ==
  ASSUME Inv, pc = "write", NEW k \in Nat, k <= cur.len,
         nand' = Stored(cur.offset, k, buffer, cur.pos)
  PROVE  /\ nand' \in [Sectors -> Cells]
         /\ nand'[0] = nand[0] /\ nand'[BOOT] = nand[BOOT]
<1>1. /\ cur.offset \in Nat /\ cur.pos \in Nat /\ cur.len \in Nat
      /\ io.offset \in Nat /\ io.len \in Nat
      /\ cur.offset = io.offset + cur.pos /\ cur.pos + cur.len = io.len
  BY CallNumbers DEF Inv
<1>2. nand' \in [Sectors -> Cells]
  <2>1. /\ buffer \in Seq(Cells) /\ Len(buffer) = io.len /\ nand \in [Sectors -> Cells]
    BY DEF Inv, TypeOK
  <2>2. cur.pos + k <= Len(buffer)
    BY <1>1, <2>1
  <2>3. Stored(cur.offset, k, buffer, cur.pos) \in [Sectors -> Cells]
    BY <1>1, <2>1, <2>2, StoredChip
  <2> QED BY <2>3
<1>3. ASSUME NEW s \in {0, BOOT}
      PROVE  nand'[s] = nand[s]
  <2>1. s \in Sectors /\ s \in Nat
    BY SectorZero, Sizes
  <2>2. s \notin cur.offset .. (cur.offset + k - 1)
    <3> SUFFICES ASSUME s \in cur.offset .. (cur.offset + k - 1)  PROVE FALSE
      OBVIOUS
    <3>1. cur.offset <= s /\ s <= cur.offset + cur.len - 1
      BY <1>1, <2>1
    <3>2. PICK i \in Nat : s = io.offset + i
      <4>1. s - io.offset \in Nat /\ s = io.offset + (s - io.offset)
        BY <1>1, <2>1, <3>1
      <4> QED BY <4>1
    <3>3. i + 1 \in 1 .. io.len /\ io.offset + (i + 1) - 1 = s
      BY <1>1, <3>1, <3>2
    <3> QED BY <3>3 DEF Inv, CallInv
  <2> QED BY <2>1, <2>2 DEF Stored
<1> QED BY <1>2, <1>3

LEMMA WriteChunkInv ==
  ASSUME Inv, WriteChunk
  PROVE  Inv'
<1> DEFINE n == ChunkLen(cur.len)
<1>1. /\ cur \in [offset : Nat, len : Nat, pos : Nat] /\ cur.len > 0 /\ cur.len \in Nat
      /\ cur.offset \in Nat /\ cur.pos \in Nat
  BY DEF Inv, TypeOK, WriteChunk
<1>2. n \in 1 .. cur.len
  BY <1>1, ChunkLenBounds
<1>3. /\ pc = "write" /\ UNCHANGED <<crypt_buf, sector_buf, fat_sig_fix_offset, is3DS,
                                     io, buffer, merge>>
      /\ \E k \in 0 .. n : nand' = Stored(cur.offset, k, buffer, cur.pos)
      /\ \/ Advance(n) /\ UNCHANGED <<pc, ret, faulted>>
         \/ Return(FALSE) /\ UNCHANGED cur
  <2>1. n \in 0 .. n
    BY <1>2
  <2> QED BY <2>1 DEF WriteChunk
<1> HIDE DEF n
<1>4. /\ nand' \in [Sectors -> Cells]
      /\ nand'[0] = nand[0] /\ nand'[BOOT] = nand[BOOT]
  <2>1. PICK k \in 0 .. n : nand' = Stored(cur.offset, k, buffer, cur.pos)
    BY <1>3
  <2>2. k \in Nat /\ k <= cur.len
    BY <1>1, <1>2
  <2> QED BY <1>3, <2>1, <2>2, CallStores
<1>5. TypeOK'
  <2>1. CASE Advance(n) /\ UNCHANGED <<pc, ret, faulted>>
    <3>1. cur' = [offset |-> cur.offset + n, len |-> cur.len - n, pos |-> cur.pos + n]
      BY <2>1 DEF Advance
    <3>2. n \in Nat /\ cur.len - n \in Nat
      BY <1>1, <1>2
    <3>3. cur' \in [offset : Nat, len : Nat, pos : Nat]
      BY <1>1, <3>1, <3>2
    <3>4. cur'.offset = io.offset + cur'.pos /\ cur'.pos + cur'.len = io.len
      BY <3>1, <3>2, CallNumbers DEF Inv
    <3> QED BY <1>3, <1>4, <2>1, <3>3, <3>4 DEF Inv, TypeOK
  <2>2. CASE Return(FALSE) /\ UNCHANGED cur
    BY <1>3, <1>4, <2>2 DEF Inv, TypeOK, Return
  <2> QED BY <1>3, <2>1, <2>2
<1>6. (DSiChip(nand') <=> DSiChip(nand)) /\ (OtherChip(nand') <=> OtherChip(nand))
  BY <1>4, SameChip
<1>7. pc' \in {"ready", "write"}
  BY <1>3 DEF Return
<1> QED BY <1>3, <1>5, <1>6, <1>7 DEF Inv, ChipInv, BootInv, CallInv, MergeInv

LEMMA CallDoneInv ==
  ASSUME Inv, CallDone
  PROVE  Inv'
<1>1. TypeOK'
  BY DEF Inv, TypeOK, CallDone, Return
<1>2. DSiChip(nand)' <=> DSiChip(nand)
  BY DEF CallDone, DSiChip
<1>3. OtherChip(nand)' <=> OtherChip(nand)
  BY DEF CallDone, OtherChip
<1> QED BY <1>1, <1>2, <1>3 DEF Inv, CallDone, Return, ChipInv, BootInv, CallInv, MergeInv

(* What a single-sector read puts into sector_buf.                          *)
LEMMA LoadedBuf ==
  ASSUME TypeOK, NEW s \in Nat, LoadSectorBuf(s)
  PROVE  /\ sector_buf' \in Cells /\ faulted' \in BOOLEAN
         /\ faulted => faulted'
         /\ ~faulted' => s \in Sectors /\ sector_buf' = Loaded(s, 1)
         /\ ~faulted' \/ sector_buf' = sector_buf \/ (s \in Sectors /\ sector_buf' = Loaded(s, 1))
<1>1. PICK ok \in Outcomes("read", s, 1) :
        sector_buf' = (IF ok THEN Loaded(s, 1) ELSE sector_buf) /\ faulted' = (faulted \/ ~ok)
  BY DEF LoadSectorBuf
<1>2. ok \in BOOLEAN
  BY DEF Outcomes
<1>3. CASE ok = TRUE
  <2>1. s + 1 <= NSECTORS
    BY <1>1, <1>3, Sizes DEF Outcomes
  <2>2. s \in Sectors
    BY <2>1, Sizes DEF Sectors
  <2>3. s + 1 - 1 \in Sectors
    BY <2>2
  <2>4. Loaded(s, 1) \in Cells
    BY <2>3, LoadedCell
  <2> QED BY <1>1, <1>3, <2>2, <2>4 DEF TypeOK
<1>4. CASE ok = FALSE
  BY <1>1, <1>4 DEF TypeOK
<1> QED BY <1>2, <1>3, <1>4

LEMMA ShutdownBeginInv ==
  ASSUME Inv, ShutdownBegin
  PROVE  Inv'
<1>1. DSiChip(nand) /\ fat_sig_fix_offset = BOOT /\ sector_buf.pads = {}
      /\ Bpb[sector_buf.data].fats <= 1
  BY MountableIsDSi DEF Inv, BootInv, ShutdownBegin
<1>2. LoadSectorBuf(BOOT) /\ BOOT \in Nat
  BY <1>1, Sizes DEF ShutdownBegin
<1>3. /\ sector_buf' \in Cells /\ faulted' \in BOOLEAN
      /\ ~faulted' => sector_buf' = Loaded(BOOT, 1)
      /\ ~faulted' \/ sector_buf' = sector_buf \/ sector_buf' = Loaded(BOOT, 1)
  BY <1>2, LoadedBuf DEF Inv
<1>4. PICK boot \in Data :
        /\ nand[BOOT] = Crypt(BOOT, Plain(boot))
        /\ Bpb[boot].fats = FATS /\ Bpb[boot].reserved = RESERVED /\ Bpb[boot].spf = SPF
  BY <1>1 DEF DSiChip
<1>5. Loaded(BOOT, 1).pads = {} /\ Bpb[Loaded(BOOT, 1).data] = Bpb[boot]
  <2>1. Plain(boot) \in Cells
    BY DEF Plain, Cells
  <2>2. BOOT + 1 - 1 = BOOT
    BY Sizes
  <2>3. Crypt(BOOT, nand[BOOT]) = Plain(boot)
    BY <1>4, <2>1, CryptTwice, SectorZero
  <2>4. Loaded(BOOT, 1) \in {Plain(boot), Repair(Plain(boot))}
    BY <2>2, <2>3 DEF Loaded
  <2>5. Repair(Plain(boot)) = Plain(Signed[boot])
    BY DEF Repair, Plain
  <2> QED BY <2>4, <2>5, ConstantAssumption DEF Plain
<1>6. sector_buf'.pads = {}
  BY <1>1, <1>3, <1>5
<1>7. LET f == Bpb[sector_buf'.data] IN
      merge' = [fats |-> f.fats, reserved |-> f.reserved, spf |-> f.spf, sector |-> 0, stage |-> 1]
  BY <1>6 DEF ShutdownBegin, Fields
<1>8. \/ merge'.fats <= 1 /\ faulted'
      \/ merge'.fats = FATS /\ merge'.reserved = RESERVED /\ merge'.spf = SPF
  BY <1>1, <1>3, <1>4, <1>5, <1>7
<1>9. TypeOK'
  <2>1. Bpb[sector_buf'.data] \in [mbr : Nat, fats : Nat, reserved : Nat, spf : Nat]
    BY <1>3, ConstantAssumption DEF Cells
  <2>2. merge' \in [fats : Nat, reserved : Nat, spf : Nat, sector : Nat, stage : Nat \ {0}]
    BY <1>7, <2>1
  <2> QED BY <1>3, <2>2 DEF Inv, TypeOK, ShutdownBegin
<1>10. UNCHANGED nand /\ pc' = "merge_read" /\ UNCHANGED fat_sig_fix_offset /\ merge'.sector = 0
  BY <1>7 DEF ShutdownBegin
<1>11. DSiChip(nand)' /\ OtherChip(nand)' = OtherChip(nand)
  BY <1>1, <1>10 DEF DSiChip, OtherChip
<1>12. ChipInv' /\ BootInv' /\ CallInv'
  BY <1>1, <1>10, <1>11 DEF Inv, ChipInv, BootInv, CallInv
<1>13. ASSUME NEW stage \in 1 .. (FATS - 1), NEW x \in 0 .. (SPF - 1)  PROVE ~Done(stage, x)'
  BY <1>10, Sizes DEF Done
<1>14. MergeInv'
  BY <1>8, <1>10, <1>11, <1>13 DEF MergeInv
<1> QED BY <1>9, <1>12, <1>14 DEF Inv

(* The copy and the sector that the merge works on.                         *)
LEMMA MergeTarget ==
  ASSUME Inv, pc \in {"merge_read", "merge_write"}, Merging
  PROVE  /\ merge.fats = FATS /\ merge.reserved = RESERVED /\ merge.spf = SPF /\ FATS > 1
         /\ fat_sig_fix_offset = BOOT /\ DSiChip(nand)
         /\ merge.sector \in 0 .. (SPF - 1)
         /\ FatSector(0) = BOOT + RESERVED + merge.sector
         /\ \A stage \in Nat : FatSector(stage) = BOOT + RESERVED + merge.sector + stage * SPF
<1>1. /\ merge.fats = FATS /\ merge.reserved = RESERVED /\ merge.spf = SPF /\ FATS > 1
      /\ fat_sig_fix_offset = BOOT /\ DSiChip(nand)
  BY Sizes, SMTT(30) DEF Inv, TypeOK, MergeInv, BootInv, Merging
<1>2. merge.sector \in 0 .. (SPF - 1)
  BY <1>1, Sizes, SMTT(30) DEF Inv, TypeOK, Merging
<1>3. \A stage \in Nat : FatSector(stage) = BOOT + RESERVED + merge.sector + stage * SPF
  BY <1>1 DEF FatSector
<1>4. FatSector(0) = BOOT + RESERVED + merge.sector
  BY <1>2, <1>3, Sizes
<1> QED BY <1>1, <1>2, <1>3, <1>4

LEMMA MergeReadInv ==
  ASSUME Inv, MergeRead
  PROVE  Inv'
<1> DEFINE s == BOOT + RESERVED + merge.sector
<1>1. /\ merge.fats = FATS /\ merge.reserved = RESERVED /\ merge.spf = SPF /\ FATS > 1
      /\ fat_sig_fix_offset = BOOT /\ DSiChip(nand)
      /\ merge.sector \in 0 .. (SPF - 1) /\ FatSector(0) = s
  BY MergeTarget DEF MergeRead
<1>2. LoadSectorBuf(s) /\ s \in Nat /\ s # BOOT /\ s + 1 - 1 = s
  BY <1>1, Sizes DEF MergeRead
<1> HIDE DEF s
<1>3. /\ sector_buf' \in Cells /\ faulted' \in BOOLEAN /\ (faulted => faulted')
      /\ ~faulted' => s \in Sectors /\ sector_buf' = Loaded(s, 1)
  BY <1>2, LoadedBuf DEF Inv
<1>4. ~faulted' => sector_buf' = Disk[s]
  BY <1>1, <1>2, <1>3 DEF Loaded, Disk, DiskOf
<1>5. /\ merge' = [merge EXCEPT !.stage = 1] /\ pc = "merge_read" /\ pc' = "merge_write"
      /\ UNCHANGED <<nand, crypt_buf, fat_sig_fix_offset, is3DS, io, buffer, cur, ret>>
  BY DEF MergeRead
<1>6. /\ merge'.fats = FATS /\ merge'.reserved = RESERVED /\ merge'.spf = SPF
      /\ merge'.sector = merge.sector /\ merge'.stage = 1
      /\ merge' \in [fats : Nat, reserved : Nat, spf : Nat, sector : Nat, stage : Nat \ {0}]
  <2>1. merge \in [fats : Nat, reserved : Nat, spf : Nat, sector : Nat, stage : Nat \ {0}]
    BY DEF Inv, TypeOK
  <2>2. merge' = [merge EXCEPT !.stage = 1]
    BY <1>5
  <2> QED BY <1>1, <2>1, <2>2
<1>7. TypeOK'
  BY <1>3, <1>5, <1>6 DEF Inv, TypeOK
<1>8. DSiChip(nand)' /\ Disk' = Disk
  BY <1>1, <1>5 DEF DSiChip, Disk, DiskOf
<1>9. ChipInv' /\ BootInv' /\ CallInv'
  BY <1>1, <1>5, <1>8 DEF ChipInv, BootInv, CallInv
<1>10. ASSUME NEW stage \in 1 .. (FATS - 1), NEW x \in 0 .. (SPF - 1), Done(stage, x)'
       PROVE  Done(stage, x)
  <2>1. ~(stage < merge'.stage)
    BY <1>6, Sizes
  <2> QED BY <1>5, <1>6, <1>10, <2>1 DEF Done
<1>11. MergeInv'
  <2>1. merge'.sector < SPF /\ merge'.stage < FATS
    BY <1>1, <1>6, Sizes
  <2>2. ~faulted' => sector_buf' = Disk'[BOOT + RESERVED + merge'.sector]
    BY <1>4, <1>6, <1>8 DEF s
  <2>3. ~faulted' => \A stage \in 1 .. (FATS - 1), x \in 0 .. (SPF - 1) :
          Done(stage, x)' =>
            Disk'[BOOT + RESERVED + x + stage * SPF] = Disk'[BOOT + RESERVED + x]
    BY <1>3, <1>5, <1>8, <1>10 DEF Inv, MergeInv
  <2> QED BY <1>1, <1>5, <1>6, <1>8, <2>1, <2>2, <2>3 DEF MergeInv
<1> QED BY <1>7, <1>9, <1>11 DEF Inv

(* One write of the merge: it stores the sector read from the first copy at *)
(* the place of another copy, or nothing.                                   *)
LEMMA MergeWriteStores ==
  ASSUME Inv, MergeWrite
  PROVE  LET target == BOOT + RESERVED + merge.sector + merge.stage * SPF IN
         /\ target \in Sectors
         /\ nand' \in [Sectors -> Cells]
         /\ \A s \in Sectors \ {target} : nand'[s] = nand[s]
         /\ \/ nand' = nand /\ faulted'
            \/ nand'[target] = Crypt(target, sector_buf)
         /\ faulted' \in BOOLEAN /\ (faulted => faulted')
<1> DEFINE target == BOOT + RESERVED + merge.sector + merge.stage * SPF
<1>1. /\ pc = "merge_write" /\ Merging
      /\ merge.stage \in 1 .. (FATS - 1)
  <2>1. merge.stage \in Nat \ {0} /\ FATS \in Nat
    BY Sizes DEF Inv, TypeOK
  <2> QED BY <2>1, Sizes DEF MergeWrite, MergeNext, Inv, MergeInv, Merging
<1>2. /\ merge.sector \in 0 .. (SPF - 1)
      /\ FatSector(merge.stage) = target
  <2>1. merge.stage \in Nat
    BY <1>1, Sizes
  <2> QED BY <1>1, <2>1, MergeTarget
<1>3. target \in Sectors
  <2>1. merge.stage \in 0 .. (FATS - 1)
    BY <1>1, Sizes
  <2> QED BY <1>2, <2>1, CopyOnChip
<1>4. target \in Nat
  BY <1>3, Sizes DEF Sectors
<1> HIDE DEF target
<1>5. PICK ok \in Outcomes("write", target, 1) :
        /\ \E k \in (IF ok THEN {1} ELSE {0, 1}) :
             nand' = Stored(target, k, <<sector_buf>>, 0)
        /\ faulted' = (faulted \/ ~ok)
  BY <1>2 DEF MergeWrite, MergeNext
<1>6. PICK k \in {0, 1} : nand' = Stored(target, k, <<sector_buf>>, 0) /\ (ok => k = 1)
  BY <1>5
<1>7. /\ nand \in [Sectors -> Cells] /\ sector_buf \in Cells /\ faulted \in BOOLEAN
      /\ ok \in BOOLEAN
  BY DEF Inv, TypeOK, Outcomes
<1>8. CASE k = 0
  <2>1. nand' = nand
    <3>1. ASSUME NEW s \in Sectors  PROVE s \notin target .. (target + 0 - 1)
      BY <1>4
    <3>2. nand' = [s \in Sectors |-> nand[s]]
      BY <1>6, <1>8, <3>1 DEF Stored
    <3> QED BY <1>7, <3>2
  <2>2. faulted' = TRUE
    <3>1. 0 # 1
      OBVIOUS
    <3>2. ~ok
      BY <1>6, <1>8, <3>1
    <3> QED BY <1>5, <3>2
  <2> QED BY <1>3, <1>7, <2>1, <2>2 DEF target
<1>9. CASE k = 1
  <2>1. <<sector_buf>>[0 + target - target + 1] = sector_buf
    <3>1. 0 + target - target + 1 = 1
      BY <1>4
    <3> QED BY <3>1
  <2>2. ASSUME NEW s \in Sectors
        PROVE  nand'[s] = IF s = target THEN Crypt(target, sector_buf) ELSE nand[s]
    <3>1. s \in target .. (target + 1 - 1) <=> s = target
      BY <1>4, Sizes DEF Sectors
    <3> QED BY <1>6, <1>9, <2>1, <3>1 DEF Stored
  <2>3. nand' \in [Sectors -> Cells]
    <3>1. nand' = [s \in Sectors |-> IF s = target THEN Crypt(target, sector_buf) ELSE nand[s]]
      BY <1>6, <1>9, <2>2 DEF Stored
    <3>2. Crypt(target, sector_buf) \in Cells
      BY <1>3, <1>7, CryptTwice
    <3> QED BY <1>7, <3>1, <3>2
  <2> QED BY <1>3, <1>5, <1>7, <2>2, <2>3 DEF target
<1> QED BY <1>6, <1>8, <1>9

LEMMA MergeWriteInv ==
  ASSUME Inv, MergeWrite
  PROVE  Inv' /\ MergeStep
<1> DEFINE target == BOOT + RESERVED + merge.sector + merge.stage * SPF
           source == BOOT + RESERVED + merge.sector
           Copy(stage, x) == BOOT + RESERVED + x + stage * SPF
<1>1. /\ pc = "merge_write" /\ merge.fats = FATS /\ merge.reserved = RESERVED
      /\ merge.spf = SPF /\ FATS > 1 /\ fat_sig_fix_offset = BOOT /\ DSiChip(nand)
      /\ merge.sector \in 0 .. (SPF - 1) /\ merge.stage \in 1 .. (FATS - 1)
  <2>1. pc = "merge_write" /\ Merging
    BY Sizes DEF Inv, MergeInv, MergeWrite, MergeNext, Merging
  <2>2. merge.stage \in Nat \ {0} /\ merge.stage < FATS
    BY <2>1 DEF Inv, TypeOK, MergeInv
  <2>3. merge.stage \in 1 .. (FATS - 1)
    BY <2>2, Sizes
  <2> QED BY <2>1, <2>3, MergeTarget
<1>2. /\ target \in Sectors /\ nand' \in [Sectors -> Cells]
      /\ \A s \in Sectors \ {target} : nand'[s] = nand[s]
      /\ \/ nand' = nand /\ faulted'
         \/ nand'[target] = Crypt(target, sector_buf)
      /\ faulted' \in BOOLEAN /\ (faulted => faulted')
  BY MergeWriteStores
<1>3. target # 0 /\ target # BOOT
  <2>1. merge.stage \in 0 .. (FATS - 1)
    BY <1>1, Sizes
  <2> QED BY <1>1, <2>1, CopyOnChip, Sizes
<1>4. nand'[0] = nand[0] /\ nand'[BOOT] = nand[BOOT]
  BY <1>2, <1>3, SectorZero
<1>5. DSiChip(nand')
  BY <1>1, <1>4, SameChip
<1>6. /\ UNCHANGED <<crypt_buf, sector_buf, fat_sig_fix_offset, is3DS, io, buffer, cur, ret>>
      /\ \/ /\ merge.stage + 1 < FATS /\ pc' = "merge_write"
            /\ merge' = [merge EXCEPT !.stage = @ + 1]
         \/ /\ ~(merge.stage + 1 < FATS) /\ pc' = "merge_read"
            /\ merge' = [merge EXCEPT !.sector = @ + 1]
  BY <1>1 DEF MergeWrite, MergeNext
<1>7. /\ merge'.fats = FATS /\ merge'.reserved = RESERVED /\ merge'.spf = SPF
      /\ merge' \in [fats : Nat, reserved : Nat, spf : Nat, sector : Nat, stage : Nat \ {0}]
      /\ \/ /\ pc' = "merge_write" /\ merge'.stage = merge.stage + 1 /\ merge'.stage < FATS
            /\ merge'.sector = merge.sector
         \/ /\ pc' = "merge_read" /\ merge'.sector = merge.sector + 1
            /\ merge.stage + 1 >= FATS
  <2>1. merge \in [fats : Nat, reserved : Nat, spf : Nat, sector : Nat, stage : Nat \ {0}]
    BY DEF Inv, TypeOK
  <2>2. CASE /\ merge.stage + 1 < FATS /\ pc' = "merge_write"
             /\ merge' = [merge EXCEPT !.stage = @ + 1]
    BY <1>1, <2>1, <2>2
  <2>3. CASE /\ ~(merge.stage + 1 < FATS) /\ pc' = "merge_read"
             /\ merge' = [merge EXCEPT !.sector = @ + 1]
    BY <1>1, <2>1, <2>3, Sizes
  <2> QED BY <1>6, <2>2, <2>3
<1>8. TypeOK'
  BY <1>1, <1>2, <1>6, <1>7 DEF Inv, TypeOK
<1>9. sector_buf \in Cells /\ (~faulted => sector_buf = Disk[source])
  BY <1>1 DEF Inv, TypeOK, MergeInv
<1>10. /\ \A s \in Sectors \ {target} : Disk'[s] = Disk[s]
       /\ ~faulted' => Disk'[target] = sector_buf
  BY <1>2, <1>9, CryptTwice DEF Disk, DiskOf
<1>11. ASSUME NEW stage \in 0 .. (FATS - 1), NEW x \in 0 .. (SPF - 1), Copy(stage, x) = target
       PROVE  stage = merge.stage /\ x = merge.sector
  <2>1. stage \in Nat /\ merge.stage \in Nat
    BY <1>1, Sizes
  <2>2. stage * SPF \in Nat /\ merge.stage * SPF \in Nat /\ x \in Nat /\ merge.sector \in Nat
    BY <1>1, <2>1, Sizes
  <2>3. x + stage * SPF = merge.sector + merge.stage * SPF
    BY <1>11, <2>2, Sizes
  <2> QED BY <1>1, <2>1, <2>3, CopiesApart
<1>12. ASSUME NEW x \in 0 .. (SPF - 1)
       PROVE  /\ BOOT + RESERVED + x \in Sectors /\ BOOT + RESERVED + x # target
              /\ Disk'[BOOT + RESERVED + x] = Disk[BOOT + RESERVED + x]
  <2>1. 0 \in 0 .. (FATS - 1) /\ Copy(0, x) = BOOT + RESERVED + x
    BY Sizes
  <2>2. BOOT + RESERVED + x \in Sectors
    BY <2>1, CopyOnChip
  <2>3. BOOT + RESERVED + x # target
    BY <1>1, <1>11, <2>1
  <2> QED BY <1>10, <2>2, <2>3
<1>13. ASSUME ~faulted', NEW stage \in 1 .. (FATS - 1), NEW x \in 0 .. (SPF - 1),
              Done(stage, x)'
       PROVE  Disk'[Copy(stage, x)] = Disk'[BOOT + RESERVED + x]
  <2>1. stage \in 0 .. (FATS - 1) /\ Copy(stage, x) \in Sectors
    <3>1. stage \in 0 .. (FATS - 1)
      BY Sizes
    <3> QED BY <3>1, CopyOnChip
  <2>2. CASE stage = merge.stage /\ x = merge.sector
    BY <1>2, <1>9, <1>10, <1>12, <1>13, <2>2
  <2>3. CASE ~(stage = merge.stage /\ x = merge.sector)
    <3>1. Copy(stage, x) # target
      BY <1>11, <2>1, <2>3
    <3>2. Done(stage, x)
      <4>1. CASE pc' = "merge_write"
        BY <1>1, <1>7, <1>13, <2>3, <4>1, Sizes DEF Done
      <4>2. CASE pc' = "merge_read"
        BY <1>1, <1>7, <1>13, <2>3, <4>2, Sizes DEF Done
      <4> QED BY <1>7, <4>1, <4>2
    <3>3. Disk[Copy(stage, x)] = Disk[BOOT + RESERVED + x]
      BY <1>1, <1>2, <1>13, <3>2 DEF Inv, MergeInv
    <3> QED BY <1>10, <1>12, <2>1, <3>1, <3>3
  <2> QED BY <2>2, <2>3
<1> HIDE DEF target, source, Copy
<1>14. MergeInv'
  <2>1. pc' = "merge_write" =>
          merge'.sector < SPF /\ (~faulted' => sector_buf' = Disk'[BOOT + RESERVED + merge'.sector])
    BY <1>1, <1>2, <1>6, <1>7, <1>9, <1>12, Sizes DEF source
  <2> QED BY <1>1, <1>5, <1>7, <1>13, <2>1 DEF MergeInv, Copy
<1>15. ChipInv' /\ BootInv' /\ CallInv'
  BY <1>1, <1>5, <1>6, <1>7 DEF ChipInv, BootInv, CallInv
<1>16. MergeStep
  <2> SUFFICES ASSUME NEW s \in Sectors, nand'[s] # nand[s]
               PROVE  \E stage \in 1 .. (FATS - 1), x \in 0 .. (SPF - 1) :
                        /\ s = BOOT + RESERVED + x + stage * SPF
                        /\ ~faulted' => Disk'[s] = Disk[BOOT + RESERVED + x]
    BY DEF MergeStep
  <2>1. s = target
    BY <1>2
  <2>2. ~faulted' => Disk'[s] = Disk[source]
    BY <1>2, <1>9, <1>10, <2>1
  <2> QED BY <1>1, <2>1, <2>2 DEF target, source
<1> QED BY <1>8, <1>14, <1>15, <1>16 DEF Inv

LEMMA ShutdownEndInv ==
  ASSUME Inv, ShutdownEnd
  PROVE  Inv'
<1>1. TypeOK'
  BY DEF Inv, TypeOK, ShutdownEnd
<1>2. DSiChip(nand)' <=> DSiChip(nand)
  BY DEF ShutdownEnd, DSiChip
<1>3. OtherChip(nand)' <=> OtherChip(nand)
  BY DEF ShutdownEnd, OtherChip
<1> QED BY <1>1, <1>2, <1>3 DEF Inv, ShutdownEnd, ChipInv, BootInv, CallInv, MergeInv

LEMMA PowerLossInv ==
  ASSUME Inv, PowerLoss
  PROVE  Inv'
<1>1. /\ nand' \in [Sectors -> Cells]
      /\ nand'[0] = nand[0] /\ nand'[BOOT] = nand[BOOT]
  <2>1. CASE UNCHANGED nand
    BY <2>1 DEF Inv, TypeOK
  <2>2. CASE /\ pc = "write"
             /\ \E k \in 1 .. ChunkLen(cur.len) :
                  /\ cur.offset + k <= NSECTORS
                  /\ nand' = Stored(cur.offset, k, buffer, cur.pos)
    <3>1. PICK k \in 1 .. ChunkLen(cur.len) : nand' = Stored(cur.offset, k, buffer, cur.pos)
      BY <2>2
    <3>2. cur.len \in Nat
      BY CallNumbers DEF Inv
    <3>3. k \in Nat /\ k <= cur.len
      BY <3>2, Sizes DEF ChunkLen
    <3> QED BY <2>2, <3>1, <3>3, CallStores
  <2> QED BY <2>1, <2>2 DEF PowerLoss
<1>2. (DSiChip(nand') <=> DSiChip(nand)) /\ (OtherChip(nand') <=> OtherChip(nand))
  BY <1>1, SameChip
<1>3. Plain(Zero) \in Cells
  BY ConstantAssumption DEF Plain, Cells
<1>4. buffer' \in Seq(Cells) /\ Len(buffer') = 0
  BY DEF PowerLoss
<1>5. /\ io' \in [offset : Nat, len : Nat] /\ cur' \in [offset : Nat, len : Nat, pos : Nat]
      /\ merge' \in [fats : Nat, reserved : Nat, spf : Nat, sector : Nat, stage : Nat \ {0}]
      /\ Len(buffer') = io'.len /\ cur'.offset = io'.offset + cur'.pos
      /\ cur'.pos + cur'.len = io'.len
  BY <1>4 DEF PowerLoss
<1>6. TypeOK'
  BY <1>1, <1>3, <1>4, <1>5 DEF PowerLoss, TypeOK
<1> QED BY <1>2, <1>6 DEF PowerLoss, Inv, ChipInv, BootInv, CallInv, MergeInv

LEMMA StutterInv ==
  ASSUME Inv, UNCHANGED vars
  PROVE  Inv'
  BY UnchangedInv DEF Inv, TypeOK, vars

-----------------------------------------------------------------------------
(* Every step of the specification preserves the invariant.                 *)
LEMMA NextInv ==
  ASSUME "mbr" \notin Faults
  PROVE  Inv /\ [Next]_vars => Inv'
<1> SUFFICES ASSUME Inv, [Next]_vars  PROVE Inv'
  OBVIOUS
<1>1. CASE Client
  BY <1>1, ClientInv
<1>2. CASE StartupRefused
  BY <1>2, UnchangedInv DEF StartupRefused
<1>3. CASE Startup
  BY <1>3, StartupInv
<1>4. CASE ReadChunk
  BY <1>4, ReadChunkInv
<1>5. CASE WriteChunk
  BY <1>5, WriteChunkInv
<1>6. CASE CallDone
  BY <1>6, CallDoneInv
<1>7. CASE ShutdownBegin
  BY <1>7, ShutdownBeginInv
<1>8. CASE MergeRead
  BY <1>8, MergeReadInv
<1>9. CASE MergeWrite
  BY <1>9, MergeWriteInv
<1>10. CASE ShutdownEnd
  BY <1>10, ShutdownEndInv
<1>11. CASE PowerLoss
  BY <1>11, PowerLossInv
<1>12. CASE UNCHANGED vars
  BY <1>12, StutterInv
<1> QED BY <1>1, <1>2, <1>3, <1>4, <1>5, <1>6, <1>7, <1>8, <1>9, <1>10, <1>11, <1>12
        DEF Next, Driver

LEMMA InvHolds ==
  ASSUME "mbr" \notin Faults
  PROVE  Spec => []Inv
  BY InitInv, NextInv, PTL DEF Spec

LEMMA DiskUnchanged ==
  ASSUME UNCHANGED nand
  PROVE  UNCHANGED Disk
  BY DEF Disk, DiskOf

(* The partition table and the boot record are never written.               *)
LEMMA FixedSectors ==
  ASSUME Inv, [Next]_vars
  PROVE  nand'[0] = nand[0] /\ nand'[BOOT] = nand[BOOT]
<1>1. CASE UNCHANGED nand
  BY <1>1
<1>2. CASE WriteChunk
  <2>1. PICK k \in Nat : k <= cur.len /\ nand' = Stored(cur.offset, k, buffer, cur.pos)
    <3>1. cur.len \in Nat \ {0}
      BY <1>2, CallNumbers DEF Inv, WriteChunk
    <3>2. ChunkLen(cur.len) \in 1 .. cur.len
      BY <3>1, ChunkLenBounds
    <3>3. ChunkLen(cur.len) \in 0 .. ChunkLen(cur.len)
      BY <3>1, <3>2
    <3>4. \E k \in 0 .. ChunkLen(cur.len) : nand' = Stored(cur.offset, k, buffer, cur.pos)
      BY <1>2, <3>3 DEF WriteChunk
    <3> QED BY <3>1, <3>2, <3>4
  <2> QED BY <1>2, <2>1, CallStores DEF WriteChunk
<1>3. CASE MergeWrite
  <2>1. /\ merge.sector \in 0 .. (SPF - 1) /\ merge.stage \in 0 .. (FATS - 1)
    <3>1. Merging /\ pc = "merge_write" /\ merge.stage < FATS /\ merge.stage \in Nat
      BY <1>3, Sizes DEF Inv, TypeOK, MergeInv, MergeWrite, Merging
    <3> QED BY <3>1, MergeTarget, Sizes
  <2>2. BOOT + RESERVED + merge.sector + merge.stage * SPF > BOOT
    BY <2>1, CopyOnChip
  <2>3. BOOT + RESERVED + merge.sector + merge.stage * SPF \notin {0, BOOT}
    BY <2>2, Sizes
  <2> QED BY <1>3, <2>3, MergeWriteStores, SectorZero
<1>4. CASE PowerLoss /\ ~UNCHANGED nand
  <2>1. pc = "write" /\ \E k \in 1 .. ChunkLen(cur.len) :
                           nand' = Stored(cur.offset, k, buffer, cur.pos)
    BY <1>4 DEF PowerLoss
  <2>2. cur.len \in Nat /\ CRYPT_BUF_LEN \in Nat
    BY CallNumbers, Sizes DEF Inv
  <2>3. PICK k \in Nat : k <= cur.len /\ nand' = Stored(cur.offset, k, buffer, cur.pos)
    BY <2>1, <2>2 DEF ChunkLen
  <2> QED BY <2>1, <2>3, CallStores
<1>5. UNCHANGED nand \/ WriteChunk \/ MergeWrite \/ PowerLoss
  BY DEF Next, Driver, Client, Enter, StartupRefused, Startup, ReadChunk, CallDone,
         ShutdownBegin, MergeRead, ShutdownEnd, vars
<1> QED BY <1>1, <1>2, <1>3, <1>4, <1>5

-----------------------------------------------------------------------------
(* nandio.c keeps its types, and the loop variables of every call describe  *)
(* the rest of the caller's buffer.                                         *)
THEOREM TypeCorrect ==
  ASSUME "mbr" \notin Faults
  PROVE  Spec => []TypeOK
<1>1. Inv => TypeOK
  BY DEF Inv
<1> QED BY <1>1, InvHolds, PTL

LEMMA EndSynchronized ==
  ASSUME Inv, pc = "merge_read", ~Merging, ~faulted
  PROVE  Synchronized
<1> SUFFICES ASSUME NEW stage \in 1 .. (FATS - 1), NEW x \in 0 .. (SPF - 1)
             PROVE  Disk[BOOT + RESERVED + x + stage * SPF] = Disk[BOOT + RESERVED + x]
  BY DEF Synchronized
<1>1. FATS > 1 /\ merge.sector \in Nat
  BY Sizes DEF Inv, TypeOK
<1>2. merge.spf = SPF /\ merge.fats = FATS
  BY <1>1, Sizes DEF Inv, MergeInv
<1>3. x < merge.sector
  BY <1>1, <1>2, Sizes DEF Merging
<1> QED BY <1>3 DEF Inv, MergeInv, Done

(* nandio_shutdown (nandio.c:194-227) returns with all FAT copies equal to  *)
(* the first unless a transfer failed since startup, for every number of    *)
(* copies and every size of the FAT.                                        *)
THEOREM Synchronizes ==
  ASSUME "mbr" \notin Faults
  PROVE  Spec => []ShutdownSynchronizes
<1>1. Inv => ShutdownSynchronizes
  BY EndSynchronized DEF ShutdownSynchronizes
<1> QED BY <1>1, InvHolds, PTL

(* nandio.c:66-73, 201.  Whatever else fails, nandio_shutdown takes the     *)
(* boot record for what it is if the partition table was read at startup:   *)
(* the read that nandio_startup does not check is the only way to merge     *)
(* with the fields of another sector.                                       *)
THEOREM MergesBootRecord ==
  ASSUME "mbr" \notin Faults
  PROVE  Spec => []MergeUsesBootRecord
<1>1. Inv => MergeUsesBootRecord
  BY DEF Inv, MergeInv, BootInv, MergeUsesBootRecord
<1> QED BY <1>1, InvHolds, PTL

(* The merge of nandio_shutdown changes nothing but FAT copies after the    *)
(* first, whichever of its transfers fail: the copy the file system works   *)
(* with, the boot record and the files are out of its reach.                *)
THEOREM MergeIsConfined ==
  ASSUME "mbr" \notin Faults
  PROVE  Spec => MergeConfined
<1>1. Inv /\ [Next]_vars => [(pc \in {"merge_read", "merge_write"}) => MergeStep]_vars
  <2> SUFFICES ASSUME Inv, Next, pc \in {"merge_read", "merge_write"}
               PROVE  MergeStep
    OBVIOUS
  <2>1. CASE MergeWrite
    BY <2>1, MergeWriteInv
  <2>2. CASE UNCHANGED nand
    BY <2>2 DEF MergeStep
  <2>3. MergeWrite \/ UNCHANGED nand
    BY DEF Next, Client, Enter, Driver, StartupRefused, Startup, ReadChunk, WriteChunk,
           CallDone, ShutdownBegin, MergeRead, ShutdownEnd, PowerLoss
  <2> QED BY <2>1, <2>2, <2>3
<1> QED BY <1>1, InvHolds, PTL DEF Spec, MergeConfined
-----------------------------------------------------------------------------
(* NandIO implements PlainDisk: libfat sees a disk of plain sectors, for     *)
(* chips, geometries, requests and sizes of the bounce buffer of every kind. *)
(* A chip is that of a DSi or that of a 3DS, whose NCSD header tells so: on  *)
(* any other chip the driver takes noise for a partition table and may       *)
(* repair a sector that is no boot record.                                   *)

(* On a chip that is not a DSi's no sector is repaired, as the header stays. *)
RepairInv ==
  /\ DSiChip(nand) \/ IsNcsd(nand[0])
  /\ pc # "down" => fat_sig_fix_offset \in {0, BOOT}

-----------------------------------------------------------------------------
LEMMA InitRepair ==
  ASSUME KnownChips
  PROVE  Init => RepairInv
  BY DEF KnownChips, Init, RepairInv

(* Where the partition is, is found out once, and sector 0 never changes.    *)
LEMMA StartupRepair ==
  ASSUME "mbr" \notin Faults, Inv, RepairInv, Startup
  PROVE  RepairInv'
<1>1. /\ is3DS' = IsNcsd(nand[0]) /\ (is3DS' => fat_sig_fix_offset' = 0)
      /\ UNCHANGED nand
  <2>1. 0 + 1 <= NSECTORS /\ ~(0 + 1 > NSECTORS)
    BY Sizes
  <2>2. Outcomes("mbr", 0, 1) = {TRUE}
    BY <2>1, Zenon DEF Outcomes
  <2> QED BY <2>2 DEF Startup
<1>2. (DSiChip(nand) <=> DSiChip(nand)') /\ IsNcsd(nand[0])' = IsNcsd(nand[0])
  BY <1>1 DEF DSiChip, IsNcsd
<1>3. CASE IsNcsd(nand[0])
  BY <1>1, <1>2, <1>3 DEF RepairInv
<1>4. CASE DSiChip(nand)
  <2>1. Inv'
    BY StartupInv
  <2>2. pc' # "down" => fat_sig_fix_offset' = BOOT
    BY <1>2, <1>4, <2>1 DEF Inv, BootInv
  <2> QED BY <1>2, <1>4, <2>2 DEF RepairInv
<1> QED BY <1>3, <1>4 DEF RepairInv

(* Every other step leaves sector 0 alone, and the place of the partition    *)
(* until the driver is shut down.                                            *)
LEMMA NextRepair ==
  ASSUME "mbr" \notin Faults
  PROVE  Inv /\ RepairInv /\ [Next]_vars => RepairInv'
<1> SUFFICES ASSUME Inv, RepairInv, [Next]_vars  PROVE RepairInv'
  OBVIOUS
<1>1. CASE Startup
  BY <1>1, StartupRepair
<1>2. CASE ~Startup
  <2>1. pc' = "down" \/ (pc # "down" /\ UNCHANGED fat_sig_fix_offset)
    BY <1>2 DEF Next, Driver, Client, Enter, StartupRefused, ReadChunk, WriteChunk, CallDone,
                ShutdownBegin, MergeRead, MergeWrite, ShutdownEnd, PowerLoss, vars
  <2>2. (DSiChip(nand') <=> DSiChip(nand)) /\ nand'[0] = nand[0]
    BY FixedSectors, SameChip
  <2> QED BY <2>1, <2>2 DEF RepairInv, IsNcsd
<1> QED BY <1>1, <1>2

LEMMA RepairHolds ==
  ASSUME "mbr" \notin Faults, KnownChips
  PROVE  Spec => [](Inv /\ RepairInv)
<1>1. Init => RepairInv
  BY InitRepair
<1> QED BY <1>1, NextRepair, InvHolds, PTL DEF Spec
-----------------------------------------------------------------------------
(* Each step seen through the decryption of the chip.                        *)

LEMMA InitPromise == Init => PD!Init
  BY DEF Init, PD!Init, Disk

(* A sector's place on the disk, and its place in the caller's buffer.       *)
LEMMA Places ==
  ASSUME NEW first \in Nat, NEW moved \in Nat, NEW k \in Nat, NEW s \in Int
  PROVE  /\ s \in (first + moved) .. (first + moved + k - 1)
              <=> s - first + 1 \in (moved + 1) .. (moved + k)
         /\ moved + s - (first + moved) + 1 = s - first + 1
  OBVIOUS

(* What was written encrypted under each sector's own number is found there  *)
(* again when the chip is decrypted.                                         *)
LEMMA WrittenPortion ==
  ASSUME TypeOK, NEW k \in Nat, k <= cur.len,
         nand' = Stored(cur.offset, k, buffer, cur.pos)
  PROVE  Disk' = PD!Stored(k)
<1>1. /\ cur.offset \in Nat /\ cur.pos \in Nat /\ cur.len \in Nat
      /\ io.offset \in Nat /\ io.len \in Nat
      /\ cur.offset = io.offset + cur.pos /\ cur.pos + cur.len = io.len
  BY CallNumbers
<1> SUFFICES ASSUME NEW s \in Sectors
             PROVE  Crypt(s, nand'[s]) =
                      IF s - io.offset + 1 \in (cur.pos + 1) .. (cur.pos + k)
                      THEN buffer[s - io.offset + 1] ELSE Crypt(s, nand[s])
  BY DEF Disk, DiskOf, PD!Stored, PD!Portion
<1>2. s \in Int
  BY Sizes DEF Sectors
<1>3. /\ s \in cur.offset .. (cur.offset + k - 1)
           <=> s - io.offset + 1 \in (cur.pos + 1) .. (cur.pos + k)
      /\ cur.pos + s - cur.offset + 1 = s - io.offset + 1
  BY <1>1, <1>2, Places
<1>4. CASE s \in cur.offset .. (cur.offset + k - 1)
  <2>1. /\ cur.pos + s - cur.offset + 1 = s - io.offset + 1
        /\ s - io.offset + 1 \in 1 .. io.len
    BY <1>1, <1>2, <1>3, <1>4
  <2>2. nand'[s] = Crypt(s, buffer[s - io.offset + 1])
    BY <1>4, <2>1 DEF Stored
  <2>3. buffer[s - io.offset + 1] \in Cells
    BY <2>1 DEF TypeOK
  <2> QED BY <1>3, <1>4, <2>2, <2>3, CryptTwice
<1>5. CASE s \notin cur.offset .. (cur.offset + k - 1)
  BY <1>3, <1>5 DEF Stored
<1> QED BY <1>4, <1>5

LEMMA StartPromise ==
  ASSUME Startup \/ StartupRefused
  PROVE  PD!PowerOn
  BY DiskUnchanged DEF Startup, StartupRefused, PD!PowerOn

LEMMA ClientPromise ==
  ASSUME Client
  PROVE  PD!Call
  BY RequestAssumption, DiskUnchanged DEF Client, Enter, PD!Call

LEMMA CallDonePromise ==
  ASSUME TypeOK, CallDone
  PROVE  PD!Finish
  BY CallNumbers, DiskUnchanged DEF CallDone, Return, PD!Finish

LEMMA PortionOnDisk ==
  ASSUME cur.offset \in Nat, cur.pos \in Nat, io.offset \in Nat, NEW n \in Nat,
         cur.offset = io.offset + cur.pos, cur.offset + n <= NSECTORS
  PROVE  PD!OnDisk(n)
<1> SUFFICES ASSUME NEW i \in (cur.pos + 1) .. (cur.pos + n)
             PROVE  io.offset + i - 1 \in 0 .. (NSECTORS - 1)
  BY DEF PD!OnDisk, PD!Portion, Sectors
<1>1. i \in Int /\ cur.pos + 1 <= i /\ i <= cur.pos + n /\ NSECTORS \in Nat
  BY Sizes
<1> QED BY <1>1

(* A read delivers the plain sectors, the boot record maybe repaired.        *)
LEMMA ReadPromise ==
  ASSUME Inv, RepairInv, ReadChunk
  PROVE  PD!Move \/ PD!Fail
<1> DEFINE n == ChunkLen(cur.len)
<1>1. /\ cur.offset \in Nat /\ cur.pos \in Nat /\ cur.len \in Nat \ {0}
      /\ io.offset \in Nat /\ io.len \in Nat
      /\ cur.offset = io.offset + cur.pos /\ cur.pos + cur.len = io.len
  BY CallNumbers DEF Inv, ReadChunk
<1>2. n \in 1 .. cur.len
  BY <1>1, ChunkLenBounds
<1>3. PICK ok \in Outcomes("read", cur.offset, n) :
        IF ok
        THEN /\ buffer' = [i \in DOMAIN buffer |->
                  IF i \in (cur.pos + 1) .. (cur.pos + n)
                  THEN Loaded(cur.offset, i - cur.pos) ELSE buffer[i]]
             /\ Advance(n)
             /\ UNCHANGED <<pc, ret, faulted>>
        ELSE Return(FALSE) /\ UNCHANGED <<buffer, cur>>
  BY DEF ReadChunk
<1>4. pc = "read" /\ UNCHANGED <<nand, io>> /\ UNCHANGED Disk
  BY DiskUnchanged DEF ReadChunk
<1> HIDE DEF n
<1>5. CASE ok
  <2>1. cur.offset + n <= NSECTORS
    BY <1>1, <1>2, <1>3, <1>5 DEF Outcomes
  <2>2. /\ n \in 1 .. (io.len - cur.pos) /\ cur'.pos = cur.pos + n
        /\ UNCHANGED <<pc, ret>>
    BY <1>1, <1>2, <1>3, <1>5 DEF Advance
  <2>3. PD!OnDisk(n)
    BY <1>1, <1>2, <2>1, PortionOnDisk
  <2>4. ASSUME NEW i \in DOMAIN buffer
        PROVE  IF i \in PD!Portion(n) THEN buffer'[i] \in PD!Images(io.offset + i - 1)
                                      ELSE buffer'[i] = buffer[i]
    <3>1. CASE i \in PD!Portion(n)
      <4>1. /\ i - cur.pos \in Nat \ {0} /\ cur.offset + (i - cur.pos) - 1 = io.offset + i - 1
            /\ (i - cur.pos = 1 => cur.offset = io.offset + i - 1)
            /\ io.offset + i - 1 \in Sectors
        <5>1. i \in Int /\ cur.pos + 1 <= i /\ i <= cur.pos + n
          BY <1>1, <1>2, <3>1 DEF PD!Portion
        <5>2. io.offset + i - 1 \in Sectors
          BY <2>3, <3>1 DEF PD!OnDisk
        <5> QED BY <1>1, <5>1, <5>2
      <4>2. buffer'[i] = Loaded(cur.offset, i - cur.pos)
        BY <1>3, <1>5, <3>1 DEF PD!Portion
      <4>3. Disk[io.offset + i - 1] = Crypt(io.offset + i - 1, nand[io.offset + i - 1])
        BY <4>1 DEF Disk, DiskOf
      <4>4. fat_sig_fix_offset \in {0, BOOT}
        BY <1>4 DEF RepairInv
      <4>5. buffer'[i] = IF i - cur.pos = 1 /\ fat_sig_fix_offset # 0 /\ cur.offset = fat_sig_fix_offset
                         THEN Repair(Disk[io.offset + i - 1]) ELSE Disk[io.offset + i - 1]
        BY <4>1, <4>2, <4>3 DEF Loaded
      <4> QED BY <3>1, <4>1, <4>4, <4>5 DEF PD!Images
    <3>2. CASE i \notin PD!Portion(n)
      BY <1>3, <1>5, <3>2 DEF PD!Portion
    <3> QED BY <3>1, <3>2
  <2>5. DOMAIN buffer' = DOMAIN buffer
    BY <1>3, <1>5
  <2>6. PD!ReadPortion(n)
    BY <1>4, <2>4, <2>5 DEF PD!ReadPortion
  <2> QED BY <1>4, <2>2, <2>3, <2>6 DEF PD!Move
<1>6. CASE ~ok
  BY <1>3, <1>4, <1>6 DEF Return, PD!Fail
<1> QED BY <1>5, <1>6

LEMMA WritePromise ==
  ASSUME Inv, WriteChunk
  PROVE  PD!Move \/ PD!Fail
<1> DEFINE n == ChunkLen(cur.len)
<1>1. /\ cur.offset \in Nat /\ cur.pos \in Nat /\ cur.len \in Nat \ {0}
      /\ io.offset \in Nat /\ io.len \in Nat
      /\ cur.offset = io.offset + cur.pos /\ cur.pos + cur.len = io.len
  BY CallNumbers DEF Inv, WriteChunk
<1>2. n \in 1 .. cur.len
  BY <1>1, ChunkLenBounds
<1>3. PICK ok \in Outcomes("write", cur.offset, n) :
        IF ok
        THEN /\ nand' = Stored(cur.offset, n, buffer, cur.pos)
             /\ Advance(n)
             /\ UNCHANGED <<pc, ret, faulted>>
        ELSE /\ \E k \in 0 .. n : nand' = Stored(cur.offset, k, buffer, cur.pos)
             /\ Return(FALSE)
             /\ UNCHANGED cur
  BY DEF WriteChunk
<1>4. pc = "write" /\ UNCHANGED <<io, buffer>>
  BY DEF WriteChunk
<1> HIDE DEF n
<1>5. CASE ok
  <2>1. cur.offset + n <= NSECTORS
    BY <1>1, <1>2, <1>3, <1>5 DEF Outcomes
  <2>2. /\ n \in 1 .. (io.len - cur.pos) /\ cur'.pos = cur.pos + n
        /\ UNCHANGED <<pc, ret>>
    BY <1>1, <1>2, <1>3, <1>5 DEF Advance
  <2>3. PD!OnDisk(n)
    BY <1>1, <1>2, <2>1, PortionOnDisk
  <2>4. PD!WritePortion(n)
    BY <1>1, <1>2, <1>3, <1>4, <1>5, WrittenPortion DEF Inv, PD!WritePortion
  <2> QED BY <1>4, <2>2, <2>3, <2>4 DEF PD!Move
<1>6. CASE ~ok
  <2>1. PICK k \in 0 .. n : nand' = Stored(cur.offset, k, buffer, cur.pos)
    BY <1>3, <1>6
  <2>2. k \in Nat /\ k <= cur.len /\ k \in 0 .. (io.len - cur.pos)
    BY <1>1, <1>2
  <2>3. PD!WritePortion(k)
    BY <1>4, <2>1, <2>2, WrittenPortion DEF Inv, PD!WritePortion
  <2> QED BY <1>3, <1>4, <1>6, <2>2, <2>3 DEF Return, PD!Fail
<1> QED BY <1>5, <1>6

(* The merge changes FAT copies after the first, or nothing.                 *)
LEMMA MergeWritePromise ==
  ASSUME Inv, MergeWrite
  PROVE  PD!MergeStep
<1>1. MergeStep /\ pc = "merge_write"
  BY MergeWriteInv DEF MergeWrite
<1>2. ASSUME NEW s \in Sectors \ Backups  PROVE Disk'[s] = Disk[s]
  <2>1. nand'[s] = nand[s]
    BY <1>1, <1>2 DEF MergeStep, Backups, FatCopy
  <2> QED BY <2>1 DEF Disk, DiskOf
<1>3. DOMAIN Disk' = Sectors
  BY DEF Disk, DiskOf
<1>4. pc' \in {"merge_read", "merge_write"} /\ UNCHANGED <<io, buffer, cur, ret>>
  BY <1>1 DEF MergeWrite
<1> QED BY <1>1, <1>2, <1>3, <1>4 DEF PD!MergeStep

LEMMA MergeReadPromise ==
  ASSUME MergeRead
  PROVE  UNCHANGED PD!vars
  BY DiskUnchanged DEF MergeRead, PD!vars

LEMMA ShutdownBeginPromise ==
  ASSUME ShutdownBegin
  PROVE  PD!MergeStart
  BY DiskUnchanged DEF ShutdownBegin, PD!MergeStart

LEMMA ShutdownEndPromise ==
  ASSUME ShutdownEnd
  PROVE  PD!MergeEnd
  BY DiskUnchanged DEF ShutdownEnd, PD!MergeEnd

LEMMA PowerLossPromise ==
  ASSUME Inv, PowerLoss
  PROVE  PD!PowerLoss
<1>1. pc' = "down"
  BY DEF PowerLoss
<1>2. CASE UNCHANGED nand
  BY <1>1, <1>2, DiskUnchanged DEF PD!PowerLoss
<1>3. CASE pc = "write" /\ \E k \in 1 .. ChunkLen(cur.len) :
                              nand' = Stored(cur.offset, k, buffer, cur.pos)
  <2>1. PICK k \in 1 .. ChunkLen(cur.len) : nand' = Stored(cur.offset, k, buffer, cur.pos)
    BY <1>3
  <2>2. /\ cur.pos \in Nat /\ cur.len \in Nat /\ io.len \in Nat
        /\ cur.pos + cur.len = io.len
    BY CallNumbers DEF Inv
  <2>3. k \in Nat /\ k <= cur.len /\ k \in 1 .. (io.len - cur.pos)
    BY <2>2, Sizes DEF ChunkLen
  <2>4. Disk' = PD!Stored(k)
    BY <2>1, <2>3, WrittenPortion DEF Inv
  <2> QED BY <1>1, <1>3, <2>3, <2>4 DEF PD!PowerLoss
<1> QED BY <1>2, <1>3 DEF PowerLoss

-----------------------------------------------------------------------------
(* nandio.c:111-227 gives libfat the disk it expects.  A call moves plain    *)
(* sectors between its range of the disk and the caller's buffer, in order   *)
(* and each to its own place; it returns TRUE only when all of them moved,   *)
(* and when it fails or the power goes a prefix did.  Nothing else changes   *)
(* the disk but the merge of nandio_shutdown, and that only FAT copies after *)
(* the first.                                                                *)
THEOREM KeepsPromise ==
  ASSUME "mbr" \notin Faults, KnownChips
  PROVE  Spec => DiskPromise
<1>1. Inv /\ RepairInv /\ [Next]_vars => [PD!Next]_PD!vars
  <2> SUFFICES ASSUME Inv, RepairInv, [Next]_vars  PROVE [PD!Next]_PD!vars
    OBVIOUS
  <2>1. CASE Startup \/ StartupRefused
    BY <2>1, StartPromise DEF PD!Next
  <2>2. CASE Client
    BY <2>2, ClientPromise DEF PD!Next
  <2>3. CASE ReadChunk
    BY <2>3, ReadPromise DEF PD!Next
  <2>4. CASE WriteChunk
    BY <2>4, WritePromise DEF PD!Next
  <2>5. CASE CallDone
    BY <2>5, CallDonePromise DEF PD!Next, Inv
  <2>6. CASE ShutdownBegin
    BY <2>6, ShutdownBeginPromise DEF PD!Next
  <2>7. CASE MergeRead
    BY <2>7, MergeReadPromise
  <2>8. CASE MergeWrite
    BY <2>8, MergeWritePromise DEF PD!Next
  <2>9. CASE ShutdownEnd
    BY <2>9, ShutdownEndPromise DEF PD!Next
  <2>10. CASE PowerLoss
    BY <2>10, PowerLossPromise DEF PD!Next
  <2>11. CASE UNCHANGED vars
    BY <2>11, DiskUnchanged DEF vars, PD!vars
  <2> QED BY <2>1, <2>2, <2>3, <2>4, <2>5, <2>6, <2>7, <2>8, <2>9, <2>10, <2>11
          DEF Next, Driver
<1> QED BY <1>1, InitPromise, RepairHolds, PTL DEF Spec, DiskPromise, PD!Spec

-----------------------------------------------------------------------------
(* Part 2: NandSession.                                                       *)
-----------------------------------------------------------------------------
(* Induction over the natural numbers, in the form of a set.                  *)

Less == {pair \in Nat \X Nat : pair[1] < pair[2]}

LEMMA LessWellFounded == IsWellFoundedOn(Less, Nat)
  BY NatLessThanWellFounded DEF OpToRel, Less

LEMMA LeastElement ==
  ASSUME NEW S \in SUBSET Nat, S # {}
  PROVE  \E x \in S : \A y \in S : x <= y
<1>1. PICK x \in S : \A y \in S : ~(<<y, x>> \in Less)
  BY WFMin, LessWellFounded
<1>2. \A y \in S : ~(y < x)
  BY <1>1 DEF Less
<1> QED BY <1>2

LEMMA SetInduction ==
  ASSUME NEW S, 0 \in S, \A n \in Nat : n \in S => n + 1 \in S
  PROVE  \A n \in Nat : n \in S
<1> SUFFICES ASSUME Nat \ S # {}  PROVE FALSE
  OBVIOUS
<1>1. PICK x \in Nat \ S : \A y \in Nat \ S : x <= y
  BY LeastElement
<1>2. x - 1 \in Nat
  BY <1>1
<1>3. x - 1 \in S
  BY <1>1, <1>2
<1> QED BY <1>1, <1>2, <1>3

(* The recursion in ReachedFrom has a solution.                               *)
Steps(table, c, m, f) ==
  f = [n \in 0 .. m |-> IF n = 0 THEN {c} ELSE Successor(table, f[n - 1])]

LEMMA StepsExist ==
  ASSUME NEW table, NEW c, NEW m \in Nat
  PROVE  \E f : Steps(table, c, m, f)
<1> DEFINE S == {n \in Nat : \E f : Steps(table, c, n, f)}
<1>1. 0 \in S
  <2> DEFINE f == [n \in 0 .. 0 |-> {c}]
  <2>1. Steps(table, c, 0, f)
    BY DEF Steps
  <2> QED BY <2>1
<1>2. ASSUME NEW n \in Nat, n \in S  PROVE n + 1 \in S
  <2>1. PICK f : Steps(table, c, n, f)
    BY <1>2
  <2> DEFINE g == [i \in 0 .. (n + 1) |-> IF i = n + 1 THEN Successor(table, f[n]) ELSE f[i]]
  <2>2. ASSUME NEW i \in 0 .. (n + 1)
        PROVE  g[i] = IF i = 0 THEN {c} ELSE Successor(table, g[i - 1])
    <3>1. CASE i = 0
      BY <2>1, <3>1 DEF Steps
    <3>2. CASE i = n + 1
      <4>1. g[n + 1] = Successor(table, f[n]) /\ g[n] = f[n] /\ n + 1 - 1 = n /\ n + 1 # 0
        OBVIOUS
      <4> QED BY <3>2, <4>1
    <3>3. CASE i \in 1 .. n
      <4>1. g[i] = f[i] /\ g[i - 1] = f[i - 1] /\ i # 0 /\ i \in 0 .. n
        BY <3>3
      <4> HIDE DEF g
      <4>2. f[i] = Successor(table, f[i - 1])
        BY <2>1, <4>1 DEF Steps
      <4> QED BY <4>1, <4>2
    <3> QED BY <3>1, <3>2, <3>3
  <2>3. g = [i \in 0 .. (n + 1) |-> g[i]]
    OBVIOUS
  <2> HIDE DEF g
  <2>4. g = [i \in 0 .. (n + 1) |-> IF i = 0 THEN {c} ELSE Successor(table, g[i - 1])]
    BY <2>2, <2>3
  <2>5. Steps(table, c, n + 1, g)
    BY <2>4 DEF Steps
  <2> QED BY <2>5
<1> HIDE DEF S
<1>3. \A n \in Nat : n \in S
  BY <1>1, <1>2, SetInduction
<1> QED BY <1>3 DEF S

LEMMA StepAfter ==
  ASSUME NEW table, NEW c, NEW m \in Nat, NEW f, Steps(table, c, m, f), NEW i \in 1 .. m
  PROVE  f[i] = Successor(table, f[i - 1])
<1>1. i # 0 /\ i \in 0 .. m
  OBVIOUS
<1> QED BY <1>1 DEF Steps

(* No way leads into a set of clusters that no cluster outside points into.   *)
LEMMA ReachedOutside ==
  ASSUME NEW table, NEW c, NEW X, c \notin X, \A d \in Clusters \ X : table[d] \notin X
  PROVE  ReachedFrom(table, c) \cap X = {}
<1>1. NCLUSTERS \in Nat
  BY VolumeAssumption
<1>2. PICK step : /\ Steps(table, c, NCLUSTERS, step)
                  /\ ReachedFrom(table, c) = step[NCLUSTERS] \cap Clusters
  <2> DEFINE step == CHOOSE f : Steps(table, c, NCLUSTERS, f)
  <2>1. Steps(table, c, NCLUSTERS, step)
    BY <1>1, StepsExist
  <2>2. ReachedFrom(table, c) = step[NCLUSTERS] \cap Clusters
    BY DEF ReachedFrom, Steps
  <2> QED BY <2>1, <2>2
<1> DEFINE S == {n \in Nat : n <= NCLUSTERS => step[n] \cap X = {}}
<1>4. 0 \in S
  BY <1>1, <1>2 DEF Steps
<1>5. ASSUME NEW n \in Nat, n \in S  PROVE n + 1 \in S
  <2> SUFFICES ASSUME n + 1 <= NCLUSTERS  PROVE step[n + 1] \cap X = {}
    OBVIOUS
  <2>1. step[n] \cap X = {} /\ n + 1 \in 0 .. NCLUSTERS /\ n + 1 # 0 /\ n + 1 - 1 = n
    BY <1>1, <1>5
  <2>2. step[n + 1] = Successor(table, step[n])
    <3>1. n + 1 \in 1 .. NCLUSTERS
      BY <2>1
    <3>3. Steps(table, c, NCLUSTERS, step)
      BY <1>2
    <3>4. \A i \in 1 .. NCLUSTERS : step[i] = Successor(table, step[i - 1])
      BY <1>1, <3>3, StepAfter
    <3>2. step[n + 1] = Successor(table, step[n + 1 - 1])
      BY <3>1, <3>4
    <3> QED BY <2>1, <3>2
  <2> QED BY <2>1, <2>2 DEF Successor
<1> HIDE DEF S
<1>6. NCLUSTERS \in S
  BY <1>1, <1>4, <1>5, SetInduction
<1> QED BY <1>1, <1>2, <1>6 DEF S

-----------------------------------------------------------------------------
(* The inductive invariant.                                                   *)

FatPlaces   == {Place(x) : x \in 0 .. (SPF - 1)}
FileSectors == {ClusterSector(c) : c \in FileClusters}

(* d is sector x of a table that keeps the system file.                       *)
FatContent(d, x) == \E t \in Tables : Sound(t) /\ d = FatImage(t, Place(x))

(* What libfat caches: sectors of sound tables, directory entries that do not *)
(* lead into the system file, and clusters of other files.                    *)
GoodCache(new) ==
  /\ DOMAIN new \subseteq FatPlaces \cup {DIR} \cup FileSectors
  /\ \A s \in DOMAIN new :
       /\ new[s] \in Data
       /\ \A x \in 0 .. (SPF - 1) : s = Place(x) => FatContent(new[s], x)
       /\ s = DIR => Directory(new[s])

(* The same of the disk; the clusters of the system file hold their content.  *)
GoodDisk(disk) ==
  /\ \A x \in 0 .. (SPF - 1) :
       disk[Place(x)].pads = {} /\ FatContent(disk[Place(x)].data, x)
  /\ disk[DIR].pads = {} /\ Directory(disk[DIR].data)
  /\ \A i \in 1 .. Len(SYSTEM) : disk[ClusterSector(SYSTEM[i])] = Plain(<<"system", i>>)

(* Which state of the driver goes with which state of the program.            *)
ProgInv ==
  /\ prog \in {"off", "open", "write", "close", "flush", "unmount", "merge", "success", "error"}
  /\ prog \in {"off", "success"} => pc = "down"
  /\ prog \in {"open", "write", "close", "flush", "unmount"} => pc \in {"ready", "write"}
  /\ prog = "merge" => pc \in {"ready", "merge_read", "merge_write"}
  /\ prog = "error" => pc \in {"ready", "down"}
  /\ DSiChip(nand)

(* How far the file is written.                                               *)
FileInv ==
  /\ version \in {0, 1}
  /\ chain \in Seq(FileClusters)
  /\ prog \in {"off", "open"} => pos = 0 /\ chain = <<>> /\ pending = {}
  /\ prog = "write" => \/ pos = 0 /\ chain = <<>> /\ pending = {}
                       \/ pos \in 1 .. SIZE /\ Len(chain) = pos - 1 /\ pending = {pos}
  /\ prog \in {"close", "flush", "unmount", "merge", "success"} =>
       pos = SIZE /\ Len(chain) \in {SIZE - 1, SIZE} /\ pending = {}

(* A call of the driver writes one cached sector back.                        *)
EvictInv ==
  /\ evicting \subseteq DOMAIN cache
  /\ \A s, t \in evicting : s = t
  /\ evicting # {} => prog \in {"write", "close", "flush", "unmount"}
  /\ pc = "write" => \E s \in evicting :
                       io = [offset |-> s, len |-> 1] /\ buffer = <<Plain(cache[s])>>

SessionInv ==
  Inv /\ ProgInv /\ FileInv /\ EvictInv /\ GoodCache(cache) /\ GoodDisk(Disk)

(* Every backup copy keeps the system file too, as long as no read fails: the *)
(* sector that the merge carries is then one of the first copy.               *)
BackupInv ==
  /\ \A k \in 1 .. (FATS - 1), x \in 0 .. (SPF - 1) :
       LET c == Disk[Place(x) + k * SPF] IN c.pads = {} /\ FatContent(c.data, x)
  /\ pc = "merge_write" => sector_buf = Disk[Place(merge.sector)]

-----------------------------------------------------------------------------
(* The geometry of the partition.                                             *)

LEMMA VolumeSizes ==
  /\ NCLUSTERS \in Nat \ {0} /\ PER_SECTOR \in Nat \ {0} /\ SIZE \in Nat \ {0}
  /\ NCLUSTERS <= SPF * PER_SECTOR
  /\ DIR \in Nat /\ BOOT + RESERVED + FATS * SPF <= DIR /\ DIR + NCLUSTERS < NSECTORS
  /\ SYSTEM \in Seq(Clusters) /\ SystemClusters \subseteq Clusters
  /\ \A i \in 1 .. Len(SYSTEM) : SYSTEM[i] \in SystemClusters
<1>1. SYSTEM \in Seq(Clusters)
  BY VolumeAssumption
<1>2. \A i \in 1 .. Len(SYSTEM) : SYSTEM[i] \in Clusters
  BY <1>1
<1> QED BY <1>1, <1>2, VolumeAssumption DEF SystemClusters

(* The sectors of the first copy.                                             *)
LEMMA PlaceSector ==
  ASSUME NEW x \in 0 .. (SPF - 1)
  PROVE  /\ Place(x) \in Sectors /\ Place(x) \notin {0, BOOT} /\ Place(x) < DIR
         /\ Place(x) \in Nat /\ \A y \in 0 .. (SPF - 1) : Place(y) = Place(x) => y = x
<1>1. 0 \in 0 .. (FATS - 1) /\ 0 * SPF = 0 /\ Place(x) \in Nat
  BY Sizes DEF Place
<1>2. Place(x) + 0 * SPF \in Sectors /\ Place(x) + 0 * SPF > BOOT
  BY <1>1, CopyOnChip DEF Place
<1>3. Place(x) \in Sectors /\ Place(x) > BOOT
  BY <1>1, <1>2
<1>4. FATS * SPF >= SPF
  <2>1. FATS * SPF = SPF + (FATS - 1) * SPF /\ (FATS - 1) * SPF \in Nat
    BY Sizes
  <2> QED BY <2>1, Sizes
<1>5. Place(x) < DIR
  BY <1>4, Sizes, VolumeSizes DEF Place
<1>6. ASSUME NEW y \in 0 .. (SPF - 1), Place(y) = Place(x)  PROVE y = x
  BY <1>6, Sizes DEF Place
<1> QED BY <1>1, <1>3, <1>5, <1>6, Sizes

(* The sectors of the backup copies lie apart from them, before the directory. *)
LEMMA BackupSector ==
  ASSUME NEW k \in 1 .. (FATS - 1), NEW x \in 0 .. (SPF - 1)
  PROVE  /\ Place(x) + k * SPF \in Sectors /\ Place(x) + k * SPF < DIR
         /\ \A y \in 0 .. (SPF - 1) : Place(y) # Place(x) + k * SPF
<1>1. k \in 0 .. (FATS - 1) /\ k \in Nat /\ k # 0 /\ x \in Nat /\ k * SPF \in Nat
  BY Sizes
<1>2. Place(x) + k * SPF \in Sectors
  BY <1>1, CopyOnChip DEF Place
<1>3. k * SPF + SPF <= FATS * SPF
  <2>1. FATS * SPF = k * SPF + SPF + (FATS - 1 - k) * SPF /\ (FATS - 1 - k) * SPF \in Nat
    BY <1>1, Sizes
  <2> QED BY <1>1, <2>1, Sizes
<1>4. Place(x) + k * SPF < DIR
  <2>1. FATS * SPF \in Nat
    BY Sizes
  <2> QED BY <1>1, <1>3, <2>1, Sizes, VolumeSizes DEF Place
<1>5. ASSUME NEW y \in 0 .. (SPF - 1), Place(y) = Place(x) + k * SPF  PROVE FALSE
  <2>1. y + 0 * SPF = x + k * SPF
    BY <1>1, <1>5, Sizes DEF Place
  <2> QED BY <1>1, <2>1, CopiesApart
<1> QED BY <1>2, <1>4, <1>5

(* The directory and the clusters lie behind all of them.                     *)
LEMMA ClusterPlace ==
  /\ DIR \in Sectors \ {0, BOOT}
  /\ \A c \in Clusters :
       /\ ClusterSector(c) \in Sectors \ {0, BOOT} /\ ClusterSector(c) > DIR
       /\ \A d \in Clusters : ClusterSector(c) = ClusterSector(d) => c = d
<1>1. FATS * SPF \in Nat /\ BOOT + RESERVED <= DIR /\ DIR > BOOT
  BY Sizes, VolumeSizes
<1> QED BY <1>1, Sizes, VolumeSizes DEF Sectors, Clusters, ClusterSector

LEMMA DirectoryApart == \A x \in 0 .. (SPF - 1) : Place(x) # DIR
<1>1. \A x \in 0 .. (SPF - 1) : Place(x) \in Nat /\ Place(x) < DIR
  BY PlaceSector
<1> QED BY <1>1, VolumeSizes

LEMMA Behind ==
  ASSUME NEW S, NEW a \in S, NEW f \in Seq(S), NEW i \in 1 .. Len(f)
  PROVE  (<<a>> \o f)[i + 1] = f[i]
<1>1. <<a>> \in Seq(S) /\ Len(<<a>>) = 1 /\ Len(f) \in Nat
  OBVIOUS
<1>2. i + 1 \in 1 .. (Len(<<a>>) + Len(f)) /\ ~(i + 1 <= Len(<<a>>)) /\ i + 1 - Len(<<a>>) = i
  BY <1>1
<1> QED BY <1>1, <1>2, ConcatProperties

(* The entry of cluster c is in sector x of a copy, at the same place in each. *)
EntryAt(c, x) ==
  /\ x \in 0 .. (SPF - 1)
  /\ \A k \in Nat : FatSectorOf(k, c) = Place(x) + k * SPF
  /\ FatSectorOf(0, c) = Place(x)
  /\ \A t \in Tables : FatImage(t, Place(x))[SlotOf(c)] = t[c]

LEMMA EntryPlace ==
  ASSUME NEW c \in Clusters
  PROVE  \E x : EntryAt(c, x)
<1> DEFINE x == (c - 1) \div PER_SECTOR
           r == (c - 1) % PER_SECTOR
<1>1. c \in Nat \ {0} /\ PER_SECTOR \in Nat \ {0} /\ SPF \in Nat /\ c <= NCLUSTERS
  BY Sizes, VolumeSizes DEF Clusters
<1>2. x \in Nat /\ r \in 0 .. (PER_SECTOR - 1) /\ c - 1 = x * PER_SECTOR + r
  BY <1>1
<1>3. x < SPF
  <2>1. SUFFICES ASSUME x >= SPF  PROVE FALSE
    BY <1>1, <1>2
  <2>2. PICK e \in Nat : x = SPF + e
    <3>1. x - SPF \in Nat /\ x = SPF + (x - SPF)
      BY <1>1, <1>2, <2>1
    <3> QED BY <3>1
  <2>3. x * PER_SECTOR = SPF * PER_SECTOR + e * PER_SECTOR /\ e * PER_SECTOR \in Nat
        /\ SPF * PER_SECTOR \in Nat
    BY <1>1, <2>2
  <2> QED BY <1>1, <1>2, <2>3, VolumeSizes, SMTT(60)
<1> HIDE DEF x, r
<1>4. \A k \in Nat : FatSectorOf(k, c) = Place(x) + k * SPF
  <2> SUFFICES ASSUME NEW k \in Nat  PROVE BOOT + RESERVED + k * SPF + x = BOOT + RESERVED + x + k * SPF
    BY DEF FatSectorOf, Place, x
  <2>1. k * SPF \in Nat
    BY <1>1
  <2> QED BY <1>2, <2>1, Sizes
<1>5. FatSectorOf(0, c) = Place(x)
  <2>1. FatSectorOf(0, c) = Place(x) + 0 * SPF
    BY <1>4
  <2> QED BY <1>2, <2>1, Sizes DEF Place
<1>6. ASSUME NEW t \in Tables  PROVE FatImage(t, Place(x))[SlotOf(c)] = t[c]
  <2> DEFINE first == (Place(x) - BOOT - RESERVED) * PER_SECTOR
             entries == [i \in 1 .. PER_SECTOR |->
                           IF first + i \in Clusters THEN t[first + i] ELSE EOF]
  <2>1. Place(x) - BOOT - RESERVED = x
    BY <1>2, Sizes DEF Place
  <2>2. SlotOf(c) = 2 + r /\ first + (1 + r) = c
    <3>1. x * PER_SECTOR \in Nat
      BY <1>1, <1>2
    <3> QED BY <1>1, <1>2, <2>1, <3>1 DEF SlotOf, r
  <2>3. 1 + r \in 1 .. PER_SECTOR
    BY <1>1, <1>2
  <2>4. (<<"fat">> \o entries)[2 + r] = entries[1 + r]
    <3> DEFINE T == {"fat"} \cup (0 .. EOF)
    <3>1. \A d \in Clusters : t[d] \in T
      BY DEF Tables
    <3>2. EOF \in T /\ "fat" \in T
      BY VolumeSizes DEF EOF
    <3>3. entries \in [1 .. PER_SECTOR -> T]
      BY <3>1, <3>2
    <3> HIDE DEF entries, T
    <3>4. entries \in Seq(T) /\ Len(entries) = PER_SECTOR
      BY <1>1, <3>3
    <3>5. (<<"fat">> \o entries)[1 + r + 1] = entries[1 + r]
      BY <2>3, <3>2, <3>4, Behind
    <3>6. 1 + r + 1 = 2 + r
      BY <1>1, <1>2
    <3> QED BY <3>5, <3>6
  <2>5. entries[1 + r] = t[c]
    BY <2>2, <2>3
  <2>6. FatImage(t, Place(x)) = <<"fat">> \o entries
    BY DEF FatImage
  <2> QED BY <2>2, <2>4, <2>5, <2>6
<1> QED BY <1>1, <1>2, <1>3, <1>4, <1>5, <1>6 DEF EntryAt

LEMMA ImageKind ==
  ASSUME NEW t \in Tables, NEW x \in 0 .. (SPF - 1)
  PROVE  FatImage(t, Place(x))[1] = "fat"
<1> DEFINE T == {"fat"} \cup (0 .. EOF)
           first == (Place(x) - BOOT - RESERVED) * PER_SECTOR
           entries == [i \in 1 .. PER_SECTOR |->
                         IF first + i \in Clusters THEN t[first + i] ELSE EOF]
<1>1. \A d \in Clusters : t[d] \in T
  BY DEF Tables
<1>2. EOF \in T /\ "fat" \in T /\ PER_SECTOR \in Nat
  BY VolumeSizes DEF EOF
<1>3. entries \in [1 .. PER_SECTOR -> T]
  BY <1>1, <1>2
<1>4. FatImage(t, Place(x)) = <<"fat">> \o entries
  BY DEF FatImage
<1> HIDE DEF entries, T
<1>5. entries \in Seq(T) /\ Len(entries) = PER_SECTOR
  BY <1>2, <1>3
<1>6. <<"fat">> \in Seq(T) /\ Len(<<"fat">>) = 1 /\ <<"fat">>[1] = "fat"
  BY <1>2
<1>7. 1 \in 1 .. (Len(<<"fat">>) + Len(entries)) /\ 1 <= Len(<<"fat">>)
  BY <1>2, <1>5, <1>6
<1>8. (<<"fat">> \o entries)[1] = <<"fat">>[1]
  BY <1>5, <1>6, <1>7, ConcatProperties
<1> QED BY <1>4, <1>6, <1>8

-----------------------------------------------------------------------------
(* Sound tables.                                                              *)

(* A table is sound whose entries come each from a sound table.               *)
LEMMA SoundByEntry ==
  ASSUME NEW T, T = [c \in Clusters |-> T[c]],
         \A c \in Clusters : \E t \in Tables : Sound(t) /\ T[c] = t[c]
  PROVE  T \in Tables /\ Sound(T)
<1>1. T \in Tables
  BY DEF Tables
<1>2. ASSUME NEW i \in 1 .. Len(SYSTEM)
      PROVE  T[SYSTEM[i]] = IF i < Len(SYSTEM) THEN SYSTEM[i + 1] ELSE EOF
  <2>1. SYSTEM[i] \in Clusters
    BY VolumeSizes
  <2>2. PICK t \in Tables : Sound(t) /\ T[SYSTEM[i]] = t[SYSTEM[i]]
    BY <2>1
  <2> QED BY <2>2 DEF Sound, Linked
<1>3. ASSUME NEW c \in FileClusters  PROVE T[c] \notin SystemClusters
  <2>1. PICK t \in Tables : Sound(t) /\ T[c] = t[c]
    BY DEF FileClusters
  <2> QED BY <2>1 DEF Sound
<1> QED BY <1>1, <1>2, <1>3 DEF Sound, Linked

(* The table that libfat sees.                                                *)
LEMMA ViewSound ==
  ASSUME GoodCache(cache), GoodDisk(Disk)
  PROVE  Table \in Tables /\ Sound(Table) /\ Directory(View(DIR))
<1>1. ASSUME NEW c \in Clusters  PROVE \E t \in Tables : Sound(t) /\ Table[c] = t[c]
  <2>1. PICK x : EntryAt(c, x)
    BY EntryPlace
  <2>2. FatContent(View(Place(x)), x)
    BY <2>1 DEF EntryAt, GoodCache, GoodDisk, View
  <2>3. PICK t \in Tables : Sound(t) /\ View(Place(x)) = FatImage(t, Place(x))
    BY <2>2 DEF FatContent
  <2>4. Table[c] = View(FatSectorOf(0, c))[SlotOf(c)]
    BY DEF Table
  <2> QED BY <2>1, <2>3, <2>4 DEF EntryAt
<1>2. Table = [c \in Clusters |-> Table[c]]
  BY DEF Table
<1>3. Directory(View(DIR))
  BY DEF GoodCache, GoodDisk, View
<1> QED BY <1>1, <1>2, <1>3, SoundByEntry

(* The table in a copy on the disk.                                           *)
LEMMA CopySound ==
  ASSUME NEW k \in Nat,
         \A x \in 0 .. (SPF - 1) :
           Disk[Place(x) + k * SPF].pads = {} /\ FatContent(Disk[Place(x) + k * SPF].data, x)
  PROVE  OnDisk(k) \in Tables /\ Sound(OnDisk(k))
<1>1. ASSUME NEW c \in Clusters  PROVE \E t \in Tables : Sound(t) /\ OnDisk(k)[c] = t[c]
  <2>1. PICK x : EntryAt(c, x)
    BY EntryPlace
  <2>2. x \in 0 .. (SPF - 1) /\ FatSectorOf(k, c) = Place(x) + k * SPF
    BY <2>1 DEF EntryAt
  <2>3. PICK t \in Tables : Sound(t) /\ Disk[FatSectorOf(k, c)].data = FatImage(t, Place(x))
    BY <2>2 DEF FatContent
  <2>4. Disk[FatSectorOf(k, c)].data[SlotOf(c)] = t[c]
    BY <2>1, <2>3 DEF EntryAt
  <2>5. Kind(FatSectorOf(k, c)) = "fat"
    BY <2>2, <2>3, ImageKind DEF Kind
  <2>6. OnDisk(k)[c] = t[c]
    BY <2>4, <2>5 DEF OnDisk
  <2> QED BY <2>3, <2>6
<1>2. OnDisk(k) = [c \in Clusters |-> OnDisk(k)[c]]
  BY DEF OnDisk
<1> QED BY <1>1, <1>2, SoundByEntry

(* What libfat caches when it changes the table.                              *)
LEMMA TableCached ==
  ASSUME NEW T \in Tables, Sound(T)
  PROVE  GoodCache(CachedTable(T)) /\ DOMAIN CachedTable(T) \subseteq FatPlaces
<1>1. DOMAIN CachedTable(T) \subseteq FatPlaces
  <2> SUFFICES ASSUME NEW c \in Clusters  PROVE FatSectorOf(0, c) \in FatPlaces
    BY DEF CachedTable
  <2>1. PICK x : EntryAt(c, x)
    BY EntryPlace
  <2> QED BY <2>1 DEF EntryAt, FatPlaces
<1>2. ASSUME NEW s \in DOMAIN CachedTable(T)
      PROVE  /\ CachedTable(T)[s] \in Data /\ s # DIR
             /\ \A x \in 0 .. (SPF - 1) : s = Place(x) => FatContent(CachedTable(T)[s], x)
  <2>1. PICK y \in 0 .. (SPF - 1) : s = Place(y)
    BY <1>1 DEF FatPlaces
  <2>2. CachedTable(T)[s] = FatImage(T, s)
    BY DEF CachedTable
  <2>3. Place(y) < DIR /\ Place(y) \in Nat /\ DIR \in Nat
    BY PlaceSector, Sizes, VolumeSizes DEF Place
  <2>4. \A x \in 0 .. (SPF - 1) : Place(x) = Place(y) => x = y
    BY PlaceSector
  <2>5. s # DIR /\ \A x \in 0 .. (SPF - 1) : s = Place(x) => x = y
    BY <2>1, <2>3, <2>4
  <2>6. FatImage(T, Place(y)) \in Data
    BY ContentAssumption
  <2> QED BY <2>1, <2>2, <2>5, <2>6 DEF FatContent
<1> QED BY <1>1, <1>2 DEF GoodCache

LEMMA CacheJoined ==
  ASSUME GoodCache(cache), NEW new, GoodCache(new)
  PROVE  GoodCache(Cached(new))
  BY DEF GoodCache, Cached

-----------------------------------------------------------------------------
(* libfat's steps.                                                            *)

(* A free cluster is none of the system file's.                               *)
LEMMA FreeOutside ==
  ASSUME Table \in Tables, Sound(Table), FreeClusters # {}
  PROVE  FirstOf(FreeClusters) \in FileClusters /\ Table[FirstOf(FreeClusters)] = FREE
<1>1. FreeClusters \in SUBSET Nat
  BY VolumeSizes DEF FreeClusters, Clusters
<1>2. \E c \in FreeClusters : \A d \in FreeClusters : c <= d
  BY <1>1, LeastElement
<1>3. FirstOf(FreeClusters) \in FreeClusters
  BY <1>2 DEF FirstOf
<1> DEFINE c == FirstOf(FreeClusters)
<1>4. c \in Clusters /\ Table[c] = FREE
  BY <1>3 DEF FreeClusters
<1> HIDE DEF c
<1>5. ASSUME NEW i \in 1 .. Len(SYSTEM), c = SYSTEM[i]  PROVE FALSE
  <2>1. Table[c] = IF i < Len(SYSTEM) THEN SYSTEM[i + 1] ELSE EOF
    BY <1>5 DEF Sound, Linked
  <2>2. Len(SYSTEM) \in Nat
    BY VolumeSizes
  <2>3. i < Len(SYSTEM) => i + 1 \in 1 .. Len(SYSTEM)
    BY <2>2
  <2>4. i < Len(SYSTEM) => SYSTEM[i + 1] \in Clusters
    BY <2>3, VolumeSizes
  <2>5. FREE \notin Clusters /\ EOF # FREE
    BY VolumeSizes DEF FREE, EOF, Clusters
  <2> QED BY <1>4, <2>1, <2>4, <2>5
<1>6. c \notin SystemClusters
  BY <1>5 DEF SystemClusters
<1>7. c \in FileClusters /\ Table[c] = FREE
  BY <1>4, <1>6 DEF FileClusters
<1> QED BY <1>7 DEF c

(* Changing a sound table outside the system file, not into it, leaves it     *)
(* sound.                                                                     *)
LEMMA SoundChanged ==
  ASSUME NEW t \in Tables, Sound(t), NEW u \in Tables,
         \A d \in Clusters : u[d] = t[d] \/ (d \in FileClusters /\ u[d] \notin SystemClusters)
  PROVE  Sound(u)
<1>1. ASSUME NEW i \in 1 .. Len(SYSTEM)  PROVE u[SYSTEM[i]] = t[SYSTEM[i]]
  <2>1. SYSTEM[i] \in Clusters /\ SYSTEM[i] \notin FileClusters
    BY VolumeSizes DEF FileClusters
  <2> QED BY <2>1
<1>2. Linked(u, SYSTEM)
  BY <1>1 DEF Sound, Linked
<1>3. ASSUME NEW d \in FileClusters  PROVE u[d] \notin SystemClusters
  BY DEF Sound, FileClusters
<1> QED BY <1>2, <1>3 DEF Sound

LEMMA EofOutside == EOF \notin SystemClusters /\ FREE \notin SystemClusters
                    /\ EOF \in 0 .. EOF /\ FREE \in 0 .. EOF /\ Clusters \subseteq 0 .. EOF
  BY VolumeSizes DEF EOF, FREE, Clusters

(* The sectors that AddCluster changes.                                       *)
LEMMA ClusterAdded ==
  ASSUME GoodCache(cache), GoodDisk(Disk), chain \in Seq(FileClusters), version \in {0, 1},
         NEW i \in 1 .. SIZE, AddCluster(i)
  PROVE  /\ GoodCache(cache') /\ DOMAIN cache \subseteq DOMAIN cache'
         /\ chain' \in Seq(FileClusters) /\ Len(chain') = Len(chain) + 1
<1> DEFINE c == FirstOf(FreeClusters)
           table == [d \in Clusters |-> IF d = c THEN EOF
                       ELSE IF chain # <<>> /\ d = chain[Len(chain)] THEN c ELSE Table[d]]
           new == [s \in {ClusterSector(c)} \cup DOMAIN CachedTable(table) |->
                            IF s = ClusterSector(c) THEN Chunk(version, i)
                            ELSE CachedTable(table)[s]]
<1>1. FreeClusters # {} /\ cache' = Cached(new) /\ chain' = chain \o <<c>>
  BY DEF AddCluster
<1>2. Table \in Tables /\ Sound(Table)
  BY ViewSound
<1>3. c \in FileClusters
  BY <1>1, <1>2, FreeOutside
<1> HIDE DEF c
<1>4. c \in Clusters /\ c \notin SystemClusters
  BY <1>3 DEF FileClusters
<1>5. chain # <<>> => chain[Len(chain)] \in FileClusters
  BY SMTT(30)
<1>6. table \in Tables
  BY <1>2, <1>4, EofOutside DEF Tables
<1>7. Sound(table)
  <2>1. ASSUME NEW d \in Clusters
        PROVE  table[d] = Table[d] \/ (d \in FileClusters /\ table[d] \notin SystemClusters)
    BY <1>3, <1>4, <1>5, EofOutside
  <2> HIDE DEF table
  <2> QED BY <1>2, <1>6, <2>1, SoundChanged
<1> HIDE DEF table
<1>8. GoodCache(CachedTable(table)) /\ DOMAIN CachedTable(table) \subseteq FatPlaces
  BY <1>6, <1>7, TableCached
<1>9. Chunk(version, i) \in Data
  BY ContentAssumption
<1>10. ClusterSector(c) \in FileSectors /\ ClusterSector(c) # DIR
       /\ \A x \in 0 .. (SPF - 1) : Place(x) # ClusterSector(c)
  <2>1. ClusterSector(c) > DIR /\ ClusterSector(c) \in Nat /\ DIR \in Nat
    BY <1>4, ClusterPlace, VolumeSizes DEF ClusterSector, Clusters
  <2>2. \A x \in 0 .. (SPF - 1) : Place(x) \in Nat /\ Place(x) < DIR
    BY PlaceSector
  <2> QED BY <1>3, <2>1, <2>2 DEF FileSectors
<1>11. GoodCache(new)
  BY <1>8, <1>9, <1>10 DEF GoodCache
<1> HIDE DEF new
<1>12. GoodCache(cache') /\ DOMAIN cache \subseteq DOMAIN cache'
  BY <1>1, <1>11, CacheJoined DEF Cached
<1>13. chain' \in Seq(FileClusters) /\ Len(chain') = Len(chain) + 1
  <2>1. <<c>> \in Seq(FileClusters) /\ Len(<<c>>) = 1
    BY <1>3
  <2> QED BY <1>1, <2>1, ConcatProperties
<1> QED BY <1>12, <1>13

(* The sectors that fopen changes: no way leads from the entry of             *)
(* launcher.dsi into the system file.                                         *)
LEMMA Opened ==
  ASSUME GoodCache(cache), GoodDisk(Disk), Open
  PROVE  GoodCache(cache')
<1> DEFINE entry == View(DIR)
           freed == ReachedFrom(Table, entry[3])
           table == [c \in Clusters |->
                       IF entry[3] \in Clusters /\ c \in freed THEN FREE ELSE Table[c]]
<1>1. Table \in Tables /\ Sound(Table) /\ Directory(entry)
  BY ViewSound
<1>2. entry[3] \notin SystemClusters /\ entry[3] \in {FREE} \cup FileClusters
  BY <1>1, EofOutside DEF Directory, FileClusters
<1>3. \A d \in Clusters \ SystemClusters : Table[d] \notin SystemClusters
  BY <1>1 DEF Sound, FileClusters
<1> HIDE DEF entry
<1>4. freed \cap SystemClusters = {}
  BY <1>2, <1>3, ReachedOutside
<1> HIDE DEF freed
<1>5. table \in Tables
  BY <1>1, EofOutside DEF Tables
<1>6. Sound(table)
  <2>1. ASSUME NEW d \in Clusters
        PROVE  table[d] = Table[d] \/ (d \in FileClusters /\ table[d] \notin SystemClusters)
    BY <1>4, EofOutside DEF FileClusters
  <2> HIDE DEF table
  <2> QED BY <1>1, <1>5, <2>1, SoundChanged
<1>7. GoodCache(Cached(CachedTable(table)))
  <2> HIDE DEF table
  <2> QED BY <1>5, <1>6, TableCached, CacheJoined
<1>8. GoodCache(Cached([s \in {DIR} |-> <<"dir", 1, FREE, 0>>]))
  <2>1. <<"dir", 1, FREE, 0>> \in Data
    BY ContentAssumption, VolumeSizes
  <2>2. Directory(<<"dir", 1, FREE, 0>>)
    BY DEF Directory
  <2>3. \A x \in 0 .. (SPF - 1) : Place(x) # DIR
    BY DirectoryApart
  <2>4. GoodCache([s \in {DIR} |-> <<"dir", 1, FREE, 0>>])
    BY <2>1, <2>2, <2>3 DEF GoodCache
  <2> QED BY <2>4, CacheJoined
<1>9. cache' = Cached(CachedTable(table)) \/ cache' = Cached([s \in {DIR} |-> <<"dir", 1, FREE, 0>>])
  BY DEF Open, entry, freed
<1> QED BY <1>7, <1>8, <1>9

(* The directory entry that fclose writes.                                    *)
LEMMA EntryWritten ==
  ASSUME GoodCache(cache), chain \in Seq(FileClusters), Len(chain) <= SIZE, WriteEntry
  PROVE  GoodCache(cache')
<1> DEFINE first == IF chain = <<>> THEN FREE ELSE chain[1]
           entry == <<"dir", 1, first, Len(chain)>>
<1>1. first \in {FREE} \cup FileClusters
  BY SMTT(30)
<1>2. Len(chain) \in 0 .. SIZE
  BY VolumeSizes
<1> HIDE DEF first
<1>3. entry \in Data
  BY <1>1, <1>2, ContentAssumption DEF FileClusters
<1>4. Directory(entry)
  BY <1>1 DEF Directory
<1>5. \A x \in 0 .. (SPF - 1) : Place(x) # DIR
  BY DirectoryApart
<1> HIDE DEF entry
<1>6. GoodCache([s \in {DIR} |-> entry])
  BY <1>3, <1>4, <1>5 DEF GoodCache
<1>7. cache' = Cached([s \in {DIR} |-> entry])
  BY DEF WriteEntry, entry, first
<1> QED BY <1>6, <1>7, CacheJoined

-----------------------------------------------------------------------------
(* What is stored on the disk.                                                *)

(* One sector stored, or none.                                                *)
LEMMA OneStored ==
  ASSUME nand \in [Sectors -> Cells], NEW s \in Sectors, NEW c \in Cells, NEW k \in {0, 1},
         nand' = Stored(s, k, <<c>>, 0)
  PROVE  (k = 0 /\ Disk' = Disk) \/ (k = 1 /\ Disk' = [Disk EXCEPT ![s] = c])
<1>1. s \in Nat
  BY Sizes DEF Sectors
<1>2. CASE k = 0
  <2>1. ASSUME NEW t \in Sectors  PROVE t \notin s .. (s + k - 1)
    BY <1>1, <1>2, Sizes DEF Sectors
  <2>2. nand' = nand
    BY <2>1 DEF Stored
  <2> QED BY <1>2, <2>2, DiskUnchanged
<1>3. CASE k = 1
  <2>1. ASSUME NEW t \in Sectors  PROVE t \in s .. (s + k - 1) <=> t = s
    BY <1>1, <1>3, Sizes DEF Sectors
  <2>2. 0 + s - s + 1 = 1 /\ <<c>>[1] = c
    BY <1>1
  <2>3. ASSUME NEW t \in Sectors  PROVE nand'[t] = IF t = s THEN Crypt(s, c) ELSE nand[t]
    BY <2>1, <2>2 DEF Stored
  <2>4. Crypt(s, Crypt(s, c)) = c
    BY CryptTwice
  <2>5. ASSUME NEW t \in Sectors
        PROVE  Crypt(t, nand'[t]) = IF t = s THEN c ELSE Crypt(t, nand[t])
    BY <2>3, <2>4
  <2>6. Disk' = [t \in Sectors |-> IF t = s THEN c ELSE Crypt(t, nand[t])]
    BY <2>5 DEF Disk, DiskOf
  <2>7. [Disk EXCEPT ![s] = c] = [t \in Sectors |-> IF t = s THEN c ELSE Crypt(t, nand[t])]
    BY DEF Disk, DiskOf
  <2> QED BY <1>3, <2>6, <2>7
<1> QED BY <1>2, <1>3

(* The sectors that libfat caches can be written back.                        *)
LEMMA CachedSector ==
  ASSUME GoodCache(cache), NEW s \in DOMAIN cache
  PROVE  /\ s \in Sectors /\ s \in Nat /\ s \notin {0, BOOT} /\ Plain(cache[s]) \in Cells
         /\ \A k \in 1 .. (FATS - 1), x \in 0 .. (SPF - 1) : s # Place(x) + k * SPF
         /\ \A i \in 1 .. Len(SYSTEM) : s # ClusterSector(SYSTEM[i])
<1>1. cache[s] \in Data /\ s \in FatPlaces \cup {DIR} \cup FileSectors
  BY DEF GoodCache
<1>2. Plain(cache[s]) \in Cells
  BY <1>1 DEF Plain, Cells
<1>3. ASSUME NEW i \in 1 .. Len(SYSTEM)
      PROVE  /\ SYSTEM[i] \in Clusters /\ SYSTEM[i] \notin FileClusters
             /\ ClusterSector(SYSTEM[i]) > DIR
  BY VolumeSizes, ClusterPlace DEF FileClusters
<1>4. CASE s \in FatPlaces
  <2>1. PICK x \in 0 .. (SPF - 1) : s = Place(x)
    BY <1>4 DEF FatPlaces
  <2>2. s \in Sectors /\ s \in Nat /\ s \notin {0, BOOT} /\ s < DIR
    BY <2>1, PlaceSector
  <2>3. \A i \in 1 .. Len(SYSTEM) : s # ClusterSector(SYSTEM[i])
    BY <1>3, <2>2, VolumeSizes DEF ClusterSector, Clusters
  <2> QED BY <1>2, <2>1, <2>2, <2>3, BackupSector
<1>5. CASE s \in {DIR} \cup FileSectors
  <2>1. s \in Sectors \ {0, BOOT} /\ s \in Nat /\ s >= DIR
    <3>1. CASE s = DIR
      BY <3>1, ClusterPlace, VolumeSizes
    <3>2. CASE s \in FileSectors
      <4>1. PICK c \in Clusters : s = ClusterSector(c)
        BY <3>2 DEF FileSectors, FileClusters
      <4>2. s \in Sectors \ {0, BOOT} /\ s > DIR
        BY <4>1, ClusterPlace
      <4>3. s \in Nat /\ DIR \in Nat
        BY <4>2, Sizes, VolumeSizes DEF Sectors
      <4> QED BY <4>2, <4>3
    <3> QED BY <1>5, <3>1, <3>2
  <2>2. \A k \in 1 .. (FATS - 1), x \in 0 .. (SPF - 1) : s # Place(x) + k * SPF
    <3>1. \A k \in 1 .. (FATS - 1), x \in 0 .. (SPF - 1) :
            Place(x) + k * SPF \in Sectors /\ Place(x) + k * SPF < DIR
      BY BackupSector
    <3> QED BY <2>1, <3>1, Sizes, VolumeSizes DEF Sectors
  <2>3. ASSUME NEW i \in 1 .. Len(SYSTEM), s = ClusterSector(SYSTEM[i])  PROVE FALSE
    <3>1. s # DIR
      BY <1>3, <2>3, VolumeSizes
    <3>2. PICK c \in FileClusters : s = ClusterSector(c)
      BY <1>5, <3>1 DEF FileSectors
    <3>3. c = SYSTEM[i]
      BY <1>3, <2>3, <3>2, ClusterPlace DEF FileClusters
    <3> QED BY <1>3, <3>3
  <2> QED BY <1>2, <2>1, <2>2, <2>3
<1> QED BY <1>1, <1>4, <1>5

LEMMA DiskWritten ==
  ASSUME GoodCache(cache), GoodDisk(Disk), NEW s \in DOMAIN cache,
         Disk' = [Disk EXCEPT ![s] = Plain(cache[s])]
  PROVE  /\ GoodDisk(Disk')
         /\ \A k \in 1 .. (FATS - 1), x \in 0 .. (SPF - 1) :
              Disk'[Place(x) + k * SPF] = Disk[Place(x) + k * SPF]
<1>1. Plain(cache[s]).pads = {} /\ Plain(cache[s]).data = cache[s]
  BY DEF Plain
<1>2. \A t \in Sectors : Disk'[t] = IF t = s THEN Plain(cache[s]) ELSE Disk[t]
  BY DEF Disk, DiskOf
<1>3. \A x \in 0 .. (SPF - 1) :
         Disk'[Place(x)].pads = {} /\ FatContent(Disk'[Place(x)].data, x)
  <2> SUFFICES ASSUME NEW x \in 0 .. (SPF - 1)
               PROVE  Disk'[Place(x)].pads = {} /\ FatContent(Disk'[Place(x)].data, x)
    OBVIOUS
  <2>1. Place(x) \in Sectors
    BY PlaceSector
  <2>2. Disk'[Place(x)] = IF Place(x) = s THEN Plain(cache[s]) ELSE Disk[Place(x)]
    BY <1>2, <2>1
  <2>3. Place(x) = s => FatContent(cache[s], x)
    BY DEF GoodCache
  <2> QED BY <1>1, <2>2, <2>3 DEF GoodDisk
<1>4. Disk'[DIR].pads = {} /\ Directory(Disk'[DIR].data)
  <2>1. Disk'[DIR] = IF DIR = s THEN Plain(cache[s]) ELSE Disk[DIR]
    BY <1>2, ClusterPlace
  <2>2. DIR = s => Directory(cache[s])
    BY DEF GoodCache
  <2> QED BY <1>1, <2>1, <2>2 DEF GoodDisk
<1>5. \A i \in 1 .. Len(SYSTEM) : Disk'[ClusterSector(SYSTEM[i])] = Plain(<<"system", i>>)
  <2>1. \A i \in 1 .. Len(SYSTEM) : ClusterSector(SYSTEM[i]) \in Sectors
    BY ClusterPlace, VolumeSizes
  <2>2. \A i \in 1 .. Len(SYSTEM) : s # ClusterSector(SYSTEM[i])
    BY CachedSector
  <2> QED BY <1>2, <2>1, <2>2 DEF GoodDisk
<1>6. \A k \in 1 .. (FATS - 1), x \in 0 .. (SPF - 1) :
         Disk'[Place(x) + k * SPF] = Disk[Place(x) + k * SPF]
  BY <1>2, BackupSector, CachedSector
<1> QED BY <1>3, <1>4, <1>5, <1>6 DEF GoodDisk

(* A call of libfat, or the power failing in it, stores the cached sector or  *)
(* nothing.                                                                   *)
LEMMA EvictStores ==
  ASSUME Inv, EvictInv, GoodCache(cache), pc = "write",
         NEW k \in Nat, k <= ChunkLen(cur.len),
         nand' = Stored(cur.offset, k, buffer, cur.pos)
  PROVE  \/ k = 0 /\ Disk' = Disk
         \/ \E s \in evicting : /\ k = 1 /\ cur.pos = 0 /\ cur.len = 1
                                /\ Disk' = [Disk EXCEPT ![s] = Plain(cache[s])]
<1>1. PICK s \in evicting : io = [offset |-> s, len |-> 1] /\ buffer = <<Plain(cache[s])>>
  BY DEF EvictInv
<1>2. s \in Sectors /\ s \in Nat /\ Plain(cache[s]) \in Cells
  <2>1. s \in DOMAIN cache
    BY DEF EvictInv
  <2> QED BY <2>1, CachedSector
<1>3. io.offset = s /\ io.len = 1
  BY <1>1
<1>4. /\ cur.offset = s + cur.pos /\ cur.pos + cur.len = 1 /\ cur.pos \in Nat /\ cur.len \in Nat
  BY <1>3, CallNumbers DEF Inv
<1>5. nand \in [Sectors -> Cells]
  BY DEF Inv, TypeOK
<1>6. CASE cur.len = 0
  <2>1. k = 0
    BY <1>6, Sizes DEF ChunkLen
  <2>2. Stored(cur.offset, 0, buffer, cur.pos) = nand
    <3>1. ASSUME NEW t \in Sectors  PROVE t \notin cur.offset .. (cur.offset + 0 - 1)
      BY <1>2, <1>4, Sizes DEF Sectors
    <3> QED BY <1>5, <3>1 DEF Stored
  <2> QED BY <2>1, <2>2, DiskUnchanged
<1>7. CASE cur.len = 1
  <2>1. cur.pos = 0 /\ cur.offset = s /\ k \in {0, 1}
    BY <1>2, <1>4, <1>7, Sizes DEF ChunkLen
  <2>2. nand' = Stored(s, k, <<Plain(cache[s])>>, 0)
    BY <1>1, <2>1
  <2>3. (k = 0 /\ Disk' = Disk) \/ (k = 1 /\ Disk' = [Disk EXCEPT ![s] = Plain(cache[s])])
    BY <1>2, <1>5, <2>1, <2>2, OneStored
  <2> QED BY <1>7, <2>1, <2>3
<1> QED BY <1>4, <1>6, <1>7

-----------------------------------------------------------------------------
(* Every step of the session preserves the invariant.                         *)

LEMMA SessionInitInv == SessionInit => SessionInv
<1> SUFFICES ASSUME SessionInit  PROVE SessionInv
  OBVIOUS
<1>1. Inv
  BY InitInv DEF SessionInit
<1>2. DSiChip(nand) /\ Volume(Disk)
  BY SystemAssumption DEF SessionInit, Init, Disk
<1>3. GoodDisk(Disk)
  <2>1. 0 \in 0 .. (FATS - 1) /\ \A x \in 0 .. (SPF - 1) : Place(x) + 0 * SPF = Place(x)
    BY PlaceSector, Sizes
  <2>2. PICK t \in Tables : Sound(t) /\ \A x \in 0 .. (SPF - 1) :
                              Disk[Place(x)] = Plain(FatImage(t, Place(x)))
    BY <1>2, <2>1 DEF Volume
  <2>3. \A x \in 0 .. (SPF - 1) :
          Disk[Place(x)].pads = {} /\ FatContent(Disk[Place(x)].data, x)
    <3> TAKE x \in 0 .. (SPF - 1)
    <3>1. Disk[Place(x)] = Plain(FatImage(t, Place(x)))
      BY <2>2
    <3>2. Disk[Place(x)].pads = {} /\ Disk[Place(x)].data = FatImage(t, Place(x))
      BY <3>1 DEF Plain
    <3> QED BY <2>2, <3>2 DEF FatContent
  <2> QED BY <1>2, <2>3 DEF GoodDisk, Volume
<1>4. GoodCache(cache)
  BY DEF SessionInit, GoodCache
<1>5. ProgInv
  BY <1>2 DEF SessionInit, Init, ProgInv
<1>6. FileInv
  BY DEF SessionInit, FileInv
<1>7. EvictInv
  BY DEF SessionInit, Init, EvictInv
<1> QED BY <1>1, <1>3, <1>4, <1>5, <1>6, <1>7 DEF SessionInv

(* A step that leaves the driver and the chip alone.                          *)
LEMMA DriverUnchanged ==
  ASSUME SessionInv, UNCHANGED vars
  PROVE  Inv' /\ GoodDisk(Disk)' /\ Disk' = Disk /\ (DSiChip(nand)' <=> DSiChip(nand))
         /\ UNCHANGED pc
<1>1. UNCHANGED <<nand, pc>>
  BY DEF vars
<1>2. Disk' = Disk
  BY <1>1, DiskUnchanged
<1>3. Inv'
  BY StutterInv DEF SessionInv
<1> QED BY <1>1, <1>2, <1>3 DEF SessionInv, GoodDisk, DSiChip

(* When libfat waits for nothing the driver is idle.                          *)
LEMMA Idle ==
  ASSUME SessionInv, evicting = {}, prog \in {"open", "write", "close", "flush", "unmount"}
  PROVE  pc = "ready"
  BY DEF SessionInv, ProgInv, EvictInv

LEMMA MountInv ==
  ASSUME "mbr" \notin Faults, SessionInv, Mount
  PROVE  SessionInv'
<1>1. Inv'
  BY StartupInv, UnchangedInv DEF Mount, StartupRefused, SessionInv
<1>2. UNCHANGED <<nand, cache, evicting, pos, pending, chain>> /\ pc' \in {"ready", "down"}
      /\ prog = "off" /\ prog' = (IF pc' = "ready" /\ Mountable THEN "open" ELSE "error")
      /\ version' = 1 - version
  BY DEF Mount, Startup, StartupRefused
<1>3. Disk' = Disk /\ GoodDisk(Disk)'
  BY <1>2, DiskUnchanged DEF SessionInv, GoodDisk
<1>4. ProgInv'
  BY <1>2 DEF SessionInv, ProgInv, DSiChip
<1>5. FileInv'
  BY <1>2 DEF SessionInv, FileInv
<1>6. EvictInv'
  BY <1>2 DEF SessionInv, EvictInv
<1>7. GoodCache(cache)'
  BY <1>2 DEF SessionInv, GoodCache
<1> QED BY <1>1, <1>3, <1>4, <1>5, <1>6, <1>7 DEF SessionInv

LEMMA GiveUpInv ==
  ASSUME SessionInv, GiveUp
  PROVE  SessionInv'
<1>1. UNCHANGED vars /\ UNCHANGED <<version, cache, evicting, flushOK, pos, pending, chain>>
      /\ prog = "open" /\ prog' = "error"
  BY DEF GiveUp
<1>2. evicting = {}
  BY <1>1 DEF SessionInv, EvictInv
<1>3. pc = "ready"
  BY <1>1, <1>2, Idle
<1>4. Inv' /\ GoodDisk(Disk)' /\ UNCHANGED pc /\ (DSiChip(nand)' <=> DSiChip(nand))
  BY <1>1, DriverUnchanged
<1>5. ProgInv' /\ FileInv' /\ EvictInv' /\ GoodCache(cache)'
  BY <1>1, <1>2, <1>3, <1>4 DEF SessionInv, ProgInv, FileInv, EvictInv, GoodCache
<1> QED BY <1>4, <1>5 DEF SessionInv

LEMMA OpenInv ==
  ASSUME SessionInv, Open
  PROVE  SessionInv'
<1>1. UNCHANGED vars /\ UNCHANGED <<version, evicting, pos, pending, chain>>
      /\ prog = "open" /\ prog' = "write"
  BY DEF Open, fileVars
<1>2. Inv' /\ GoodDisk(Disk)' /\ UNCHANGED pc /\ (DSiChip(nand)' <=> DSiChip(nand))
  BY <1>1, DriverUnchanged
<1>3. GoodCache(cache')
  BY Opened DEF SessionInv
<1>4. evicting = {} /\ pc = "ready"
  BY <1>1, Idle DEF SessionInv, EvictInv
<1>5. ProgInv' /\ FileInv' /\ EvictInv'
  BY <1>1, <1>2, <1>4 DEF SessionInv, ProgInv, FileInv, EvictInv
<1> QED BY <1>2, <1>3, <1>5 DEF SessionInv

LEMMA FwriteInv ==
  ASSUME SessionInv, Fwrite
  PROVE  SessionInv'
<1>1. /\ UNCHANGED vars /\ UNCHANGED <<prog, version, evicting>>
      /\ prog = "write" /\ evicting = {} /\ pos < SIZE /\ pos' = pos + 1 /\ pending' = {pos + 1}
      /\ (pending = {} /\ UNCHANGED <<cache, chain>>) \/ \E i \in pending : AddCluster(i)
  BY DEF Fwrite
<1>2. Inv' /\ GoodDisk(Disk)' /\ UNCHANGED pc /\ (DSiChip(nand)' <=> DSiChip(nand))
  BY <1>1, DriverUnchanged
<1>3. pc = "ready"
  BY <1>1, Idle
<1>4. CASE pending = {} /\ UNCHANGED <<cache, chain>>
  <2>1. pos = 0 /\ chain = <<>>
    BY <1>1, <1>4 DEF SessionInv, FileInv
  <2>2. pos' \in 1 .. SIZE /\ Len(chain') = pos' - 1 /\ pending' = {pos'}
    BY <1>1, <1>4, <2>1, VolumeSizes
  <2>3. FileInv'
    BY <1>1, <1>4, <2>2 DEF SessionInv, FileInv
  <2>4. ProgInv' /\ EvictInv' /\ GoodCache(cache)'
    BY <1>1, <1>2, <1>3, <1>4 DEF SessionInv, ProgInv, EvictInv, GoodCache
  <2> QED BY <1>2, <2>3, <2>4 DEF SessionInv
<1>5. CASE \E i \in pending : AddCluster(i)
  <2>1. pos \in 1 .. SIZE /\ Len(chain) = pos - 1 /\ pending = {pos}
    BY <1>1, <1>5 DEF SessionInv, FileInv
  <2>2. AddCluster(pos)
    BY <1>5, <2>1
  <2>3. /\ GoodCache(cache') /\ DOMAIN cache \subseteq DOMAIN cache'
        /\ chain' \in Seq(FileClusters) /\ Len(chain') = Len(chain) + 1
    BY <2>1, <2>2, ClusterAdded DEF SessionInv, FileInv
  <2>4. pos' \in 1 .. SIZE /\ Len(chain') = pos' - 1 /\ pending' = {pos'}
    BY <1>1, <2>1, <2>3, VolumeSizes
  <2>5. FileInv'
    BY <1>1, <2>3, <2>4 DEF SessionInv, FileInv
  <2>6. ProgInv' /\ EvictInv'
    BY <1>1, <1>2, <1>3 DEF SessionInv, ProgInv, EvictInv
  <2> QED BY <1>2, <2>3, <2>5, <2>6 DEF SessionInv
<1> QED BY <1>1, <1>4, <1>5

LEMMA FcloseInv ==
  ASSUME SessionInv, Fclose
  PROVE  SessionInv'
<1>1. /\ UNCHANGED vars /\ UNCHANGED <<version, evicting, pos>>
      /\ prog = "write" /\ prog' = "close" /\ evicting = {} /\ pos >= SIZE /\ pending' = {}
      /\ UNCHANGED <<cache, chain>> \/ \E i \in pending : AddCluster(i)
  BY DEF Fclose
<1>2. Inv' /\ GoodDisk(Disk)' /\ UNCHANGED pc /\ (DSiChip(nand)' <=> DSiChip(nand))
  BY <1>1, DriverUnchanged
<1>3. pc = "ready"
  BY <1>1, Idle
<1>4. pos = SIZE /\ Len(chain) = SIZE - 1 /\ pending = {SIZE}
  BY <1>1, VolumeSizes DEF SessionInv, FileInv
<1>5. ProgInv' /\ EvictInv'
  <2>1. ProgInv'
    BY <1>1, <1>2, <1>3 DEF SessionInv, ProgInv
  <2>2. EvictInv'
    BY <1>1, <1>2, <1>3 DEF SessionInv, EvictInv
  <2> QED BY <2>1, <2>2
<1>6. CASE UNCHANGED <<cache, chain>>
  <2>1. FileInv' /\ GoodCache(cache)'
    BY <1>1, <1>4, <1>6 DEF SessionInv, FileInv, GoodCache
  <2> QED BY <1>2, <1>5, <2>1 DEF SessionInv
<1>7. CASE \E i \in pending : AddCluster(i)
  <2>1. AddCluster(SIZE) /\ SIZE \in 1 .. SIZE
    BY <1>4, <1>7, VolumeSizes
  <2>2. /\ GoodCache(cache') /\ chain' \in Seq(FileClusters) /\ Len(chain') = Len(chain) + 1
    BY <2>1, ClusterAdded DEF SessionInv, FileInv
  <2>3. Len(chain') = SIZE
    BY <1>4, <2>2, VolumeSizes
  <2>4. FileInv'
    BY <1>1, <1>4, <2>2, <2>3 DEF SessionInv, FileInv
  <2> QED BY <1>2, <1>5, <2>2, <2>4 DEF SessionInv
<1> QED BY <1>1, <1>6, <1>7

LEMMA WriteEntryInv ==
  ASSUME SessionInv, WriteEntry
  PROVE  SessionInv'
<1>1. /\ UNCHANGED vars /\ UNCHANGED <<version, pos, pending, chain, evicting>>
      /\ prog = "close" /\ prog' = "flush" /\ evicting = {}
  BY DEF WriteEntry, fileVars
<1>2. Inv' /\ GoodDisk(Disk)' /\ UNCHANGED pc /\ (DSiChip(nand)' <=> DSiChip(nand))
  BY <1>1, DriverUnchanged
<1>3. pc = "ready"
  BY <1>1, Idle
<1>4. GoodCache(cache')
  <2>1. Len(chain) <= SIZE /\ chain \in Seq(FileClusters)
    BY <1>1, VolumeSizes DEF SessionInv, FileInv
  <2> QED BY <2>1, EntryWritten DEF SessionInv
<1>5. ProgInv' /\ FileInv' /\ EvictInv'
  BY <1>1, <1>2, <1>3 DEF SessionInv, ProgInv, FileInv, EvictInv
<1> QED BY <1>2, <1>4, <1>5 DEF SessionInv

LEMMA EvictBegins ==
  ASSUME SessionInv, Evict
  PROVE  SessionInv'
<1>1. PICK s \in DOMAIN cache : Enter("write", s, <<Plain(cache[s])>>) /\ evicting' = {s}
  BY DEF Evict
<1>2. /\ UNCHANGED <<prog, version, pos, pending, chain, cache>> /\ evicting = {}
      /\ prog \in {"write", "close", "flush", "unmount"}
  BY DEF Evict, fileVars
<1>3. /\ s \in Nat /\ s \notin {0, BOOT} /\ Plain(cache[s]) \in Cells
  BY CachedSector DEF SessionInv
<1> DEFINE buf == <<Plain(cache[s])>>
<1>4. buf \in Seq(Cells) /\ Len(buf) = 1
  BY <1>3
<1>5. Enter("write", s, buf)
  BY <1>1
<1> HIDE DEF buf
<1>6. \A i \in 1 .. Len(buf) : s + i - 1 \notin {0, BOOT}
  BY <1>3, <1>4
<1>7. Inv'
  BY <1>3, <1>4, <1>5, <1>6, EnterInv DEF SessionInv
<1>8. UNCHANGED nand /\ pc' = "write" /\ io' = [offset |-> s, len |-> 1] /\ buffer' = buf
  BY <1>4, <1>5 DEF Enter
<1>9. GoodDisk(Disk)'
  BY <1>8, DiskUnchanged DEF SessionInv, GoodDisk
<1>10. ProgInv' /\ FileInv'
  BY <1>2, <1>8 DEF SessionInv, ProgInv, FileInv, DSiChip
<1>11. EvictInv'
  BY <1>1, <1>2, <1>8 DEF EvictInv, buf
<1>12. GoodCache(cache)'
  BY <1>2 DEF SessionInv, GoodCache
<1> QED BY <1>7, <1>9, <1>10, <1>11, <1>12 DEF SessionInv

LEMMA EvictedInv ==
  ASSUME SessionInv, Evicted
  PROVE  SessionInv'
<1>1. /\ UNCHANGED vars /\ UNCHANGED <<prog, version, pos, pending, chain>>
      /\ pc = "ready" /\ evicting' = {}
  BY DEF Evicted, fileVars
<1>2. Inv' /\ GoodDisk(Disk)' /\ UNCHANGED pc /\ (DSiChip(nand)' <=> DSiChip(nand))
  BY <1>1, DriverUnchanged
<1>3. GoodCache(cache')
  <2>1. PICK s \in evicting :
          cache' = IF ret THEN [t \in DOMAIN cache \ {s} |-> cache[t]] ELSE cache
    BY DEF Evicted
  <2>2. CASE ret
    <3>1. DOMAIN cache' \subseteq DOMAIN cache /\ \A t \in DOMAIN cache' : cache'[t] = cache[t]
      BY <2>1, <2>2
    <3> QED BY <3>1 DEF SessionInv, GoodCache
  <2>3. CASE ~ret
    BY <2>1, <2>3 DEF SessionInv
  <2> QED BY <2>2, <2>3
<1>4. ProgInv' /\ FileInv' /\ EvictInv'
  BY <1>1, <1>2 DEF SessionInv, ProgInv, FileInv, EvictInv
<1> QED BY <1>2, <1>3, <1>4 DEF SessionInv

(* Back in main, and fatUnmount.                                              *)
LEMMA FlushedInv ==
  ASSUME SessionInv, CheckWritten \/ Unmounted
  PROVE  SessionInv'
<1>1. /\ UNCHANGED vars /\ UNCHANGED <<version, pos, pending, chain, evicting>> /\ evicting = {}
      /\ prog \in {"flush", "unmount"} /\ prog' \in {"error", "unmount", "merge"}
      /\ cache' = cache \/ cache' = [s \in {} |-> 0]
  BY DEF CheckWritten, Unmounted, Flushed, AfterWrite, fileVars
<1>2. Inv' /\ GoodDisk(Disk)' /\ UNCHANGED pc /\ (DSiChip(nand)' <=> DSiChip(nand))
  BY <1>1, DriverUnchanged
<1>3. pc = "ready"
  BY <1>1, Idle
<1>4. GoodCache(cache')
  BY <1>1 DEF SessionInv, GoodCache
<1>5. ProgInv' /\ FileInv' /\ EvictInv'
  BY <1>1, <1>2, <1>3 DEF SessionInv, ProgInv, FileInv, EvictInv
<1> QED BY <1>2, <1>4, <1>5 DEF SessionInv

(* The first chunk of a call is its last.                                     *)
LEMMA TransferInv ==
  ASSUME SessionInv, Transfer
  PROVE  /\ SessionInv'
         /\ \A k \in 1 .. (FATS - 1), x \in 0 .. (SPF - 1) :
              Disk'[Place(x) + k * SPF] = Disk[Place(x) + k * SPF]
<1>1. /\ UNCHANGED <<prog, version, cache, evicting, flushOK, pos, pending, chain>>
      /\ WriteChunk \/ CallDone
  BY DEF Transfer, sessionVars
<1>2. pc = "write" /\ pc' \in {"write", "ready"} /\ UNCHANGED <<io, buffer>>
  BY <1>1 DEF WriteChunk, CallDone, Return, SessionInv, ProgInv
<1>3. evicting # {} /\ prog \in {"write", "close", "flush", "unmount"}
  BY <1>2 DEF SessionInv, EvictInv
<1>4. Inv'
  BY <1>1, WriteChunkInv, CallDoneInv DEF SessionInv
<1>5. Disk' = Disk \/ \E s \in evicting : Disk' = [Disk EXCEPT ![s] = Plain(cache[s])]
  <2>1. CASE CallDone
    BY <2>1, DiskUnchanged DEF CallDone
  <2>2. CASE WriteChunk
    <3>1. cur.len \in Nat \ {0}
      BY <2>2, CallNumbers DEF WriteChunk, SessionInv, Inv
    <3>2. ChunkLen(cur.len) \in Nat
      BY <3>1, ChunkLenBounds
    <3> DEFINE n == ChunkLen(cur.len)
    <3>3. n \in 0 .. n
      BY <3>2
    <3>4. PICK k \in 0 .. n : nand' = Stored(cur.offset, k, buffer, cur.pos)
      BY <2>2, <3>3 DEF WriteChunk
    <3>5. k \in Nat /\ k <= ChunkLen(cur.len)
      BY <3>2
    <3> QED BY <1>2, <3>4, <3>5, EvictStores DEF SessionInv
  <2> QED BY <1>1, <2>1, <2>2
<1>6. /\ GoodDisk(Disk')
      /\ \A k \in 1 .. (FATS - 1), x \in 0 .. (SPF - 1) :
           Disk'[Place(x) + k * SPF] = Disk[Place(x) + k * SPF]
  BY <1>5, DiskWritten DEF SessionInv, EvictInv
<1>7. DSiChip(nand)'
  <2>1. [Next]_vars
    BY <1>1 DEF Next, Driver
  <2>2. nand'[0] = nand[0] /\ nand'[BOOT] = nand[BOOT]
    BY <2>1, FixedSectors DEF SessionInv
  <2> QED BY <2>2, SameChip DEF SessionInv, ProgInv
<1>8. ProgInv'
  BY <1>1, <1>2, <1>3, <1>7 DEF ProgInv
<1>9. FileInv' /\ EvictInv' /\ GoodCache(cache)'
  BY <1>1, <1>2 DEF SessionInv, FileInv, EvictInv, GoodCache
<1> QED BY <1>4, <1>6, <1>8, <1>9 DEF SessionInv

(* What nandio_shutdown does not touch.                                       *)
LEMMA MergeLeaves ==
  ASSUME SessionInv, Merge
  PROVE  /\ \A x \in 0 .. (SPF - 1) : Disk'[Place(x)] = Disk[Place(x)]
         /\ Disk'[DIR] = Disk[DIR]
         /\ \A c \in Clusters : Disk'[ClusterSector(c)] = Disk[ClusterSector(c)]
         /\ faulted => faulted'
<1>1. ShutdownBegin \/ MergeRead \/ MergeWrite
  BY DEF Merge
<1>2. MergeStep /\ (faulted => faulted')
  <2>1. CASE MergeWrite
    BY <2>1, MergeWriteInv, MergeWriteStores DEF SessionInv
  <2>2. CASE ShutdownBegin \/ MergeRead
    <3>1. nand' = nand /\ (faulted => faulted')
      BY <2>2 DEF ShutdownBegin, MergeRead, LoadSectorBuf
    <3> QED BY <3>1 DEF MergeStep
  <2> QED BY <1>1, <2>1, <2>2
<1>3. \A s \in Sectors : Disk'[s] # Disk[s] =>
         \E k \in 1 .. (FATS - 1), x \in 0 .. (SPF - 1) : s = Place(x) + k * SPF
  BY <1>2 DEF MergeStep, Disk, DiskOf, Place
<1>4. \A k \in 1 .. (FATS - 1), x \in 0 .. (SPF - 1) :
        /\ Place(x) + k * SPF < DIR
        /\ \A y \in 0 .. (SPF - 1) : Place(y) # Place(x) + k * SPF
  BY BackupSector
<1>5. \A x \in 0 .. (SPF - 1) : Disk'[Place(x)] = Disk[Place(x)]
  BY <1>3, <1>4, PlaceSector
<1>6. ASSUME NEW s \in Sectors, s >= DIR  PROVE Disk'[s] = Disk[s]
  <2> SUFFICES ASSUME Disk'[s] # Disk[s]  PROVE FALSE
    OBVIOUS
  <2>1. PICK k \in 1 .. (FATS - 1), x \in 0 .. (SPF - 1) : s = Place(x) + k * SPF
    BY <1>3
  <2>2. s < DIR
    BY <1>4, <2>1
  <2>3. s \in Nat
    BY Sizes DEF Sectors
  <2> QED BY <1>6, <2>2, <2>3, VolumeSizes
<1>7. DIR \in Sectors /\ DIR >= DIR
  BY ClusterPlace, VolumeSizes
<1>8. \A c \in Clusters : ClusterSector(c) \in Sectors /\ ClusterSector(c) >= DIR
  BY ClusterPlace, VolumeSizes DEF ClusterSector, Clusters
<1> QED BY <1>2, <1>5, <1>6, <1>7, <1>8

(* The merge changes backup copies only.                                      *)
LEMMA MergeStepInv ==
  ASSUME SessionInv, Merge
  PROVE  SessionInv'
<1>1. /\ UNCHANGED <<prog, version, cache, evicting, flushOK, pos, pending, chain>>
      /\ prog = "merge"
      /\ ShutdownBegin \/ MergeRead \/ MergeWrite
  BY DEF Merge, sessionVars
<1>2. Inv'
  BY <1>1, MergeWriteInv, ShutdownBeginInv, MergeReadInv DEF SessionInv
<1>3. pc' \in {"ready", "merge_read", "merge_write"}
  BY <1>1 DEF ShutdownBegin, MergeRead, MergeWrite
<1>4. /\ \A x \in 0 .. (SPF - 1) : Disk'[Place(x)] = Disk[Place(x)]
      /\ Disk'[DIR] = Disk[DIR]
      /\ \A c \in Clusters : Disk'[ClusterSector(c)] = Disk[ClusterSector(c)]
  BY MergeLeaves
<1>5. GoodDisk(Disk')
  BY <1>4, VolumeSizes DEF SessionInv, GoodDisk
<1>6. DSiChip(nand)'
  <2>1. [Next]_vars
    BY <1>1 DEF Next, Driver
  <2>2. nand'[0] = nand[0] /\ nand'[BOOT] = nand[BOOT]
    BY <2>1, FixedSectors DEF SessionInv
  <2> QED BY <2>2, SameChip DEF SessionInv, ProgInv
<1>7. ProgInv' /\ FileInv' /\ EvictInv' /\ GoodCache(cache)'
  BY <1>1, <1>3, <1>6 DEF SessionInv, ProgInv, FileInv, EvictInv, GoodCache
<1> QED BY <1>2, <1>5, <1>7 DEF SessionInv

LEMMA MergeDoneInv ==
  ASSUME SessionInv, MergeDone
  PROVE  SessionInv'
<1>1. /\ UNCHANGED <<version, cache, evicting, flushOK, pos, pending, chain, nand>>
      /\ prog = "merge" /\ prog' = "success" /\ pc' = "down" /\ ShutdownEnd
  BY DEF MergeDone, fileVars, ShutdownEnd
<1>2. Inv'
  BY <1>1, ShutdownEndInv DEF SessionInv
<1>3. GoodDisk(Disk)'
  BY <1>1, DiskUnchanged DEF SessionInv, GoodDisk
<1>4. ProgInv' /\ FileInv' /\ EvictInv' /\ GoodCache(cache)'
  BY <1>1 DEF SessionInv, ProgInv, FileInv, EvictInv, GoodCache, DSiChip
<1> QED BY <1>2, <1>3, <1>4 DEF SessionInv

(* Power may fail at any moment, within a transfer too.                       *)
LEMMA SwitchOffInv ==
  ASSUME SessionInv, SwitchOff
  PROVE  /\ SessionInv'
         /\ \A k \in 1 .. (FATS - 1), x \in 0 .. (SPF - 1) :
              Disk'[Place(x) + k * SPF] = Disk[Place(x) + k * SPF]
<1>1. /\ PowerLoss /\ prog' = "off" /\ cache' = [s \in {} |-> 0] /\ evicting' = {} /\ pos' = 0
      /\ pending' = {} /\ chain' = <<>> /\ UNCHANGED version /\ pc' = "down"
  BY DEF SwitchOff, PowerLoss
<1>2. Inv'
  BY <1>1, PowerLossInv DEF SessionInv
<1>3. Disk' = Disk \/ \E s \in evicting : Disk' = [Disk EXCEPT ![s] = Plain(cache[s])]
  <2>1. CASE UNCHANGED nand
    BY <2>1, DiskUnchanged
  <2>2. CASE ~UNCHANGED nand
    <3>1. pc = "write" /\ \E k \in 1 .. ChunkLen(cur.len) :
                            nand' = Stored(cur.offset, k, buffer, cur.pos)
      BY <1>1, <2>2 DEF PowerLoss
    <3>2. ChunkLen(cur.len) \in Nat
      BY CallNumbers, Sizes DEF ChunkLen, SessionInv, Inv
    <3>3. PICK k \in Nat : /\ k <= ChunkLen(cur.len)
                           /\ nand' = Stored(cur.offset, k, buffer, cur.pos)
      BY <3>1, <3>2
    <3> QED BY <3>1, <3>3, EvictStores DEF SessionInv
  <2> QED BY <2>1, <2>2
<1>4. /\ GoodDisk(Disk')
      /\ \A k \in 1 .. (FATS - 1), x \in 0 .. (SPF - 1) :
           Disk'[Place(x) + k * SPF] = Disk[Place(x) + k * SPF]
  BY <1>3, DiskWritten DEF SessionInv, EvictInv
<1>5. DSiChip(nand)'
  <2>1. nand'[0] = nand[0] /\ nand'[BOOT] = nand[BOOT]
    BY <1>1, FixedSectors DEF SessionInv, Next
  <2> QED BY <2>1, SameChip DEF SessionInv, ProgInv
<1>6. ProgInv' /\ EvictInv' /\ GoodCache(cache)'
  BY <1>1, <1>5 DEF ProgInv, EvictInv, GoodCache
<1>7. FileInv'
  BY <1>1 DEF SessionInv, FileInv
<1> QED BY <1>2, <1>4, <1>6, <1>7 DEF SessionInv

LEMMA SessionStutterInv ==
  ASSUME SessionInv, UNCHANGED allVars
  PROVE  SessionInv'
<1>1. UNCHANGED vars /\ UNCHANGED <<prog, version, cache, evicting, flushOK, pos, pending, chain>>
  BY DEF allVars, sessionVars
<1>2. Inv' /\ GoodDisk(Disk)' /\ UNCHANGED pc /\ (DSiChip(nand)' <=> DSiChip(nand))
  BY <1>1, DriverUnchanged
<1>3. ProgInv' /\ FileInv' /\ GoodCache(cache)'
  BY <1>1, <1>2 DEF SessionInv, ProgInv, FileInv, GoodCache
<1>4. EvictInv'
  BY <1>1, <1>2 DEF SessionInv, EvictInv, vars
<1> QED BY <1>2, <1>3, <1>4 DEF SessionInv

LEMMA SessionNextInv ==
  ASSUME "mbr" \notin Faults
  PROVE  SessionInv /\ [SessionNext]_allVars => SessionInv'
<1> SUFFICES ASSUME SessionInv, [SessionNext]_allVars  PROVE SessionInv'
  OBVIOUS
<1>1. CASE Mount
  BY <1>1, MountInv
<1>2. CASE GiveUp
  BY <1>2, GiveUpInv
<1>3. CASE Open
  BY <1>3, OpenInv
<1>4. CASE Fwrite
  BY <1>4, FwriteInv
<1>5. CASE Fclose
  BY <1>5, FcloseInv
<1>6. CASE WriteEntry
  BY <1>6, WriteEntryInv
<1>7. CASE Evict
  BY <1>7, EvictBegins
<1>8. CASE Evicted
  BY <1>8, EvictedInv
<1>9. CASE CheckWritten \/ Unmounted
  BY <1>9, FlushedInv
<1>10. CASE Merge
  BY <1>10, MergeStepInv
<1>11. CASE MergeDone
  BY <1>11, MergeDoneInv
<1>12. CASE Transfer
  BY <1>12, TransferInv
<1>13. CASE SwitchOff
  BY <1>13, SwitchOffInv
<1>14. CASE UNCHANGED allVars
  BY <1>14, SessionStutterInv
<1> QED BY <1>1, <1>2, <1>3, <1>4, <1>5, <1>6, <1>7, <1>8, <1>9, <1>10, <1>11, <1>12, <1>13,
           <1>14 DEF SessionNext, Program

LEMMA SessionInvHolds ==
  ASSUME "mbr" \notin Faults
  PROVE  SessionSpec => []SessionInv
  BY SessionInitInv, SessionNextInv, PTL DEF SessionSpec

-----------------------------------------------------------------------------
(* What the program promises.                                                 *)

(* The calls that libfat makes in a session keep to the rules that the proofs *)
(* about nandio.c assume of it.                                               *)
THEOREM SessionTypeCorrect ==
  ASSUME "mbr" \notin Faults
  PROVE  SessionSpec => []TypeOK
<1>1. SessionInv => TypeOK
  BY DEF SessionInv, Inv
<1> QED BY <1>1, SessionInvHolds, PTL

LEMMA FirstCopySound ==
  ASSUME GoodDisk(Disk)
  PROVE  OnDisk(0) \in Tables /\ Sound(OnDisk(0))
<1>1. \A x \in 0 .. (SPF - 1) : Place(x) + 0 * SPF = Place(x)
  BY PlaceSector, Sizes
<1> QED BY <1>1, CopySound DEF GoodDisk

(* main.cpp:320-345, system_info.cpp:96-133.  The system file survives every  *)
(* run of the program, on a chip of any size with files of any size: whatever *)
(* transfers fail but that of the partition table, and whenever the power     *)
(* goes, the first FAT copy leads to all of it and no chain of clusters leads *)
(* from launcher.dsi into it.                                                 *)
THEOREM SystemFileIsSafe ==
  ASSUME "mbr" \notin Faults
  PROVE  SessionSpec => []SystemFileSurvives
<1>1. ASSUME SessionInv  PROVE SystemFileSurvives
  <2>1. OnDisk(0) \in Tables /\ Sound(OnDisk(0)) /\ GoodDisk(Disk)
    BY <1>1, FirstCopySound DEF SessionInv
  <2>2. HoldsSystem(0)
    BY <2>1 DEF HoldsSystem, Sound, GoodDisk
  <2> DEFINE first == Disk[DIR].data[3]
  <2>3. first \notin SystemClusters
    BY <2>1, EofOutside DEF GoodDisk, Directory, FileClusters
  <2>4. \A d \in Clusters \ SystemClusters : OnDisk(0)[d] \notin SystemClusters
    BY <2>1 DEF Sound, FileClusters
  <2> HIDE DEF first
  <2>5. ReachedFrom(OnDisk(0), first) \cap SystemClusters = {}
    BY <2>3, <2>4, ReachedOutside
  <2>6. \A i \in 1 .. Len(SYSTEM) : SYSTEM[i] \notin ReachedFrom(OnDisk(0), first)
    BY <2>5, VolumeSizes
  <2> QED BY <2>2, <2>6 DEF SystemFileSurvives, first
<1>2. SessionInv => SystemFileSurvives
  BY <1>1
<1> QED BY <1>2, SessionInvHolds, PTL
-----------------------------------------------------------------------------
(* The backup copies.                                                         *)

LEMMA InitBackup == SessionInit => BackupInv
<1> SUFFICES ASSUME SessionInit  PROVE BackupInv
  OBVIOUS
<1>1. Volume(Disk) /\ pc = "down"
  BY SystemAssumption DEF SessionInit, Init, Disk
<1>2. ASSUME NEW k \in 1 .. (FATS - 1), NEW x \in 0 .. (SPF - 1)
      PROVE  /\ Disk[Place(x) + k * SPF].pads = {}
             /\ FatContent(Disk[Place(x) + k * SPF].data, x)
  <2>1. k \in 0 .. (FATS - 1)
    BY Sizes
  <2>2. PICK t \in Tables : Sound(t) /\ Disk[Place(x) + k * SPF] = Plain(FatImage(t, Place(x)))
    BY <1>1, <2>1 DEF Volume
  <2>3. Disk[Place(x) + k * SPF].pads = {}
        /\ Disk[Place(x) + k * SPF].data = FatImage(t, Place(x))
    BY <2>2 DEF Plain
  <2> QED BY <2>2, <2>3 DEF FatContent
<1> QED BY <1>1, <1>2 DEF BackupInv

(* The merge reads a sector of the first copy; where reads do not fail, that  *)
(* is what it carries.                                                        *)
LEMMA MergeReadBackup ==
  ASSUME "read" \notin Faults, SessionInv, BackupInv, MergeRead
  PROVE  BackupInv'
<1> DEFINE s == Place(merge.sector)
<1>1. /\ fat_sig_fix_offset = BOOT /\ merge.sector \in 0 .. (SPF - 1) /\ FatSector(0) = s
      /\ UNCHANGED nand /\ LoadSectorBuf(FatSector(0)) /\ merge' = [merge EXCEPT !.stage = 1]
  BY MergeTarget DEF MergeRead, SessionInv, Inv, Place
<1>2. s \in Sectors /\ s # BOOT /\ s \in Nat
  BY <1>1, PlaceSector
<1> HIDE DEF s
<1>3. Outcomes("read", s, 1) = {TRUE}
  <2>1. s + 1 <= NSECTORS /\ ~(s + 1 > NSECTORS)
    BY <1>2, Sizes DEF Sectors
  <2> QED BY <2>1, Zenon DEF Outcomes
<1>4. sector_buf' = Loaded(s, 1)
  <2>1. PICK ok \in Outcomes("read", FatSector(0), 1) :
          sector_buf' = IF ok THEN Loaded(FatSector(0), 1) ELSE sector_buf
    BY <1>1 DEF LoadSectorBuf
  <2>2. ok = TRUE
    BY <1>1, <1>3, <2>1
  <2> QED BY <1>1, <2>1, <2>2
<1>5. s + 1 - 1 = s
  BY <1>2
<1>6. sector_buf' = Disk[s] /\ Disk' = Disk
  BY <1>1, <1>2, <1>4, <1>5, DiskUnchanged DEF Loaded, Disk, DiskOf
<1>7. merge'.sector = merge.sector
  BY <1>1 DEF SessionInv, Inv, TypeOK
<1> QED BY <1>6, <1>7 DEF BackupInv, s

LEMMA MergeWriteBackup ==
  ASSUME SessionInv, BackupInv, MergeWrite
  PROVE  BackupInv'
<1> DEFINE target == Place(merge.sector) + merge.stage * SPF
<1>1. /\ merge.sector \in 0 .. (SPF - 1) /\ merge.stage \in 1 .. (FATS - 1)
  <2>1. Merging /\ pc = "merge_write" /\ merge.stage < FATS /\ merge.stage \in Nat \ {0}
    BY Sizes DEF SessionInv, Inv, TypeOK, MergeInv, MergeWrite, Merging
  <2>2. merge.stage \in 1 .. (FATS - 1)
    BY <2>1, Sizes
  <2> QED BY <2>1, <2>2, MergeTarget DEF SessionInv
<1>2. /\ target \in Sectors /\ nand' \in [Sectors -> Cells]
      /\ \A s \in Sectors \ {target} : nand'[s] = nand[s]
      /\ nand' = nand \/ nand'[target] = Crypt(target, sector_buf)
  BY MergeWriteStores DEF SessionInv, Place
<1>3. /\ sector_buf.pads = {} /\ FatContent(sector_buf.data, merge.sector)
      /\ sector_buf = Disk[Place(merge.sector)] /\ sector_buf \in Cells
  BY <1>1 DEF MergeWrite, BackupInv, SessionInv, GoodDisk, Inv, TypeOK
<1>4. ASSUME NEW s \in Sectors
      PROVE  Disk'[s] = Disk[s] \/ (s = target /\ Disk'[s] = sector_buf)
  BY <1>2, <1>3, CryptTwice DEF Disk, DiskOf
<1>5. ASSUME NEW k \in 1 .. (FATS - 1), NEW x \in 0 .. (SPF - 1)
      PROVE  /\ Disk'[Place(x) + k * SPF].pads = {}
             /\ FatContent(Disk'[Place(x) + k * SPF].data, x)
  <2>1. Place(x) + k * SPF \in Sectors
    BY BackupSector
  <2>2. Place(x) + k * SPF = target => x = merge.sector
    <3>1. Place(x) + k * SPF = target => x + k * SPF = merge.sector + merge.stage * SPF
      <4>1. k * SPF \in Nat /\ merge.stage * SPF \in Nat
        BY <1>1, Sizes
      <4> QED BY <1>1, <4>1, Sizes DEF Place
    <3>2. k \in Nat /\ merge.stage \in Nat
      BY <1>1
    <3> QED BY <1>1, <3>1, <3>2, CopiesApart
  <2> HIDE DEF target
  <2> QED BY <1>3, <1>4, <2>1, <2>2 DEF BackupInv
<1>6. pc' = "merge_write" => sector_buf' = Disk'[Place(merge'.sector)]
  <2> SUFFICES ASSUME pc' = "merge_write"  PROVE sector_buf' = Disk'[Place(merge'.sector)]
    OBVIOUS
  <2>1. merge' = [merge EXCEPT !.stage = @ + 1] /\ UNCHANGED sector_buf
    BY DEF MergeWrite, MergeNext
  <2>2. merge'.sector = merge.sector
    BY <2>1 DEF SessionInv, Inv, TypeOK
  <2>3. Place(merge.sector) \in Sectors /\ Place(merge.sector) # target
    BY <1>1, PlaceSector, BackupSector
  <2> QED BY <1>3, <1>4, <2>1, <2>2, <2>3
<1> QED BY <1>5, <1>6 DEF BackupInv

LEMMA BackupNext ==
  ASSUME "read" \notin Faults
  PROVE  SessionInv /\ BackupInv /\ [SessionNext]_allVars => BackupInv'
<1> SUFFICES ASSUME SessionInv, BackupInv, [SessionNext]_allVars  PROVE BackupInv'
  OBVIOUS
<1>1. CASE UNCHANGED vars
  <2>1. Disk' = Disk /\ UNCHANGED <<pc, sector_buf, merge>>
    BY <1>1, DriverUnchanged DEF vars
  <2> QED BY <2>1 DEF BackupInv
<1>2. CASE UNCHANGED nand /\ pc' # "merge_write"
  <2>1. Disk' = Disk
    BY <1>2, DiskUnchanged
  <2> QED BY <1>2, <2>1 DEF BackupInv
<1>3. CASE Transfer
  <2>1. pc' # "merge_write"
    BY <1>3 DEF Transfer, WriteChunk, CallDone, Return
  <2> QED BY <1>3, <2>1, TransferInv DEF BackupInv
<1>4. CASE SwitchOff
  <2>1. pc' # "merge_write"
    BY <1>4 DEF SwitchOff, PowerLoss
  <2> QED BY <1>4, <2>1, SwitchOffInv DEF BackupInv
<1>5. CASE MergeRead
  BY <1>5, MergeReadBackup
<1>6. CASE MergeWrite
  BY <1>6, MergeWriteBackup
<1>7. CASE Mount \/ Evict \/ MergeDone \/ ShutdownBegin
  <2>1. UNCHANGED nand /\ pc' # "merge_write"
    BY <1>7 DEF Mount, Startup, StartupRefused, Evict, Enter, MergeDone, ShutdownEnd,
                ShutdownBegin
  <2> QED BY <1>2, <2>1
<1>8. \/ UNCHANGED vars
      \/ Transfer \/ SwitchOff \/ MergeRead \/ MergeWrite
      \/ Mount \/ Evict \/ MergeDone \/ ShutdownBegin
  BY DEF SessionNext, Program, GiveUp, Open, Fwrite, Fclose, WriteEntry, Evicted, CheckWritten,
         Unmounted, Merge, allVars
<1> QED BY <1>1, <1>3, <1>4, <1>5, <1>6, <1>7, <1>8

(* nandio.c:194-227.  Where no read fails, every backup copy of the FAT leads *)
(* to the whole system file too, at every moment, the middle of the merge     *)
(* included: writes may fail and the power may go.                            *)
THEOREM BackupIsSafe ==
  ASSUME "mbr" \notin Faults, "read" \notin Faults
  PROVE  SessionSpec => []BackupHoldsSystem
<1>1. ASSUME SessionInv, BackupInv  PROVE BackupHoldsSystem
  <2> SUFFICES ASSUME NEW k \in 1 .. (FATS - 1)  PROVE HoldsSystem(k)
    BY DEF BackupHoldsSystem
  <2>1. k \in Nat
    OBVIOUS
  <2>2. Sound(OnDisk(k))
    BY <1>1, <2>1, CopySound DEF BackupInv
  <2> QED BY <1>1, <2>2 DEF HoldsSystem, Sound, SessionInv, GoodDisk
<1>2. SessionInv /\ BackupInv => BackupHoldsSystem
  BY <1>1
<1> QED BY <1>2, SessionInitInv, SessionNextInv, InitBackup, BackupNext, PTL DEF SessionSpec
-----------------------------------------------------------------------------
(* What is on the chip when the backup copies of the FAT are updated and when *)
(* the success screen comes, and that the session keeps to the staging that   *)
(* StagedFat describes.                                                       *)

-----------------------------------------------------------------------------
(* The inductive invariant.                                                   *)

(* The disk as libfat would read it.                                          *)
Shown == [s \in Sectors |-> IF s \in DOMAIN cache THEN Plain(cache[s]) ELSE Disk[s]]

(* A sector whose writing succeeded is on the disk.                           *)
StoredInv ==
  /\ pc = "write" /\ cur.len = 0 => \A s \in evicting : Disk[s] = Plain(cache[s])
  /\ pc = "ready" => \A s \in evicting : IF ret THEN Disk[s] = Plain(cache[s]) ELSE faulted

(* A flush that did not succeed leaves a mark.                                *)
FlushInv ==
  /\ prog \in {"off", "open"} => flushOK
  /\ ~flushOK => faulted
  /\ prog \in {"merge", "success"} => DOMAIN cache = {}

(* The clusters of launcher.dsi, all of them different, are linked and have   *)
(* their content, in the cache or on the disk, and so has its entry once the  *)
(* file is closed.  Only fatUnmount after a failed flush loses any of it.     *)
Kept       == prog \in {"merge", "success"} /\ ~faulted
FileOpen   == prog \in {"write", "close", "flush", "unmount"} \/ Kept
FileClosed == prog \in {"flush", "unmount"} \/ Kept
Distinct(f) == \A i, j \in 1 .. Len(f) : f[i] = f[j] => i = j
LinkInv ==
  /\ Distinct(chain)
  /\ FileOpen =>
       /\ Linked(Table, chain)
       /\ \A i \in 1 .. Len(chain) : Shown[ClusterSector(chain[i])] = Plain(Chunk(version, i))
EntryInv ==
  FileClosed =>
    Shown[DIR] = Plain(<<"dir", 1, IF chain = <<>> THEN FREE ELSE chain[1], Len(chain)>>)

(* The copies are equal after a merge without a failure.                      *)
SyncInv == prog = "success" /\ ~faulted => Synchronized

CommitInv == StoredInv /\ FlushInv /\ LinkInv /\ EntryInv /\ SyncInv

-----------------------------------------------------------------------------
(* What libfat sees.                                                          *)

LEMMA ShownView ==
  ASSUME NEW s \in Sectors
  PROVE  View(s) = Shown[s].data
  BY DEF View, Shown, Plain

LEMMA FatSectorPlace ==
  ASSUME NEW c \in Clusters
  PROVE  FatSectorOf(0, c) \in Sectors /\ FatSectorOf(0, c) \in FatPlaces
                                       /\ FatSectorOf(0, c) # DIR
<1>1. PICK x : EntryAt(c, x)
  BY EntryPlace
<1> QED BY <1>1, PlaceSector, DirectoryApart DEF EntryAt, FatPlaces

LEMMA TableShown ==
  ASSUME NEW c \in Clusters
  PROVE  Table[c] = Shown[FatSectorOf(0, c)].data[SlotOf(c)]
<1>1. Table[c] = View(FatSectorOf(0, c))[SlotOf(c)]
  BY DEF Table
<1> QED BY <1>1, FatSectorPlace, ShownView

(* The same table from the same sectors.                                      *)
LEMMA SameTable ==
  ASSUME \A c \in Clusters : Shown'[FatSectorOf(0, c)] = Shown[FatSectorOf(0, c)]
  PROVE  Table' = Table
<1>1. ASSUME NEW c \in Clusters  PROVE Table'[c] = Table[c]
  <2>1. FatSectorOf(0, c) \in Sectors
    BY FatSectorPlace
  <2>2. Table'[c] = View(FatSectorOf(0, c))'[SlotOf(c)]
    BY DEF Table
  <2>3. View(FatSectorOf(0, c))' = Shown'[FatSectorOf(0, c)].data
    BY <2>1 DEF View, Shown, Plain
  <2> QED BY <2>2, <2>3, TableShown
<1>2. Table' = [c \in Clusters |-> Table'[c]] /\ Table = [c \in Clusters |-> Table[c]]
  BY DEF Table
<1> QED BY <1>1, <1>2

(* Caching what libfat changes in a table gives that table.                   *)
LEMMA TableAfter ==
  ASSUME NEW T \in Tables, NEW new, UNCHANGED nand, cache' = Cached(new),
         DOMAIN CachedTable(T) \subseteq DOMAIN new,
         \A s \in FatPlaces \cap DOMAIN new :
           s \in DOMAIN CachedTable(T) /\ new[s] = CachedTable(T)[s]
  PROVE  Table' = T
<1>1. ASSUME NEW c \in Clusters  PROVE Table'[c] = T[c]
  <2>1. PICK x : EntryAt(c, x)
    BY EntryPlace
  <2> DEFINE s == Place(x)
  <2>2. s \in FatPlaces /\ FatSectorOf(0, c) = s /\ FatImage(T, s)[SlotOf(c)] = T[c]
    BY <2>1 DEF EntryAt, FatPlaces
  <2> HIDE DEF s
  <2>3. Table'[c] = View(s)'[SlotOf(c)] /\ Table[c] = View(s)[SlotOf(c)]
    BY <2>2 DEF Table
  <2>4. CASE s \in DOMAIN CachedTable(T)
    <3>1. CachedTable(T)[s] = FatImage(T, s)
      BY <2>4 DEF CachedTable
    <3>2. s \in DOMAIN new /\ new[s] = FatImage(T, s)
      BY <2>2, <2>4, <3>1
    <3>3. s \in DOMAIN cache' /\ cache'[s] = new[s]
      BY <3>2 DEF Cached
    <3> QED BY <2>2, <2>3, <3>2, <3>3 DEF View
  <2>5. CASE s \notin DOMAIN CachedTable(T)
    <3>1. s \notin DOMAIN new
      BY <2>2, <2>5
    <3>2. (s \in DOMAIN cache' <=> s \in DOMAIN cache) /\ (s \in DOMAIN cache => cache'[s] = cache[s])
      BY <3>1 DEF Cached
    <3>3. View(s)' = View(s)
      BY <3>2, DiskUnchanged DEF View
    <3>4. T[c] = Table[c]
      BY <2>2, <2>5 DEF CachedTable
    <3> QED BY <2>3, <3>3, <3>4
  <2> QED BY <2>4, <2>5
<1>2. Table' = [c \in Clusters |-> Table'[c]]
  BY DEF Table
<1> QED BY <1>1, <1>2 DEF Tables

(* The file stays as it is where libfat sees the same.                        *)
LEMMA FileKept ==
  ASSUME LinkInv, EntryInv, UNCHANGED <<version, chain>>, FileOpen' => FileOpen,
         FileClosed' => FileClosed,
         FileOpen' => /\ \A c \in Clusters : /\ Shown'[FatSectorOf(0, c)] = Shown[FatSectorOf(0, c)]
                                             /\ Shown'[ClusterSector(c)] = Shown[ClusterSector(c)]
                      /\ FileClosed' => Shown'[DIR] = Shown[DIR],
         chain \in Seq(Clusters)
  PROVE  LinkInv' /\ EntryInv'
<1>1. FileClosed' => FileOpen'
  BY DEF FileClosed, FileOpen
<1>2. \A i \in 1 .. Len(chain) : chain[i] \in Clusters
  OBVIOUS
<1>3. FileOpen' => Table' = Table
  BY SameTable
<1>4. LinkInv'
  BY <1>2, <1>3 DEF LinkInv, Linked
<1>5. EntryInv'
  BY <1>1 DEF EntryInv
<1> QED BY <1>4, <1>5

-----------------------------------------------------------------------------
(* libfat appends a cluster.                                                  *)

(* A list and one element more.                                               *)
LEMMA Appended ==
  ASSUME NEW S, NEW f \in Seq(S), NEW a \in S, NEW g, g = f \o <<a>>
  PROVE  /\ g \in Seq(S) /\ Len(g) = Len(f) + 1 /\ g[Len(f) + 1] = a
         /\ \A i \in 1 .. Len(f) : g[i] = f[i]
<1>1. <<a>> \in Seq(S) /\ Len(<<a>>) = 1 /\ Len(f) \in Nat
  OBVIOUS
<1>2. Len(f) + 1 \in 1 .. (Len(f) + Len(<<a>>)) /\ ~(Len(f) + 1 <= Len(f))
      /\ Len(f) + 1 - Len(f) = 1
  BY <1>1
<1>3. g[Len(f) + 1] = <<a>>[1]
  BY <1>1, <1>2, ConcatProperties
<1>4. ASSUME NEW i \in 1 .. Len(f)  PROVE g[i] = f[i]
  <2>1. i \in 1 .. (Len(f) + Len(<<a>>)) /\ i <= Len(f)
    BY <1>1
  <2> QED BY <1>1, <2>1, ConcatProperties
<1> QED BY <1>1, <1>3, <1>4, ConcatProperties

(* A free cluster is not one of the file's.                                   *)
LEMMA FreeIsNew ==
  ASSUME NEW t, NEW f \in Seq(Clusters), Linked(t, f), NEW c, t[c] = FREE
  PROVE  \A i \in 1 .. Len(f) : f[i] # c
<1> SUFFICES ASSUME NEW i \in 1 .. Len(f), f[i] = c  PROVE FALSE
  OBVIOUS
<1>1. t[c] = IF i < Len(f) THEN f[i + 1] ELSE EOF
  BY DEF Linked
<1>2. i < Len(f) => f[i + 1] \in Clusters
  <2>1. Len(f) \in Nat
    OBVIOUS
  <2>2. i < Len(f) => i + 1 \in 1 .. Len(f)
    BY <2>1
  <2> QED BY <2>2
<1>3. FREE \notin Clusters /\ EOF # FREE
  BY VolumeSizes DEF FREE, EOF, Clusters
<1> QED BY <1>1, <1>2, <1>3

(* Linking it behind the last one gives the longer file.                      *)
LinkTo(t, f, c) ==
  [d \in Clusters |-> IF d = c THEN EOF ELSE IF f # <<>> /\ d = f[Len(f)] THEN c ELSE t[d]]
LEMMA LinkedLonger ==
  ASSUME NEW t, NEW f \in Seq(Clusters), Linked(t, f), Distinct(f),
         NEW c \in Clusters, t[c] = FREE
  PROVE  Linked(LinkTo(t, f, c), f \o <<c>>) /\ Distinct(f \o <<c>>)
<1> DEFINE g == f \o <<c>>
           u == LinkTo(t, f, c)
<1>1. /\ g \in Seq(Clusters) /\ Len(g) = Len(f) + 1 /\ g[Len(f) + 1] = c
      /\ \A i \in 1 .. Len(f) : g[i] = f[i]
  BY Appended
<1>2. \A d \in Clusters : u[d] = IF d = c THEN EOF
                   ELSE IF f # <<>> /\ d = f[Len(f)] THEN c ELSE t[d]
  BY DEF LinkTo
<1> HIDE DEF g, u
<1>3. \A i \in 1 .. Len(f) : f[i] # c /\ f[i] \in Clusters
  BY FreeIsNew
<1> DEFINE n == Len(f)
<1>4. n \in Nat /\ (n # 0 => f # <<>>)
  OBVIOUS
<1> HIDE DEF n
<1>5. /\ \A i \in 1 .. n : g[i] = f[i] /\ f[i] # c /\ f[i] \in Clusters
      /\ Len(g) = n + 1 /\ g[n + 1] = c /\ Len(f) = n
      /\ \A i, j \in 1 .. n : f[i] = f[j] => i = j
  BY <1>1, <1>3 DEF n, Distinct
<1>6. \A i, j \in 1 .. (n + 1) : g[i] = g[j] => i = j
  <2>1. \A i \in 1 .. (n + 1) : i \in 1 .. n \/ i = n + 1
    BY <1>4
  <2> QED BY <1>5, <2>1
<1>7. ASSUME NEW i \in 1 .. (n + 1)
      PROVE  u[g[i]] = IF i < n + 1 THEN g[i + 1] ELSE EOF
  <2>1. CASE i = n + 1
    <3>1. u[c] = EOF /\ ~(i < n + 1)
      BY <1>4, <1>2, <2>1
    <3> QED BY <1>5, <2>1, <3>1
  <2>2. CASE i = n
    <3>1. i \in 1 .. n /\ n # 0 /\ i < n + 1
      BY <1>4, <2>2
    <3>2. u[f[n]] = c
      BY <1>4, <1>5, <1>2, <2>2, <3>1
    <3> QED BY <1>5, <2>2, <3>1, <3>2
  <2>3. CASE i \in 1 .. (n - 1)
    <3>1. i \in 1 .. n /\ n \in 1 .. n /\ i + 1 \in 1 .. n /\ i # n /\ i < n /\ i < n + 1
      BY <1>4, <2>3
    <3>2. f[i] # f[n] /\ f[i] # c /\ f[i] \in Clusters
      BY <1>5, <3>1
    <3>3. u[f[i]] = t[f[i]]
      BY <1>5, <1>2, <3>2
    <3>4. t[f[i]] = f[i + 1]
      BY <1>5, <3>1 DEF Linked
    <3> QED BY <1>5, <3>1, <3>3, <3>4
  <2> QED BY <1>4, <2>1, <2>2, <2>3
<1>8. Linked(u, g)
  BY <1>5, <1>7 DEF Linked
<1>9. Distinct(g)
  BY <1>5, <1>6 DEF Distinct
<1> QED BY <1>8, <1>9 DEF g, u

LEMMA ClusterShown ==
  ASSUME SessionInv, LinkInv, FileOpen, UNCHANGED <<nand, version>>, NEW i, i = Len(chain) + 1,
         AddCluster(i)
  PROVE  LinkInv'
<1> DEFINE c == FirstOf(FreeClusters)
           table == [d \in Clusters |-> IF d = c THEN EOF
                       ELSE IF chain # <<>> /\ d = chain[Len(chain)] THEN c ELSE Table[d]]
           new == [s \in {ClusterSector(c)} \cup DOMAIN CachedTable(table) |->
                            IF s = ClusterSector(c) THEN Chunk(version, i)
                            ELSE CachedTable(table)[s]]
<1>1. FreeClusters # {} /\ cache' = Cached(new) /\ chain' = chain \o <<c>>
  BY DEF AddCluster
<1>2. Table \in Tables /\ Sound(Table) /\ chain \in Seq(Clusters)
  <2>1. chain \in Seq(FileClusters)
    BY DEF SessionInv, FileInv
  <2> QED BY <2>1, SeqMonotonic, ViewSound DEF SessionInv, FileClusters
<1>3. c \in Clusters /\ Table[c] = FREE
  BY <1>1, <1>2, FreeOutside DEF FileClusters
<1> HIDE DEF c
<1>4. Linked(Table, chain) /\ Distinct(chain)
  BY DEF LinkInv
<1>5. table = LinkTo(Table, chain, c)
  BY DEF LinkTo
<1>6. table \in Tables
  BY <1>2, <1>3, EofOutside DEF Tables
<1> HIDE DEF table
<1>7. Linked(table, chain') /\ Distinct(chain')
  BY <1>1, <1>2, <1>3, <1>4, <1>5, LinkedLonger
<1>8. DOMAIN CachedTable(table) \subseteq FatPlaces
  <2>1. \A d \in Clusters : FatSectorOf(0, d) \in FatPlaces
    BY FatSectorPlace
  <2> QED BY <2>1 DEF CachedTable
<1>9. \A d \in Clusters : ClusterSector(d) \notin FatPlaces /\ ClusterSector(d) \in Sectors
  <2>1. \A x \in 0 .. (SPF - 1) : Place(x) \in Nat /\ Place(x) < DIR
    BY PlaceSector
  <2>2. \A d \in Clusters : ClusterSector(d) > DIR /\ ClusterSector(d) \in Sectors
                            /\ ClusterSector(d) \in Nat
    BY ClusterPlace, Sizes DEF Sectors
  <2> QED BY <2>1, <2>2, VolumeSizes DEF FatPlaces
<1>10. Table' = table
  <2>1. \A s \in FatPlaces \cap DOMAIN new :
           s \in DOMAIN CachedTable(table) /\ new[s] = CachedTable(table)[s]
    BY <1>3, <1>9
  <2>2. DOMAIN CachedTable(table) \subseteq DOMAIN new
    OBVIOUS
  <2> HIDE DEF new
  <2> QED BY <1>1, <1>6, <2>1, <2>2, TableAfter
<1>11. /\ Shown'[ClusterSector(c)] = Plain(Chunk(version, i))
       /\ \A d \in Clusters : d # c => Shown'[ClusterSector(d)] = Shown[ClusterSector(d)]
  <2>1. ClusterSector(c) \in DOMAIN new /\ new[ClusterSector(c)] = Chunk(version, i)
    OBVIOUS
  <2>2. \A d \in Clusters : d # c => ClusterSector(d) \notin DOMAIN new
    BY <1>3, <1>8, <1>9, ClusterPlace
  <2> HIDE DEF new
  <2>3. Disk' = Disk
    BY DiskUnchanged
  <2>4. cache'[ClusterSector(c)] = new[ClusterSector(c)] /\ ClusterSector(c) \in DOMAIN cache'
    BY <1>1, <2>1 DEF Cached
  <2>5. \A d \in Clusters : d # c =>
          /\ ClusterSector(d) \in DOMAIN cache' <=> ClusterSector(d) \in DOMAIN cache
          /\ ClusterSector(d) \in DOMAIN cache => cache'[ClusterSector(d)] = cache[ClusterSector(d)]
    BY <1>1, <2>2 DEF Cached
  <2> QED BY <1>3, <1>9, <2>1, <2>3, <2>4, <2>5 DEF Shown
<1>12. /\ Len(chain') = Len(chain) + 1 /\ chain'[Len(chain) + 1] = c
       /\ \A k \in 1 .. Len(chain) : chain'[k] = chain[k] /\ chain[k] # c /\ chain[k] \in Clusters
  BY <1>1, <1>2, <1>3, <1>4, Appended, FreeIsNew
<1>13. ASSUME NEW k \in 1 .. Len(chain')
       PROVE  Shown'[ClusterSector(chain'[k])] = Plain(Chunk(version', k))
  <2>1. k \in 1 .. Len(chain) \/ k = Len(chain) + 1
    <3>1. Len(chain) \in Nat
      BY <1>2
    <3> QED BY <1>12, <3>1
  <2>2. CASE k = Len(chain) + 1
    BY <1>11, <1>12, <2>2
  <2>3. CASE k \in 1 .. Len(chain)
    <3>1. Shown[ClusterSector(chain[k])] = Plain(Chunk(version, k))
      BY <2>3 DEF LinkInv
    <3> QED BY <1>11, <1>12, <2>3, <3>1
  <2> QED BY <2>1, <2>2, <2>3
<1> QED BY <1>7, <1>10, <1>13 DEF LinkInv

-----------------------------------------------------------------------------
(* Every step of the session preserves the invariant.                         *)

LEMMA InitCommit == SessionInit => CommitInv
<1> SUFFICES ASSUME SessionInit  PROVE CommitInv
  OBVIOUS
<1>1. prog = "off" /\ evicting = {} /\ flushOK /\ Len(chain) = 0
  BY DEF SessionInit
<1> QED BY <1>1 DEF CommitInv, StoredInv, FlushInv, LinkInv, EntryInv, SyncInv, Distinct,
                    FileOpen, FileClosed, Kept

LEMMA ChainType ==
  ASSUME SessionInv
  PROVE  chain \in Seq(Clusters) /\ Len(chain) \in Nat
<1>1. chain \in Seq(FileClusters)
  BY DEF SessionInv, FileInv
<1> QED BY <1>1, SeqMonotonic DEF FileClusters

(* Nothing changes that libfat sees.                                          *)
LEMMA SameFile ==
  ASSUME SessionInv, CommitInv, UNCHANGED <<version, chain>>, FileOpen' => FileOpen,
         FileClosed' => FileClosed, FileOpen' => Shown' = Shown
  PROVE  LinkInv' /\ EntryInv'
  BY ChainType, FileKept DEF CommitInv

LEMMA SameShown ==
  ASSUME UNCHANGED <<nand, cache>>
  PROVE  Shown' = Shown
  BY DiskUnchanged DEF Shown

(* Nothing of the file is written yet, or no longer.                          *)
LEMMA NoFile ==
  ASSUME chain' = <<>>, ~FileClosed'
  PROVE  LinkInv' /\ EntryInv'
<1>1. Len(chain') = 0
  OBVIOUS
<1> QED BY <1>1 DEF LinkInv, EntryInv, Distinct, Linked

(* Steps before the file is opened.                                           *)
LEMMA EarlyCommit ==
  ASSUME SessionInv, CommitInv, Mount \/ GiveUp \/ Open
  PROVE  CommitInv'
<1>1. /\ prog \in {"off", "open"} /\ prog' \in {"open", "error", "write"}
      /\ prog = "open" => UNCHANGED vars
      /\ UNCHANGED <<evicting, flushOK, chain>> /\ pc' # "write"
  BY DEF Mount, GiveUp, Open, Startup, StartupRefused, fileVars, SessionInv, ProgInv, EvictInv,
         vars
<1>2. evicting = {} /\ chain = <<>>
  BY <1>1 DEF SessionInv, EvictInv, FileInv
<1>3. flushOK
  BY <1>1 DEF CommitInv, FlushInv
<1>4. LinkInv' /\ EntryInv'
  BY <1>1, <1>2, NoFile DEF FileClosed, Kept
<1> QED BY <1>1, <1>2, <1>3, <1>4 DEF CommitInv, StoredInv, FlushInv, SyncInv

(* The loop of system_writeFile, and fclose.                                  *)
LEMMA WriteCommit ==
  ASSUME SessionInv, CommitInv, Fwrite \/ Fclose
  PROVE  CommitInv'
<1>1. /\ UNCHANGED vars /\ UNCHANGED <<version, evicting>> /\ evicting = {}
      /\ prog = "write" /\ prog' \in {"write", "close"} /\ (flushOK' = flushOK \/ flushOK')
      /\ UNCHANGED <<cache, chain>> \/ \E i \in pending : AddCluster(i)
  BY DEF Fwrite, Fclose
<1>2. UNCHANGED <<nand, faulted, pc>>
  BY <1>1 DEF vars
<1>3. FileOpen /\ ~FileClosed'
  BY <1>1, <1>2 DEF FileOpen, FileClosed, Kept
<1>4. LinkInv'
  <2>1. CASE UNCHANGED <<cache, chain>>
    <3>1. Shown' = Shown
      BY <1>2, <2>1, SameShown
    <3> QED BY <1>1, <1>3, <2>1, <3>1, SameFile
  <2>2. CASE \E i \in pending : AddCluster(i)
    <3>1. PICK i \in pending : AddCluster(i)
      BY <2>2
    <3>2. i = Len(chain) + 1
      BY <1>1, <3>1, VolumeSizes DEF SessionInv, FileInv
    <3> QED BY <1>1, <1>2, <1>3, <3>1, <3>2, ClusterShown DEF CommitInv
  <2> QED BY <1>1, <2>1, <2>2
<1>5. EntryInv'
  BY <1>3 DEF EntryInv
<1>6. StoredInv' /\ SyncInv'
  BY <1>1 DEF StoredInv, SyncInv
<1>7. FlushInv'
  BY <1>1, <1>2 DEF CommitInv, FlushInv
<1> QED BY <1>4, <1>5, <1>6, <1>7 DEF CommitInv

(* The directory entry that fclose writes.                                    *)
LEMMA EntryCommit ==
  ASSUME SessionInv, CommitInv, WriteEntry
  PROVE  CommitInv'
<1> DEFINE entry == <<"dir", 1, IF chain = <<>> THEN FREE ELSE chain[1], Len(chain)>>
<1>1. /\ UNCHANGED vars /\ UNCHANGED <<version, chain, evicting, flushOK>> /\ evicting = {}
      /\ prog = "close" /\ prog' = "flush" /\ cache' = Cached([s \in {DIR} |-> entry])
  BY DEF WriteEntry, fileVars
<1>2. UNCHANGED <<nand, faulted, pc>>
  BY <1>1 DEF vars
<1>3. Disk' = Disk
  BY <1>2, DiskUnchanged
<1> HIDE DEF entry
<1>4. /\ DIR \in DOMAIN cache' /\ cache'[DIR] = entry
      /\ \A s \in Sectors : s # DIR =>
           /\ s \in DOMAIN cache' <=> s \in DOMAIN cache
           /\ s \in DOMAIN cache => cache'[s] = cache[s]
  BY <1>1 DEF Cached
<1>5. Shown'[DIR] = Plain(entry)
  BY <1>4, ClusterPlace DEF Shown
<1>6. \A s \in Sectors : s # DIR => Shown'[s] = Shown[s]
  BY <1>3, <1>4 DEF Shown
<1>7. \A c \in Clusters : /\ Shown'[FatSectorOf(0, c)] = Shown[FatSectorOf(0, c)]
                          /\ Shown'[ClusterSector(c)] = Shown[ClusterSector(c)]
  <2>1. \A c \in Clusters : ClusterSector(c) \in Sectors /\ ClusterSector(c) # DIR
    BY ClusterPlace, VolumeSizes
  <2>2. \A c \in Clusters : FatSectorOf(0, c) \in Sectors /\ FatSectorOf(0, c) # DIR
    BY FatSectorPlace
  <2> QED BY <1>6, <2>1, <2>2
<1>8. Table' = Table
  BY <1>7, SameTable
<1>9. \A i \in 1 .. Len(chain) : chain[i] \in Clusters
  BY ChainType
<1>10. FileOpen
  BY <1>1 DEF FileOpen
<1>11. LinkInv'
  BY <1>1, <1>7, <1>8, <1>9, <1>10 DEF CommitInv, LinkInv, Linked, Distinct
<1>12. EntryInv'
  BY <1>1, <1>5 DEF EntryInv, entry
<1>13. StoredInv' /\ SyncInv' /\ FlushInv'
  BY <1>1, <1>2 DEF CommitInv, StoredInv, SyncInv, FlushInv
<1> QED BY <1>11, <1>12, <1>13 DEF CommitInv

(* libfat writes a sector back.                                               *)
LEMMA EvictCommit ==
  ASSUME SessionInv, CommitInv, Evict
  PROVE  CommitInv'
<1>1. PICK s \in DOMAIN cache : Enter("write", s, <<Plain(cache[s])>>)
  BY DEF Evict
<1>2. /\ UNCHANGED <<prog, version, chain, cache, flushOK, nand, faulted>>
      /\ prog \in {"write", "close", "flush", "unmount"} /\ pc' = "write"
      /\ cur'.len = 1
  <2>1. Len(<<Plain(cache[s])>>) = 1
    OBVIOUS
  <2> QED BY <1>1, <2>1 DEF Evict, Enter, fileVars
<1>3. Shown' = Shown
  BY <1>2, SameShown
<1>4. (FileOpen' <=> FileOpen) /\ (FileClosed' <=> FileClosed)
  BY <1>2 DEF FileOpen, FileClosed, Kept
<1>5. LinkInv' /\ EntryInv'
  BY <1>2, <1>3, <1>4, SameFile
<1>6. StoredInv' /\ FlushInv' /\ SyncInv'
  BY <1>2 DEF CommitInv, StoredInv, FlushInv, SyncInv
<1> QED BY <1>5, <1>6 DEF CommitInv

LEMMA TransferCommit ==
  ASSUME SessionInv, CommitInv, Transfer
  PROVE  CommitInv'
<1>1. /\ UNCHANGED <<prog, version, cache, evicting, flushOK, chain>>
      /\ WriteChunk \/ CallDone
  BY DEF Transfer, sessionVars
<1>2. pc = "write" /\ prog \in {"write", "close", "flush", "unmount"}
      /\ evicting \subseteq DOMAIN cache /\ evicting # {}
      /\ \A s, t \in evicting : s = t
  BY <1>1 DEF WriteChunk, CallDone, SessionInv, ProgInv, EvictInv
<1>3. PICK s \in evicting : TRUE
  BY <1>2
<1>4. evicting = {s} /\ s \in DOMAIN cache /\ s \in Sectors
  BY <1>2, <1>3, CachedSector DEF SessionInv
<1>5. \/ /\ Disk' = Disk \/ Disk' = [Disk EXCEPT ![s] = Plain(cache[s])]
         /\ pc' = "ready" /\ ret' = FALSE /\ faulted'
      \/ /\ Disk' = [Disk EXCEPT ![s] = Plain(cache[s])]
         /\ pc' = "write" /\ faulted' = faulted
      \/ /\ Disk' = Disk /\ cur.len = 0
         /\ pc' = "ready" /\ ret' = TRUE /\ faulted' = faulted
  <2>1. CASE CallDone
    <3>1. UNCHANGED nand /\ cur.len = 0 /\ pc' = "ready" /\ ret' = TRUE /\ faulted' = (faulted \/ ~TRUE)
      BY <2>1 DEF CallDone, Return
    <3>2. faulted \in BOOLEAN
      BY DEF SessionInv, Inv, TypeOK
    <3>3. faulted' = faulted
      BY <3>1, <3>2
    <3> QED BY <3>1, <3>3, DiskUnchanged
  <2>2. CASE WriteChunk
    <3> DEFINE n == ChunkLen(cur.len)
    <3>1. cur.len \in Nat \ {0}
      BY <2>2, CallNumbers DEF WriteChunk, SessionInv, Inv
    <3>2. n \in 1 .. cur.len
      BY <3>1, ChunkLenBounds
    <3>3. n \in Nat /\ n # 0 /\ n <= n
      BY <3>2
    <3>4. \/ /\ nand' = Stored(cur.offset, n, buffer, cur.pos) /\ UNCHANGED <<pc, faulted>>
          \/ /\ \E k \in 0 .. n : nand' = Stored(cur.offset, k, buffer, cur.pos)
             /\ Return(FALSE)
      BY <2>2 DEF WriteChunk
    <3>5. CASE nand' = Stored(cur.offset, n, buffer, cur.pos) /\ UNCHANGED <<pc, faulted>>
      <4>1. (n = 0 /\ Disk' = Disk) \/ \E t \in evicting : Disk' = [Disk EXCEPT ![t] = Plain(cache[t])]
        BY <1>2, <3>3, <3>5, EvictStores DEF SessionInv
      <4> QED BY <1>2, <1>4, <3>3, <3>5, <4>1
    <3>6. CASE /\ \E k \in 0 .. n : nand' = Stored(cur.offset, k, buffer, cur.pos)
               /\ Return(FALSE)
      <4>1. PICK k \in 0 .. n : nand' = Stored(cur.offset, k, buffer, cur.pos)
        BY <3>6
      <4>2. k \in Nat /\ k <= n
        BY <3>3
      <4>3. Disk' = Disk \/ \E t \in evicting : Disk' = [Disk EXCEPT ![t] = Plain(cache[t])]
        BY <1>2, <4>1, <4>2, EvictStores DEF SessionInv
      <4>4. Disk' = Disk \/ Disk' = [Disk EXCEPT ![s] = Plain(cache[s])]
        BY <1>4, <4>3
      <4>5. pc' = "ready" /\ ret' = FALSE /\ faulted'
        BY <3>6 DEF Return
      <4> QED BY <4>4, <4>5
    <3> QED BY <3>4, <3>5, <3>6
  <2> QED BY <1>1, <2>1, <2>2
<1>6. Shown' = Shown
  <2>1. \A t \in Sectors : t # s => Disk'[t] = Disk[t]
    BY <1>5 DEF Disk, DiskOf
  <2> QED BY <1>1, <1>4, <2>1 DEF Shown
<1>7. (FileOpen' <=> FileOpen) /\ (FileClosed' <=> FileClosed)
  BY <1>1, <1>2 DEF FileOpen, FileClosed, Kept
<1>8. LinkInv' /\ EntryInv'
  BY <1>1, <1>6, <1>7, SameFile
<1>9. StoredInv'
  <2>1. Disk' = [Disk EXCEPT ![s] = Plain(cache[s])] => Disk'[s] = Plain(cache[s])
    BY <1>4 DEF Disk, DiskOf
  <2>2. cur.len = 0 => Disk[s] = Plain(cache[s])
    BY <1>2, <1>4 DEF CommitInv, StoredInv
  <2> QED BY <1>1, <1>4, <1>5, <2>1, <2>2 DEF StoredInv
<1>10. FlushInv' /\ SyncInv'
  BY <1>1, <1>2, <1>5 DEF CommitInv, FlushInv, SyncInv
<1> QED BY <1>8, <1>9, <1>10 DEF CommitInv

(* A sector leaves the cache when it is on the disk.                          *)
LEMMA EvictedCommit ==
  ASSUME SessionInv, CommitInv, Evicted
  PROVE  CommitInv'
<1>1. /\ UNCHANGED vars /\ UNCHANGED <<prog, version, chain>> /\ pc = "ready" /\ evicting' = {}
      /\ flushOK' = (flushOK /\ ret)
  BY DEF Evicted, fileVars
<1>2. PICK s \in evicting :
        cache' = IF ret THEN [t \in DOMAIN cache \ {s} |-> cache[t]] ELSE cache
  BY DEF Evicted
<1>3. s \in DOMAIN cache /\ s \in Sectors
      /\ prog \in {"write", "close", "flush", "unmount"}
  BY CachedSector DEF SessionInv, EvictInv
<1>4. UNCHANGED <<nand, pc, faulted>> /\ Disk' = Disk
  BY <1>1, DiskUnchanged DEF vars
<1>5. IF ret THEN Disk[s] = Plain(cache[s]) ELSE faulted
  BY <1>1 DEF CommitInv, StoredInv
<1>6. Shown' = Shown
  <2>1. CASE ~ret
    BY <1>2, <1>4, <2>1, SameShown
  <2>2. CASE ret
    <3>1. /\ s \notin DOMAIN cache' /\ Disk'[s] = Plain(cache[s])
          /\ \A t \in Sectors : t # s =>
               /\ t \in DOMAIN cache' <=> t \in DOMAIN cache
               /\ t \in DOMAIN cache => cache'[t] = cache[t]
      BY <1>2, <1>4, <1>5, <2>2
    <3> QED BY <1>3, <1>4, <3>1 DEF Shown
  <2> QED BY <2>1, <2>2
<1>7. (FileOpen' <=> FileOpen) /\ (FileClosed' <=> FileClosed)
  BY <1>1, <1>4 DEF FileOpen, FileClosed, Kept
<1>8. LinkInv' /\ EntryInv'
  BY <1>1, <1>6, <1>7, SameFile
<1>9. StoredInv'
  BY <1>1 DEF StoredInv
<1>10. FlushInv' /\ SyncInv'
  BY <1>1, <1>3, <1>4, <1>5 DEF CommitInv, FlushInv, SyncInv
<1> QED BY <1>8, <1>9, <1>10 DEF CommitInv

LEMMA CheckCommit ==
  ASSUME SessionInv, CommitInv, CheckWritten
  PROVE  CommitInv'
<1>1. /\ UNCHANGED vars /\ UNCHANGED <<version, chain, cache, evicting>> /\ evicting = {}
      /\ prog = "flush" /\ prog' \in {"error", "unmount"} /\ flushOK'
  BY DEF CheckWritten, Flushed, AfterWrite, fileVars
<1>2. UNCHANGED <<nand, pc, faulted>>
  BY <1>1 DEF vars
<1>3. FileOpen /\ FileClosed /\ Shown' = Shown
  BY <1>1, <1>2, SameShown DEF FileOpen, FileClosed
<1>4. LinkInv' /\ EntryInv'
  BY <1>1, <1>3, SameFile
<1>5. StoredInv' /\ FlushInv' /\ SyncInv'
  BY <1>1 DEF StoredInv, FlushInv, SyncInv
<1> QED BY <1>4, <1>5 DEF CommitInv

(* fatUnmount loses nothing but after a failed flush.                         *)
LEMMA UnmountCommit ==
  ASSUME SessionInv, CommitInv, Unmounted
  PROVE  CommitInv'
<1>1. /\ UNCHANGED vars /\ UNCHANGED <<version, chain, evicting, flushOK>> /\ evicting = {}
      /\ prog = "unmount" /\ prog' = "merge" /\ cache' = [s \in {} |-> 0]
      /\ DOMAIN cache = {} \/ ~flushOK
  BY DEF Unmounted, Flushed, fileVars
<1>2. UNCHANGED <<nand, pc, faulted>> /\ Disk' = Disk
  BY <1>1, DiskUnchanged DEF vars
<1>3. FileOpen /\ FileClosed
  BY <1>1 DEF FileOpen, FileClosed
<1>4. FileOpen' => ~faulted
  BY <1>1, <1>2 DEF FileOpen, Kept
<1>5. FileOpen' => DOMAIN cache = {}
  BY <1>1, <1>4 DEF CommitInv, FlushInv
<1>6. FileOpen' => Shown' = Shown
  BY <1>1, <1>2, <1>5 DEF Shown
<1>7. LinkInv' /\ EntryInv'
  BY <1>1, <1>3, <1>6, SameFile
<1>8. StoredInv' /\ FlushInv' /\ SyncInv'
  BY <1>1, <1>2 DEF CommitInv, StoredInv, FlushInv, SyncInv
<1> QED BY <1>7, <1>8 DEF CommitInv

LEMMA MergeCommit ==
  ASSUME SessionInv, CommitInv, Merge
  PROVE  CommitInv'
<1>1. /\ UNCHANGED <<prog, version, cache, evicting, flushOK, chain>> /\ prog = "merge"
  BY DEF Merge, sessionVars
<1>2. evicting = {} /\ DOMAIN cache = {}
  BY <1>1 DEF SessionInv, EvictInv, CommitInv, FlushInv
<1>3. /\ \A x \in 0 .. (SPF - 1) : Disk'[Place(x)] = Disk[Place(x)]
      /\ Disk'[DIR] = Disk[DIR]
      /\ \A c \in Clusters : Disk'[ClusterSector(c)] = Disk[ClusterSector(c)]
      /\ faulted => faulted'
  BY MergeLeaves
<1>4. \A c \in Clusters : FatSectorOf(0, c) \in FatPlaces /\ FatSectorOf(0, c) \in Sectors
                          /\ ClusterSector(c) \in Sectors /\ DIR \in Sectors
  BY FatSectorPlace, ClusterPlace
<1>5. \A c \in Clusters : /\ Shown'[FatSectorOf(0, c)] = Shown[FatSectorOf(0, c)]
                          /\ Shown'[ClusterSector(c)] = Shown[ClusterSector(c)]
  BY <1>1, <1>2, <1>3, <1>4 DEF Shown, FatPlaces
<1>6. Shown'[DIR] = Shown[DIR]
  BY <1>1, <1>2, <1>3, ClusterPlace DEF Shown
<1>7. (FileOpen' => FileOpen) /\ (FileClosed' => FileClosed)
  BY <1>1, <1>3 DEF FileOpen, FileClosed, Kept
<1>8. LinkInv' /\ EntryInv'
  BY <1>1, <1>5, <1>6, <1>7, ChainType, FileKept DEF CommitInv
<1>9. StoredInv' /\ FlushInv' /\ SyncInv'
  BY <1>1, <1>2, <1>3 DEF CommitInv, StoredInv, FlushInv, SyncInv
<1> QED BY <1>8, <1>9 DEF CommitInv

(* After a merge without a failure the copies are equal.                      *)
LEMMA DoneCommit ==
  ASSUME SessionInv, CommitInv, MergeDone
  PROVE  CommitInv'
<1>1. /\ UNCHANGED <<version, cache, evicting, flushOK, chain, nand, faulted>>
      /\ prog = "merge" /\ prog' = "success" /\ pc' = "down" /\ ShutdownEnd
  BY DEF MergeDone, fileVars, ShutdownEnd
<1>2. Shown' = Shown /\ Disk' = Disk
  BY <1>1, SameShown, DiskUnchanged
<1>3. (FileOpen' => FileOpen) /\ (FileClosed' => FileClosed)
  BY <1>1 DEF FileOpen, FileClosed, Kept
<1>4. LinkInv' /\ EntryInv'
  BY <1>1, <1>2, <1>3, SameFile
<1>5. SyncInv'
  BY <1>1, <1>2, EndSynchronized DEF SyncInv, Synchronized, SessionInv, ShutdownEnd
<1>6. StoredInv' /\ FlushInv'
  BY <1>1 DEF CommitInv, StoredInv, FlushInv
<1> QED BY <1>4, <1>5, <1>6 DEF CommitInv

LEMMA SwitchOffCommit ==
  ASSUME SessionInv, CommitInv, SwitchOff
  PROVE  CommitInv'
<1>1. prog' = "off" /\ evicting' = {} /\ flushOK' /\ chain' = <<>>
  BY DEF SwitchOff
<1>2. LinkInv' /\ EntryInv'
  BY <1>1, NoFile DEF FileClosed, Kept
<1> QED BY <1>1, <1>2 DEF CommitInv, StoredInv, FlushInv, SyncInv

LEMMA StutterCommit ==
  ASSUME SessionInv, CommitInv, UNCHANGED allVars
  PROVE  CommitInv'
<1>1. UNCHANGED <<nand, pc, cur, ret, faulted, prog, version, cache, evicting, flushOK, chain>>
  BY DEF allVars, sessionVars, vars
<1>2. Shown' = Shown /\ Disk' = Disk
  BY <1>1, SameShown, DiskUnchanged
<1>3. (FileOpen' => FileOpen) /\ (FileClosed' => FileClosed)
  BY <1>1 DEF FileOpen, FileClosed, Kept
<1>4. LinkInv' /\ EntryInv'
  BY <1>1, <1>2, <1>3, SameFile
<1>5. StoredInv' /\ FlushInv' /\ SyncInv'
  BY <1>1, <1>2 DEF CommitInv, StoredInv, FlushInv, SyncInv, Synchronized
<1> QED BY <1>4, <1>5 DEF CommitInv

LEMMA CommitNext == SessionInv /\ CommitInv /\ [SessionNext]_allVars => CommitInv'
<1> SUFFICES ASSUME SessionInv, CommitInv, [SessionNext]_allVars  PROVE CommitInv'
  OBVIOUS
<1>1. CASE Mount \/ GiveUp \/ Open
  BY <1>1, EarlyCommit
<1>2. CASE Fwrite \/ Fclose
  BY <1>2, WriteCommit
<1>3. CASE WriteEntry
  BY <1>3, EntryCommit
<1>4. CASE Evict
  BY <1>4, EvictCommit
<1>5. CASE Evicted
  BY <1>5, EvictedCommit
<1>6. CASE Transfer
  BY <1>6, TransferCommit
<1>7. CASE CheckWritten
  BY <1>7, CheckCommit
<1>8. CASE Unmounted
  BY <1>8, UnmountCommit
<1>9. CASE Merge
  BY <1>9, MergeCommit
<1>10. CASE MergeDone
  BY <1>10, DoneCommit
<1>11. CASE SwitchOff
  BY <1>11, SwitchOffCommit
<1>12. CASE UNCHANGED allVars
  BY <1>12, StutterCommit
<1> QED BY <1>1, <1>2, <1>3, <1>4, <1>5, <1>6, <1>7, <1>8, <1>9, <1>10, <1>11, <1>12
        DEF SessionNext, Program

LEMMA CommitHolds ==
  ASSUME "mbr" \notin Faults
  PROVE  SessionSpec => [](SessionInv /\ CommitInv)
  BY SessionInitInv, SessionNextInv, InitCommit, CommitNext, PTL DEF SessionSpec

-----------------------------------------------------------------------------
(* What the program promises.                                                 *)

(* When the cache is empty the first copy on the disk is what libfat sees.    *)
LEMMA TableOnDisk ==
  ASSUME GoodDisk(Disk), DOMAIN cache = {}
  PROVE  OnDisk(0) = Table
<1>1. ASSUME NEW c \in Clusters  PROVE OnDisk(0)[c] = Table[c]
  <2>1. PICK x : EntryAt(c, x)
    BY EntryPlace
  <2>2. x \in 0 .. (SPF - 1) /\ FatSectorOf(0, c) = Place(x)
    BY <2>1 DEF EntryAt
  <2>3. PICK t \in Tables : Disk[Place(x)].data = FatImage(t, Place(x))
    BY <2>2 DEF GoodDisk, FatContent
  <2>4. Kind(Place(x)) = "fat"
    BY <2>2, <2>3, ImageKind DEF Kind, GoodDisk
  <2>5. OnDisk(0)[c] = Disk[Place(x)].data[SlotOf(c)]
    BY <2>2, <2>4 DEF OnDisk
  <2>6. Table[c] = View(Place(x))[SlotOf(c)]
    BY <2>2 DEF Table
  <2> QED BY <2>5, <2>6 DEF View
<1>2. OnDisk(0) = [c \in Clusters |-> OnDisk(0)[c]] /\ Table = [c \in Clusters |-> Table[c]]
  BY DEF OnDisk, Table
<1> QED BY <1>1, <1>2

LEMMA LauncherOnDisk ==
  ASSUME SessionInv, CommitInv, Kept, Len(chain) = SIZE
  PROVE  HoldsLauncher(0)
<1>1. DOMAIN cache = {}
  BY DEF CommitInv, FlushInv, Kept
<1>2. \A s \in Sectors : Shown[s] = Disk[s]
  BY <1>1 DEF Shown
<1>3. FileOpen /\ FileClosed
  BY DEF FileOpen, FileClosed
<1>4. chain \in [1 .. SIZE -> Clusters] /\ chain # <<>>
  BY ChainType, VolumeSizes
<1>5. Disk[DIR] = Plain(<<"dir", 1, chain[1], SIZE>>)
  BY <1>2, <1>3, <1>4, ClusterPlace DEF CommitInv, EntryInv
<1>6. Disk[DIR].pads = {} /\ Disk[DIR].data = <<"dir", 1, chain[1], SIZE>>
  BY <1>5 DEF Plain
<1>7. Linked(OnDisk(0), chain)
  BY <1>1, <1>3, TableOnDisk DEF CommitInv, LinkInv, SessionInv
<1>8. \A i \in 1 .. SIZE : Disk[ClusterSector(chain[i])] = Plain(Chunk(version, i))
  <2>1. \A i \in 1 .. SIZE : ClusterSector(chain[i]) \in Sectors
    BY <1>4, ClusterPlace
  <2> QED BY <1>2, <1>3, <2>1 DEF CommitInv, LinkInv
<1>9. Kind(DIR) = "dir" /\ Disk[DIR].data[2] = 1 /\ Disk[DIR].data[4] = SIZE
      /\ chain[1] = Disk[DIR].data[3]
  BY <1>6 DEF Kind
<1> QED BY <1>4, <1>7, <1>8, <1>9 DEF HoldsLauncher

LEMMA SynchronizedCopies ==
  ASSUME Synchronized
  PROVE  CopiesEqual
<1> SUFFICES ASSUME NEW k \in 1 .. (FATS - 1)  PROVE OnDisk(k) = OnDisk(0)
  BY DEF CopiesEqual
<1>1. ASSUME NEW c \in Clusters  PROVE Disk[FatSectorOf(k, c)] = Disk[FatSectorOf(0, c)]
  <2>1. PICK x : EntryAt(c, x)
    BY EntryPlace
  <2>2. k \in Nat /\ x \in 0 .. (SPF - 1) /\ FatSectorOf(k, c) = Place(x) + k * SPF
        /\ FatSectorOf(0, c) = Place(x)
    BY <2>1 DEF EntryAt
  <2> QED BY <2>2 DEF Synchronized, Place
<1> QED BY <1>1 DEF OnDisk, Kind

(* main.cpp:340-345.  The success screen tells the truth, unless a transfer   *)
(* failed since the driver was started: every FAT copy is up to date, and     *)
(* launcher.dsi is on the chip as a whole if libfat found room for it.        *)
THEOREM SuccessTellsTheTruth ==
  ASSUME "mbr" \notin Faults
  PROVE  SessionSpec => []SuccessIsTrue
<1>1. ASSUME SessionInv, CommitInv  PROVE SuccessIsTrue
  <2> SUFFICES ASSUME prog = "success", ~faulted
               PROVE  CopiesEqual /\ (Len(chain) = SIZE => HoldsLauncher(0))
    BY DEF SuccessIsTrue
  <2>1. Kept
    BY DEF Kept
  <2>2. Synchronized
    BY <1>1 DEF CommitInv, SyncInv
  <2> QED BY <1>1, <2>1, <2>2, LauncherOnDisk, SynchronizedCopies
<1>2. SessionInv /\ CommitInv => SuccessIsTrue
  BY <1>1
<1> QED BY <1>2, CommitHolds, PTL

(* nandio.c:199-200, main.cpp:331-343.  A backup copy of the FAT changes only *)
(* after launcher.dsi was written to its end and libfat let go of the disk;   *)
(* where no transfer failed the file is then whole on the chip.  A run that   *)
(* is given up, or that is switched off before, leaves the backup copies as   *)
(* they were.                                                                 *)
THEOREM BackupChangesLate ==
  ASSUME "mbr" \notin Faults
  PROVE  SessionSpec => CommitsLate
<1> DEFINE Late ==
      \A k \in 1 .. (FATS - 1), c \in Clusters :
       Disk'[FatSectorOf(k, c)] # Disk[FatSectorOf(k, c)] =>
         prog = "merge" /\ pos = SIZE /\ DOMAIN cache = {}
         /\ (~faulted /\ Len(chain) = SIZE => HoldsLauncher(0))
<1>1. ASSUME SessionInv, CommitInv, SessionNext  PROVE Late
  <2> SUFFICES ASSUME NEW k \in 1 .. (FATS - 1), NEW c \in Clusters,
                      Disk'[FatSectorOf(k, c)] # Disk[FatSectorOf(k, c)]
               PROVE  prog = "merge" /\ pos = SIZE /\ DOMAIN cache = {}
                      /\ (~faulted /\ Len(chain) = SIZE => HoldsLauncher(0))
    OBVIOUS
  <2>1. PICK x : EntryAt(c, x)
    BY EntryPlace
  <2>2. x \in 0 .. (SPF - 1) /\ FatSectorOf(k, c) = Place(x) + k * SPF
    BY <2>1 DEF EntryAt
  <2>3. ~UNCHANGED nand
    BY DiskUnchanged
  <2>4. ~Transfer /\ ~SwitchOff
    BY <1>1, <2>2, TransferInv, SwitchOffInv
  <2>5. Merge
    BY <1>1, <2>3, <2>4 DEF SessionNext, Program, Mount, Startup, StartupRefused, GiveUp, Open,
       Fwrite, Fclose, WriteEntry, Evict, Enter, Evicted, CheckWritten, Unmounted, MergeDone,
       ShutdownEnd, vars
  <2>6. prog = "merge" /\ pos = SIZE /\ DOMAIN cache = {}
    BY <1>1, <2>5 DEF Merge, SessionInv, FileInv, CommitInv, FlushInv
  <2>7. ~faulted => Kept
    BY <2>6 DEF Kept
  <2> QED BY <1>1, <2>6, <2>7, LauncherOnDisk
<1>2. SessionInv /\ CommitInv /\ [SessionNext]_allVars => [Late]_allVars
  BY <1>1
<1> QED BY <1>2, CommitHolds, PTL DEF SessionSpec, CommitsLate

-----------------------------------------------------------------------------
(* The staging of the copies, where no transfer fails.                        *)

LEMMA Certain ==
  ASSUME NEW kind, kind \notin Faults, NEW s \in Sectors
  PROVE  Outcomes(kind, s, 1) = {TRUE}
<1>1. s + 1 <= NSECTORS /\ ~(s + 1 > NSECTORS)
  BY Sizes DEF Sectors
<1> QED BY <1>1, Zenon DEF Outcomes

LEMMA CertainLoad ==
  ASSUME "read" \notin Faults, NEW s \in Sectors, LoadSectorBuf(s), ~faulted
  PROVE  ~faulted'
<1>1. Outcomes("read", s, 1) = {TRUE}
  BY Certain
<1>2. PICK ok \in Outcomes("read", s, 1) : faulted' = (faulted \/ ~ok)
  BY DEF LoadSectorBuf
<1>3. ok = TRUE
  BY <1>1, <1>2
<1> QED BY <1>2, <1>3

LEMMA NoFailure ==
  ASSUME "mbr" \notin Faults, "read" \notin Faults, "write" \notin Faults
  PROVE  SessionInv /\ ~faulted /\ [SessionNext]_allVars => ~faulted'
<1> SUFFICES ASSUME SessionInv, ~faulted, [SessionNext]_allVars  PROVE ~faulted'
  OBVIOUS
<1>1. CASE UNCHANGED faulted
  BY <1>1
<1>2. CASE Startup
  <2>1. Outcomes("mbr", 0, 1) = {TRUE}
    BY SectorZero, Certain
  <2>2. PICK ok \in Outcomes("mbr", 0, 1) : faulted' = ~ok
    BY <1>2 DEF Startup
  <2>3. ok = TRUE
    BY <2>1, <2>2
  <2> QED BY <2>2, <2>3
<1>3. CASE WriteChunk
  <2>1. pc = "write" /\ cur.len > 0
    BY <1>3 DEF WriteChunk
  <2>2. PICK s \in evicting : io = [offset |-> s, len |-> 1]
    BY <2>1 DEF SessionInv, EvictInv
  <2>3. s \in Sectors /\ s \in Nat
    BY CachedSector DEF SessionInv, EvictInv
  <2>4. io.offset = s /\ io.len = 1
    BY <2>2
  <2>5. cur.len = 1 /\ cur.offset = s
    BY <2>1, <2>3, <2>4, CallNumbers DEF SessionInv, Inv
  <2>6. ChunkLen(cur.len) = 1
    BY <2>5, Sizes DEF ChunkLen
  <2>7. Outcomes("write", cur.offset, ChunkLen(cur.len)) = {TRUE}
    BY <2>3, <2>5, <2>6, Certain
  <2>8. PICK ok \in Outcomes("write", cur.offset, ChunkLen(cur.len)) :
          ok => UNCHANGED faulted
    BY <1>3 DEF WriteChunk
  <2>9. ok = TRUE
    BY <2>7, <2>8
  <2> QED BY <2>8, <2>9
<1>4. CASE CallDone \/ PowerLoss
  BY <1>4 DEF CallDone, Return, PowerLoss
<1>5. CASE ShutdownBegin
  <2>1. fat_sig_fix_offset = BOOT
    BY <1>5 DEF ShutdownBegin, SessionInv, ProgInv, Inv, BootInv
  <2>2. LoadSectorBuf(BOOT)
    BY <1>5, <2>1 DEF ShutdownBegin
  <2> QED BY <2>2, SectorZero, CertainLoad
<1>6. CASE MergeRead
  <2>1. FatSector(0) = Place(merge.sector) /\ merge.sector \in 0 .. (SPF - 1)
    BY <1>6, MergeTarget DEF MergeRead, SessionInv, Place
  <2>2. LoadSectorBuf(Place(merge.sector)) /\ Place(merge.sector) \in Sectors
    BY <1>6, <2>1, PlaceSector DEF MergeRead
  <2> QED BY <2>2, CertainLoad
<1>7. CASE MergeWrite
  <2>1. /\ merge.sector \in 0 .. (SPF - 1) /\ merge.stage \in 1 .. (FATS - 1)
        /\ FatSector(merge.stage) = Place(merge.sector) + merge.stage * SPF
    <3>1. Merging /\ pc = "merge_write" /\ merge.stage < FATS /\ merge.stage \in Nat \ {0}
      BY <1>7, Sizes DEF SessionInv, Inv, TypeOK, MergeInv, MergeWrite, Merging
    <3>2. merge.stage \in 1 .. (FATS - 1)
      BY <3>1, Sizes
    <3> QED BY <3>1, <3>2, MergeTarget DEF SessionInv, Place
  <2>2. FatSector(merge.stage) \in Sectors
    BY <2>1, BackupSector
  <2>3. Outcomes("write", FatSector(merge.stage), 1) = {TRUE}
    BY <2>2, Certain
  <2>4. PICK ok \in Outcomes("write", FatSector(merge.stage), 1) : faulted' = (faulted \/ ~ok)
    BY <1>7 DEF MergeWrite
  <2>5. ok = TRUE
    BY <2>3, <2>4
  <2> QED BY <2>4, <2>5
<1>8. \/ UNCHANGED faulted \/ Startup \/ WriteChunk \/ CallDone \/ PowerLoss
      \/ ShutdownBegin \/ MergeRead \/ MergeWrite
  BY DEF SessionNext, Program, Mount, StartupRefused, GiveUp, Open, Fwrite, Fclose, WriteEntry,
         Evict, Enter, Evicted, CheckWritten, Unmounted, Merge, MergeDone, ShutdownEnd,
         Transfer, SwitchOff, vars, allVars
<1> QED BY <1>1, <1>2, <1>3, <1>4, <1>5, <1>6, <1>7, <1>8

(* The copies as StagedFat sees them.                                         *)
Primary == [x \in 0 .. (SPF - 1) |-> Disk[BOOT + RESERVED + x]]
Backup  == [k \in 1 .. (FATS - 1) |->
              [x \in 0 .. (SPF - 1) |-> Disk[BOOT + RESERVED + x + k * SPF]]]
Phase   == IF prog = "merge" THEN "commit"
           ELSE IF prog \in {"write", "close", "flush", "unmount"} THEN "work" ELSE "rest"

LEMMA CopiesUnchanged ==
  ASSUME Disk' = Disk
  PROVE  UNCHANGED <<Primary, Backup>>
  BY DEF Primary, Backup

LEMMA BackupUnchanged ==
  ASSUME \A k \in 1 .. (FATS - 1), x \in 0 .. (SPF - 1) :
           Disk'[Place(x) + k * SPF] = Disk[Place(x) + k * SPF]
  PROVE  UNCHANGED Backup
  BY DEF Backup, Place

(* A merge that carries what the first copy holds pushes it.                  *)
LEMMA MergePushes ==
  ASSUME SessionInv, BackupInv, MergeWrite
  PROVE  /\ UNCHANGED Primary
         /\ \E k \in 1 .. (FATS - 1), x \in 0 .. (SPF - 1) :
              Backup' = Backup \/ Backup' = [Backup EXCEPT ![k][x] = Primary[x]]
<1> DEFINE y == merge.sector
           j == merge.stage
           target == Place(y) + j * SPF
<1>1. y \in 0 .. (SPF - 1) /\ j \in 1 .. (FATS - 1)
  <2>1. Merging /\ pc = "merge_write" /\ merge.stage < FATS /\ merge.stage \in Nat \ {0}
    BY Sizes DEF SessionInv, Inv, TypeOK, MergeInv, MergeWrite, Merging
  <2>2. merge.stage \in 1 .. (FATS - 1)
    BY <2>1, Sizes
  <2> QED BY <2>1, <2>2, MergeTarget DEF SessionInv
<1>2. /\ target \in Sectors /\ nand' \in [Sectors -> Cells]
      /\ \A s \in Sectors \ {target} : nand'[s] = nand[s]
      /\ nand' = nand \/ nand'[target] = Crypt(target, sector_buf)
  BY MergeWriteStores DEF SessionInv, Place
<1>3. sector_buf = Disk[Place(y)] /\ sector_buf \in Cells
  BY DEF MergeWrite, BackupInv, SessionInv, Inv, TypeOK
<1> HIDE DEF target
<1>4. \A s \in Sectors : s # target => Disk'[s] = Disk[s]
  BY <1>2 DEF Disk, DiskOf
<1>5. Disk' = Disk \/ Disk'[target] = Disk[Place(y)]
  <2>1. CASE nand' = nand
    BY <2>1, DiskUnchanged
  <2>2. CASE nand'[target] = Crypt(target, sector_buf)
    <3>1. Disk'[target] = Crypt(target, nand'[target])
      BY <1>2 DEF Disk, DiskOf
    <3> QED BY <1>2, <1>3, <2>2, <3>1, CryptTwice
  <2> QED BY <1>2, <2>1, <2>2
<1>6. UNCHANGED Primary
  <2>1. \A x \in 0 .. (SPF - 1) : Place(x) \in Sectors /\ Place(x) # target
    BY <1>1, PlaceSector, BackupSector DEF target
  <2> QED BY <1>4, <2>1 DEF Primary, Place
<1>7. \A k \in 1 .. (FATS - 1), x \in 0 .. (SPF - 1) :
        Place(x) + k * SPF = target => k = j /\ x = y
  <2> SUFFICES ASSUME NEW k \in 1 .. (FATS - 1), NEW x \in 0 .. (SPF - 1),
                      Place(x) + k * SPF = target
               PROVE  k = j /\ x = y
    OBVIOUS
  <2>1. k * SPF \in Nat /\ j * SPF \in Nat /\ k \in Nat /\ j \in Nat
    BY <1>1, Sizes
  <2>2. x + k * SPF = y + j * SPF
    BY <1>1, <2>1, Sizes DEF Place, target
  <2> QED BY <1>1, <2>1, <2>2, CopiesApart
<1>8. CASE Disk' = Disk
  BY <1>1, <1>6, <1>8, CopiesUnchanged
<1>9. CASE Disk'[target] = Disk[Place(y)]
  <2>1. ASSUME NEW k \in 1 .. (FATS - 1), NEW x \in 0 .. (SPF - 1)
        PROVE  Backup'[k][x] = IF k = j /\ x = y THEN Primary[y] ELSE Backup[k][x]
    <3>1. Place(x) + k * SPF \in Sectors
      BY BackupSector
    <3>2. /\ Backup'[k][x] = Disk'[Place(x) + k * SPF]
          /\ Backup[k][x] = Disk[Place(x) + k * SPF]
          /\ Primary[y] = Disk[Place(y)]
      BY <1>1 DEF Backup, Primary, Place
    <3> QED BY <1>4, <1>7, <1>9, <3>1, <3>2 DEF target
  <2>2. Backup' = [k \in 1 .. (FATS - 1) |-> [x \in 0 .. (SPF - 1) |-> Backup'[k][x]]]
    BY DEF Backup
  <2>3. Backup' = [k \in 1 .. (FATS - 1) |->
                     [x \in 0 .. (SPF - 1) |->
                        IF k = j /\ x = y THEN Primary[y] ELSE Backup[k][x]]]
    BY <2>1, <2>2
  <2>4. [Backup EXCEPT ![j][y] = Primary[y]]
          = [k \in 1 .. (FATS - 1) |->
               [x \in 0 .. (SPF - 1) |->
                  IF k = j /\ x = y THEN Primary[y] ELSE Backup[k][x]]]
    BY DEF Backup
  <2> QED BY <1>1, <1>6, <2>3, <2>4
<1> QED BY <1>5, <1>8, <1>9

LEMMA InitStaging == SessionInit => SF!Init
  BY DEF SessionInit, SF!Init

LEMMA NextStaging ==
  ASSUME SessionInv, CommitInv, BackupInv, ~faulted, [SessionNext]_allVars
  PROVE  [SF!Next]_SF!vars
<1>1. CASE Mount \/ GiveUp
  <2>1. UNCHANGED nand /\ Phase = "rest" /\ Phase' = "rest"
    BY <1>1 DEF Mount, GiveUp, Startup, StartupRefused, Phase, vars
  <2>2. UNCHANGED <<Primary, Backup>>
    BY <2>1, DiskUnchanged, CopiesUnchanged
  <2> QED BY <2>1, <2>2 DEF SF!vars, Primary, Backup, Phase
<1>2. CASE Open
  <2>1. UNCHANGED nand /\ Phase = "rest" /\ Phase' = "work"
    BY <1>2 DEF Open, Phase, vars
  <2>2. UNCHANGED <<Primary, Backup>>
    BY <2>1, DiskUnchanged, CopiesUnchanged
  <2> QED BY <2>1, <2>2 DEF SF!Next, SF!Begin, Primary, Backup, Phase
<1>3. CASE Fwrite \/ Fclose \/ WriteEntry \/ Evict \/ Evicted \/ CheckWritten
  <2>1. UNCHANGED nand /\ Phase = "work" /\ Phase' = "work"
    <3>1. pos = SIZE \/ prog = "write" \/ ~(CheckWritten)
      BY DEF CheckWritten, SessionInv, FileInv
    <3>2. CheckWritten => prog' = "unmount"
      BY <3>1, VolumeSizes DEF CheckWritten, AfterWrite
    <3> QED BY <1>3, <3>2 DEF Fwrite, Fclose, WriteEntry, Evict, Enter, Evicted, CheckWritten,
                              Phase, vars, SessionInv, EvictInv
  <2>2. UNCHANGED <<Primary, Backup>>
    BY <2>1, DiskUnchanged, CopiesUnchanged
  <2> QED BY <2>1, <2>2 DEF SF!Next, SF!Work, Primary, Backup, Phase
<1>4. CASE Transfer
  <2>1. Phase = "work" /\ Phase' = "work"
    BY <1>4 DEF Transfer, WriteChunk, CallDone, sessionVars, SessionInv, ProgInv, EvictInv, Phase
  <2>2. UNCHANGED Backup
    BY <1>4, TransferInv, BackupUnchanged
  <2> QED BY <2>1, <2>2 DEF SF!Next, SF!Work, Backup, Phase
<1>5. CASE Unmounted
  <2>1. UNCHANGED nand /\ Phase = "work" /\ Phase' = "commit"
    BY <1>5 DEF Unmounted, Phase, vars
  <2>2. UNCHANGED <<Primary, Backup>>
    BY <2>1, DiskUnchanged, CopiesUnchanged
  <2> QED BY <2>1, <2>2 DEF SF!Next, SF!Decide, Primary, Backup, Phase
<1>6. CASE Merge
  <2>1. Phase = "commit" /\ Phase' = "commit"
    BY <1>6 DEF Merge, sessionVars, Phase
  <2>2. CASE ShutdownBegin \/ MergeRead
    <3>1. UNCHANGED nand
      BY <2>2 DEF ShutdownBegin, MergeRead
    <3>2. UNCHANGED <<Primary, Backup>>
      BY <3>1, DiskUnchanged, CopiesUnchanged
    <3> QED BY <2>1, <3>2 DEF SF!vars, Primary, Backup, Phase
  <2>3. CASE MergeWrite
    <3>1. PICK k \in 1 .. (FATS - 1), x \in 0 .. (SPF - 1) :
            Backup' = Backup \/ Backup' = [Backup EXCEPT ![k][x] = Primary[x]]
      BY <2>3, MergePushes
    <3>2. UNCHANGED Primary
      BY <2>3, MergePushes
    <3>3. CASE Backup' = Backup
      BY <2>1, <3>2, <3>3 DEF SF!vars, Primary, Backup, Phase
    <3>4. CASE Backup' = [Backup EXCEPT ![k][x] = Primary[x]]
      BY <2>1, <3>2, <3>4 DEF SF!Next, SF!Push, Primary, Backup, Phase
    <3> QED BY <3>1, <3>3, <3>4
  <2> QED BY <1>6, <2>2, <2>3 DEF Merge
<1>7. CASE MergeDone
  <2>1. UNCHANGED nand /\ Phase = "commit" /\ Phase' = "rest" /\ ShutdownEnd
    BY <1>7 DEF MergeDone, ShutdownEnd, Phase
  <2>2. UNCHANGED <<Primary, Backup>>
    BY <2>1, DiskUnchanged, CopiesUnchanged
  <2>3. \A k \in 1 .. (FATS - 1) : Backup[k] = Primary
    <3>1. Synchronized
      BY <2>1, EndSynchronized DEF SessionInv, ShutdownEnd
    <3> QED BY <3>1 DEF Synchronized, Backup, Primary
  <2> QED BY <2>1, <2>2, <2>3 DEF SF!Next, SF!Finish, Primary, Backup, Phase
<1>8. CASE SwitchOff
  <2>1. Phase' = "rest" /\ UNCHANGED Backup
    BY <1>8, SwitchOffInv, BackupUnchanged DEF SwitchOff, Phase
  <2>2. CASE Phase = "work"
    BY <2>1, <2>2 DEF SF!Next, SF!Abandon, Backup, Phase
  <2>3. CASE Phase # "work"
    <3>1. pc # "write"
      BY <2>3 DEF SessionInv, ProgInv, EvictInv, Phase
    <3>2. UNCHANGED nand
      BY <1>8, <3>1 DEF SwitchOff, PowerLoss
    <3>3. UNCHANGED Primary
      BY <3>2, DiskUnchanged, CopiesUnchanged
    <3>4. CASE Phase = "commit"
      BY <2>1, <3>3, <3>4 DEF SF!Next, SF!Abandon, Primary, Backup, Phase
    <3>5. CASE Phase = "rest"
      BY <2>1, <3>3, <3>5 DEF SF!vars, Primary, Backup, Phase
    <3> QED BY <2>3, <3>4, <3>5 DEF Phase
  <2> QED BY <2>2, <2>3
<1>9. CASE UNCHANGED allVars
  <2>1. UNCHANGED <<nand, prog>>
    BY <1>9 DEF allVars, vars, sessionVars
  <2>2. UNCHANGED <<Primary, Backup>>
    BY <2>1, DiskUnchanged, CopiesUnchanged
  <2> QED BY <2>1, <2>2 DEF SF!vars, Primary, Backup
<1> QED BY <1>1, <1>2, <1>3, <1>4, <1>5, <1>6, <1>7, <1>8, <1>9 DEF SessionNext, Program

(* nandio.c:196-200, main.cpp:326-345.  Where no transfer fails, work goes to *)
(* the first copy of the FAT only, until the program is done with the disk;   *)
(* then the copies receive it, sector by sector, and are equal at the end. A  *)
(* run that stops at any moment leaves them as they were or partly pushed.    *)
THEOREM SessionIsStaged ==
  ASSUME "mbr" \notin Faults, "read" \notin Faults, "write" \notin Faults
  PROVE  SessionSpec => Staging
<1>1. SessionInit => ~faulted
  BY DEF SessionInit, Init
<1>2. SessionInv /\ CommitInv /\ BackupInv /\ ~faulted /\ [SessionNext]_allVars
        => [SF!Next]_SF!vars
  BY NextStaging
<1> QED BY <1>1, <1>2, CommitHolds, InitBackup, BackupNext, NoFailure, InitStaging, PTL
        DEF SessionSpec, Staging, SF!Spec

=============================================================================
