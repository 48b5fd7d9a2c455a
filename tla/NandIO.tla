------------------------------- MODULE NandIO -------------------------------
(***************************************************************************)
(* arm9/source/gm9i/nandio.c: the disc interface between libfat and the    *)
(* eMMC chip of the console.                                               *)
(*                                                                         *)
(* A sector is abstracted to what it says (`data`) and to the key streams  *)
(* it is wrapped in (`pads`).  dsi_nand_crypt XORs a sector with the AES   *)
(* stream of its sector number, so crypting at s toggles pad s; data with  *)
(* a pad left on reads as noise.  Of a sector's bytes the code looks only  *)
(* at the fields in Bpb, at the NCSD magic and at the FAT signature.       *)
(*                                                                         *)
(* Transfers go to the chip in chunks.  Any of them may fail if Faults     *)
(* says so, and power may be lost at any step.  A chip writes one sector   *)
(* whole or not at all.                                                    *)
(***************************************************************************)
EXTENDS Integers, Sequences

CONSTANTS
  NSECTORS,        \* size of the chip in sectors
  Data,            \* what a decrypted sector can say
  Zero,            \* a sector of zero bytes: sector_buf when the program starts
  Bpb,             \* [Data -> [mbr, fats, reserved, spf: Nat]]: the fields read
                   \* (of the number of reserved sectors the low byte)
  Noise,           \* values those fields may show in a sector of noise
  Ncsd,            \* data that parse_ncsd accepts
  Signed,          \* [Data -> Data]: the data with "FAT" at offset 0x36
  Devices,         \* chips the console may contain: [Sectors -> Cells]
  BOOT,            \* sector of the first partition's boot record
  FATS, RESERVED, SPF,  \* its number of FAT copies, reserved sectors, sectors per FAT
  Requests,        \* calls libfat makes: [op, offset, buffer]
  CRYPT_BUF_LEN,   \* sectors in crypt_buf (64 in the code)
  Faults           \* what may fail: subset of {"start", "mbr", "memory", "read", "write"}

Sectors == 0 .. (NSECTORS - 1)
Cells   == [data : Data, pads : SUBSET Sectors]
Plain(d) == [data |-> d, pads |-> {}]

VARIABLES
  nand,                \* the chip, as stored (encrypted)
  crypt_buf,           \* is the bounce buffer allocated?
  sector_buf,          \* static one-sector buffer
  fat_sig_fix_offset,  \* sector number of the first partition
  is3DS,
  pc,                  \* "down", "ready", "read", "write", "merge_read", "merge_write"
  io,                  \* [offset, len]: arguments of the running call
  buffer,              \* the caller's buffer, a sequence of cells
  cur,                 \* [offset, len, pos]: its loop variables; pos is how far buffer moved
  merge,               \* [fats, reserved, spf, sector, stage]: locals of nandio_shutdown
  ret,                 \* result of the last call
  faulted              \* history: did a transfer fail since startup?

vars == <<nand, crypt_buf, sector_buf, fat_sig_fix_offset, is3DS, pc, io,
          buffer, cur, merge, ret, faulted>>

-----------------------------------------------------------------------------
(* Encryption and the fields of a sector *)

Toggle(S, s)  == IF s \in S THEN S \ {s} ELSE S \cup {s}
Crypt(s, c)   == [data |-> c.data, pads |-> Toggle(c.pads, s)]   \* dsi_nand_crypt of a sector
Fields(c)     == IF c.pads = {} THEN {Bpb[c.data]} ELSE Noise
IsNcsd(c)     == c.pads = {} /\ c.data \in Ncsd        \* parse_ncsd(..) == 0
Repair(c)     == IF c.pads = {} THEN Plain(Signed[c.data]) ELSE c
DiskOf(chip)  == [s \in Sectors |-> Crypt(s, chip[s])]
Disk          == DiskOf(nand)

(* One transfer of n sectors from s: it needs the sectors to exist and may *)
(* fail where Faults says so.                                              *)
Outcomes(kind, s, n) ==
  (IF s + n <= NSECTORS THEN {TRUE} ELSE {}) \cup
  (IF s + n > NSECTORS \/ kind \in Faults THEN {FALSE} ELSE {})

(* read_sectors: decrypt a chunk, repair the signature if the chunk starts *)
(* at the partition.                                                       *)
Loaded(start, i) ==
  LET c == Crypt(start + i - 1, nand[start + i - 1])
  IN  IF i = 1 /\ fat_sig_fix_offset # 0 /\ start = fat_sig_fix_offset
      THEN Repair(c) ELSE c

(* Two mistakes that DiskPromise would show: the counter of the first      *)
(* sector is used for the whole chunk; the buffer pointer stays.           *)
StoredOneCounter(start, k, buf, pos) ==
  [s \in Sectors |-> IF s \in start .. (start + k - 1)
                     THEN Crypt(start, buf[pos + s - start + 1]) ELSE nand[s]]
StoredFromStart(start, k, buf, pos) ==
  [s \in Sectors |-> IF s \in start .. (start + k - 1)
                     THEN Crypt(s, buf[s - start + 1]) ELSE nand[s]]

(* write_sectors: the chip after the first k sectors of a chunk, taken     *)
(* from buf after position pos, were stored from start on.                 *)
Stored(start, k, buf, pos) ==
  [s \in Sectors |-> IF s \in start .. (start + k - 1)
                     THEN Crypt(s, buf[pos + s - start + 1]) ELSE nand[s]]

ChunkLen(len) == IF len >= CRYPT_BUF_LEN THEN CRYPT_BUF_LEN ELSE len

-----------------------------------------------------------------------------
Init ==
  /\ nand \in Devices
  /\ crypt_buf = FALSE
  /\ sector_buf = Plain(Zero)
  /\ fat_sig_fix_offset = 0
  /\ is3DS = FALSE
  /\ pc = "down"
  /\ io = [offset |-> 0, len |-> 0]
  /\ buffer = <<>>
  /\ cur = [offset |-> 0, len |-> 0, pos |-> 0]
  /\ merge = [fats |-> 0, reserved |-> 0, spf |-> 0, sector |-> 0, stage |-> 1]
  /\ ret = TRUE
  /\ faulted = FALSE

(* nandio_startup.  A failed nand_ReadSectors(0, 1, sector_buf) goes       *)
(* unnoticed: whatever sector_buf held is decrypted and parsed.            *)
StartupRefused ==
  /\ pc = "down"
  /\ "start" \in Faults
  /\ ret' = FALSE
  /\ UNCHANGED <<nand, crypt_buf, sector_buf, fat_sig_fix_offset, is3DS, pc,
                 io, buffer, cur, merge, faulted>>

Startup ==
  /\ pc = "down"
  /\ \E ok \in Outcomes("mbr", 0, 1) :
       LET raw == IF ok THEN nand[0] ELSE sector_buf IN
       /\ is3DS' = IsNcsd(raw)
       /\ sector_buf' = Crypt(0, raw)
       /\ \E f \in Fields(Crypt(0, raw)) :
            fat_sig_fix_offset' = IF is3DS' THEN 0 ELSE f.mbr
       /\ faulted' = ~ok
  /\ \E allocated \in {TRUE} \cup {b \in {FALSE} : "memory" \in Faults} :
       crypt_buf' = (crypt_buf \/ allocated)
  /\ pc' = IF crypt_buf' THEN "ready" ELSE "down"
  /\ ret' = crypt_buf'
  /\ UNCHANGED <<nand, io, buffer, cur, merge>>

(* libfat finds a file system only behind a readable partition table, and  *)
(* main leaves with an error when it finds none: without it nothing is     *)
(* written and nandio_shutdown is not reached.                             *)
Mountable == Disk[0].pads = {}

Enter(op, offset, buf) ==
  /\ pc = "ready"
  /\ op = "write" => Mountable
  /\ pc' = op
  /\ io' = [offset |-> offset, len |-> Len(buf)]
  /\ cur' = [offset |-> offset, len |-> Len(buf), pos |-> 0]
  /\ buffer' = buf
  /\ UNCHANGED <<nand, crypt_buf, sector_buf, fat_sig_fix_offset, is3DS,
                 merge, ret, faulted>>

Return(result) ==
  /\ pc' = "ready"
  /\ ret' = result
  /\ faulted' = (faulted \/ ~result)

(* A mistake that TypeOK would show: `buffer` is not moved on.             *)
AdvanceOffsetOnly(n) ==
  cur' = [offset |-> cur.offset + n, len |-> cur.len - n, pos |-> cur.pos]

Advance(n) ==
  cur' = [offset |-> cur.offset + n, len |-> cur.len - n, pos |-> cur.pos + n]

(* One round of the loop in nandio_read_sectors, and its tail call.        *)
ReadChunk ==
  LET n == ChunkLen(cur.len) IN
  /\ pc = "read"
  /\ cur.len > 0
  /\ \E ok \in Outcomes("read", cur.offset, n) :
       IF ok
       THEN /\ buffer' = [i \in DOMAIN buffer |->
                 IF i \in (cur.pos + 1) .. (cur.pos + n)
                 THEN Loaded(cur.offset, i - cur.pos) ELSE buffer[i]]
            /\ Advance(n)
            /\ UNCHANGED <<pc, ret, faulted>>
       ELSE Return(FALSE) /\ UNCHANGED <<buffer, cur>>
  /\ UNCHANGED <<nand, crypt_buf, sector_buf, fat_sig_fix_offset, is3DS, io, merge>>

(* The same for nandio_write_sectors; a failing chunk may have stored some *)
(* of its sectors.                                                         *)
WriteChunk ==
  LET n == ChunkLen(cur.len) IN
  /\ pc = "write"
  /\ cur.len > 0
  /\ \E ok \in Outcomes("write", cur.offset, n) :
       IF ok
       THEN /\ nand' = Stored(cur.offset, n, buffer, cur.pos)
            /\ Advance(n)
            /\ UNCHANGED <<pc, ret, faulted>>
       ELSE /\ \E k \in 0 .. n : nand' = Stored(cur.offset, k, buffer, cur.pos)
            /\ Return(FALSE)
            /\ UNCHANGED cur
  /\ UNCHANGED <<crypt_buf, sector_buf, fat_sig_fix_offset, is3DS, io, buffer, merge>>

(* A mistake that CallReturns would show: a write call whose last chunk     *)
(* was a full one is not recognised as done.                               *)
CallDoneRead ==
  /\ pc = "read"
  /\ cur.len = 0
  /\ Return(TRUE)
  /\ UNCHANGED <<nand, crypt_buf, sector_buf, fat_sig_fix_offset, is3DS, io,
                 buffer, cur, merge>>

CallDone ==
  /\ pc \in {"read", "write"}
  /\ cur.len = 0
  /\ Return(TRUE)
  /\ UNCHANGED <<nand, crypt_buf, sector_buf, fat_sig_fix_offset, is3DS, io,
                 buffer, cur, merge>>

-----------------------------------------------------------------------------
(* nandio_shutdown.  It reads and writes single sectors, through            *)
(* nandio_read_sectors and nandio_write_sectors, and ignores their results. *)

LoadSectorBuf(s) ==
  \E ok \in Outcomes("read", s, 1) :
    /\ sector_buf' = IF ok THEN Loaded(s, 1) ELSE sector_buf
    /\ faulted' = (faulted \/ ~ok)

ShutdownBegin ==
  /\ pc = "ready"
  /\ Mountable
  /\ LoadSectorBuf(fat_sig_fix_offset)
  /\ \E f \in Fields(sector_buf') :
       merge' = [fats |-> f.fats, reserved |-> f.reserved, spf |-> f.spf,
                 sector |-> 0, stage |-> 1]
  /\ pc' = "merge_read"
  /\ UNCHANGED <<nand, crypt_buf, fat_sig_fix_offset, is3DS, io, buffer, cur, ret>>

(* Mistakes that the properties of the merge would show: the last sector   *)
(* is left out, the reserved sectors are forgotten, the first copy is read  *)
(* without moving on, the loop does not move on.                           *)
MergingShort == merge.fats > 1 /\ merge.sector + 1 < merge.spf
FatSectorNoReserved(stage) == fat_sig_fix_offset + merge.sector + stage * merge.spf
FatSectorReadFirst(stage) ==
  fat_sig_fix_offset + merge.reserved + stage * merge.spf
  + (IF stage = 0 THEN 0 ELSE merge.sector)
MergeNextStuck ==
  IF merge.stage + 1 < merge.fats THEN [merge EXCEPT !.stage = @ + 1] ELSE merge

Merging == merge.fats > 1 /\ merge.sector < merge.spf

(* The FAT sector the merge works on, in copy number `stage`.              *)
FatSector(stage) ==
  fat_sig_fix_offset + merge.reserved + merge.sector + stage * merge.spf

(* The loop variables after a write: the next copy, or the next sector.    *)
MergeNext ==
  IF merge.stage + 1 < merge.fats THEN [merge EXCEPT !.stage = @ + 1]
                                  ELSE [merge EXCEPT !.sector = @ + 1]

MergeRead ==
  /\ pc = "merge_read"
  /\ Merging
  /\ LoadSectorBuf(FatSector(0))
  /\ merge' = [merge EXCEPT !.stage = 1]
  /\ pc' = "merge_write"
  /\ UNCHANGED <<nand, crypt_buf, fat_sig_fix_offset, is3DS, io, buffer, cur, ret>>

MergeWrite ==
  LET target == FatSector(merge.stage) IN
  /\ pc = "merge_write"
  /\ \E ok \in Outcomes("write", target, 1) :
       /\ \E k \in (IF ok THEN {1} ELSE {0, 1}) :
            nand' = Stored(target, k, <<sector_buf>>, 0)
       /\ faulted' = (faulted \/ ~ok)
  /\ merge' = MergeNext
  /\ pc' = IF merge.stage + 1 < merge.fats THEN "merge_write" ELSE "merge_read"
  /\ UNCHANGED <<crypt_buf, sector_buf, fat_sig_fix_offset, is3DS, io, buffer, cur, ret>>

ShutdownEnd ==
  /\ pc = "merge_read"
  /\ ~Merging
  /\ crypt_buf' = FALSE
  /\ pc' = "down"
  /\ ret' = TRUE
  /\ UNCHANGED <<nand, sector_buf, fat_sig_fix_offset, is3DS, io, buffer, cur,
                 merge, faulted>>

(* The console is switched off, within a chunk perhaps, and on again.      *)
PowerLoss ==
  /\ \/ UNCHANGED nand
     \/ /\ pc = "write"
        /\ \E k \in 1 .. ChunkLen(cur.len) :
             /\ cur.offset + k <= NSECTORS
             /\ nand' = Stored(cur.offset, k, buffer, cur.pos)
  /\ crypt_buf' = FALSE
  /\ sector_buf' = Plain(Zero)
  /\ fat_sig_fix_offset' = 0
  /\ is3DS' = FALSE
  /\ pc' = "down"
  /\ io' = [offset |-> 0, len |-> 0]
  /\ buffer' = <<>>
  /\ cur' = [offset |-> 0, len |-> 0, pos |-> 0]
  /\ merge' = [fats |-> 0, reserved |-> 0, spf |-> 0, sector |-> 0, stage |-> 1]
  /\ ret' = TRUE
  /\ faulted' = FALSE

Client == \E r \in Requests : Enter(r.op, r.offset, r.buffer)

Driver == \/ StartupRefused \/ Startup \/ ReadChunk \/ WriteChunk \/ CallDone
          \/ ShutdownBegin \/ MergeRead \/ MergeWrite \/ ShutdownEnd

Next == Client \/ Driver \/ PowerLoss

Spec == Init /\ [][Next]_vars

-----------------------------------------------------------------------------
(* What is assumed of the chip and of libfat.                              *)

FatCopy(stage) == {BOOT + RESERVED + x + stage * SPF : x \in 0 .. (SPF - 1)}
Backups        == UNION {FatCopy(stage) : stage \in 1 .. (FATS - 1)}

(* A DSi chip has a partition table with an encrypted FAT partition that   *)
(* fits the chip; a 3DS chip has an NCSD header in the clear.  Except for  *)
(* the boot record and noise, no sector that sector_buf can hold when      *)
(* nandio_shutdown reads the boot record announces FAT copies: the boot    *)
(* code of the partition table is zero.  The counts of the boot record are *)
(* a byte and 16 bits; nandio_shutdown reads the low byte of the number of *)
(* reserved sectors (nandio.c:204), so there are no more than 255 of them. *)
ASSUME ConstantAssumption ==
  /\ {NSECTORS, CRYPT_BUF_LEN, BOOT, FATS} \subseteq Nat \ {0}
  /\ {RESERVED, SPF} \subseteq Nat \ {0}
  /\ FATS <= 255 /\ RESERVED <= 255 /\ SPF <= 65535
  /\ BOOT + RESERVED + FATS * SPF <= NSECTORS
  /\ Zero \in Data
  /\ LET Record == [mbr : Nat, fats : Nat, reserved : Nat, spf : Nat] IN
     Bpb \in [Data -> Record] /\ Noise \subseteq Record /\ Noise # {}
  /\ Signed \in [Data -> Data]
  /\ \A d \in Data : Bpb[Signed[d]] = Bpb[d]

DSiChip(chip) ==
  \E table, boot \in Data :
    /\ chip[0] = Crypt(0, Plain(table))
    /\ Bpb[table].mbr = BOOT /\ Bpb[table].fats <= 1
    /\ chip[BOOT] = Crypt(BOOT, Plain(boot))
    /\ Bpb[boot].fats = FATS /\ Bpb[boot].reserved = RESERVED /\ Bpb[boot].spf = SPF
OtherChip(chip) == \E header \in Data : chip[0] = Plain(header)

ASSUME DeviceAssumption ==
  Devices \subseteq {chip \in [Sectors -> Cells] : DSiChip(chip) \/ OtherChip(chip)}

(* On a chip that is neither a DSi's nor a 3DS's, noise is taken for a        *)
(* partition table, and a sector that is no boot record may be repaired.      *)
KnownChips == \A chip \in Devices : DSiChip(chip) \/ IsNcsd(chip[0])

(* libfat writes neither the partition table nor the boot record.          *)
ASSUME RequestAssumption ==
  \A r \in Requests :
    /\ r.op \in {"read", "write"}
    /\ r.offset \in Nat
    /\ r.buffer \in Seq(Cells)
    /\ r.op = "write" => \A i \in 1 .. Len(r.buffer) :
                           r.offset + i - 1 \notin {0, BOOT}

-----------------------------------------------------------------------------
(* Properties *)

(* Types, and the ties between the program counter and the other state:    *)
(* the bounce buffer exists whenever a transfer may use it, and the loop   *)
(* variables of a call always describe the rest of the caller's buffer.    *)
TypeOK ==
  /\ nand \in [Sectors -> Cells]
  /\ crypt_buf \in BOOLEAN /\ (pc # "down" => crypt_buf)
  /\ sector_buf \in Cells
  /\ fat_sig_fix_offset \in Nat
  /\ is3DS \in BOOLEAN
  /\ pc \in {"down", "ready", "read", "write", "merge_read", "merge_write"}
  /\ io \in [offset : Nat, len : Nat]
  /\ buffer \in Seq(Cells) /\ Len(buffer) = io.len
  /\ cur \in [offset : Nat, len : Nat, pos : Nat]
  /\ cur.offset = io.offset + cur.pos /\ cur.pos + cur.len = io.len
  /\ merge \in [fats : Nat, reserved : Nat, spf : Nat, sector : Nat, stage : Nat \ {0}]
  /\ ret \in BOOLEAN
  /\ faulted \in BOOLEAN

(* nandio.c:197-201.  A sector that the merge of nandio_shutdown changes   *)
(* belongs to a FAT copy other than the first, whatever transfers fail;    *)
(* and as long as none failed it receives what the first copy holds at the *)
(* same place.                                                             *)
MergeStep ==
  \A s \in Sectors : nand'[s] # nand[s] =>
    \E stage \in 1 .. (FATS - 1), x \in 0 .. (SPF - 1) :
      /\ s = BOOT + RESERVED + x + stage * SPF
      /\ ~faulted' => Disk'[s] = Disk[BOOT + RESERVED + x]
MergeConfined == [][(pc \in {"merge_read", "merge_write"}) => MergeStep]_vars

(* nandio.c:198.  When nandio_shutdown is about to return and no transfer  *)
(* failed since startup, every FAT copy equals the first.                  *)
Synchronized ==
  \A stage \in 1 .. (FATS - 1), x \in 0 .. (SPF - 1) :
    Disk[BOOT + RESERVED + x + stage * SPF] = Disk[BOOT + RESERVED + x]
ShutdownSynchronizes ==
  pc = "merge_read" /\ ~Merging /\ ~faulted => Synchronized

(* nandio.c:202-226.  Once begun, nandio_shutdown returns: the loops over  *)
(* sectors and copies end even when transfers fail.                        *)
ShutdownReturns == (pc = "merge_read") ~> (pc = "down")

(* nandio.c:147-187.  Every read or write call returns.                    *)
CallReturns == (pc \in {"read", "write"}) ~> (pc \in {"ready", "down"})

(* The code that runs keeps running: a call that was entered makes its     *)
(* next step.                                                              *)
FairSpec == Spec /\ WF_vars(ReadChunk \/ WriteChunk \/ CallDone)
                 /\ WF_vars(MergeRead \/ MergeWrite \/ ShutdownEnd)

(* The promise to libfat, with the chip decrypted.                         *)
PD == INSTANCE PlainDisk WITH
        Disks <- {DiskOf(chip) : chip \in Devices},
        BootSector <- BOOT, Repaired <- Repair,
        disk <- Disk,
        op <- IF pc = "down" THEN "off" ELSE IF pc = "ready" THEN "none"
              ELSE IF pc \in {"read", "write"} THEN pc ELSE "merge",
        range <- io, moved <- cur.pos
DiskPromise == PD!Spec

(* nandio.c:201.  While nandio_shutdown merges, the sector it took for the *)
(* first partition sector is the boot record.                              *)
MergeUsesBootRecord ==
  pc \in {"merge_read", "merge_write"} => fat_sig_fix_offset = BOOT
=============================================================================
