# TLA+ model of DSiLanguagePatcher

The program runs on a Nintendo DSi. It mounts the internal NAND, finds the
launcher (the system menu), reads and decrypts it, patches it in memory so that
region and language can be chosen, and writes the result to `nand:/launcher.dsi`.
A mistake on the way to the chip can make the console unbootable; the program
itself warns of it (`main.cpp:320-321`, "CAUTION! Risk to brick!"). This
directory holds TLA+ modules of that program, TLC configurations that check them
on small instances, and proofs for every size that TLAPS checks.

Paths below are relative to `arm9/source` unless they start with `arm7/`.

## 1. Inventory

### Parts, their state, operations and properties

| Part | State | Operations | What makes it correct | Model |
|---|---|---|---|---|
| **nandio** `gm9i/nandio.c` (disc interface of the NAND for libfat) | `crypt_buf`, `sector_buf`, `fat_sig_fix_offset`, `is3DS`; locals of the loops | `nandio_startup`, `nandio_read_sectors`, `nandio_write_sectors`, `nandio_shutdown` (which merges the FAT copies) | libfat sees a disk of plain sectors; a call moves its whole range or reports failure; the merge changes backup copies only, leaves them equal to the first one, and ends | `NandIO`, `PlainDisk`, `NandSession_proofs` (part 1) |
| **NAND encryption** `gm9i/crypto.c`, `u128_math.c`, `gm9i/f_xy.c`, `getConsoleID` of `gm9i/nandio.c` | `nand_ctx`, `es_ctx`, `boot2_ctx`, `nand_ctr_iv`, `boot2_ctr` | `getConsoleID`, `dsi_crypt_init`, `dsi_nand_crypt`, `dsi_nand_crypt_1`, `dsi_boot2_crypt*`, `F_XY`, `F_XY_reverse`, `u128_*` | the keys are those of this console; the stream of a block depends on its position and on nothing else; crypting twice is the identity | `U128`, `DsiCrypto`, `DsiCrypto_proofs`; per-sector abstraction in `NandIO` |
| **twltool** `twltool/dsi.c` | `dsi_context`, `dsi_es_context` | `dsi_crypt_ctr*`, `dsi_*_ccm*`, `dsi_es_*` | CCM as RFC 3610 has it, on reversed bytes; a container that was sealed opens, one that was damaged does not | `Twl`, `EsBlock`, `EsBlock_proofs` |
| **sector 0 parser** `gm9i/sector0.c` | none | `parse_mbr`, `parse_ncsd` | tells a DSi from a 3DS | predicate in `NandIO` |
| **main** `main.cpp` | the image at `TARGETBUFFER`, `patchResults`, `options`, local names | checks, decryption of the modcrypt areas, patching, dialogue, writing, unmounting, merging | nothing is written before every check passed and the user agreed; success is announced only for what is on the chip | `Launcher`, `Launcher_proofs` (130-349), `Patch` (278-316), `NandSession`, `NandSession_proofs` (144-146, 326-345) |
| **patch engine** `patch.cpp`, `patch.h`, `patch_data.cpp` | the image, counts and last offsets, the option list | `patch_applyPatternPatches`, `patch_getAvailableOptions`, `patch_findOption`, `patch_applySelectedOptions` | accepts exactly the launchers with every pattern once; alters bytes only in reported places; each option is offered once | `Patch`, `PatchData`, `Patch_proofs` |
| **user interface** `ui.cpp` | consoles, progress bar, selection | `OptionSelect`, `WaitForPowercord`, `WaitForKonami`, progress, error and success screens | the selection stays in range; writing needs the complete code; the bar says what is done | `OptionSelect` in `Patch`; `WaitForPowercord`, `WaitForKonami` in `Launcher`; the bar in `Progress`; `Launcher_proofs` |
| **files** `system_info.cpp` | none | `system_getLauncherPath`, `system_getAppFilename`, `system_getTmdFilename`, `system_readFile`, `system_writeFile` | what is counted as written is on the chip; loops end | `system_writeFile` in `NandSession`; the others in `Launcher`, `system_getTmdFilename` excepted; what both loops report in `Progress` |
| **ARM7 boot** `arm7/source/template.c` | keys of the AES engine, the shared memory with CID and key | recovery of key 3, CID, FIFO handlers, main loop | the key is found and the register restored; the ARM9 computes with what the ARM7 has finished | `Boot`, `Boot_proofs` |
| **SD/eMMC driver** `arm7/source/my_sdmmc.c` | `deviceSD`, `deviceNAND`, `my_sdmmc_controller_initialised`, controller registers | `my_sdmmc_send_command`, `my_sdmmc_sdcard_init`, `my_sdmmc_nand_init`, `my_sdmmc_readsectors`, `my_sdmmc_writesectors`, `my_sdmmc_get_cid`, FIFO handlers | a transfer that reports success moved every block once; a startup that reports success leaves the card as the driver believes it to be; commands end | `Sdmmc`, `Boot_proofs` |
| **polarssl AES** `polarssl/aes.c` | the tables, `aes_context`; `iv`, `iv_off` of the caller | `aes_gen_tables`, `aes_setkey_enc`, `aes_setkey_dec`, `aes_crypt_ecb`, `aes_crypt_cbc`, `aes_crypt_cfb128` | it is AES (FIPS 197) in the modes of SP 800-38A, however a text is cut into calls | `Aes`, `AesModes`, `Aes_proofs`; the standard: `Fips197` |
| **polarssl big numbers** `polarssl/bignum.c`, `bn_mul.h` | sign, limbs | what is compiled: memory, bits, shifts, comparison, arithmetic, division, `mbedtls_mpi_exp_mod` | the integers, or an error | `Bignum`, `Bignum_proofs` |

### How the parts interact

    main ──> system_info ──> C library ──> libfat ──> nandio ──> libnds ──FIFO──> ARM7 driver ──> eMMC
      │                                                 │
      ├──> patch engine (in memory)                     └──> crypto (per sector)
      └──> ui (keys, screens)

Calls are synchronous: on the ARM9 one thread runs. What is concurrent is the
user (keys, the power switch), the chip, which may refuse a transfer, and the
ARM7, which computes the key and the CID while the ARM9 waits a fixed 30 frames
(`main.cpp:114`). libfat's cache decides *when and in which order* modified
sectors reach the chip; the code of the program has no say in it before
`fatUnmount`.

### What is hard here

* Power may go between any two sector writes, including those of the merge.
* Results are ignored: of the read of sector 0 (`nandio.c:73`), of every
  transfer of the merge (`nandio.c:202, 216, 220`), of `fclose`
  (`system_info.cpp:133`).
* The scan for patterns reads the image it is changing (`patch.cpp:12-36`).
* The controller works between the driver's accesses to its registers: status,
  FIFO and response are read one after the other (`arm7/source/my_sdmmc.c:90-241`).
* Commands may be lost or their answers garbled in the middle of an
  initialisation whose first steps ignore errors (`my_sdmmc.c:351-367, 442-449`).
* Loops whose end depends on somebody else: `fwrite` that writes nothing
  (`system_info.cpp:118`), the merge whose bounds come from a sector that was read.
* Chunks: offset, length and pointer of a transfer have to advance together,
  and the encryption counter with them. The counter is started by one piece of
  code (`u128_add32`) and carried on by another (`dsi_add_ctr`).
* Work in place: CBC overwrites the text the next block needs, CCM the text that
  is authenticated, big numbers the argument that is also the result.

`PROJECT.json` lists these hazards with their lines and the properties meant to
catch them.

## 2. Modules

| Module | Models | |
|---|---|---|
| `NandIO` | `nandio.c`: state and one action per step of each operation | component |
| `PlainDisk` | what `nandio.c` promises libfat | abstract specification |
| `NandSession` | EXTENDS `NandIO`: mount, `system_writeFile`, unmount, merge, with libfat and its cache as environment | composition |
| `StagedFat` | the protocol of `nandio.c:196-200` for the FAT copies | abstract specification |
| `Patch` | `patch.cpp`, `OptionSelect`, `main.cpp:278-316` | component |
| `PatchData` | `patch_data.cpp`, byte for byte | data |
| `Launcher` | `main.cpp:130-349` as a whole, with `system_info.cpp` and the screens of `ui.cpp` that decide something | composition, patching and writing being one step each |
| `Sdmmc` | `my_sdmmc.c`, register access by register access, with controller and cards as environment | component |
| `Boot` | EXTENDS `Sdmmc`: `template.c`, the start of the ARM9 and the messages between the processors | composition |
| `Bytes`, `U128` | bytes, words and blocks; `u128_math.c` | operators |
| `Aes` | `aes.c`: tables, key schedules, block cipher | operators |
| `Fips197` | AES from the standard, by columns and the field with 256 elements | reference definition |
| `AesModes` | CBC and CFB of `aes.c`, call by call | component |
| `Twl` | `twltool/dsi.c`: counter mode and CCM, block by block | operators |
| `EsBlock` | the sealed containers of `twltool/dsi.c`, from sealing to opening | component |
| `DsiCrypto` | `crypto.c`, `f_xy.c`, `getConsoleID`, the key and the areas of `main.cpp:66-93, 222-268` | component |
| `Bignum` | `bignum.c` and the multiplication of `bn_mul.h`, call by call | component |
| `Progress` | the reports of the four loops that take long, and the bar | component |
| `Computations` | the components from `AesModes` on as jobs, of which the first three share one cipher | composition |
| `MC_*` | instances for TLC | |
| `NandSession_proofs`, `Patch_proofs`, `Launcher_proofs`, `Boot_proofs`, `DsiCrypto_proofs`, `Aes_proofs`, `EsBlock_proofs`, `Bignum_proofs` | the theorems of section 4 | proofs |

### NandIO

A sector is abstracted to what it says (`data`) and to the set of key streams it
is wrapped in (`pads`). `dsi_nand_crypt` XORs with the stream of a sector number,
so `Crypt(s, c)` toggles `s` in `pads`: decrypting with the wrong number, or
twice, leaves noise, and the fields of noise are arbitrary (`Noise`). The chip
holds sectors as stored; `Disk` is the chip decrypted.

`pc` says which function is running. `Startup` is `nandio_startup` with its
unnoticed failure: what the buffer held before is decrypted and parsed. `Enter`, `ReadChunk`, `WriteChunk` and
`CallDone` are the recursion of `nandio_read_sectors` and `nandio_write_sectors`,
one action per round; `ReadChunk` repairs the FAT signature of a chunk that
starts at the partition (`Loaded`). `ShutdownBegin`, `MergeRead`, `MergeWrite`
and `ShutdownEnd` are `nandio_shutdown`, one action per transfer. Each transfer
fails nondeterministically where `Faults` says so, and a failing write of
several sectors may have stored some of them. `PowerLoss` resets all but the chip.

`faulted` and `io` are history: did a transfer fail since startup, and what were
the arguments of the call. `MountableIsDSi` in the proofs shows what the guard
`Mountable` stands for: `main` leaves with an error when libfat finds no
partition, so nothing is written to a chip without a readable table.

### NandSession

`Mount`, `GiveUp`, `Open`, `Fwrite`, `Fclose`, `CheckWritten`, `Unmounted`,
`Merge`, `MergeDone` follow `main.cpp:144-146, 326-345` and
`system_info.cpp:107-135`. libfat is not part of the repository and is modelled
from its use: it knows the first FAT copy only, keeps modified sectors in a
write-back cache, writes them in any order (`Evict`), stops a flush at the first
failure, frees the clusters of a file that is opened for writing, appends
clusters at the first free one, and writes the directory entry in `fclose`.
`fwrite` passes on what the C library had buffered when the next piece comes;
the last piece goes out in `fclose`, whose result the program ignores.
Everything that reaches the chip does so through `NandIO`'s `WriteChunk`.

### Patch

`TryPatch` and `NextOffset` are the two loops of `patch_applyPatternPatches` on
the changing image, `CheckResult` the check of `main.cpp:292-303`, `GetOptions`
the collection of options, `Frame` one frame of `OptionSelect`, `ApplyOption`
one option of one patch. The two nested loops of `patch_getAvailableOptions` are
two recursive functions: `Merged` goes through the options of a patch, `Collected`
through the patches.

Whether the scan over an image it is changing does what it should depends on the
patches. `PatchesCompatible` says of a list that patterns which may share bytes
leave them alone there, and that patterns which may not share them may not do so
once one of them is patched. `MC_Patch` assumes it of the program's own list,
so that TLC evaluates it for the bytes of `patch_data.cpp`.

### Launcher

The checks of `main.cpp` in their order (`CheckConsoleID`, `MountNand`,
`GetLauncherPath`, `GetAppFilename`), each of which ends in an error screen that
never returns (`Check`); `Fread`, one action per round of `system_readFile`;
`BeginArea`, `DecryptBlock`, `AreaDone`, `ClearHeader`, the decryption of the two
modcrypt areas, one action per block of 16 bytes; one action per frame of
`WaitForPowercord` and `WaitForKonami`. As in `NandIO` a block is what it says
and the streams it is wrapped in; the stream of area *a* for its block *j* is
`<<a, j>>`. Patching is one step (its module is `Patch`) and so is writing
(`NandSession`).

The code is reset by a wrong key and the key is not looked at again: up, up, up,
down ... is not accepted although its last keys are the code. So the property
says that the code is needed, not that entering it is enough.

### AES and what rests on it

`Aes` is the table-driven code: logarithms and powers of a generator, four tables
of words in each direction, rounds of look-ups. A word is the tuple of its four
bytes. The build decides what is modelled: `config.h` defines neither the ROM
tables nor PadLock. `Fips197` says what AES is without any of that, and
`ModeIsStandard` compares them in both modes. `AesModes` has one action per call
(`CallMode`, `ReturnMode`) and one per block of CBC or byte of CFB, so that `iv`
and `iv_off` are seen between calls. The program itself uses
`aes_setkey_enc` and `aes_crypt_ecb` only, through `dsi.c`.

`Twl` keeps the reversals of `dsi.c`: key, counter and text enter the cipher back
to front. `EsBlock` seals (`EsInit`, `EsEncrypt`, `EncryptBlock`, `EsSeal`),
delivers, damaged or not (`Deliver`), and opens (`EsDecrypt`, `DecryptBlock`,
`EsVerify`). `CcmIsStandard` excludes the empty payload, for which the code
authenticates one block of zeros more than the standard; it is sealed and opened
all the same.

`DsiCrypto` begins where `Boot` ends: with a key in slot 3 of the AES engine.
`ReadIdentity` undoes the key scrambler, `SetNandKey` to `SetCounter` are
`dsi_crypt_init` key by key, `CryptCall`, `NandBlock` and `CryptReturn` a
transfer block by block. `swiSHA1Calc` delivers 20 bytes into `nand_ctr_iv` of
16; the four others land in the variable behind it. The second boot stage
(`Boot2SetCtr`, `Boot2Block`) and the areas of the launcher (`BeginArea`,
`AreaBlock`) use counter mode as well. On a 3DS the key is kept elsewhere and the
identity does not lead back to it, so `KeyIsDefined` states the round trip for a
DSi only.

### Bignum

An operator returns `[ret, x]`: what the function returns and what it leaves in
its first argument, after a failure too. A state has three numbers and the set of
sizes, in limbs, that `calloc` does not give (`denied`): large ones when memory
is short, or one size when it is in pieces, so that a function may get what it
asks for first and not get less later, after it has written a result. Requests of
one size are answered alike within a job; that every failure stops the function
at once, whichever request it was, is what `Then` says of `MBEDTLS_MPI_CHK`. Each
call of a compiled function is an action (`MemoryCall`, `ShiftCall`, `AddCall`,
`IntCall`, `DivCall`, `DivIntCall`, `ModCall`, `ExpCall`), with every pair of
arguments that may be the same number. A store behind the limbs makes a number an
`Overrun`. `ArithmeticIsExact` compares with the integers.

A quotient may replace the dividend or the divisor, and then `mbedtls_mpi_div_mpi`
does not compute `A = Q * B + R`, as `bignum.c:1322` and `bignum.h` have it: it
multiplies the signs of A and B after it has written Q (`bignum.c:1414-1415`), so
that the sign of an argument that is Q counts as positive; the rest takes the sign
of the dividend at line 1421, which is then that of the quotient; and for a dividend
smaller than the divisor Q is cleared before R is copied from it (1338-1339), which
leaves R zero. `DivMpi` is told which argument is the number Q (`same`), and
`ArithmeticIsExact` states for these calls what they return (`Quotient`,
`Remainder`), for all others the integers. Nothing in the program divides that
way.

Left out is what the code does not promise or gets wrong where nothing calls it:
`mbedtls_mpi_mod_int` by more than half a limb, `mbedtls_mpi_lset` of the least
int, a power of a negative multiple of the modulus or of a zero with a sign (the
modulus instead of 0), a power of a number without limbs, a division of a number
by itself in its own place, and a division that returns the divisor, after which
`mbedtls_mpi_mod_mpi` would not end. `T1` and `T2`, the trial digits of the
division, are integers, not arrays of two and three limbs. The header's inline
assembler for Thumb is modelled by what it computes, half limb by half limb.
Nothing in the program calls this file.

### Progress

`TransferRound`, `AreaRound` and `ScanRound` are rounds of the four loops that
report; the reported byte wraps at 256. For fewer than 100 bytes the code divides
by zero; the result is any byte of `Undefined`. `Line` is `UpdateProgress`,
with the escape sequences as single characters that its loop must step over.

### Sdmmc

`my_sdmmc_send_command` is `Send` (wait, clear, write the command),
`SampleStatus`, `Transfer` and `Check` (one round of its loop: the status is
read *before* the FIFO is looked at and used *after*), and `End`. Between any two
of them the controller may answer (`CardAnswers`), fill or empty its FIFO
(`BlockArrives`, `BlockLeaves`), lose a command, garble an answer or a block
(`CommandFails`, `MoveBlock`), and stop after an error (`ControllerStops`).

The functions that send commands are scripts (`Script`): `Proceed` and
`ReturnError` do what the function does between two commands: keep the address
(`initarg`), the kind of addressing (`isSDHC`), width and clock (`SDOPT`, `clk`),
or leave with an error. `PoweringUp` are the loops around CMD1 and ACMD41.

Controller and cards are not in the repository. The cards are state machines
(idle, ready, ident, stby, tran) that accept a command only in the states the SD
and MMC specifications give; the controller has room for one block, raises its
error bit when a command has no answer, and drops its busy bit a little later.

### Boot

`RecoverKey` is one round of the search for key 3 (the register can be written
but not read, so each byte is tried until the output of the AES engine is what it
was); `StartNand`, `GetCid` and `Install` are the rest of the ARM7's `main`. The
build without `USENATIVECONSOLEID` is modelled, the default. On the ARM9, `VBlank` counts
the frames of `main.cpp:114`, `CheckIdentity` looks at what is in the shared
memory by then, `SendStart` to `CryptInit` are `nandio_startup`. After that any
message may come (`SendRequest`).

The handlers that answer messages are those of libnds. Their source is the same
driver with its own static variables; `Handle` and `Answer` follow
`my_sdmmc.c:558-640`, and `Install` starts with fresh variables - on a chip that
has been started before.

## 3. Runs

| Run | Instance | Question and answer |
|---|---|---|
| `nandio_calls` | two FAT copies of two sectors, `CRYPT_BUF_LEN` 2, reads of one to three sectors and writes of one or two, old and new boot record or a 3DS chip, failing memory, reads and writes, power loss | `DiskPromise`: is a disk of plain sectors what libfat sees, in whichever chunks? `MergeConfined`, `ShutdownSynchronizes`: does the merge do its job and nothing else? `ShutdownReturns`, `CallReturns`: do the loops end although transfers fail? Yes. |
| `nandio_mbrfault` | the read of sector 0 may fail | **violated:** the failure goes unnoticed and the merge may take another sector for the boot record (`MergeUsesBootRecord`) |
| `session_power` | four clusters, two FAT sectors per copy, an older `launcher.dsi` or none, power loss at any step | the system file stays whole and reachable (`SystemFileSurvives`), also through the backup (`BackupHoldsSystem`); the FAT copies follow the staging protocol (`Staging`); success is true (`SuccessIsTrue`); a run that has room ends (`RunEnds`) |
| `session_faults` | every transfer, mounting and allocation may fail | the system file survives all of it; success is true unless a transfer failed; backup copies change only after a complete write and an unmount (`CommitsLate`) |
| `session_full` | no free cluster when the first piece is passed on | **violated:** `system_writeFile` repeats the failing `fwrite` for ever (`WriteEnds`), so the message of `main.cpp:337` cannot appear |
| `session_unsynced` | failing writes | **violated:** the success screen with FAT copies that differ (`SuccessMeansSynchronized`) |
| `session_unwritten` | room for all but the last piece | **violated:** the success screen with a truncated `launcher.dsi` (`SuccessMeansWritten`) |
| `launcher` | consoles refused at each check, with one region and several, one `.app` file and several; launchers without modcrypt, empty, with one area, two, two that overlap; `fread` that delivers any part of a piece; a code of four keys and up to six frames with one key, a wrong key or two | only a complete image, wrapped in what its header announces, is written (`LoadableImage`), and only after the code on a console that passed (`WritesWithConsent`); what comes before the dialogue ends (`PreparationEnds`) |
| `boot` | a key of three bytes of three values, a chip found idle or selected, SD cards of three generations, one fault (lost command, garbled answer, damaged block) anywhere, then any sequence of startups and transfers of two blocks | transfers (`DataComplete`) and startups (`StartupReady`) that report success are complete; the CID is the chip's (`CidGenuine`); the key is found and restored (`KeyRecovered`); the NAND's keys come from a complete identity (`IdentityComplete`); boot ends (`BootEnds`) and requests are answered (`NandAnswers`) unless a command is lost |
| `patch_launcher` | the program's patches on launchers put together from four blocks (patterns, patterns sharing a byte, patched code, a cut pattern) | the check accepts exactly the launchers with every pattern once (`AcceptsOriginals`); what is written is the launcher with the patches and the chosen options (`WrittenIsPatched`). TLC also evaluates `CompatibleAssumption`: the program's patches do not disturb each other, wherever in a launcher they lie |
| `patch_any` | patches that overlap, create or destroy each other's patterns, on every image of up to `MaxLen` bits | whatever the patches, an accepted launcher is altered in reported places only (`AcceptedOnce`) and options are merged (`OptionsMerged`) |
| `computations` | keys of 128, 192 and 256 bits, texts of whole blocks and of 40 bytes cut into calls of 1 to 32; payloads of 0 to 40 bytes, damaged in every byte of the metablock; identities and digests whose sums carry through every word; sectors 0, 255 and 131071, where the counter carries; launchers of both kinds; numbers of up to five limbs of 8 bits, with all memory, without pieces of 2, 3, 4, 5 or 9 limbs and more, or without those of one size; sizes around each step of the percentage | AES is AES in both modes (`ModeIsStandard`) and what was encrypted in any pieces decrypts in any others (`RoundTrip`); containers are CCM (`CcmIsStandard`) and open when they are whole, with the right rest in the last block, and only then (`EsVerdict`); the console's keys are the inverse of how its identity was found (`KeyIsDefined`); what is done to a byte depends on its position, not on the transfer (`StreamIsPositional`), and counter arithmetic agrees with integers (`CountersAgree`); big numbers are exact or refuse (`ArithmeticIsExact`); the bar stands for what is done (`BarIsTrue`) |

Bounds. A merge with two copies of two sectors passes through the first and a later round
of the loop over sectors; the loop over copies takes one round, and the proofs
cover any number. Reads of one to three sectors with chunks of two give calls
without a full chunk, with one, and with a full chunk and a rest; writes have one
or two sectors, one chunk, and those of more chunks are covered by the proof
(`KeepsPromise`), not by the run. Session runs have the smallest partition in which
a FAT sector is shared by the system file and `launcher.dsi` and another one is
not. Patterns start, end and overlap at both ends of an image. The proofs
remove these bounds for the properties they cover. In `launcher` the code begins
with the same key twice, as the real one does, and the areas touch or overlap,
which is where counters could be confused. In `boot` a transfer of two blocks
needs the room for one block twice; the ARM9's wait is one frame, which comes
before, within or after every step of the ARM7; a byte has a first, a middle and
a last value. In `computations` bytes, blocks and keys have their real width. Limbs
have 8 bits instead of 32 (`biL`, with `biC` 4: the code only uses their ratio),
so that every product fits the integers of TLC; numbers of more than
`MAX_BITS` bits are not compared, and `ROUNDS` bounds the rounds of a loop that runs until a number is small. The limit
of 10000 limbs is `MAX_LIMBS` = 40. A job has up to three calls (`CALLS`; for
numbers, the third component of `Starts`), which is where a state carried over
from call to call would be wrong. Sectors stay below 2^27, and containers below
2^24 bytes, as on the console.

`CHECK_DEADLOCK FALSE` appears where the model really stops: `Patch` ends with
the image ready to be written or with an error screen. The other models go on for
ever, since the console can be switched off and on. `Launcher` ends with the
success or an error screen, a job of `Computations` with its result, and `Boot` stops on the error screen of the ARM9.

Fairness. `FairSpec` and `FairSession` assume that the code that runs keeps
running: a function that was entered takes its next step, and the chip answers
each command, with success or failure. That is what a single-threaded program
without pre-emption gives. Neither the user nor the power supply is fair:
nothing obliges them to do anything. Nor is success of a transfer assumed.

`FairSpec` of `Launcher` assumes that the code that prepares the image goes on and
that `fread` does not deliver nothing for ever; any number of empty and short
reads may come before. What the user does is outside of it, so `PreparationEnds`
speaks of the way to the dialogue. `session_full` shows what the same loop does
in `system_writeFile` when that assumption fails. `Computations` states no fairness.

`FairBoot` assumes that both the code of the ARM7 and the controller go on, and
that a chip that is asked again and again has powered up at some time (strong
fairness of `PoweredUp`: the loop around CMD1 asks infinitely often). A lost
command may leave a card in a state in which it never answers, so `BootEnds` and
`NandAnswers` say "or a fault happened". They do not say that an SD card
answers: its second startup sends CMD55 with the address of the first
(`my_sdmmc.c:361`), which a card that was reset does not listen to, and the
loop around ACMD41 does not end. The program never starts the SD card.

## 4. Proofs

Every theorem holds for every value of the constants that fulfils the named
assumptions of its module, and speaks of the specification without fairness.
The assumptions are those of the instance, so TLC evaluates each of them in a
run. What the theorems add to the runs is size: chips, copies of the FAT, files,
launchers, lists of patches, transfers, keys and counters of any size, and any
number of steps, faults and power cuts.

The arguments have one form. The property is not inductive, because it speaks of
the end of a path (a merge that is over, a file that is closed, a block that is
encrypted) and depends on what was stored long before. An invariant says what
holds at every point on the way; it has one conjunct per part of the state, named
below. Each action has a lemma, and under it one step per conjunct it can
disturb.

### The disc interface: `NandSession_proofs`, part 1

* `TypeCorrect`: `Spec => []TypeOK`: offset, length and pointer of a running
  call always describe the rest of the caller's buffer.
* `Synchronizes`: `Spec => []ShutdownSynchronizes`.
* `MergeIsConfined`: `Spec => MergeConfined`.
* `MergesBootRecord`: `Spec => []MergeUsesBootRecord`, the property that
  `nandio_mbrfault` finds violated when the read of sector 0 may fail. Under the
  assumption below it holds: that unchecked read is the only way to merge with
  the fields of another sector.
* `KeepsPromise`: `Spec => DiskPromise`: `nandio.c` implements `PlainDisk`. Every
  step of a call maps to a stutter or to the one step in which the plain disk
  answers; encryption, bounce buffer, chunks and the repaired signature do not
  show.

They rest on `ConstantAssumption` (the copies fit the chip, repairing a
signature does not change the fields read), `DeviceAssumption` (the chip is that
of a DSi with a readable partition table, or shows a 3DS header),
`RequestAssumption` (libfat writes neither the partition table nor the boot
record) and on the assumption of the theorems that the read of sector 0 succeeds,
`"mbr" \notin Faults`; the run `nandio_mbrfault` shows what happens otherwise.
Every other transfer may fail and power may go at any step. `KeepsPromise` also
assumes `KnownChips`: every chip is one of the two kinds. On a chip whose first
sector is neither, noise is taken for a partition table, and the sector it points
to is repaired though it is no boot record. `MC_NandIO` assumes it as well, so that
TLC evaluates it for the chips of the run.

The properties are not inductive: that the merge is confined depends on the
fields it took from the boot record long before, and these on the boot record
being where the partition table says and unchanged since. The invariant `Inv`
adds to `TypeOK`: the table and the boot record are as delivered (`ChipInv`), the
partition was found where it is and `sector_buf` still holds the table, which
announces no copies, until the merge begins (`BootInv`), a running write avoids
both sectors (`CallInv`), and the merge works with the boot record's fields, or
with none if it could not be read, and the copies it has done equal the first
(`MergeInv`). For the refinement `RepairInv` adds that a repaired sector is
sector 0 of a 3DS or the boot record of a DSi. Two arithmetic lemmas carry it:
`CopyOnChip` (the target of the merge is on the chip, behind the boot record) and
`CopiesApart` (two targets of different copy or place differ).

### The session: `NandSession_proofs`, part 2

* `SessionTypeCorrect`: `SessionSpec => []TypeOK`: the calls that libfat makes keep
  the rules that `RequestAssumption` states of a caller.
* `SystemFileIsSafe`: `SessionSpec => []SystemFileSurvives`, whatever transfers
  fail but that of sector 0, and whenever the power goes.
* `BackupIsSafe`: `SessionSpec => []BackupHoldsSystem`, if no read fails.
* `SuccessTellsTheTruth`: `SessionSpec => []SuccessIsTrue`.
* `BackupChangesLate`: `SessionSpec => CommitsLate`.
* `SessionIsStaged`: `SessionSpec => Staging`, if no transfer fails: the session
  implements `StagedFat`.

`VolumeAssumption` and `ContentAssumption` describe a FAT volume (every cluster
has an entry in the FAT and a sector behind the root directory; what libfat
writes is data), `SystemAssumption` the chip as delivered: both copies lead to
the system file, and no other chain runs into it.

`SessionInv` = `Inv` (above) with `ProgInv` (which state of the driver goes with
which line of `main`), `FileInv` (how far the file is written), `EvictInv` (a
running write stores one cached sector), `GoodCache` and `GoodDisk`: each sector
of the first FAT copy, in the cache or on the chip, whichever was stored first,
keeps the links of the system file, and its other entries do not lead into it.
This is stated *per sector* because the cache stores sectors in any order; a
statement about the table as a whole is not inductive. `BackupInv` says the same
of each backup copy, and that the sector the merge carries is one of the first
copy.

`CommitInv` follows the file to the success screen: a sector whose write
succeeded is on the chip (`StoredInv`), a failed flush leaves a mark (`FlushInv`),
the clusters of `launcher.dsi` are different, linked and filled in what libfat
sees (`LinkInv`), its entry says so once it is closed (`EntryInv`), and after
a merge without a failure the copies are equal (`SyncInv`). The
heart of it is `UnmountCommit`: `fatUnmount` empties the cache, and that loses
nothing unless a flush failed. That the order of the clusters can be followed
(`ReachedFrom`, a recursive function) is an induction over their number.

### The patch engine: `Patch_proofs`

Every image and every list of patches that fulfils `PatchAssumption` (a patch is
as long as its pattern, an option lies within it).

* `TypeCorrect`: `Spec => []TypeOK`.
* `AcceptedIsConfined`: `Spec => []AcceptedOnce`. The invariant says that before
  the check every altered byte lies in the last match of a pattern *or the
  pattern was counted more than once*, and that after the check every pattern
  already looked at was counted exactly once.
* `OptionsAreMerged`: `Spec => []OptionsMerged`. `MenuInv` says that the menu is
  well formed (`Menus`) and offers what the patches offer. That the two loops
  collect such a menu is proved by induction over the options of a patch
  and over the patches.
* `AcceptsExactly`: `PatchesCompatible` implies `Spec => []AcceptsOriginals`. The
  scan reads the image it changes; `ScanInv` says that for compatible patches a
  pattern that has not been tried yet matches in the changed image where it did in
  the launcher. `CountInv` relates counts and offsets to the places tried so far,
  `ErrorInv` the error screen to a count that is not one.
* `WrittenAsChosen`: `PatchesCompatible` implies `Spec => []WrittenIsPatched`.
  `ContentInv` gives the bytes that may be at every place of the image during scan
  and application: those of the pattern, of its patch, or of the chosen options that
cover it and were applied already.

The hypothesis `PatchesCompatible` is evaluated by TLC for the program's own list
(`patch_launcher`). `patch_any` runs lists that do not fulfil it, for which only
the first three theorems hold.

### The flow of main: `Launcher_proofs`

Every set of consoles and launchers that fulfils `ConsoleAssumption` (the areas
lie in the launcher and not over its header), every code, every way in which
reads are cut.

* `TypeCorrect`: `Spec => []TypeOK`.
* `ImageIsLoadable`: `Spec => []LoadableImage`. The invariant says at every
  point of the decryption which streams each block is still wrapped in
  (`Decrypting`): area by area, the blocks before `done` have lost theirs. Two
  areas may overlap, so it is the set of streams that has to be right, not a flag.
* `WritesAreWanted`: `Spec => []WritesWithConsent`. The invariant (`Entered`) says
  that the last `progress` frames with keys are the first `progress` keys of the code.
* `BarIsTrueHolds`: `ProgressSpec => []BarIsTrue` of `Progress`, for work of every
  size, transfers that fall short by any amount and whatever a division by zero
  gives (`ProgressAssumption` gives the types). `BarIsTrue` speaks of what was
  drawn, which says nothing about the next report; `ProgressInv` adds that the
  line is the one of the percentage reported last, and this the percentage of what
  is done, or that nothing was reported yet. `LineIs` works out what `UpdateProgress`
  prints: the text ends before the stack's rest of the buffer and has the escapes
  untouched.

### Driver and boot: `Boot_proofs`

Every number of faults and blocks, keys of any length over bytes of any range,
every kind of card, every interleaving of both processors, driver and controller.

* `DriverTypeCorrect`, `TransfersAreComplete`, `StartupIsReady`, `CidIsGenuine`:
  `BootSpec => []P` for `TypeOK`, `DataComplete`, `StartupReady`, `CidGenuine` of
  `Sdmmc`.
* `KeyIsRecovered`, `IdentityIsComplete`: `BootSpec => []P` for `KeyRecovered` and
  `IdentityComplete` of `Boot`.

`KeyAssumption` says what a key is, `OriginAssumption` how the chip may be found,
`RequestAssumption` that each card is started by its own function and that
nobody asks for a CID after the start; `my_sdmmc.c:558-640` has no other messages.

The invariant is `DriverInv`, `KeyInv`, `StageInv` and `IdentityInv`. `DriverInv`
relates what the driver knows to where the controller is, at every access to a
register: the sampled status is never ahead of the registers (`ControllerInv`); the
command at hand is only sent when the ones before have brought the card into
the state that accepts it (`StartupInv`, with `Arrived(n)`, the card before the
n-th command of the script); address, width and clock noted so far are those of
the card (`SettingsInv`); blocks moved, in the FIFO and to come make the transfer
(`ReadInv`, `WriteInv`). It is a statement about every command of every script,
so its lemmas are by command. `KeyInv` says that key and register differ at most
in the byte that is searched, and that the search has not passed its value.

### The cryptography: `DsiCrypto_proofs`

Every identity, digest and header, calls at any position, of any length and number
that the type `u32` can hold.

* `StreamDependsOnPosition`: `DsiSpec => []StreamIsPositional`.
* `TwoCountersAgree`: `DsiSpec => []CountersAgree`.
* `KeysAreDefined`: `DsiSpec => []KeyIsDefined`.

`IdentityAssumption` and `HeaderAssumption` give the ranges of what the console,
`swiSHA1Calc` and the header deliver. `PositionAssumption` says that positions
stay within `u32`, which sector numbers and the blocks of the second boot stage do
on a chip of 2^19 sectors; without it `u128_add32` would be called with a
number that has wrapped.

`PositionInv` says where each counter stands between blocks: `nand_ctr_iv` still
begins with the digest, in spite of the overrun (`DigestInv`), the counter of a
transfer is the sum of its start and the blocks done (`CounterInv`, `Boot2Inv`),
and the sum cannot leave `u32` (`BudgetInv`). `LastBlock` is the property, by kind
of call.

The step needs arithmetic of 128 bits. `Sum` is defined by where carries begin
and how far they are handed on; `u128_add` and `u128_add32` compute it byte by
byte, `dsi_add_ctr` word by word on a reversed number. `CarryCarries`
and `CarriesUnique` show that there is exactly one carry for each place; `SumFacts`,
`AddIsSum`, `SumAssociative`, `NextNumber` and `CountSwapped` derive from it that
counting on is adding one, in both representations. `KeyIsDefined` needs that the
steps of `F_XY_reverse` undo those of `F_XY`: exclusive or (`XorFacts`), the
subtraction, whose borrow is the carry of the addition (`SubAdd`), and the rotation by
42 of bytes and bits (`RotateBack`). AES itself enters these proofs as a
function of key and counter only.

### The block cipher: `Aes_proofs`

Every key of 128, 192 and 256 bits, every text, iv and division into calls that
`AesAssumption` gives a type.

* `BlockRoundTrip`: decryption with `aes_setkey_dec`'s context undoes encryption
  with `aes_setkey_enc`'s, for every key and block.
* `CipherIsStandard`, `KeyScheduleIsStandard`: the rounds by tables and the three
  loops of the key schedule are `Cipher` and `KeyExpansion` of `Fips197`.
* `RoundTripHolds`: `AesSpec => []RoundTrip`, `ModeIsStandardHolds`: `AesSpec =>
  []ModeIsStandard`.

No table is compared entry by entry. A byte is its bits (`IsSet`), so that
sums by exclusive or are compared bit by bit. `PowTable` is a permutation of the bytes but
0 with period 255, for which the multiples by 3, 3^16 and so on are worked out by
nibbles; with it `MUL`, by way of logarithms, is linear and commutes with the
generator, and so is the product of the standard, one bit of a factor after the other.
The substitution is a permutation because its affine part loses no bit, which makes
`RSb` its inverse. With products known, a column mixed by `FT` and one by `RT` undo
each other and are `MixColumns`; a round by tables, whose key `aes_setkey_dec` has
put through `RT` beforehand, undoes a round of encryption (`BlockRoundTrip`), and
equals a round of the standard (`CipherIsStandard`).

For the modes, neither property is inductive: both compare what has been put out
with a text that is overwritten meanwhile. `AesInv` says what the text is made
of at every block or byte: cipher text up to `off` and text behind it, or the
reverse, and which cipher text `iv` and `iv_off` come from, in a call and between
calls. It needs of the cipher what `BlockRoundTrip` says.

### The containers: `EsBlock_proofs`

Every key, nonce and text up to 16777200 bytes (`Largest`: the size has three
bytes, rounded up too), and damage at any place (`EsAssumption`).

* `CcmIsStandardHolds`: `EsSpec => []CcmIsStandard`.
* `EsVerdictHolds`: `EsSpec => []EsVerdict`, if `NonceShows`.

`NonceShows` is a hypothesis about the cipher: with a damaged nonce the header is
decrypted by another stream, and this shows in one of its four bytes that
`dsi_es_decrypt` looks at. It does not hold of every block cipher, nor, for all
that anybody knows, of AES with every key; a container whose nonce was altered is
refused with a probability of 1 - 2^-32, and that is no certainty. `Computations` assumes it
(`NonceAssumption`), so TLC evaluates it for the keys and nonces of the run.
All other damage is proved to be found without a hypothesis.

The invariant is `EsInv`. While a container is sealed (`SealPart`), the buffer is
encrypted up to `pos`, the context stands at the next block, and the values `mac`
has had are a chain in which each is the cipher of the one before and a block of
the text (`EncryptedUpTo`). While it is opened (`OpenPart`), the buffer is
decrypted up to `pos`, but for the byte that was hit, and `mac` has the value it
had when sealing *as long as no byte was hit, and another from then on*
(`DecryptedUpTo`). That is the point of the proof: the cipher does not give the same
block for two, so that two chains that differ never meet again while the text
is the same (`DecryptOne`), and the tag shows it. The last block is why the
code fills it with the stream when it opens: only then is zero what is authenticated
(`DecryptedBytes`). That the counter of a block is the next of the one before
(`CountSteps`) is what `dsi_add_ctr` is proved to add, with carries in the three
bytes that count.

### Big numbers: `Bignum_proofs`

Numbers of every length, limbs of every even number of bits, every set of sizes that
memory refuses, and each argument in the place of the result or not
(`BignumAssumption`, which TLC evaluates for limbs of 8 bits).

* `ComparisonIsExact`: `CmpAbs` and `CmpMpi` order numbers as integers.
* `AdditionIsExact`: `AddAbs`, `SubAbs`, `AddMpi` and `SubMpi` return the sum or the
  difference, or an error and which.
* `MultiplicationIsExact`: `MulMpi` returns the product, and stores nothing
  behind the limbs it has for it.
* `IntegersAreExact`: the same of the variants that take an integer.

They are stated of the operators, for all arguments and not for those that a
sequence of calls leads to, and cover -0 and limbs that are not used. A failure
leaves a number in the result, which the caller may free or use again.

A loop over limbs is a recursive function. What limbs are worth is a function as
well (`Weighs`): its value at place k is that of the limbs above k, so that the
step from k to k - 1 multiplies by the base and adds a limb. Two columns of limbs
that are compared or added are followed from the top limb down, with the carry
into each place (`Column`, `Total`), and no power of the base is needed. It is
where a row of the product is added: the last carry is zero because the sum fits
the limbs that are left (`PlaceValues`, `HasRoom`), and nothing else keeps the loop
for the carry within the number. `MULADDC` is exact because `b * s + c + d` fits
two limbs, so that no carry of its half products is lost. A product that is
written over a factor begins with a copy of that factor (`Aside`).

### What is only model-checked

* Liveness (`ShutdownReturns`, `CallReturns`, `RunEnds`, `PreparationEnds`,
  `BootEnds`, `NandAnswers`): out of the prover's reach.
* `ArithmeticIsExact` as a whole: of the functions it covers, those of the four
  theorems above are proved, and shifts, division, remainders, powers and the
  conversion to bytes are not. They need powers of the base as numbers, and powers
  need arithmetic modulo N.

The library's induction rules take an operator as a parameter and cannot be used.
Where an induction is needed here, it is over a set: a set of numbers that holds 0 and
every successor holds all of them (`SetInduction`, from `NatLessThanWellFounded`).
That reaches recursive functions such as `ReachedFrom`, `Collected` and the loops over
limbs (`InductionUp`, `InductionDown`, `Recursion`); sums over 16 places need
`HandedOn` only.

## 5. Not modelled, and why

* Consoles, frames and texts on the screen: no state that a property is about. The
  progress bar is modelled, since its text is edited in place.
* PadLock and the self test of `aes.c`, and the parts of `bignum.c` that are
  under `#if 0` or that the configuration leaves out (strings, files, greatest
  common divisors, inverses, primes): not compiled.
* `parse_mbr`: its result is ignored. The sizes of cards (`calcSDSize`): they
  are kept for the request for the size (`my_sdmmc.c:633`), which this program
  never makes.
* `system_getTmdFilename`: it returns null when there is no such file and the null
  pointer goes to `stat`; only a message about unlaunch depends on it.
* The power cord after the code was entered: the code never looks again.
* A static array of 16 sectors in `write_sectors` (`nandio.c:134`) receives
  chunks of up to 64. libfat writes pages of its cache, which are at most 8
  sectors long, so this program never gets there; `WriteChunk` copies every chunk.
* Bytes of a sector that no code looks at.
* The console's own start-up code, which reads the first FAT copy.

## 6. Plan

Done: all modules above with their runs, and the theorems. What could follow:

1. `Bignum`: shifts and division for numbers of every length, on the lemmas about
   weights.
2. The sizes of cards as arithmetic of bounded width.
