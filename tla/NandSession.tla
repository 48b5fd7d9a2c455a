----------------------------- MODULE NandSession -----------------------------
(***************************************************************************)
(* A run of the program from mounting the NAND to the success screen, as   *)
(* far as it touches the chip: main.cpp (144-146, 326-345) and             *)
(* system_writeFile of system_info.cpp on top of libfat on top of NandIO.  *)
(*                                                                         *)
(* The file system holds a system file and the file launcher.dsi that main *)
(* writes.  A FAT sector is <<"fat", next cluster of c, of c+1, ...>>, the *)
(* root directory <<"dir", exists, first cluster, size>> (the entry of     *)
(* launcher.dsi; that of the system file never changes) and a cluster one  *)
(* sector.  libfat is not part of the repository: it keeps modified        *)
(* sectors in a write-back cache, writes them in any order, and knows only *)
(* the first FAT copy.                                                     *)
(***************************************************************************)
EXTENDS NandIO, FiniteSets

CONSTANTS
  NCLUSTERS,   \* clusters of the partition
  PER_SECTOR,  \* FAT entries in one FAT sector
  DIR,         \* sector of the root directory; the clusters follow it
  SYSTEM,      \* clusters of the system file, in order
  SIZE         \* length of launcher.dsi in clusters

Clusters == 1 .. NCLUSTERS
FREE     == 0
EOF      == NCLUSTERS + 1

VARIABLES
  prog,      \* "off", "open", "write", "close", "flush", "unmount", "merge", "success", "error"
  version,   \* which launcher.dsi this run writes
  cache,     \* libfat's modified sectors: [subset of Sectors -> Data]
  evicting,  \* the sector libfat is writing back, a set of at most one
  flushOK,   \* did every write of the flush under way succeed?
  pos,       \* `pos` of system_writeFile, in clusters
  pending,   \* clusters still in the buffer of the C library
  chain      \* clusters libfat has given to the open file

sessionVars == <<prog, version, cache, evicting, flushOK, pos, pending, chain>>
allVars     == <<vars, sessionVars>>
fileVars    == <<version, pos, pending, chain>>

-----------------------------------------------------------------------------
(* libfat's view of the disk *)

ClusterSector(c)   == DIR + c
FatSectorOf(k, c)  == BOOT + RESERVED + k * SPF + (c - 1) \div PER_SECTOR
View(s)            == IF s \in DOMAIN cache THEN cache[s] ELSE Disk[s].data
SlotOf(c)          == 2 + ((c - 1) % PER_SECTOR)
Table              == [c \in Clusters |-> View(FatSectorOf(0, c))[SlotOf(c)]]
FirstOf(S)         == CHOOSE c \in S : \A d \in S : c <= d

FatImage(table, s) ==
  LET first == (s - BOOT - RESERVED) * PER_SECTOR IN
  <<"fat">> \o [i \in 1 .. PER_SECTOR |->
                  IF first + i \in Clusters THEN table[first + i] ELSE EOF]

(* The cache after sectors got new contents.                               *)
Cached(new) == [s \in DOMAIN cache \cup DOMAIN new |->
                  IF s \in DOMAIN new THEN new[s] ELSE cache[s]]
CachedTable(table) ==
  [s \in {FatSectorOf(0, c) : c \in {c \in Clusters : table[c] # Table[c]}} |->
     FatImage(table, s)]

(* The clusters reached from c in a table.                                 *)
Successor(table, S) == S \cup {table[c] : c \in S \cap Clusters}
ReachedFrom(table, c) ==
  LET step[n \in 0 .. NCLUSTERS] ==
        IF n = 0 THEN {c} ELSE Successor(table, step[n - 1])
  IN  step[NCLUSTERS] \cap Clusters

Chunk(v, i) == <<"chunk", v, i>>

(* The clusters of a file, linked in a table.                              *)
Linked(table, seq) ==
  \A i \in 1 .. Len(seq) : table[seq[i]] = IF i < Len(seq) THEN seq[i + 1] ELSE EOF

-----------------------------------------------------------------------------
(* What is assumed of the partition: its parts lie one behind the other    *)
(* and fit the chip, every sector that libfat makes is one a sector can    *)
(* hold, and every chip holds the system file, with no other cluster       *)
(* leading into those of the system file.                                  *)
SystemClusters == {SYSTEM[i] : i \in 1 .. Len(SYSTEM)}
FileClusters   == Clusters \ SystemClusters
Tables         == [Clusters -> 0 .. EOF]
Sound(table)   == /\ Linked(table, SYSTEM)
                  /\ \A c \in FileClusters : table[c] \notin SystemClusters
Place(x)       == BOOT + RESERVED + x

ASSUME VolumeAssumption ==
  /\ {NCLUSTERS, PER_SECTOR, SIZE} \subseteq Nat \ {0}
  /\ NCLUSTERS <= SPF * PER_SECTOR
  /\ DIR \in Nat /\ BOOT + RESERVED + FATS * SPF <= DIR /\ DIR + NCLUSTERS < NSECTORS
  /\ SYSTEM \in Seq(Clusters)

ASSUME ContentAssumption ==
  /\ \A t \in Tables, x \in 0 .. (SPF - 1) : FatImage(t, Place(x)) \in Data
  /\ \A c \in {FREE} \cup Clusters, n \in 0 .. SIZE : <<"dir", 1, c, n>> \in Data
  /\ \A v \in {0, 1}, i \in 1 .. SIZE : Chunk(v, i) \in Data

Directory(d) == d[1] = "dir" /\ d[3] \in {FREE} \cup FileClusters
Volume(disk) ==
  /\ \A k \in 0 .. (FATS - 1) : \E t \in Tables :
       /\ Sound(t)
       /\ \A x \in 0 .. (SPF - 1) : disk[Place(x) + k * SPF] = Plain(FatImage(t, Place(x)))
  /\ disk[DIR].pads = {} /\ Directory(disk[DIR].data)
  /\ \A i \in 1 .. Len(SYSTEM) : disk[ClusterSector(SYSTEM[i])] = Plain(<<"system", i>>)
ASSUME SystemAssumption == \A chip \in Devices : DSiChip(chip) /\ Volume(DiskOf(chip))

-----------------------------------------------------------------------------
SessionInit ==
  /\ Init
  /\ prog = "off"
  /\ version = 0
  /\ cache = [s \in {} |-> 0]
  /\ evicting = {}
  /\ flushOK = TRUE
  /\ pos = 0
  /\ pending = {}
  /\ chain = <<>>

(* fatMountSimple, the first access: nandio_startup, then the partition    *)
(* table must be readable (main.cpp:144).                                  *)
Mount ==
  /\ prog = "off"
  /\ Startup \/ StartupRefused
  /\ prog' = IF pc' = "ready" /\ Mountable THEN "open" ELSE "error"
  /\ version' = 1 - version
  /\ UNCHANGED <<cache, evicting, flushOK, pos, pending, chain>>

(* Any of the checks between mounting and writing shows an error screen,   *)
(* and so does system_writeFile when fopen fails.                          *)
GiveUp ==
  /\ prog = "open"
  /\ prog' = "error"
  /\ UNCHANGED <<vars, version, cache, evicting, flushOK, pos, pending, chain>>

(* fopen(.., "wb+"): a file that exists loses its clusters, a new one gets *)
(* a directory entry.                                                      *)
Open ==
  LET entry == View(DIR)
      freed == ReachedFrom(Table, entry[3]) IN
  /\ prog = "open"
  /\ cache' = IF entry[2] = 1
              THEN Cached(CachedTable([c \in Clusters |->
                     IF entry[3] \in Clusters /\ c \in freed THEN FREE ELSE Table[c]]))
              ELSE Cached([s \in {DIR} |-> <<"dir", 1, FREE, 0>>])
  /\ prog' = "write"
  /\ UNCHANGED <<vars, fileVars, evicting, flushOK>>

(* libfat appends cluster number i of the file: the first free cluster is  *)
(* linked to the chain and its content cached.                             *)
FreeClusters == {c \in Clusters : Table[c] = FREE}
AddCluster(i) ==
  LET c == FirstOf(FreeClusters)
      table == [d \in Clusters |-> IF d = c THEN EOF
                  ELSE IF chain # <<>> /\ d = chain[Len(chain)] THEN c ELSE Table[d]]
  IN  /\ FreeClusters # {}
      /\ cache' = Cached([s \in {ClusterSector(c)} \cup DOMAIN CachedTable(table) |->
                            IF s = ClusterSector(c) THEN Chunk(version, i)
                            ELSE CachedTable(table)[s]])
      /\ chain' = chain \o <<c>>

(* One round of the loop in system_writeFile.  fwrite puts the piece into  *)
(* the C library's buffer, after passing on what is in there.  When that   *)
(* fails fwrite writes nothing, pos stays, and the loop tries again.       *)
Fwrite ==
  /\ prog = "write"
  /\ evicting = {}
  /\ pos < SIZE
  /\ IF pending = {} THEN UNCHANGED <<cache, chain>>
                     ELSE \E i \in pending : AddCluster(i)
  /\ pending' = {pos + 1}
  /\ pos' = pos + 1
  /\ UNCHANGED <<vars, prog, version, evicting, flushOK>>

(* fclose passes on the rest, which is lost if that fails, writes the      *)
(* directory entry and flushes the cache.  Its result is ignored.          *)
Fclose ==
  /\ prog = "write"
  /\ evicting = {}
  /\ pos >= SIZE
  /\ \/ \E i \in pending : AddCluster(i)
     \/ /\ pending = {} \/ FreeClusters = {} \/ "write" \in Faults
        /\ UNCHANGED <<cache, chain>>
  /\ pending' = {}
  /\ flushOK' = TRUE
  /\ prog' = "close"
  /\ UNCHANGED <<vars, version, evicting, pos>>

WriteEntry ==
  /\ prog = "close"
  /\ evicting = {}
  /\ cache' = Cached([s \in {DIR} |->
                <<"dir", 1, IF chain = <<>> THEN FREE ELSE chain[1], Len(chain)>>])
  /\ prog' = "flush"
  /\ UNCHANGED <<vars, fileVars, evicting, flushOK>>

(* libfat writes a modified sector back: when it needs the cache page, or  *)
(* because it flushes the cache.  A flush stops at the first failure.      *)
Evict ==
  /\ prog \in {"write", "close"} \/ (prog \in {"flush", "unmount"} /\ flushOK)
  /\ evicting = {}
  /\ \E s \in DOMAIN cache :
       /\ Enter("write", s, <<Plain(cache[s])>>)
       /\ evicting' = {s}
  /\ UNCHANGED <<prog, fileVars, cache, flushOK>>

Evicted ==
  /\ pc = "ready"
  /\ \E s \in evicting :
       cache' = IF ret THEN [t \in DOMAIN cache \ {s} |-> cache[t]] ELSE cache
  /\ flushOK' = (flushOK /\ ret)
  /\ evicting' = {}
  /\ UNCHANGED <<vars, prog, fileVars>>

Flushed == evicting = {} /\ (DOMAIN cache = {} \/ ~flushOK)

(* A mistake that CommitsLate would show: main merges without unmounting.  *)
AfterWriteNoUnmount == IF pos = 0 \/ pos < SIZE THEN "error" ELSE "merge"

(* Back in main: written is 0 or less than the file's size only where an   *)
(* error screen follows (main.cpp:331-338).                                *)
AfterWrite == IF pos = 0 \/ pos < SIZE THEN "error" ELSE "unmount"
CheckWritten ==
  /\ prog = "flush"
  /\ Flushed
  /\ prog' = AfterWrite
  /\ flushOK' = TRUE
  /\ UNCHANGED <<vars, fileVars, cache, evicting>>

(* fatUnmount flushes once more and forgets the cache (main.cpp:341).      *)
Unmounted ==
  /\ prog = "unmount"
  /\ Flushed
  /\ cache' = [s \in {} |-> 0]
  /\ prog' = "merge"
  /\ UNCHANGED <<vars, fileVars, evicting, flushOK>>

(* nandio_shutdown (main.cpp:343), then the success screen.                *)
Merge ==
  /\ prog = "merge"
  /\ ShutdownBegin \/ MergeRead \/ MergeWrite
  /\ UNCHANGED sessionVars
MergeDone ==
  /\ prog = "merge"
  /\ ShutdownEnd
  /\ prog' = "success"
  /\ UNCHANGED <<fileVars, cache, evicting, flushOK>>

Transfer == (WriteChunk \/ CallDone) /\ UNCHANGED sessionVars

(* The user switches off or restarts, or the power fails.                  *)
SwitchOff ==
  /\ PowerLoss
  /\ prog # "off"
  /\ prog' = "off"
  /\ cache' = [s \in {} |-> 0]
  /\ evicting' = {}
  /\ flushOK' = TRUE
  /\ pos' = 0
  /\ pending' = {}
  /\ chain' = <<>>
  /\ UNCHANGED version

Program == \/ Mount \/ Open \/ Fwrite \/ Fclose \/ WriteEntry \/ Evict \/ Evicted
           \/ CheckWritten \/ Unmounted \/ Merge \/ MergeDone \/ Transfer

SessionNext == Program \/ GiveUp \/ SwitchOff

SessionSpec == SessionInit /\ [][SessionNext]_allVars

-----------------------------------------------------------------------------
(* Fairness: the program runs on while the console is on and the chip      *)
(* answers; nothing obliges the user to switch off.                        *)
FairSession == SessionSpec /\ WF_allVars(Program)

-----------------------------------------------------------------------------
(* What is on the chip, read through FAT copy k *)

Kind(s)      == IF Disk[s].pads = {} THEN Disk[s].data[1] ELSE "noise"
OnDisk(k)    == [c \in Clusters |->
                   IF Kind(FatSectorOf(k, c)) = "fat"
                   THEN Disk[FatSectorOf(k, c)].data[SlotOf(c)] ELSE FREE]
HoldsSystem(k) ==
  /\ Linked(OnDisk(k), SYSTEM)
  /\ \A i \in 1 .. Len(SYSTEM) : Disk[ClusterSector(SYSTEM[i])] = Plain(<<"system", i>>)
HoldsLauncher(k) ==
  /\ Kind(DIR) = "dir" /\ Disk[DIR].data[2] = 1 /\ Disk[DIR].data[4] = SIZE
  /\ \E seq \in [1 .. SIZE -> Clusters] :
       /\ seq[1] = Disk[DIR].data[3]
       /\ Linked(OnDisk(k), seq)
       /\ \A i \in 1 .. SIZE : Disk[ClusterSector(seq[i])] = Plain(Chunk(version, i))
CopiesEqual == \A k \in 1 .. (FATS - 1) : OnDisk(k) = OnDisk(0)

(* main.cpp:320-321 warns of the risk to brick.  At every moment, whatever *)
(* transfers fail and whenever the power goes, the system file is whole on *)
(* the chip through the FAT copy that the console uses, and no cluster of  *)
(* it is shared with launcher.dsi.                                         *)
SystemFileSurvives ==
  /\ HoldsSystem(0)
  /\ Kind(DIR) = "dir" =>
       \A i \in 1 .. Len(SYSTEM) : SYSTEM[i] \notin ReachedFrom(OnDisk(0), Disk[DIR].data[3])

(* nandio.c:199-200.  The backup copies describe the system file too,      *)
(* whenever the power goes, so that a damaged first copy can be restored    *)
(* from them.  Where transfers fail this does not hold: a failing read in   *)
(* the merge is not noticed and what was read last is written instead.      *)
BackupHoldsSystem == \A k \in 1 .. (FATS - 1) : HoldsSystem(k)

(* nandio.c:199-200, main.cpp:341-343.  A backup copy changes only when    *)
(* launcher.dsi was written completely and libfat was unmounted: an aborted *)
(* run leaves the backup copies as they were before it.                    *)
CommitsLate ==
  [][\A k \in 1 .. (FATS - 1), c \in Clusters :
       Disk'[FatSectorOf(k, c)] # Disk[FatSectorOf(k, c)] =>
         prog = "merge" /\ pos = SIZE /\ DOMAIN cache = {}
         /\ (~faulted /\ Len(chain) = SIZE => HoldsLauncher(0))]_allVars

(* main.cpp:340-345.  The success screen of a run in which no transfer     *)
(* failed means that every FAT copy is up to date and, if libfat found room *)
(* for all of it, that the whole launcher.dsi of this run is on the chip.  *)
SuccessIsTrue ==
  prog = "success" /\ ~faulted =>
    CopiesEqual /\ (Len(chain) = SIZE => HoldsLauncher(0))

(* The same without the proviso, as the comment at nandio.c:196-198 and    *)
(* the message at main.cpp:337 would have it.                              *)
SuccessMeansSynchronized == prog = "success" => CopiesEqual
SuccessMeansWritten      == prog = "success" => HoldsLauncher(0)

(* system_info.cpp:118-132, nandio.c:202-226.  Where no transfer fails, a   *)
(* run that finds room for the file when it opens it ends with one of the   *)
(* two screens, unless it is switched off.                                  *)
Room == Cardinality({c \in Clusters : Table[c] = FREE \/ c \in ReachedFrom(Table, View(DIR)[3])})
          >= SIZE
RunEnds == (prog = "open" /\ Room) ~> (prog \in {"success", "error", "off"})

(* main.cpp:335-338.  Once writing began, the file is written or an error  *)
(* is shown.                                                               *)
WriteEnds == (prog = "write") ~> (prog \in {"unmount", "error", "off"})

(* nandio.c:196-200 as a protocol: the copies the file system works on and *)
(* the backup copies (StagedFat).                                          *)
SF == INSTANCE StagedFat WITH
        Places <- 0 .. (SPF - 1), Copies <- 1 .. (FATS - 1),
        primary <- [x \in 0 .. (SPF - 1) |-> Disk[BOOT + RESERVED + x]],
        backup <- [k \in 1 .. (FATS - 1) |->
                     [x \in 0 .. (SPF - 1) |-> Disk[BOOT + RESERVED + x + k * SPF]]],
        phase <- IF prog = "merge" THEN "commit"
                 ELSE IF prog \in {"write", "close", "flush", "unmount"} THEN "work" ELSE "rest"
Staging == SF!Spec
=============================================================================
