--------------------------- MODULE MC_NandSession ---------------------------
(* Instances of NandSession for TLC.  Sector 0 is the partition table, 1    *)
(* the boot record, then follow two FAT copies of SPF sectors, the root      *)
(* directory and the clusters.  The system file has the first and the last   *)
(* cluster.                                                                  *)
EXTENDS NandSession

CONSTANTS Occupied   \* clusters that belong to other files

MCSYSTEM == <<1, NCLUSTERS>>
Others   == Occupied \cup {1, NCLUSTERS}

(* A launcher.dsi of an earlier run lies in cluster 2, unless that is taken. *)
FatData(old, s) ==
  LET table == [c \in Clusters |->
        IF c = 1 THEN NCLUSTERS
        ELSE IF c \in Others \/ (old /\ c = 2) THEN EOF ELSE FREE]
  IN  FatImage(table, BOOT + RESERVED + ((s - BOOT - RESERVED) % SPF))
Content(old, s) ==
  CASE s = 0 -> <<"mbr">>
    [] s = 1 -> <<"boot">>
    [] s \in 2 .. (DIR - 1) -> FatData(old, s)
    [] s = DIR -> IF old THEN <<"dir", 1, 2, 1>> ELSE <<"dir", 0, FREE, 0>>
    [] s = ClusterSector(1) -> <<"system", 1>>
    [] s = ClusterSector(NCLUSTERS) -> <<"system", 2>>
    [] OTHER -> <<"zero">>
MCDevices == {[s \in Sectors |-> [data |-> Content(old, s), pads |-> {s}]] :
               old \in {FALSE} \cup {b \in {TRUE} : 2 \notin Occupied}}

MCData ==
  {<<"mbr">>, <<"boot">>, <<"zero">>, <<"system", 1>>, <<"system", 2>>}
  \cup {Chunk(v, i) : v \in 0 .. 1, i \in 1 .. SIZE}
  \cup {<<"dir", e, c, n>> : e \in 0 .. 1, c \in {FREE} \cup Clusters, n \in 0 .. SIZE}
  \cup {<<"fat">> \o f : f \in [1 .. PER_SECTOR -> 0 .. EOF]}
MCBpb == [d \in MCData |->
  [mbr |-> IF d = <<"mbr">> THEN 1 ELSE 0, fats |-> IF d = <<"boot">> THEN 2 ELSE 0,
   reserved |-> IF d = <<"boot">> THEN 1 ELSE 0, spf |-> IF d = <<"boot">> THEN SPF ELSE 0]]
MCNoise  == {[mbr |-> 2, fats |-> 2, reserved |-> 1, spf |-> 1]}
MCSigned == [d \in MCData |-> d]
MCZero   == <<"zero">>
=============================================================================
