------------------------------ MODULE MC_NandIO ------------------------------
(* Instances of NandIO for TLC: a small chip whose partition               *)
(* starts at sector 1 with its boot record, followed by the FAT copies.     *)
EXTENDS NandIO

CONSTANTS Blank, Mbr, BootOld, BootNew, Header, A, B, Payload, Copies, PerFat,
          MaxRead, MaxWrite

MCData == {Blank, Mbr, BootOld, BootNew, Header, A, B}
MCBpb  ==
  [d \in MCData |->
     IF d = Mbr THEN [mbr |-> 1, fats |-> 0, reserved |-> 0, spf |-> 0]
     ELSE IF d \in {BootOld, BootNew}
       THEN [mbr |-> 0, fats |-> Copies, reserved |-> 1, spf |-> PerFat]
     ELSE [mbr |-> 0, fats |-> 0, reserved |-> 0, spf |-> 0]]
(* Noise may look like a record that misses the partition, like one beyond  *)
(* the chip, or announce no copies at all.                                  *)
MCNoise  == {[mbr |-> 3, fats |-> 2, reserved |-> 0, spf |-> 1],
             [mbr |-> 9, fats |-> 1, reserved |-> 4, spf |-> 2]}
MCSigned == [d \in MCData |-> IF d = BootOld THEN BootNew ELSE d]

Chip(disk) == [s \in Sectors |-> [data |-> disk[s], pads |-> {s}]]
DSi(boot)  == Chip([s \in Sectors |-> IF s = 0 THEN Mbr ELSE IF s = 1 THEN boot ELSE A])
Old3DS     == [Chip([s \in Sectors |-> A]) EXCEPT ![0] = [data |-> Header, pads |-> {}]]
MCDevices  == {DSi(BootOld), DSi(BootNew), Old3DS}

(* libfat reads anything, and writes the first FAT copy and the files.      *)
MCFirst == 2 .. (1 + PerFat)
MCFiles == (2 + Copies * PerFat) .. (NSECTORS - 1)
Run(o, n, S) == \A i \in 1 .. n : o + i - 1 \in S
MCReads  == {[op |-> "read", offset |-> o, buffer |-> [i \in 1 .. n |-> Plain(Blank)]] :
              o \in Sectors, n \in 1 .. MaxRead}
MCWrites == UNION {{[op |-> "write", offset |-> o, buffer |-> [i \in 1 .. n |-> Plain(f[i])]] :
                f \in [1 .. n -> Payload]} :
              <<o, n>> \in {x \in (2 .. (NSECTORS - 1)) \X (1 .. MaxWrite) :
                 Run(x[1], x[2], MCFirst) \/ Run(x[1], x[2], MCFiles)}}
MCRequests == MCReads \cup MCWrites

ASSUME KnownAssumption == KnownChips
=============================================================================
