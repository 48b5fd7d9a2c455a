-------------------------------- MODULE Boot --------------------------------
(***************************************************************************)
(* The start of the two processors: main of the ARM7 (template.c), which   *)
(* recovers key 3, starts the chip and reads its CID, and that of the ARM9 *)
(* (main.cpp:114-147), which waits some frames, looks at the console's     *)
(* identity and mounts the chip (nandio_startup).  Afterwards the ARM9     *)
(* sends messages to the driver (module Sdmmc).                            *)
(*                                                                         *)
(* The handlers that answer are those of libnds, whose driver is the same  *)
(* code with variables of its own; they are modelled by my_sdmmc.c.        *)
(***************************************************************************)
EXTENDS Sdmmc

CONSTANTS
  Keys,      \* keys that the console may have: sequences of bytes
  LastByte,  \* 255 in the code
  FRAMES,    \* frames the ARM9 waits (30)
  Requests   \* messages after the start: [name, dev, first, n]

(* template.c:128-131: the search runs over the values of a byte.  The      *)
(* handlers of my_sdmmc.c:558-640 start each card with its own function     *)
(* and cannot be asked for a CID.                                           *)
ASSUME KeyAssumption == LastByte \in Nat /\ Keys \subseteq Seq(0 .. LastByte)
ASSUME RequestAssumption ==
  \A m \in Requests :
    /\ <<m.name, m.dev>> \in {<<"nand_init", "nand">>, <<"sdcard_init", "sd">>}
                                \cup {"readsectors", "writesectors"} \X Devices
    /\ m.first \in Nat /\ m.n \in Nat

VARIABLES
  stage,     \* ARM7: "key", "startup", "cid", "install", "serve" or "handle"
  key,       \* key 3 of the console
  slot,      \* the key register, which can be written but not read
  out,       \* what is known of the key, in shared memory
  i, j,      \* loop variables of the recovery
  detect,    \* is REG_SDSTATUS0 other than 0
  arm9,      \* "frames", "identity", "start", "started", "sector0", "crypt", "client" or
             \* "error"
  frames,    \* frames waited
  msg, reply, \* FIFO_SDMMC in both directions; a sequence of at most one
  ciphers    \* what dsi_crypt_init was given: <<key, CID>>

recoveryVars == <<key, slot, out, i, j>>
arm7Vars     == <<stage, recoveryVars, detect>>
arm9Vars     == <<arm9, frames, ciphers>>
fifo         == <<msg, reply>>
vars         == <<sdmmcVars, arm7Vars, arm9Vars, fifo>>

Unknown == [k \in DOMAIN key |-> LastByte + 1]   \* what was in the shared memory

BootInit ==
  /\ SdmmcInit
  /\ stage = "key" /\ key \in Keys /\ slot = key /\ out = Unknown /\ i = 1 /\ j = 0
  /\ detect \in BOOLEAN
  /\ arm9 = "frames" /\ frames = 0 /\ ciphers = <<>>
  /\ msg = <<>> /\ reply = <<>>

-----------------------------------------------------------------------------
(* ARM7 *)

(* The output of the AES engine for a fixed input tells keys apart.         *)
SameOutput(k) == k = key

(* One round of the inner loop: template.c:129-137.  KeepTrying is the      *)
(* mistake that KeyRecovered would show, a loop without its break.          *)
KeepTrying(hit) == j = LastByte
Tried(hit)      == hit \/ j = LastByte
RecoverKey ==
  /\ stage = "key" /\ i <= Len(key)
  /\ slot' = [slot EXCEPT ![i] = j]
  /\ LET hit == SameOutput(slot') IN
     /\ out' = IF hit THEN [out EXCEPT ![i] = j] ELSE out
     /\ i' = IF Tried(hit) THEN i + 1 ELSE i
     /\ j' = IF Tried(hit) THEN 0 ELSE j + 1
  /\ UNCHANGED <<sdmmcVars, stage, key, detect, arm9Vars, fifo>>

Stage(from, to) == stage = from /\ stage' = to
StartNand ==
  /\ Stage("key", "startup") /\ i > Len(key)
  /\ Call("nand_init", "nand", 0, 0)
  /\ UNCHANGED <<recoveryVars, detect, arm9Vars, fifo>>
(* The result of the startup is ignored.                                    *)
GetCid ==
  /\ Stage("startup", "cid")
  /\ Call("get_cid", "nand", 0, 0)
  /\ UNCHANGED <<recoveryVars, detect, arm9Vars, fifo>>
(* template.c:148-162, the handlers start with variables of their own.  To  *)
(* install them before the CID is read is the mistake that IdentityComplete *)
(* would show.                                                              *)
InstallEarlier == "startup"
InstallAfter   == "cid"
Install ==
  /\ Stage(InstallAfter, "serve") /\ pc = "idle"
  /\ dev' = [d \in Devices |-> [Fresh(d) EXCEPT !.clk = 0, !.initarg = 0]]
  /\ initialised' = FALSE
  /\ UNCHANGED <<op, at, pc, result, status1, size, data, cid, line, controllerVars,
                 recoveryVars, detect, arm9Vars, fifo>>

(* my_sdmmcValueHandler and my_sdmmcMsgHandler.                             *)
Handle ==
  /\ stage = "serve" /\ msg # <<>>
  /\ msg' = <<>>
  /\ IF msg[1].name \in Startups /\ ~detect
     THEN /\ reply' = <<1>>
          /\ UNCHANGED <<stage, sdmmcVars>>
     ELSE /\ stage' = "handle"
          /\ Call(msg[1].name, msg[1].dev, msg[1].first, msg[1].n)
          /\ UNCHANGED reply
  /\ UNCHANGED <<recoveryVars, detect, arm9Vars>>
Answer ==
  /\ Stage("handle", "serve") /\ pc = "idle"
  /\ reply' = <<result>>
  /\ UNCHANGED <<sdmmcVars, recoveryVars, detect, arm9Vars, msg>>

Arm7 == RecoverKey \/ StartNand \/ GetCid \/ Install \/ Handle \/ Answer

-----------------------------------------------------------------------------
(* ARM9 *)

(* swiWaitForVBlank in main.cpp:114.                                        *)
VBlank ==
  /\ arm9 = "frames"
  /\ IF frames < FRAMES THEN frames' = frames + 1 /\ UNCHANGED arm9
                        ELSE arm9' = "identity" /\ UNCHANGED frames
  /\ UNCHANGED <<sdmmcVars, arm7Vars, ciphers, fifo>>

(* main.cpp:130-142: bytes that are no key may pass for one.                *)
CheckIdentity ==
  /\ arm9 = "identity"
  /\ \/ arm9' = "start"
     \/ out # key /\ arm9' = "error"
  /\ UNCHANGED <<sdmmcVars, arm7Vars, frames, ciphers, fifo>>

Waiting == msg # <<>> \/ stage = "handle" \/ reply # <<>>
Request(m) == ~Waiting /\ msg' = <<m>> /\ UNCHANGED reply

(* nandio_startup: nand_Startup, sector 0, dsi_crypt_init.                  *)
NandStart == [name |-> "nand_init", dev |-> "nand", first |-> 0, n |-> 0]
Sector0   == [name |-> "readsectors", dev |-> "nand", first |-> 0, n |-> 1]
SendStart ==
  /\ arm9 = "start" /\ Request(NandStart)
  /\ arm9' = "started"
  /\ UNCHANGED <<sdmmcVars, arm7Vars, frames, ciphers>>
Started ==
  /\ arm9 = "started" /\ reply # <<>> /\ reply' = <<>>
  /\ arm9' = IF reply[1] = 0 THEN "sector0" ELSE "error"
  /\ UNCHANGED <<sdmmcVars, arm7Vars, frames, ciphers, msg>>
ReadSector0 ==
  /\ arm9 = "sector0" /\ Request(Sector0)
  /\ arm9' = "crypt"
  /\ UNCHANGED <<sdmmcVars, arm7Vars, frames, ciphers>>
CryptInit ==
  /\ arm9 = "crypt" /\ reply # <<>> /\ reply' = <<>>
  /\ ciphers' = <<out, cid>>
  /\ arm9' = "client"
  /\ UNCHANGED <<sdmmcVars, arm7Vars, frames, msg>>

(* External: whatever the ARM9 asks for later.                              *)
SendRequest ==
  /\ arm9 = "client"
  /\ \E m \in Requests : Request(m)
  /\ UNCHANGED <<sdmmcVars, arm7Vars, arm9Vars>>
TakeReply ==
  /\ arm9 = "client" /\ reply # <<>> /\ reply' = <<>>
  /\ UNCHANGED <<sdmmcVars, arm7Vars, arm9Vars, msg>>

Arm9 == \/ VBlank \/ CheckIdentity \/ SendStart \/ Started \/ ReadSector0 \/ CryptInit
        \/ SendRequest \/ TakeReply

DriverStep     == Driver /\ UNCHANGED <<arm7Vars, arm9Vars, fifo>>
ControllerStep == Controller /\ UNCHANGED <<arm7Vars, arm9Vars, fifo>>
Next == Arm7 \/ Arm9 \/ DriverStep \/ ControllerStep
BootSpec == BootInit /\ [][Next]_vars

(* Each processor and the controller keep running, and a chip that is asked *)
(* again and again has powered up at some time.                             *)
PoweredUp == ControllerStep /\ card' # card /\ reg.cmd.n = 1
FairBoot == /\ BootSpec
            /\ WF_vars(Arm7) /\ WF_vars(DriverStep) /\ WF_vars(ControllerStep)
            /\ SF_vars(PoweredUp)

-----------------------------------------------------------------------------
(* Properties *)

(* template.c:116-139.  When the search is over the whole key is known, and *)
(* the register holds it again: the chip is encrypted with it.              *)
KeyRecovered == stage # "key" => out = key /\ slot = key

(* nandio.c:64-84, template.c:104-163.  The keys of the NAND are computed   *)
(* from a complete identity: the answer to nand_Startup comes from handlers *)
(* that are installed after the key and the CID were stored.                *)
IdentityComplete ==
  ciphers # <<>> => /\ ciphers[1] = key
                    /\ faults = 0 => ciphers[2].n = 10 /\ ciphers[2].of = "nand"

(* template.c:86-175.  The ARM7 gets to serving requests whatever state the *)
(* chip was left in, if no command is lost.                                 *)
BootEnds == <>(stage = "serve" \/ faults > 0)

(* my_sdmmc.c:558-640.  A request for the chip is answered, with success or *)
(* failure, if the card misses nothing: no loop over the registers and none *)
(* over commands waits for something that has passed.                       *)
NandAnswers ==
  (stage = "handle" /\ op.dev = "nand") ~> (stage = "serve" \/ faults > 0)
=============================================================================
