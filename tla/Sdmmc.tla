------------------------------- MODULE Sdmmc -------------------------------
(***************************************************************************)
(* my_sdmmc.c: the driver of the ARM7 for the SD card and the eMMC chip.   *)
(* my_sdmmc_send_command is modelled register access by register access,   *)
(* against a controller that works at the same time; the functions that    *)
(* call it are scripts of commands.  Controller and cards are external:    *)
(* a controller with room for one block, cards as the SD and MMC           *)
(* specifications describe them.                                           *)
(*                                                                         *)
(* A block of 512 bytes is <<d, s>> for sector s of device d, and its      *)
(* place in the caller's buffer when it is written.                        *)
(***************************************************************************)
EXTENDS Integers, Sequences

CONSTANTS
  SdKinds,  \* kinds of SD card: subsets of {"v2", "hc", "switch"}
  Origins,  \* states in which the chip may be found: "idle", "tran"
  Faults,   \* "lost": a card misses a command; "garbled": its answer is not
            \* understood; "data": a block is not
  MaxFaults \* bound on their number

ASSUME OriginAssumption == Origins \subseteq {"idle", "tran"}

Devices == {"sd", "nand"}

VARIABLES
  op,       \* function that runs, [name, dev, first, n, hcs, cmd6]; the last
            \* two are locals of my_sdmmc_sdcard_init, `temp` and cmd6Supported
  at,       \* its command
  pc,       \* "idle", "send", "status", "transfer", "check", "end" or "next"
  result,   \* what it returned
  dev,      \* deviceSD and deviceNAND
  initialised, \* my_sdmmc_controller_initialised
  status1,  \* local of my_sdmmc_send_command: what was read of REG_SDSTATUS1
  size,     \* local: blocks to move
  data,     \* what was stored through rData
  cid,      \* what my_sdmmc_get_cid delivered
  line,     \* port, clock and width of the bus
  reg,      \* status, response and data registers
  card,     \* [Devices -> [state, rca, wide]]
  kind,     \* of the SD card
  faults    \* history: their number

driverVars == <<op, at, pc, result, dev, initialised, status1, size, data, cid, line>>
cardVars   == <<card, kind>>
sdmmcVars  == <<driverVars, reg, cardVars, faults>>

-----------------------------------------------------------------------------
(* Commands: number, argument and direction of the data.  A number above    *)
(* 100 is an application command.  Command 0 alone has no response.         *)
Cmd(n, arg)      == [n |-> n, arg |-> arg, data |-> "none"]
Data(n, arg, to) == [n |-> n, arg |-> arg, data |-> to]
HasResponse(c)   == c.n # 0

(* sector_no <<= 9 for cards that address bytes.                            *)
Address(d, s) == IF dev[d].isSDHC THEN s ELSE s * 512

Script(o) ==
  LET rca == dev[o.dev].initarg IN
  CASE o.name = "nand_init" ->
         <<Cmd(0, 0), Cmd(1, 0), Cmd(2, 0), Cmd(3, rca), Cmd(9, rca), Cmd(7, rca),
           Cmd(6, 183), Cmd(6, 185), Cmd(13, rca), Cmd(16, 512)>>
    [] o.name = "sdcard_init" ->
         <<Cmd(0, 0), Cmd(8, 0), Cmd(55, rca), Cmd(141, IF o.hcs THEN 1 ELSE 0), Cmd(2, 0),
           Cmd(3, 0), Cmd(9, rca), Cmd(7, rca), Cmd(55, rca), Cmd(142, 0), Cmd(55, rca),
           Cmd(106, 2), Data(6, 1, "read"), Cmd(13, rca), Cmd(16, 512)>>
    [] o.name = "get_cid"      -> <<Cmd(7, 0), Cmd(10, rca), Cmd(7, rca)>>
    [] o.name = "readsectors"  -> <<Data(18, Address(o.dev, o.first), "read")>>
    [] o.name = "writesectors" -> <<Data(25, Address(o.dev, o.first), "write")>>
Command == Script(op)[at]

-----------------------------------------------------------------------------
(* External: the controller and the cards.                                  *)

(* An answer: to which command, of which card, and its busy bit.            *)
NoAnswer == [n |-> 0, of |-> "sd", ready |-> FALSE]
RCA      == [sd |-> 7, nand |-> 1]     \* the chip gets its own from the driver

Understands(d, c) ==
  LET s == card[d].state  addressed == c.arg = card[d].rca IN
  \/ c.n \in {1} /\ d = "nand" /\ s = "idle"
  \/ c.n = 8 /\ d = "sd" /\ s = "idle" /\ "v2" \in kind
  \/ c.n = 141 /\ d = "sd" /\ s = "idle"
  \/ c.n = 55 /\ d = "sd" /\ s \in {"idle", "stby", "tran"} /\ addressed
  \/ c.n = 2 /\ s = "ready"
  \/ c.n = 3 /\ s = "ident"
  \/ c.n \in {7, 9, 10} /\ s = "stby" /\ addressed
  \/ c.n = 13 /\ s \in {"stby", "tran"} /\ addressed
  \/ c.n \in {6, 16, 18, 25} /\ s = "tran"
  \/ c.n \in {106, 142} /\ d = "sd" /\ s = "tran"

Becomes(d, c) ==
  LET s == card[d].state IN
  CASE c.n = 0                  -> [state |-> "idle", rca |-> 0, wide |-> FALSE]
    [] c.n = 2 /\ s = "ready"   -> [card[d] EXCEPT !.state = "ident"]
    [] c.n = 3 /\ s = "ident"   -> [card[d] EXCEPT !.state = "stby", !.rca = RCA[d]]
    [] c.n = 7 /\ s = "stby" /\ c.arg = card[d].rca -> [card[d] EXCEPT !.state = "tran"]
    [] c.n = 7 /\ s = "tran" /\ c.arg # card[d].rca -> [card[d] EXCEPT !.state = "stby"]
    [] c.n = 6 /\ c.arg = 183 /\ s = "tran"         -> [card[d] EXCEPT !.wide = TRUE]
    [] c.n = 106 /\ d = "sd" /\ s = "tran"          -> [card[d] EXCEPT !.wide = TRUE]
    [] OTHER                    -> card[d]

(* A card that is powering up says so in its answer; one that addresses     *)
(* blocks stays busy for a host that does not.                              *)
PowersUp(d, c) ==
  c.n \in {1, 141} /\ Understands(d, c) /\ (d = "sd" /\ "hc" \in kind => c.arg = 1)

CardAnswers ==
  /\ reg.busy /\ ~reg.answered /\ ~reg.stopping
  /\ LET c == reg.cmd  d == line.port IN
     \E up \in IF PowersUp(d, c) THEN BOOLEAN ELSE {FALSE} :
       /\ card' = [card EXCEPT ![d] = IF up THEN [@ EXCEPT !.state = "ready"] ELSE Becomes(d, c)]
       /\ reg' = IF Understands(d, c) \/ ~HasResponse(c)
                 THEN [reg EXCEPT !.answered = TRUE, !.respond = HasResponse(c),
                                  !.busy = c.data # "none",
                                  !.resp = IF HasResponse(c)
                                           THEN [n |-> c.n, of |-> d, ready |-> up] ELSE @]
                 ELSE [reg EXCEPT !.err = TRUE, !.stopping = TRUE]
  /\ UNCHANGED <<driverVars, kind, faults>>

CommandFails ==
  /\ reg.busy /\ ~reg.answered /\ ~reg.stopping
  /\ LET d == line.port IN
     \/ "lost" \in Faults /\ UNCHANGED card
     \/ "garbled" \in Faults /\ card' = [card EXCEPT ![d] = Becomes(d, reg.cmd)]
  /\ LET noticed == HasResponse(reg.cmd) IN
     reg' = [reg EXCEPT !.err = noticed, !.stopping = noticed, !.busy = noticed]
  /\ faults < MaxFaults /\ faults' = faults + 1
  /\ UNCHANGED <<driverVars, kind>>

(* The blocks of a transfer, through room for one block.  A block that is   *)
(* not understood may still be delivered.                                   *)
Blocks == IF reg.cmd.n = 6 THEN 1 ELSE op.n
BlockOf(d, i) ==
  IF reg.cmd.n = 6 THEN <<d, 0>>
  ELSE <<d, (IF d = "sd" /\ "hc" \in kind THEN reg.cmd.arg ELSE reg.cmd.arg \div 512) + i>>

Moving == reg.busy /\ reg.answered /\ ~reg.stopping
MoveBlock(fifo, stored) ==
  LET last == reg.moved + 1 = Blocks IN
  \/ /\ line.wide = card[line.port].wide
     /\ reg' = [reg EXCEPT !.fifo = fifo, !.stored = stored, !.moved = @ + 1,
                           !.dataend = last, !.busy = ~last]
     /\ UNCHANGED faults
  \/ /\ \E f \in {fifo, reg.fifo} :
          reg' = [reg EXCEPT !.fifo = f, !.err = TRUE, !.stopping = TRUE, !.dataend = last]
     /\ \/ line.wide # card[line.port].wide /\ UNCHANGED faults
        \/ "data" \in Faults /\ faults < MaxFaults /\ faults' = faults + 1
BlockArrives ==
  /\ Moving /\ reg.cmd.data = "read" /\ reg.fifo = <<>>
  /\ MoveBlock(<<BlockOf(line.port, reg.moved)>>, reg.stored)
  /\ UNCHANGED <<driverVars, cardVars>>
BlockLeaves ==
  /\ Moving /\ reg.cmd.data = "write" /\ reg.fifo # <<>>
  /\ MoveBlock(<<>>, Append(reg.stored, <<BlockOf(line.port, reg.moved), reg.fifo[1]>>))
  /\ UNCHANGED <<driverVars, cardVars>>

(* After an error the controller stops a little later.                      *)
ControllerStops ==
  /\ reg.stopping
  /\ reg' = [reg EXCEPT !.busy = FALSE, !.stopping = FALSE]
  /\ UNCHANGED <<driverVars, cardVars, faults>>

Controller == CardAnswers \/ CommandFails \/ BlockArrives \/ BlockLeaves \/ ControllerStops

-----------------------------------------------------------------------------
(* my_sdmmc_send_command *)

Device == dev[op.dev]
controllerVars == <<reg, cardVars, faults>>

(* Blocks to move.  SizeShort is the mistake that TypeOK would show.        *)
SizeShort == op.n - 1
Size      == op.n

(* Up to the write of REG_SDCMD: waits, clears the status and the FIFO.     *)
Cleared == [reg EXCEPT !.respond = FALSE, !.dataend = FALSE, !.err = FALSE, !.fifo = <<>>]
Send ==
  /\ pc = "send"
  /\ ~reg.busy
  /\ dev' = [dev EXCEPT ![op.dev].error = {}]
  /\ reg' = [Cleared EXCEPT !.busy = TRUE, !.answered = FALSE, !.moved = 0,
                            !.stored = <<>>, !.cmd = Command]
  /\ size' = Size
  /\ pc' = "status"
  /\ UNCHANGED <<op, at, result, initialised, status1, data, cid, line, cardVars, faults>>

SampleStatus ==
  /\ pc = "status"
  /\ status1' = [busy |-> reg.busy, err |-> reg.err]
  /\ pc' = "transfer"
  /\ UNCHANGED <<op, at, result, dev, initialised, size, data, cid, line, controllerVars>>

(* REG_SDDATACTL32 is read, and a block moved when the FIFO allows it.  The *)
(* switch command of sdcard_init has no buffer: its block stays there.      *)
(* DeliversButLast, with > for >=, would leave NandAnswers waiting.         *)
Receives == Command.data = "read" /\ reg.fifo # <<>> /\ size > 0 /\ Command.n # 6
DeliversButLast == Command.data = "write" /\ reg.fifo = <<>> /\ size > 1
Delivers == Command.data = "write" /\ reg.fifo = <<>> /\ size > 0
Transfer ==
  /\ pc = "transfer"
  /\ pc' = "check"
  /\ \/ /\ Receives
        /\ data' = data \o reg.fifo
        /\ reg' = [reg EXCEPT !.fifo = <<>>]
        /\ size' = size - 1
     \/ /\ Delivers
        /\ reg' = [reg EXCEPT !.fifo = <<op.n - size + 1>>]
        /\ size' = size - 1
        /\ UNCHANGED data
     \/ /\ ~Receives /\ ~Delivers
        /\ UNCHANGED <<data, reg, size>>
  /\ UNCHANGED <<op, at, result, dev, initialised, status1, cid, line, cardVars, faults>>

(* What the check goes by: the status from before REG_SDDATACTL32 was read.  *)
(* SeenLate is the mistake that DataComplete would show: the last block may *)
(* have arrived in between.                                                 *)
SeenLate == [busy |-> reg.busy, err |-> reg.err]
Seen     == status1

(* Bits of `error`: 1, the card responded; 2, the data ended; 4, failure.   *)
(* FlagsAlways is the mistake that BootEnds would show: to wait for the end *)
(* of the data of a command without data.                                   *)
Status0 == (IF reg.respond THEN {1} ELSE {}) \cup (IF reg.dataend THEN {2} ELSE {})
FlagsAlways == {1, 2}
Flags   == (IF HasResponse(Command) THEN {1} ELSE {})
                 \cup (IF Command.data # "none" THEN {2} ELSE {})
Check ==
  /\ pc = "check"
  /\ \/ /\ Seen.err
        /\ dev' = [dev EXCEPT ![op.dev].error = @ \cup {4}]
        /\ pc' = "end"
     \/ /\ ~Seen.err /\ ~Seen.busy
        /\ dev' = [dev EXCEPT ![op.dev].error = @ \cup Status0]
        /\ pc' = IF Flags \subseteq Status0 THEN "end" ELSE "status"
     \/ /\ ~Seen.err /\ Seen.busy
        /\ pc' = "status"
        /\ UNCHANGED dev
  /\ UNCHANGED <<op, at, result, initialised, status1, size, data, cid, line, controllerVars>>

End ==
  /\ pc = "end"
  /\ reg' = [reg EXCEPT !.respond = FALSE, !.dataend = FALSE, !.err = FALSE]
  /\ dev' = [dev EXCEPT ![op.dev].ret = IF HasResponse(Command) THEN reg.resp ELSE @]
  /\ pc' = "next"
  /\ UNCHANGED <<op, at, result, initialised, status1, size, data, cid, line, cardVars, faults>>

-----------------------------------------------------------------------------
(* The functions that send commands *)

Error(n)  == n \in Device.error
Target(d) == [port |-> d, clk |-> dev[d].clk, wide |-> dev[d].SDOPT]   \* my_setTarget

(* my_sdmmc_controller_init(false) leaves the rest as it is, initarg of the *)
(* SD card and clock and width of the chip included, once it has run.       *)
Fresh(d) == [error |-> {}, ret |-> NoAnswer, clk |-> 128, SDOPT |-> FALSE,
             initarg |-> IF d = "nand" THEN 1 ELSE 0, isSDHC |-> FALSE]
Startups == {"nand_init", "sdcard_init"}

Call(name, d, first, n) ==
  /\ pc = "idle"
  /\ op' = [name |-> name, dev |-> d, first |-> first, n |-> n, hcs |-> FALSE, cmd6 |-> FALSE]
  /\ at' = 1 /\ pc' = "send" /\ data' = <<>>
  /\ IF name \in Startups /\ ~initialised
     THEN /\ dev' = [e \in Devices |-> [Fresh(e) EXCEPT !.ret = dev[e].ret, !.error = dev[e].error]]
          /\ initialised' = TRUE
          /\ line' = [port |-> d, clk |-> 128, wide |-> FALSE]
     ELSE /\ line' = Target(d)
          /\ UNCHANGED <<dev, initialised>>
  /\ UNCHANGED <<result, status1, size, cid, controllerVars>>

(* Results that are looked at: those of the initialisation after the card   *)
(* has powered up, and those of transfers.  get_cid ignores them all.       *)
(* FailedTransfer is the mistake that StartupReady would show.              *)
FailedTransfer == Error(4) /\ op.name \in {"readsectors", "writesectors"}
Failed ==
  /\ Error(4)
  /\ \/ op.name = "nand_init" /\ at > 2
     \/ op.name = "sdcard_init" /\ at > 4
     \/ op.name \in {"readsectors", "writesectors"}

(* The loops wait for an answer without the busy bit.                       *)
PoweringUp  == ~Error(1) \/ ~Device.ret.ready
NextCommand ==
  CASE op.name = "nand_init"   /\ at = 2 /\ PoweringUp -> 2
    [] op.name = "sdcard_init" /\ at = 4 /\ PoweringUp -> 3
    [] op.name = "sdcard_init" /\ at = 12 /\ ~op.cmd6  -> 14
    [] OTHER -> at + 1

(* What a function does between two commands.                               *)
Updated ==
  CASE op.name = "nand_init" /\ at = 5   -> [Device EXCEPT !.clk = 1]
    [] op.name = "nand_init" /\ at = 6   -> [Device EXCEPT !.SDOPT = TRUE]
    [] op.name = "nand_init" /\ at = 10  -> [Device EXCEPT !.clk = 513]
    [] op.name = "sdcard_init" /\ at = 4 /\ ~PoweringUp ->
         [Device EXCEPT !.isSDHC = op.hcs /\ "hc" \in kind]
    [] op.name = "sdcard_init" /\ at = 6  -> [Device EXCEPT !.initarg = RCA[Device.ret.of]]
    [] op.name = "sdcard_init" /\ at = 11 -> [Device EXCEPT !.SDOPT = TRUE]
    [] op.name = "sdcard_init" /\ at = 12 /\ ~op.cmd6 -> [Device EXCEPT !.clk = 513]
    [] op.name = "sdcard_init" /\ at = 13 -> [Device EXCEPT !.clk = 512]
    [] OTHER -> Device
NewLine ==
  CASE op.name = "nand_init" /\ at = 5    -> [line EXCEPT !.clk = 1]
    [] op.name = "nand_init" /\ at = 10   -> Target("sd")
    [] op.name = "sdcard_init" /\ at = 7  -> [line EXCEPT !.clk = 513]
    [] op.name = "sdcard_init" /\ at = 12 -> [line EXCEPT !.wide = TRUE]
    [] op.name = "sdcard_init" /\ at = 13 -> [line EXCEPT !.clk = 512]
    [] op.name \in {"readsectors", "writesectors"} -> Target("sd")
    [] OTHER -> line
Locals ==
  CASE op.name = "sdcard_init" /\ at = 2 -> [op EXCEPT !.hcs = Error(1)]
    [] op.name = "sdcard_init" /\ at = 7 -> [op EXCEPT !.cmd6 = "switch" \in kind]
    [] OTHER -> op

(* The command whose response is copied to the caller's CID.                *)
CidAfterAll == 3
CidAfter    == 2

Proceed ==
  /\ pc = "next" /\ ~Failed
  /\ dev' = [dev EXCEPT ![op.dev] = Updated]
  /\ line' = NewLine
  /\ op' = Locals
  /\ cid' = IF op.name = "get_cid" /\ at = CidAfter THEN Device.ret ELSE cid
  /\ IF NextCommand <= Len(Script(op))
     THEN at' = NextCommand /\ pc' = "send" /\ UNCHANGED result
     ELSE pc' = "idle" /\ result' = 0 /\ UNCHANGED at
  /\ UNCHANGED <<initialised, status1, size, data, controllerVars>>

ReturnError ==
  /\ pc = "next" /\ Failed
  /\ pc' = "idle"
  /\ result' = 1
  /\ line' = IF op.name \in Startups THEN line ELSE NewLine
  /\ UNCHANGED <<op, at, dev, initialised, status1, size, data, cid, controllerVars>>

Driver == Send \/ SampleStatus \/ Transfer \/ Check \/ End \/ Proceed \/ ReturnError

SdmmcInit ==
  /\ op = [name |-> "none", dev |-> "sd", first |-> 0, n |-> 0, hcs |-> FALSE, cmd6 |-> FALSE]
  /\ at = 1 /\ pc = "idle" /\ result = 0
  /\ dev = [d \in Devices |-> [Fresh(d) EXCEPT !.clk = 0, !.initarg = 0]]
  /\ initialised = FALSE
  /\ status1 = [busy |-> FALSE, err |-> FALSE] /\ size = 0
  /\ data = <<>> /\ cid = NoAnswer
  /\ line = [port |-> "sd", clk |-> 0, wide |-> FALSE]
  /\ reg = [busy |-> FALSE, answered |-> FALSE, respond |-> FALSE, dataend |-> FALSE,
            err |-> FALSE, stopping |-> FALSE, fifo |-> <<>>, resp |-> NoAnswer, cmd |-> Cmd(0, 0),
            moved |-> 0, stored |-> <<>>]
  /\ \E s \in Origins :
       card = [sd   |-> [state |-> "idle", rca |-> 0, wide |-> FALSE],
               nand |-> [state |-> s, rca |-> IF s = "tran" THEN 1 ELSE 0, wide |-> s = "tran"]]
  /\ kind \in SdKinds
  /\ faults = 0

-----------------------------------------------------------------------------
(* Properties *)

Returned(names) == pc = "idle" /\ op.name \in names

(* Types; the command that runs is one of the script of its function, and   *)
(* what is left to move and what was moved make the whole transfer.         *)
TypeOK ==
  /\ op.name \in Startups \cup {"none", "get_cid", "readsectors", "writesectors"}
  /\ pc \in {"idle", "send", "status", "transfer", "check", "end", "next"}
  /\ op.dev \in Devices /\ line.port \in Devices /\ result \in {0, 1}
  /\ op.name # "none" => at \in 1 .. Len(Script(op))
  /\ pc \in {"status", "transfer", "check"} /\ op.name = "readsectors" =>
       size + Len(data) = op.n
  /\ pc \in {"status", "transfer", "check"} /\ op.name = "writesectors" =>
       reg.err \/ reg.stopping \/ size + Len(reg.fifo) + Len(reg.stored) = op.n

(* my_sdmmc.c:43-241, 489-527.  A transfer that reports success has moved   *)
(* every block, once and in order, between the caller's buffer and the      *)
(* right sectors of the right card - though the controller may fill its     *)
(* FIFO and end the command between any two reads of its registers, and     *)
(* though an earlier command may have left a block or a late status behind. *)
DataComplete ==
  /\ Returned({"readsectors"}) /\ result = 0 =>
       data = [i \in 1 .. op.n |-> <<op.dev, op.first + i - 1>>]
  /\ Returned({"writesectors"}) /\ result = 0 =>
       reg.stored = [i \in 1 .. op.n |-> <<<<op.dev, op.first + i - 1>>, i>>]

(* my_sdmmc.c:344-486.  A startup that reports success leaves a card that   *)
(* was selected under the address the driver uses, with the bus width and   *)
(* kind of addressing that the driver goes by - whichever answers were      *)
(* lost, and in whatever state the card was found.                          *)
StartupReady ==
  Returned(Startups) /\ result = 0 =>
    /\ card[op.dev].state = "tran"
    /\ card[op.dev].rca = Device.initarg
    /\ card[op.dev].wide = Device.SDOPT
    /\ op.dev = "sd" => Device.isSDHC = ("hc" \in kind)

(* my_sdmmc.c:530-555.  Without faults the CID is that of the card asked,   *)
(* and the card is back where transfers find it.                            *)
CidGenuine ==
  Returned({"get_cid"}) /\ faults = 0 =>
    /\ cid.n = 10 /\ cid.of = op.dev
    /\ card[op.dev].state = "tran"
=============================================================================
