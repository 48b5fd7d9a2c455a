---------------------------- MODULE Boot_proofs ----------------------------
(***************************************************************************)
(* Proofs about Boot and the driver it EXTENDS (Sdmmc): key 3 is found and *)
(* restored; a startup or a transfer that reports success did what it      *)
(* promises; and the keys of the NAND come from a complete identity, for   *)
(* every key, card, request, and every number of faults.                   *)
(***************************************************************************)
EXTENDS Boot, SequenceTheorems, TLAPS

-----------------------------------------------------------------------------
(* The inductive invariant.  First the types.                               *)
CardStates == {"idle", "ready", "ident", "stby", "tran"}
Names      == Startups \cup {"none", "get_cid", "readsectors", "writesectors"}
Transfers  == {"readsectors", "writesectors"}
Phases     == {"idle", "send", "status", "transfer", "check", "end", "next"}
Answers    == [n : Nat, of : Devices, ready : BOOLEAN]
Commands   == [n : Nat, arg : Int, data : {"none", "read", "write"}]
Sectors    == Devices \X Int
Items      == Sectors \cup Int
Last(name) == CASE name = "nand_init"   -> 10
                [] name = "sdcard_init" -> 15
                [] name = "get_cid"     -> 3
                [] OTHER                -> 1

OpType  == [name : Names, dev : Devices, first : Nat, n : Nat, hcs : BOOLEAN, cmd6 : BOOLEAN]
OneDevice == [error : SUBSET {1, 2, 4}, ret : Answers, clk : Nat, SDOPT : BOOLEAN,
              initarg : Nat, isSDHC : BOOLEAN]
DevType == [Devices -> OneDevice]
RegType == [busy : BOOLEAN, answered : BOOLEAN, respond : BOOLEAN, dataend : BOOLEAN,
            err : BOOLEAN, stopping : BOOLEAN, fifo : Seq(Items), resp : Answers,
            cmd : Commands, moved : Nat, stored : Seq(Sectors \X Items)]
OneCard  == [state : CardStates, rca : Nat, wide : BOOLEAN]
CardType == [Devices -> OneCard]
DriverType ==
  /\ op \in OpType /\ at \in 1 .. Last(op.name) /\ pc \in Phases /\ result \in {0, 1}
  /\ dev \in DevType /\ initialised \in BOOLEAN
  /\ status1 \in [busy : BOOLEAN, err : BOOLEAN] /\ size \in Int
  /\ data \in Seq(Items) /\ cid \in Answers
  /\ line \in [port : Devices, clk : Nat, wide : BOOLEAN]
  /\ reg \in RegType /\ card \in CardType /\ faults \in Nat

(* The phases of a command.  Its answer is pending until the card has       *)
(* answered or the controller has noticed that it did not; Done is the end  *)
(* without an error.                                                        *)
Live    == pc \in {"status", "transfer", "check"}
Pending == reg.busy /\ ~reg.answered /\ ~reg.stopping
Done    == ~reg.busy /\ ~reg.err

(* Between two commands the controller is at rest, or about to be.  While   *)
(* one runs, its registers show what has happened so far, and the status    *)
(* that was sampled is not ahead of them.                                   *)
ControllerInv ==
  /\ reg.stopping => reg.busy
  /\ ~Live => ~reg.busy \/ reg.stopping
  /\ pc # "idle" => line.port = op.dev /\ op.name # "none"
  /\ Len(reg.fifo) <= 1
  /\ Live => /\ reg.cmd = Command
             /\ reg.err => ~reg.busy \/ reg.stopping
             /\ reg.stopping => reg.err
             /\ Pending => ~reg.respond /\ ~reg.dataend /\ ~reg.err
             /\ reg.answered => /\ (reg.respond <=> HasResponse(reg.cmd))
                                /\ HasResponse(reg.cmd) => reg.resp.n = reg.cmd.n /\ reg.resp.of = op.dev
                                /\ reg.cmd.data = "none" => Done
             /\ reg.respond => reg.answered
             /\ Done => reg.answered \/ ~HasResponse(reg.cmd)
             /\ 4 \notin Device.error /\ (Device.error # {} => Done)
             /\ 1 \in Device.error => reg.respond
  /\ pc \in {"transfer", "check"} => /\ status1.err => reg.err
                                     /\ ~status1.err /\ ~status1.busy => Done
  /\ pc = "end" => /\ (4 \in Device.error) <=> reg.err
                   /\ 1 \in Device.error => 4 \notin Device.error
                   /\ ~reg.err => (HasResponse(Command) <=> 1 \in Device.error)
                   /\ ~reg.err /\ HasResponse(Command) =>
                        reg.resp.n = Command.n /\ reg.resp.of = op.dev
  /\ pc = "next" => /\ Error(1) => ~Error(4)
                    /\ ~Error(4) => (HasResponse(Command) <=> Error(1))
                    /\ ~Error(4) /\ HasResponse(Command) =>
                         Device.ret.n = Command.n /\ Device.ret.of = op.dev

(* Where a card has got to before command k of a startup, and before        *)
(* command k of get_cid, if no fault has occurred.  Nothing is known before *)
(* the card has powered up.                                                 *)
Stations(name) ==
  CASE name = "nand_init" ->
         <<"any", "any", "ready", "ident", "stby", "stby", "tran", "tran", "tran", "tran", "tran">>
    [] name = "sdcard_init" ->
         <<"any", "any", "any", "any", "ready", "ident", "stby", "stby", "tran", "tran", "tran",
           "tran", "tran", "tran", "tran", "tran">>
    [] OTHER -> <<"tran", "stby", "stby", "tran">>
Addressed(name) == CASE name = "nand_init" -> 5 [] name = "sdcard_init" -> 7 [] OTHER -> 1
Widened(name)   == CASE name = "nand_init" -> 8 [] name = "sdcard_init" -> 13 [] OTHER -> 5
ArrivedAs(c, k) ==
  /\ Stations(op.name)[k] # "any" => c.state = Stations(op.name)[k]
  /\ k >= Addressed(op.name) => c.rca = RCA[op.dev]
  /\ k >= Widened(op.name) => c.wide
  /\ op.name = "sdcard_init" /\ k >= 5 /\ "hc" \in kind => op.hcs
Arrived(k) == ArrivedAs(card[op.dev], k)

(* The loops go on when the card has answered that it is ready.             *)
Loops == \/ op.name = "nand_init" /\ at = 2
         \/ op.name = "sdcard_init" /\ at = 4
Answered == \/ /\ Live /\ reg.answered /\ ~reg.err
               /\ Loops => reg.resp.ready
            \/ /\ pc = "end" /\ ~Error(4)
               /\ Loops => reg.resp.ready
            \/ /\ pc = "next" /\ ~Error(4)
               /\ Loops => Device.ret.ready
Waits   == pc = "send" \/ (Live /\ Pending)
Genuine == op.name = "get_cid" /\ faults = 0
StartupInv ==
  /\ op.name \in Startups => /\ Waits => Arrived(at)
                             /\ Answered => Arrived(at + 1)
                             /\ pc = "idle" /\ result = 0 => at = Last(op.name) /\ Arrived(at + 1)
  /\ Genuine => /\ Waits => Arrived(at)
                /\ pc # "idle" /\ ~Waits => Arrived(at + 1)
                /\ pc = "idle" => Arrived(4)

(* What the driver notes of a card on the way.                              *)
HighCapacity == "hc" \in kind
Upgrading == op.name = "sdcard_init" /\ at = 4 /\ Answered /\ (HighCapacity => op.hcs)
SettingsInv ==
  /\ op.name = "nand_init" /\ at > 6 => Device.SDOPT
  /\ op.name = "sdcard_init" => /\ at > 6 => Device.initarg = RCA["sd"]
                                /\ at > 11 => Device.SDOPT
  /\ op.name = "nand_init" => op.dev = "nand"
  /\ op.name = "sdcard_init" => op.dev = "sd"
  /\ op.name = "get_cid" => op.dev = "nand" /\ (pc # "idle" => initialised)
  /\ initialised => dev["nand"].initarg = 1
  /\ op.name \in Startups => initialised
  /\ ~dev["nand"].isSDHC
  /\ card["sd"].state # "idle" => (dev["sd"].isSDHC <=> HighCapacity) \/ Upgrading
  /\ ~initialised => card["sd"].state = "idle"

(* Without faults the chip is started and its CID read.                     *)
FaultFree ==
  faults = 0 =>
    /\ op.name = "nand_init" /\ at > 2 => /\ Live => ~reg.err
                                          /\ pc \in {"end", "next"} => ~Error(4)
    /\ op.name = "nand_init" /\ pc = "idle" => result = 0
    /\ op.name = "get_cid" => /\ pc = "idle" => at = 3
                              /\ Live /\ at = 2 => ~reg.err
                              /\ pc \in {"end", "next"} /\ at = 2 => ~Error(4)
                              /\ at = 3 => cid.n = 10 /\ cid.of = op.dev

(* A transfer moves blocks only with a card that is selected, and what it   *)
(* has moved are blocks of the caller's buffer, in order.                   *)
Moved    == (pc \in {"end", "next"} /\ ~Error(4)) \/ (pc = "idle" /\ result = 0)
Place(k) == <<op.dev, op.first + k - 1>>
TransferInv ==
  op.name \in Transfers /\ Live /\ ~reg.err /\ reg.answered => card[op.dev].state = "tran"
ReadInv ==
  op.name = "readsectors" =>
    /\ pc = "send" => data = <<>>
    /\ Live => size + Len(data) = op.n /\ size >= 0
    /\ Live /\ ~reg.err =>
         /\ reg.moved = Len(data) + Len(reg.fifo)
         /\ \A k \in 1 .. Len(data) : data[k] = Place(k)
         /\ Len(reg.fifo) = 1 => reg.fifo[1] = Place(Len(data) + 1)
         /\ Pending => reg.moved = 0
         /\ Done => reg.moved = op.n
    /\ pc = "check" /\ ~status1.err /\ ~status1.busy => reg.fifo = <<>>
    /\ Moved =>
         /\ Len(data) = op.n
         /\ \A k \in 1 .. op.n : data[k] = Place(k)
WriteInv ==
  op.name = "writesectors" =>
    /\ Live => size >= 0
    /\ Live /\ ~reg.err =>
         /\ reg.moved = Len(reg.stored)
         /\ size + Len(reg.fifo) + Len(reg.stored) = op.n
         /\ \A k \in 1 .. Len(reg.stored) : reg.stored[k] = <<Place(k), k>>
         /\ Len(reg.fifo) = 1 => reg.fifo[1] = Len(reg.stored) + 1
         /\ Pending => reg.moved = 0
         /\ Done => reg.moved = op.n
    /\ Moved =>
         /\ Len(reg.stored) = op.n
         /\ \A k \in 1 .. op.n : reg.stored[k] = <<Place(k), k>>

DriverInv == /\ DriverType /\ ControllerInv /\ StartupInv /\ SettingsInv /\ FaultFree
             /\ TransferInv /\ ReadInv /\ WriteInv

(* The search for the key: slot and key differ at most in the byte that is  *)
(* searched, which has not been passed.                                     *)
KeyInv ==
  /\ key \in Seq(0 .. LastByte)
  /\ slot \in [1 .. Len(key) -> Int] /\ out \in [1 .. Len(key) -> Int]
  /\ stage = "key" =>
       /\ i \in 1 .. Len(key) + 1 /\ j \in 0 .. LastByte
       /\ i <= Len(key) => j <= key[i]
       /\ \A k \in 1 .. Len(key) : k # i => slot[k] = key[k]
       /\ \A k \in 1 .. Len(key) : k < i => out[k] = key[k]
  /\ stage # "key" => out = key /\ slot = key

(* The order of the start.                                                  *)
StageInv ==
  /\ stage \in {"key", "startup", "cid", "serve", "handle"}
  /\ stage \in {"key", "serve"} => pc = "idle"
  /\ stage = "key" => op.name = "none"
  /\ stage = "startup" => op.name = "nand_init"
  /\ stage = "cid" => op.name = "get_cid"
  /\ stage = "handle" /\ pc # "idle" => op.name \in Startups \cup Transfers
  /\ op.name = "get_cid" => stage \notin {"key", "startup"}
  /\ stage \in {"key", "startup", "cid"} => card["sd"].state = "idle"
  /\ stage \in {"serve", "handle"} /\ faults = 0 => cid.n = 10 /\ cid.of = "nand"
IdentityInv ==
  /\ msg # <<>> => msg[1] \in Requests \cup {NandStart, Sector0}
  /\ reply # <<>> \/ arm9 \in {"sector0", "crypt", "client"} => stage \in {"serve", "handle"}
  /\ ciphers # <<>> => arm9 = "client"
  /\ IdentityComplete

Inv == DriverInv /\ KeyInv /\ StageInv /\ IdentityInv

-----------------------------------------------------------------------------
(* The commands of each function.                                           *)
LEMMA ScriptOf ==
  ASSUME NEW o
  PROVE  /\ o.name = "nand_init" =>
              Script(o) = <<Cmd(0, 0), Cmd(1, 0), Cmd(2, 0), Cmd(3, dev[o.dev].initarg),
                            Cmd(9, dev[o.dev].initarg), Cmd(7, dev[o.dev].initarg), Cmd(6, 183),
                            Cmd(6, 185), Cmd(13, dev[o.dev].initarg), Cmd(16, 512)>>
         /\ o.name = "sdcard_init" =>
              Script(o) = <<Cmd(0, 0), Cmd(8, 0), Cmd(55, dev[o.dev].initarg),
                            Cmd(141, IF o.hcs THEN 1 ELSE 0), Cmd(2, 0),
                            Cmd(3, 0), Cmd(9, dev[o.dev].initarg), Cmd(7, dev[o.dev].initarg),
                            Cmd(55, dev[o.dev].initarg), Cmd(142, 0),
                            Cmd(55, dev[o.dev].initarg), Cmd(106, 2), Data(6, 1, "read"),
                            Cmd(13, dev[o.dev].initarg), Cmd(16, 512)>>
         /\ o.name = "get_cid" =>
              Script(o) = <<Cmd(7, 0), Cmd(10, dev[o.dev].initarg), Cmd(7, dev[o.dev].initarg)>>
         /\ o.name = "readsectors" => Script(o) = <<Data(18, Address(o.dev, o.first), "read")>>
         /\ o.name = "writesectors" => Script(o) = <<Data(25, Address(o.dev, o.first), "write")>>
<1>1. CASE o.name = "nand_init"
  BY <1>1 DEF Script
<1>2. CASE o.name = "sdcard_init"
  BY <1>2 DEF Script
<1>3. CASE o.name \notin {"nand_init", "sdcard_init"}
  BY <1>3 DEF Script
<1> QED BY <1>1, <1>2, <1>3

LEMMA ScriptLength ==
  ASSUME NEW o, o.name \in Names \ {"none"}
  PROVE  Len(Script(o)) = Last(o.name)
<1>1. CASE o.name = "nand_init"
  BY <1>1, ScriptOf DEF Last
<1>2. CASE o.name = "sdcard_init"
  BY <1>2, ScriptOf DEF Last
<1>3. CASE o.name = "get_cid"
  BY <1>3, ScriptOf DEF Last
<1>4. CASE o.name \in Transfers
  BY <1>4, ScriptOf DEF Last, Transfers
<1> QED BY <1>1, <1>2, <1>3, <1>4 DEF Names, Startups, Transfers

LEMMA DeviceTypes ==
  ASSUME DriverType
  PROVE  /\ op.name \in Names /\ op.dev \in Devices /\ op.first \in Nat /\ op.n \in Nat
         /\ op.hcs \in BOOLEAN
         /\ \A d \in Devices : /\ dev[d].initarg \in Nat /\ dev[d].isSDHC \in BOOLEAN
                               /\ dev[d].SDOPT \in BOOLEAN /\ dev[d].ret \in Answers
                               /\ dev[d].error \in SUBSET {1, 2, 4}
BY DEF DriverType, OpType, DevType, OneDevice, OneCard

(* The command at each place, and its type.                                 *)
LEMMA NandCommand ==
  ASSUME op.name = "nand_init"
  PROVE  /\ at = 1 => Command = Cmd(0, 0)
         /\ at = 2 => Command = Cmd(1, 0)
         /\ at = 3 => Command = Cmd(2, 0)
         /\ at = 4 => Command = Cmd(3, Device.initarg)
         /\ at = 5 => Command = Cmd(9, Device.initarg)
         /\ at = 6 => Command = Cmd(7, Device.initarg)
         /\ at = 7 => Command = Cmd(6, 183)
         /\ at = 8 => Command = Cmd(6, 185)
         /\ at = 9 => Command = Cmd(13, Device.initarg)
         /\ at = 10 => Command = Cmd(16, 512)
BY ScriptOf DEF Command, Device

LEMMA SdCommand ==
  ASSUME op.name = "sdcard_init"
  PROVE  /\ at = 1 => Command = Cmd(0, 0)
         /\ at = 2 => Command = Cmd(8, 0)
         /\ at \in {3, 9, 11} => Command = Cmd(55, Device.initarg)
         /\ at = 4 => Command = Cmd(141, IF op.hcs THEN 1 ELSE 0)
         /\ at = 5 => Command = Cmd(2, 0)
         /\ at = 6 => Command = Cmd(3, 0)
         /\ at = 7 => Command = Cmd(9, Device.initarg)
         /\ at = 8 => Command = Cmd(7, Device.initarg)
         /\ at = 10 => Command = Cmd(142, 0)
         /\ at = 12 => Command = Cmd(106, 2)
         /\ at = 13 => Command = Data(6, 1, "read")
         /\ at = 14 => Command = Cmd(13, Device.initarg)
         /\ at = 15 => Command = Cmd(16, 512)
BY ScriptOf DEF Command, Device

LEMMA OtherCommand ==
  /\ op.name = "get_cid" => /\ at = 1 => Command = Cmd(7, 0)
                            /\ at = 2 => Command = Cmd(10, Device.initarg)
                            /\ at = 3 => Command = Cmd(7, Device.initarg)
  /\ op.name = "readsectors" /\ at = 1 => Command = Data(18, Address(op.dev, op.first), "read")
  /\ op.name = "writesectors" /\ at = 1 => Command = Data(25, Address(op.dev, op.first), "write")
BY ScriptOf DEF Command, Device

LEMMA CommandType ==
  ASSUME DriverType, op.name # "none"
  PROVE  Command \in Commands
<1>1. op.dev \in Devices /\ Device.initarg \in Nat /\ op.first \in Nat
  BY DeviceTypes DEF Device
<1>2. Address(op.dev, op.first) \in Nat
  BY <1>1 DEF Address
<1>3. ASSUME NEW n \in Nat, NEW arg \in Int
      PROVE  Cmd(n, arg) \in Commands /\ Data(n, arg, "read") \in Commands
             /\ Data(n, arg, "write") \in Commands
  BY DEF Cmd, Data, Commands
<1>4. CASE op.name = "nand_init"
  <2>1. at \in 1 .. 10
    BY <1>4 DEF DriverType, Last
  <2> QED BY <1>1, <1>3, <1>4, <2>1, NandCommand
<1>5. CASE op.name = "sdcard_init"
  <2>1. at \in 1 .. 15
    BY <1>5 DEF DriverType, Last
  <2>2. (IF op.hcs THEN 1 ELSE 0) \in Int
    OBVIOUS
  <2> QED BY <1>1, <1>3, <1>5, <2>1, <2>2, SdCommand
<1>6. CASE op.name = "get_cid"
  <2>1. at \in 1 .. 3
    BY <1>6 DEF DriverType, Last
  <2> QED BY <1>1, <1>3, <1>6, <2>1, OtherCommand
<1>7. CASE op.name \in Transfers
  <2>1. at = 1
    BY <1>7 DEF DriverType, Last, Transfers
  <2> QED BY <1>2, <1>3, <1>7, <2>1, OtherCommand DEF Transfers
<1> QED BY <1>4, <1>5, <1>6, <1>7, DeviceTypes DEF Names, Startups, Transfers

-----------------------------------------------------------------------------
(* The types are kept: the controller and the cards,                        *)
LEMMA BecomesType ==
  ASSUME DriverType, NEW d \in Devices, NEW c
  PROVE  Becomes(d, c) \in OneCard
<1>1. card[d] \in OneCard
  BY DEF DriverType, CardType
<1>2. RCA[d] \in Nat
  BY DEF RCA, Devices
<1>3. [state |-> "idle", rca |-> 0, wide |-> FALSE] \in OneCard
  BY DEF CardStates, OneDevice, OneCard
<1>4. /\ [card[d] EXCEPT !.state = "ident"] \in OneCard
      /\ [card[d] EXCEPT !.state = "stby", !.rca = RCA[d]] \in OneCard
      /\ [card[d] EXCEPT !.state = "tran"] \in OneCard
      /\ [card[d] EXCEPT !.state = "stby"] \in OneCard
      /\ [card[d] EXCEPT !.wide = TRUE] \in OneCard
  BY <1>1, <1>2 DEF CardStates, OneDevice, OneCard
<1> QED BY <1>1, <1>3, <1>4 DEF Becomes

LEMMA BlockType ==
  ASSUME DriverType, NEW d \in Devices
  PROVE  BlockOf(d, reg.moved) \in Sectors
<1>1. reg.cmd.arg \in Int /\ reg.moved \in Nat
  BY DEF DriverType, RegType, Commands
<1>2. reg.cmd.arg \div 512 \in Int
  BY <1>1
<1> QED BY <1>1, <1>2 DEF BlockOf, Sectors

LEMMA ControllerTypes ==
  ASSUME DriverType, Controller
  PROVE  DriverType'
<1> USE DEF DriverType
<1>d. line.port \in Devices
  OBVIOUS
<1>1. CASE CardAnswers
  <2>1. PICK up \in BOOLEAN :
          /\ card' = [card EXCEPT ![line.port] = IF up THEN [@ EXCEPT !.state = "ready"] ELSE Becomes(line.port, reg.cmd)]
          /\ reg' = IF Understands(line.port, reg.cmd) \/ ~HasResponse(reg.cmd)
                    THEN [reg EXCEPT !.answered = TRUE, !.respond = HasResponse(reg.cmd),
                                     !.busy = reg.cmd.data # "none",
                                     !.resp = IF HasResponse(reg.cmd)
                                              THEN [n |-> reg.cmd.n, of |-> line.port, ready |-> up] ELSE @]
                    ELSE [reg EXCEPT !.err = TRUE, !.stopping = TRUE]
    BY <1>1 DEF CardAnswers
  <2>2. card' \in CardType
    <3>1. card[line.port] \in OneCard
      BY <1>d DEF CardType
    <3>2. [card[line.port] EXCEPT !.state = "ready"] \in OneCard
      BY <3>1 DEF CardStates, OneDevice, OneCard
    <3> QED BY <1>d, <2>1, <3>2, BecomesType DEF CardType
  <2>3. reg' \in RegType
    <3>1. [n |-> reg.cmd.n, of |-> line.port, ready |-> up] \in Answers
      BY <1>d, <2>1 DEF RegType, Answers, Commands
    <3>2. HasResponse(reg.cmd) \in BOOLEAN
      BY DEF HasResponse
    <3> QED BY <2>1, <3>1, <3>2 DEF RegType
  <2> QED BY <1>1, <2>2, <2>3 DEF CardAnswers, driverVars
<1>2. CASE CommandFails
  <2>1. card' \in CardType
    BY <1>2, <1>d, BecomesType DEF CommandFails, CardType
  <2>2. reg' \in RegType
    BY <1>2 DEF CommandFails, RegType, HasResponse
  <2>3. faults' \in Nat
    BY <1>2 DEF CommandFails
  <2> QED BY <1>2, <2>1, <2>2, <2>3 DEF CommandFails, driverVars
<1>3. ASSUME NEW f \in Seq(Items), NEW st \in Seq(Sectors \X Items), MoveBlock(f, st)
      PROVE  reg' \in RegType /\ faults' \in Nat
  <2>1. reg \in RegType /\ faults \in Nat
    OBVIOUS
  <2>2. PICK g \in {f, reg.fifo}, last \in BOOLEAN, more \in BOOLEAN :
          reg' \in {[reg EXCEPT !.fifo = f, !.stored = st, !.moved = @ + 1, !.dataend = last, !.busy = more],
                   [reg EXCEPT !.fifo = g, !.err = TRUE, !.stopping = TRUE, !.dataend = last]}
    <3>1. CASE \E g \in {f, reg.fifo} :
                 reg' = [reg EXCEPT !.fifo = g, !.err = TRUE, !.stopping = TRUE, !.dataend = (reg.moved + 1 = Blocks)]
      BY <3>1, Zenon
    <3>2. CASE reg' = [reg EXCEPT !.fifo = f, !.stored = st, !.moved = @ + 1,
                                  !.dataend = (reg.moved + 1 = Blocks), !.busy = ~(reg.moved + 1 = Blocks)]
      BY <3>2, Zenon
    <3> QED BY <1>3, <3>1, <3>2, Zenon DEF MoveBlock
  <2>3. faults' \in {faults, faults + 1}
    BY <1>3 DEF MoveBlock
  <2> HIDE DEF DriverType
  <2>4. [reg EXCEPT !.fifo = f, !.stored = st, !.moved = @ + 1, !.dataend = last, !.busy = more] \in RegType
    <3>1. reg.moved \in Nat
      BY <2>1 DEF RegType
    <3>2. reg.moved + 1 \in Nat
      BY <3>1
    <3>3. ASSUME NEW m \in Nat
          PROVE  [reg EXCEPT !.fifo = f, !.stored = st, !.moved = m, !.dataend = last, !.busy = more] \in RegType
      BY <1>3, <2>1, Zenon DEF RegType
    <3> QED BY <3>2, <3>3, Zenon
  <2>5. [reg EXCEPT !.fifo = g, !.err = TRUE, !.stopping = TRUE, !.dataend = last] \in RegType
    BY <1>3, <2>1, <2>2 DEF RegType
  <2> QED BY <2>1, <2>2, <2>3, <2>4, <2>5
<1>4. CASE BlockArrives
  <2>1. <<BlockOf(line.port, reg.moved)>> \in Seq(Items)
    BY <1>d, BlockType DEF Items
  <2>2. reg.stored \in Seq(Sectors \X Items)
    BY DEF RegType
  <2>3. reg' \in RegType /\ faults' \in Nat
    BY <1>3, <1>4, <2>1, <2>2 DEF BlockArrives
  <2> QED BY <1>4, <2>3 DEF BlockArrives, driverVars, cardVars
<1>5. CASE BlockLeaves
  <2>1. reg.fifo \in Seq(Items) /\ reg.fifo # <<>> /\ reg.stored \in Seq(Sectors \X Items)
    BY <1>5 DEF BlockLeaves, RegType
  <2>2. reg.fifo[1] \in Items
    BY <2>1
  <2>3. Append(reg.stored, <<BlockOf(line.port, reg.moved), reg.fifo[1]>>) \in Seq(Sectors \X Items)
    BY <1>d, <2>1, <2>2, BlockType
  <2>4. <<>> \in Seq(Items)
    OBVIOUS
  <2>5. reg' \in RegType /\ faults' \in Nat
    BY <1>3, <1>5, <2>3, <2>4 DEF BlockLeaves
  <2> QED BY <1>5, <2>5 DEF BlockLeaves, driverVars, cardVars
<1>6. CASE ControllerStops
  <2>1. reg' \in RegType
    BY <1>6 DEF ControllerStops, RegType
  <2> QED BY <1>6, <2>1 DEF ControllerStops, driverVars, cardVars
<1> QED BY <1>1, <1>2, <1>4, <1>5, <1>6 DEF Controller

(* and the driver.                                                          *)
LEMMA NewLineType ==
  ASSUME DriverType
  PROVE  NewLine \in [port : Devices, clk : Nat, wide : BOOLEAN]
<1> DEFINE T == [port : Devices, clk : Nat, wide : BOOLEAN]
<1>1. line \in T
  BY DEF DriverType
<1>2. Target("sd") \in T
  BY DEF Target, Devices, DevType, DriverType, OneDevice, OneCard
<1>3. \A c \in Nat : [line EXCEPT !.clk = c] \in T
  BY <1>1
<1>4. [line EXCEPT !.wide = TRUE] \in T
  BY <1>1
<1> HIDE DEF T
<1>5. NewLine \in T
  BY <1>1, <1>2, <1>3, <1>4 DEF NewLine
<1> QED BY <1>5 DEF T

LEMMA UpdatedAt ==
  /\ op.name = "nand_init" =>
       /\ at = 5 => Updated = [Device EXCEPT !.clk = 1]
       /\ at = 6 => Updated = [Device EXCEPT !.SDOPT = TRUE]
       /\ at = 10 => Updated = [Device EXCEPT !.clk = 513]
       /\ at \notin {5, 6, 10} => Updated = Device
  /\ op.name = "sdcard_init" =>
       /\ at = 4 => Updated = IF PoweringUp THEN Device
                              ELSE [Device EXCEPT !.isSDHC = op.hcs /\ "hc" \in kind]
       /\ at = 6 => Updated = [Device EXCEPT !.initarg = RCA[Device.ret.of]]
       /\ at = 11 => Updated = [Device EXCEPT !.SDOPT = TRUE]
       /\ at = 12 => Updated = IF op.cmd6 THEN Device ELSE [Device EXCEPT !.clk = 513]
       /\ at = 13 => Updated = [Device EXCEPT !.clk = 512]
       /\ at \notin {4, 6, 11, 12, 13} => Updated = Device
  /\ op.name \notin Startups => Updated = Device
<1>1. ASSUME op.name = "nand_init"
      PROVE  /\ at = 5 => Updated = [Device EXCEPT !.clk = 1]
             /\ at = 6 => Updated = [Device EXCEPT !.SDOPT = TRUE]
             /\ at = 10 => Updated = [Device EXCEPT !.clk = 513]
             /\ at \notin {5, 6, 10} => Updated = Device
  BY <1>1 DEF Updated
<1>2. ASSUME op.name = "sdcard_init"
      PROVE  /\ at = 4 => Updated = IF PoweringUp THEN Device
                              ELSE [Device EXCEPT !.isSDHC = op.hcs /\ "hc" \in kind]
             /\ at = 6 => Updated = [Device EXCEPT !.initarg = RCA[Device.ret.of]]
             /\ at = 11 => Updated = [Device EXCEPT !.SDOPT = TRUE]
             /\ at = 12 => Updated = IF op.cmd6 THEN Device ELSE [Device EXCEPT !.clk = 513]
             /\ at = 13 => Updated = [Device EXCEPT !.clk = 512]
             /\ at \notin {4, 6, 11, 12, 13} => Updated = Device
  BY <1>2 DEF Updated
<1>3. ASSUME op.name \notin Startups
      PROVE  Updated = Device
  BY <1>3 DEF Updated, Startups
<1> QED BY <1>1, <1>2, <1>3, Zenon

LEMMA UpdatedType ==
  ASSUME DriverType
  PROVE  Updated \in OneDevice
<1>1. Device \in OneDevice
  BY DEF DriverType, OpType, DevType, Device
<1>2. RCA[Device.ret.of] \in Nat
  BY <1>1 DEF RCA, Answers, Devices, OneDevice, OneCard
<1>3. \A c \in Nat : [Device EXCEPT !.clk = c] \in OneDevice /\ [Device EXCEPT !.initarg = c] \in OneDevice
  BY <1>1 DEF OneDevice, OneCard
<1>4. \A b \in BOOLEAN : [Device EXCEPT !.SDOPT = b] \in OneDevice /\ [Device EXCEPT !.isSDHC = b] \in OneDevice
  BY <1>1 DEF OneDevice, OneCard
<1>5. (op.hcs /\ "hc" \in kind) \in BOOLEAN
  OBVIOUS
<1>6. Updated \in OneDevice
  <2>1. [Device EXCEPT !.SDOPT = TRUE] \in OneDevice /\ [Device EXCEPT !.isSDHC = op.hcs /\ "hc" \in kind] \in OneDevice
    BY <1>4, <1>5, Zenon
  <2>2. /\ [Device EXCEPT !.clk = 1] \in OneDevice /\ [Device EXCEPT !.clk = 512] \in OneDevice
        /\ [Device EXCEPT !.clk = 513] \in OneDevice /\ [Device EXCEPT !.initarg = RCA[Device.ret.of]] \in OneDevice
    <3>1. ASSUME NEW c \in Nat
          PROVE  [Device EXCEPT !.clk = c] \in OneDevice /\ [Device EXCEPT !.initarg = c] \in OneDevice
      BY <1>3
    <3>2. 1 \in Nat /\ 512 \in Nat /\ 513 \in Nat
      OBVIOUS
    <3> QED BY <1>2, <3>1, <3>2, ZenonT(60)
  <2>3. CASE op.name = "nand_init"
    <3>1. CASE at = 5
      BY <2>2, <2>3, <3>1, UpdatedAt, ZenonT(60)
    <3>2. CASE at = 6
      BY <2>1, <2>3, <3>2, UpdatedAt, ZenonT(60)
    <3>3. CASE at = 10
      BY <2>2, <2>3, <3>3, UpdatedAt, ZenonT(60)
    <3>4. CASE at \notin {5, 6, 10}
      BY <1>1, <2>3, <3>4, UpdatedAt, Zenon
    <3> QED BY <3>1, <3>2, <3>3, <3>4
  <2>4. CASE op.name = "sdcard_init"
    <3>1. CASE at = 4
      BY <1>1, <2>1, <2>4, <3>1, UpdatedAt, Zenon
    <3>2. CASE at = 6
      BY <2>2, <2>4, <3>2, UpdatedAt, Zenon
    <3>3. CASE at = 11
      BY <2>1, <2>4, <3>3, UpdatedAt, ZenonT(60)
    <3>4. CASE at = 12
      BY <1>1, <2>2, <2>4, <3>4, UpdatedAt, ZenonT(60)
    <3>5. CASE at = 13
      BY <2>2, <2>4, <3>5, UpdatedAt, ZenonT(60)
    <3>6. CASE at \notin {4, 6, 11, 12, 13}
      BY <1>1, <2>4, <3>6, UpdatedAt, Zenon
    <3> QED BY <3>1, <3>2, <3>3, <3>4, <3>5, <3>6
  <2>5. CASE op.name \notin Startups
    BY <1>1, <2>5, UpdatedAt, Zenon
  <2> QED BY <2>3, <2>4, <2>5 DEF Startups
<1> QED BY <1>6

LEMMA LocalsType ==
  ASSUME DriverType
  PROVE  Locals \in OpType /\ Locals.name = op.name /\ Locals.dev = op.dev
         /\ Locals.first = op.first /\ Locals.n = op.n
<1> DEFINE b == Error(1)
<1>1. op \in OpType /\ b \in BOOLEAN
  BY DEF DriverType, Error
<1>2. ("switch" \in kind) \in BOOLEAN
  OBVIOUS
<1>3. Locals \in {op, [op EXCEPT !.hcs = b], [op EXCEPT !.cmd6 = "switch" \in kind]}
  BY DEF Locals
<1> HIDE DEF b
<1> QED BY <1>1, <1>2, <1>3 DEF OpType

LEMMA DriverTypes ==
  ASSUME DriverType, Driver, pc # "idle" => op.name # "none"
  PROVE  DriverType'
<1> USE DEF DriverType
<1>d. /\ op.dev \in Devices /\ op.name \in Names
      /\ Device \in OneDevice
  BY DEF OpType, DevType, Device
<1>1. CASE Send
  <2>1. Command \in Commands
    BY <1>1, CommandType DEF Send
  <2>2. reg' \in RegType
    <3>1. reg \in RegType /\ <<>> \in Seq(Items) /\ <<>> \in Seq(Sectors \X Items)
      OBVIOUS
    <3>2. reg' = [[reg EXCEPT !.respond = FALSE, !.dataend = FALSE, !.err = FALSE, !.fifo = <<>>]
                    EXCEPT !.busy = TRUE, !.answered = FALSE, !.moved = 0,
                           !.stored = <<>>, !.cmd = Command]
      BY <1>1 DEF Send, Cleared
    <3> HIDE DEF DriverType
    <3> QED BY <2>1, <3>1, <3>2 DEF RegType
  <2>3. dev' \in DevType
    <3> DEFINE d == [Device EXCEPT !.error = {}]
    <3>1. d \in OneDevice
      BY <1>d DEF OneDevice
    <3>2. dev' = [dev EXCEPT ![op.dev] = d]
      BY <1>1 DEF Send, Device
    <3> HIDE DEF d
    <3>3. dev \in DevType
      OBVIOUS
    <3> HIDE DEF DriverType
    <3> QED BY <1>d, <3>1, <3>2, <3>3 DEF DevType
  <2>4. size' \in Int
    BY <1>1 DEF Send, Size, OpType
  <2> QED BY <1>1, <2>2, <2>3, <2>4 DEF Send, Phases, cardVars
<1>2. CASE SampleStatus
  <2>1. status1' \in [busy : BOOLEAN, err : BOOLEAN]
    BY <1>2 DEF SampleStatus, RegType
  <2> QED BY <1>2, <2>1 DEF SampleStatus, Phases, controllerVars, cardVars
<1>3. CASE Transfer
  <2>1. reg.fifo \in Seq(Items) /\ op.n - size + 1 \in Items
    BY DEF RegType, OpType, Items
  <2>2. data' \in Seq(Items)
    <3>1. data \o reg.fifo \in Seq(Items)
      BY <2>1
    <3> QED BY <1>3, <3>1 DEF Transfer
  <2>3. reg' \in RegType
    <3>1. <<op.n - size + 1>> \in Seq(Items) /\ <<>> \in Seq(Items)
      BY <2>1
    <3> QED BY <1>3, <3>1, ZenonT(60) DEF Transfer, RegType
  <2>4. size' \in Int
    BY <1>3 DEF Transfer
  <2> QED BY <1>3, <2>2, <2>3, <2>4 DEF Transfer, Phases, cardVars
<1>4. CASE Check
  <2>1. Status0 \in SUBSET {1, 2, 4}
    BY DEF Status0
  <2>2. dev' \in DevType
    <3>1. PICK e \in SUBSET {1, 2, 4} : dev' = [dev EXCEPT ![op.dev].error = e] \/ dev' = dev
      <4>1. Device.error \cup {4} \in SUBSET {1, 2, 4} /\ Device.error \cup Status0 \in SUBSET {1, 2, 4}
        BY <1>d, <2>1 DEF OneDevice, OneCard
      <4> QED BY <1>4, <1>d, <4>1 DEF Check, Device, DevType
    <3>2. [Device EXCEPT !.error = e] \in OneDevice
      BY <1>d DEF OneDevice, OneCard
    <3>3. dev' = [dev EXCEPT ![op.dev] = [Device EXCEPT !.error = e]] \/ dev' = dev
      BY <3>1 DEF Device
    <3>4. dev \in [Devices -> OneDevice]
      BY DEF DevType
    <3>5. dev' \in [Devices -> OneDevice]
      BY <1>d, <3>2, <3>3, <3>4
    <3> QED BY <3>5 DEF DevType
  <2>3. pc' \in Phases
    BY <1>4 DEF Check, Phases
  <2> QED BY <1>4, <2>2, <2>3 DEF Check, controllerVars, cardVars
<1>5. CASE End
  <2>1. reg' \in RegType
    BY <1>5 DEF End, RegType
  <2>2. dev' \in DevType
    <3>1. reg.resp \in Answers
      BY DEF RegType
    <3>2. PICK r \in Answers : dev' = [dev EXCEPT ![op.dev] = [Device EXCEPT !.ret = r]]
      BY <1>5, <1>d, <3>1 DEF End, Device, OneDevice, OneCard
    <3>3. [Device EXCEPT !.ret = r] \in OneDevice
      BY <1>d DEF OneDevice, OneCard
    <3>4. dev \in [Devices -> OneDevice]
      BY DEF DevType
    <3>5. dev' \in [Devices -> OneDevice]
      BY <1>d, <3>2, <3>3, <3>4
    <3> QED BY <3>5 DEF DevType
  <2> QED BY <1>5, <2>1, <2>2 DEF End, Phases, cardVars
<1>6. CASE Proceed
  <2>1. Updated \in OneDevice
    BY UpdatedType
  <2>2. dev' \in DevType
    BY <1>6, <1>d, <2>1 DEF Proceed, DevType
  <2>3. line' \in [port : Devices, clk : Nat, wide : BOOLEAN]
    BY <1>6, NewLineType DEF Proceed
  <2>4. op' \in OpType /\ op'.name = op.name
    BY <1>6, LocalsType DEF Proceed
  <2>5. cid' \in Answers
    BY <1>6, <1>d DEF Proceed, OneDevice, OneCard
  <2>6. at' \in 1 .. Last(op'.name)
    <3>1. Len(Script(op)) = Last(op.name)
      BY <1>6, <1>d, ScriptLength DEF Proceed
    <3>2. NextCommand \in Nat /\ NextCommand >= 1
      BY DEF NextCommand
    <3>3. Last(op.name) \in Nat
      BY DEF Last
    <3> QED BY <1>6, <2>4, <3>1, <3>2, <3>3 DEF Proceed
  <2> QED BY <1>6, <2>2, <2>3, <2>4, <2>5, <2>6 DEF Proceed, Phases, controllerVars, cardVars
<1>7. CASE ReturnError
  <2>1. line' \in [port : Devices, clk : Nat, wide : BOOLEAN]
    BY <1>7, NewLineType DEF ReturnError
  <2> QED BY <1>7, <2>1 DEF ReturnError, Phases, controllerVars, cardVars
<1> QED BY <1>1, <1>2, <1>3, <1>4, <1>5, <1>6, <1>7 DEF Driver

-----------------------------------------------------------------------------
(* ControllerInv is kept: steps of the controller,                          *)
LEMMA CommandSame ==
  ASSUME op' = op, at' = at, dev'[op.dev].initarg = Device.initarg,
         dev'[op.dev].isSDHC = Device.isSDHC
  PROVE  Command' = Command
BY DEF Command, Script, Address, Device

LEMMA ControllerKeepsCommand ==
  ASSUME Controller
  PROVE  UNCHANGED <<driverVars, kind, Command, Device, Live>>
<1>1. UNCHANGED <<driverVars, kind>>
  BY DEF Controller, CardAnswers, CommandFails, BlockArrives, BlockLeaves, ControllerStops, cardVars
<1>2. op' = op /\ at' = at /\ dev' = dev /\ pc' = pc
  BY <1>1 DEF driverVars
<1>3. Device' = Device /\ Command' = Command
  BY <1>2, CommandSame DEF Device
<1>4. Live' = Live
  BY <1>2 DEF Live
<1> QED BY <1>1, <1>3, <1>4

(* What the register steps do, field by field.                              *)
LEMMA AnswerFields ==
  ASSUME DriverType, CardAnswers
  PROVE  /\ reg.busy /\ ~reg.answered /\ ~reg.stopping
         /\ UNCHANGED <<driverVars, kind, faults>>
         /\ UNCHANGED <<reg.dataend, reg.fifo, reg.cmd, reg.moved, reg.stored>>
         /\ \/ /\ Understands(line.port, reg.cmd) \/ ~HasResponse(reg.cmd)
               /\ reg'.answered /\ reg'.respond = HasResponse(reg.cmd)
               /\ reg'.busy = (reg.cmd.data # "none") /\ reg'.err = reg.err /\ ~reg'.stopping
               /\ HasResponse(reg.cmd) => reg'.resp.n = reg.cmd.n /\ reg'.resp.of = line.port
            \/ /\ ~Understands(line.port, reg.cmd) /\ HasResponse(reg.cmd)
               /\ reg'.err /\ reg'.stopping /\ reg'.busy /\ ~reg'.answered
               /\ reg'.respond = reg.respond /\ reg'.resp = reg.resp
<1>1. reg \in RegType
  BY DEF DriverType
<1>2. PICK up \in BOOLEAN :
        reg' = IF Understands(line.port, reg.cmd) \/ ~HasResponse(reg.cmd)
               THEN [reg EXCEPT !.answered = TRUE, !.respond = HasResponse(reg.cmd),
                                !.busy = reg.cmd.data # "none",
                                !.resp = IF HasResponse(reg.cmd)
                                         THEN [n |-> reg.cmd.n, of |-> line.port, ready |-> up] ELSE @]
               ELSE [reg EXCEPT !.err = TRUE, !.stopping = TRUE]
  BY DEF CardAnswers
<1>3. /\ reg.busy /\ ~reg.answered /\ ~reg.stopping
      /\ UNCHANGED <<driverVars, kind, faults>>
  BY DEF CardAnswers
<1>4. CASE Understands(line.port, reg.cmd) \/ ~HasResponse(reg.cmd)
  <2>1. reg' = [reg EXCEPT !.answered = TRUE, !.respond = HasResponse(reg.cmd),
                           !.busy = reg.cmd.data # "none",
                           !.resp = IF HasResponse(reg.cmd)
                                    THEN [n |-> reg.cmd.n, of |-> line.port, ready |-> up] ELSE @]
    BY <1>2, <1>4, Zenon
  <2> QED BY <1>1, <1>3, <1>4, <2>1 DEF RegType
<1>5. CASE ~Understands(line.port, reg.cmd) /\ HasResponse(reg.cmd)
  <2>1. reg' = [reg EXCEPT !.err = TRUE, !.stopping = TRUE]
    BY <1>2, <1>5, Zenon
  <2> QED BY <1>1, <1>3, <1>5, <2>1 DEF RegType
<1> QED BY <1>4, <1>5

LEMMA FailFields ==
  ASSUME DriverType, CommandFails
  PROVE  /\ reg.busy /\ ~reg.answered /\ ~reg.stopping
         /\ UNCHANGED <<driverVars, kind>>
         /\ UNCHANGED <<reg.answered, reg.respond, reg.resp, reg.dataend, reg.fifo, reg.cmd, reg.moved, reg.stored>>
         /\ reg'.err = HasResponse(reg.cmd) /\ reg'.stopping = HasResponse(reg.cmd)
         /\ reg'.busy = HasResponse(reg.cmd)
         /\ faults' = faults + 1
BY DEF CommandFails, DriverType, RegType

LEMMA MoveFields ==
  ASSUME DriverType, NEW f, NEW st, MoveBlock(f, st)
  PROVE  /\ UNCHANGED <<reg.answered, reg.respond, reg.resp, reg.cmd>>
         /\ \/ /\ reg'.busy = (reg.moved + 1 # Blocks) /\ reg'.err = reg.err
               /\ reg'.stopping = reg.stopping /\ faults' = faults
               /\ reg'.fifo = f /\ reg'.stored = st /\ reg'.moved = reg.moved + 1
               /\ reg'.dataend = (reg.moved + 1 = Blocks)
            \/ /\ reg'.err /\ reg'.stopping /\ reg'.busy = reg.busy /\ reg'.fifo \in {f, reg.fifo}
               /\ faults' \in {faults, faults + 1}
BY ZenonT(60) DEF MoveBlock, DriverType, RegType

LEMMA StopFields ==
  ASSUME DriverType, ControllerStops
  PROVE  /\ reg.stopping /\ ~reg'.busy /\ ~reg'.stopping
         /\ UNCHANGED <<reg.answered, reg.respond, reg.resp, reg.dataend, reg.err, reg.fifo,
                        reg.cmd, reg.moved, reg.stored, driverVars, cardVars, faults>>
BY DEF ControllerStops, DriverType, RegType

LEMMA ControllerRests ==
  ASSUME DriverType, ControllerInv, Controller
  PROVE  ControllerInv'
<1>t. DriverType'
  BY ControllerTypes
<1>u. UNCHANGED <<op, at, pc, dev, line, status1, Command, Device, Live>>
  BY ControllerKeepsCommand DEF driverVars
<1>c. Error(4)' = Error(4) /\ Error(1)' = Error(1)
  BY <1>u DEF Error
<1>r. reg.busy \in BOOLEAN /\ reg.err \in BOOLEAN /\ reg.answered \in BOOLEAN
  BY DEF DriverType, RegType
<1>1. CASE CardAnswers
  <2>1. Live /\ Pending
    BY <1>1, AnswerFields DEF ControllerInv, Pending
  <2>2. pc \notin {"idle", "send", "end", "next"}
    BY <2>1 DEF Live
  <2> QED BY <1>1, <1>u, <1>c, <2>1, <2>2, AnswerFields DEF ControllerInv, Pending, Done
<1>2. CASE CommandFails
  <2>1. Live /\ Pending
    BY <1>2, FailFields DEF ControllerInv, Pending
  <2>2. pc \notin {"idle", "send", "end", "next"}
    BY <2>1 DEF Live
  <2> QED BY <1>2, <1>u, <1>c, <2>1, <2>2, FailFields DEF ControllerInv, Pending, Done, HasResponse
<1>3. ASSUME NEW f \in Seq(Items), NEW st, Len(f) <= 1, MoveBlock(f, st), Moving, reg.cmd.data # "none"
      PROVE  ControllerInv'
  <2>1. Live /\ ~Pending /\ reg.busy /\ reg.answered /\ ~reg.stopping
    BY <1>3 DEF ControllerInv, Pending, Moving
  <2>2. pc \notin {"idle", "send", "end", "next"}
    BY <2>1 DEF Live
  <2>3. ~reg.err
    BY <2>1 DEF ControllerInv
  <2>4. Len(reg'.fifo) <= 1
    BY <1>3, MoveFields DEF ControllerInv
  <2> QED BY <1>3, <1>u, <1>c, <1>r, <2>1, <2>2, <2>3, <2>4, MoveFields DEF ControllerInv, Pending, Done
<1>4. CASE BlockArrives
  <2>1. <<BlockOf(line.port, reg.moved)>> \in Seq(Items) /\ Len(<<BlockOf(line.port, reg.moved)>>) = 1
    BY BlockType DEF Items, DriverType
  <2>2. Len(<<BlockOf(line.port, reg.moved)>>) <= 1
    BY <2>1
  <2>3. Moving /\ MoveBlock(<<BlockOf(line.port, reg.moved)>>, reg.stored) /\ reg.cmd.data # "none"
    BY <1>4 DEF BlockArrives
  <2> QED BY <1>3, <2>1, <2>2, <2>3, Zenon
<1>5. CASE BlockLeaves
  <2>1. <<>> \in Seq(Items) /\ Len(<<>>) = 0
    OBVIOUS
  <2>2. Len(<<>>) <= 1
    BY <2>1
  <2>3. /\ Moving /\ reg.cmd.data # "none"
        /\ MoveBlock(<<>>, Append(reg.stored, <<BlockOf(line.port, reg.moved), reg.fifo[1]>>))
    BY <1>5 DEF BlockLeaves
  <2> QED BY <1>3, <2>1, <2>2, <2>3, Zenon
<1>6. CASE ControllerStops
  <2>1. (reg.err /\ ~reg'.busy /\ reg'.err) \/ ~Live
    BY <1>6, StopFields DEF ControllerInv
  <2> QED BY <1>6, <1>u, <1>c, <1>r, <2>1, StopFields DEF ControllerInv, Pending, Done, Live
<1> QED BY <1>1, <1>2, <1>4, <1>5, <1>6 DEF Controller

-----------------------------------------------------------------------------
(* What the steps of the driver do, field by field.                         *)
Settings(d) == <<dev[d].clk, dev[d].SDOPT, dev[d].initarg, dev[d].isSDHC>>
LEMMA SettingsKept ==
  ASSUME DriverType, UNCHANGED <<op, at>>, \A d \in Devices : Settings(d)' = Settings(d)
  PROVE  Command' = Command
<1>1. op.dev \in Devices
  BY DeviceTypes
<1>2. dev'[op.dev].initarg = Device.initarg /\ dev'[op.dev].isSDHC = Device.isSDHC
  BY <1>1 DEF Settings, Device
<1> QED BY <1>2, CommandSame

LEMMA SendFields ==
  ASSUME DriverType, Send
  PROVE  /\ pc = "send" /\ pc' = "status" /\ ~reg.busy /\ size' = op.n
         /\ UNCHANGED <<op, at, result, initialised, status1, data, cid, line, cardVars, faults>>
         /\ reg'.busy /\ ~reg'.answered /\ ~reg'.respond /\ ~reg'.dataend /\ ~reg'.err
         /\ reg'.fifo = <<>> /\ reg'.stored = <<>> /\ reg'.moved = 0 /\ reg'.cmd = Command
         /\ reg'.stopping = reg.stopping /\ reg'.resp = reg.resp
         /\ dev'[op.dev].error = {} /\ dev'[op.dev].ret = Device.ret
         /\ \A d \in Devices : Settings(d)' = Settings(d)
<1>1. /\ reg' = [[reg EXCEPT !.respond = FALSE, !.dataend = FALSE, !.err = FALSE, !.fifo = <<>>]
                    EXCEPT !.busy = TRUE, !.answered = FALSE, !.moved = 0,
                           !.stored = <<>>, !.cmd = Command]
      /\ dev' = [dev EXCEPT ![op.dev].error = {}]
  BY DEF Send, Cleared
<1>2. reg \in RegType /\ dev \in DevType /\ op.dev \in Devices
  BY DEF DriverType, OpType
<1>3. /\ dev'[op.dev].error = {} /\ dev'[op.dev].ret = Device.ret
      /\ \A d \in Devices : Settings(d)' = Settings(d)
  BY <1>1, <1>2 DEF DevType, Settings, Device
<1>4. /\ reg'.busy /\ ~reg'.answered /\ ~reg'.respond /\ ~reg'.dataend /\ ~reg'.err
      /\ reg'.fifo = <<>> /\ reg'.stored = <<>> /\ reg'.moved = 0 /\ reg'.cmd = Command
      /\ reg'.stopping = reg.stopping /\ reg'.resp = reg.resp
  BY <1>1, <1>2 DEF RegType
<1> QED BY <1>3, <1>4 DEF Send, Size

LEMMA TransferFields ==
  ASSUME DriverType, Transfer
  PROVE  /\ pc = "transfer" /\ pc' = "check"
         /\ UNCHANGED <<op, at, result, dev, initialised, status1, cid, line, cardVars, faults>>
         /\ UNCHANGED <<reg.busy, reg.answered, reg.respond, reg.dataend, reg.err, reg.stopping,
                        reg.resp, reg.cmd, reg.moved, reg.stored>>
         /\ \/ /\ Receives /\ data' = data \o reg.fifo /\ reg'.fifo = <<>> /\ size' = size - 1
            \/ /\ Delivers /\ reg'.fifo = <<op.n - size + 1>> /\ size' = size - 1 /\ data' = data
            \/ /\ ~Receives /\ ~Delivers /\ reg' = reg /\ size' = size /\ data' = data
BY DEF Transfer, DriverType, RegType

LEMMA CheckFields ==
  ASSUME DriverType, Check
  PROVE  /\ pc = "check"
         /\ UNCHANGED <<op, at, result, initialised, status1, size, data, cid, line, controllerVars>>
         /\ \A d \in Devices : Settings(d)' = Settings(d)
         /\ dev'[op.dev].ret = Device.ret
         /\ \/ /\ status1.err /\ pc' = "end" /\ dev'[op.dev].error = Device.error \cup {4}
            \/ /\ ~status1.err /\ ~status1.busy /\ dev'[op.dev].error = Device.error \cup Status0
               /\ pc' = IF Flags \subseteq Status0 THEN "end" ELSE "status"
            \/ /\ ~status1.err /\ status1.busy /\ pc' = "status"
               /\ dev'[op.dev].error = Device.error
<1>1. dev \in DevType /\ op.dev \in Devices
  BY DEF DriverType, OpType
<1>2. ASSUME NEW e, dev' = [dev EXCEPT ![op.dev].error = e]
      PROVE  /\ \A d \in Devices : Settings(d)' = Settings(d)
             /\ dev'[op.dev].ret = Device.ret /\ dev'[op.dev].error = e
  BY <1>1, <1>2 DEF DevType, Settings, Device
<1>3. ASSUME dev' = dev
      PROVE  /\ \A d \in Devices : Settings(d)' = Settings(d)
             /\ dev'[op.dev].ret = Device.ret /\ dev'[op.dev].error = Device.error
  BY <1>3 DEF Settings, Device
<1>4. CASE status1.err /\ pc' = "end" /\ dev' = [dev EXCEPT ![op.dev].error = Device.error \cup {4}]
  BY <1>2, <1>4 DEF Check
<1>5. CASE /\ ~status1.err /\ ~status1.busy
           /\ dev' = [dev EXCEPT ![op.dev].error = Device.error \cup Status0]
           /\ pc' = IF Flags \subseteq Status0 THEN "end" ELSE "status"
  BY <1>2, <1>5 DEF Check
<1>6. CASE ~status1.err /\ status1.busy /\ pc' = "status" /\ dev' = dev
  BY <1>3, <1>6 DEF Check
<1>7. /\ [dev EXCEPT ![op.dev].error = @ \cup {4}] = [dev EXCEPT ![op.dev].error = Device.error \cup {4}]
      /\ [dev EXCEPT ![op.dev].error = @ \cup Status0] = [dev EXCEPT ![op.dev].error = Device.error \cup Status0]
  BY DEF Device
<1> QED BY <1>4, <1>5, <1>6, <1>7 DEF Check, Seen

LEMMA EndFields ==
  ASSUME DriverType, End
  PROVE  /\ pc = "end" /\ pc' = "next"
         /\ UNCHANGED <<op, at, result, initialised, status1, size, data, cid, line, cardVars, faults>>
         /\ UNCHANGED <<reg.busy, reg.answered, reg.stopping, reg.resp, reg.cmd, reg.moved,
                        reg.stored, reg.fifo>>
         /\ ~reg'.respond /\ ~reg'.dataend /\ ~reg'.err
         /\ \A d \in Devices : Settings(d)' = Settings(d)
         /\ dev'[op.dev].error = Device.error
         /\ dev'[op.dev].ret = IF HasResponse(Command) THEN reg.resp ELSE Device.ret
<1>1. dev \in DevType /\ op.dev \in Devices /\ reg \in RegType
  BY DEF DriverType, OpType
<1>2. PICK r : /\ dev' = [dev EXCEPT ![op.dev].ret = r]
               /\ r = IF HasResponse(Command) THEN reg.resp ELSE Device.ret
  BY DEF End, Device
<1>3. /\ \A d \in Devices : Settings(d)' = Settings(d)
      /\ dev'[op.dev].error = Device.error /\ dev'[op.dev].ret = r
  BY <1>1, <1>2 DEF DevType, Settings, Device
<1>4. reg' = [reg EXCEPT !.respond = FALSE, !.dataend = FALSE, !.err = FALSE]
  BY DEF End
<1>5. /\ UNCHANGED <<reg.busy, reg.answered, reg.stopping, reg.resp, reg.cmd, reg.moved,
                     reg.stored, reg.fifo>>
      /\ ~reg'.respond /\ ~reg'.dataend /\ ~reg'.err
  BY <1>1, <1>4 DEF RegType
<1> QED BY <1>2, <1>3, <1>5 DEF End

LEMMA ProceedFields ==
  ASSUME DriverType, Proceed, op.name # "none"
  PROVE  /\ pc = "next" /\ ~Failed
         /\ UNCHANGED <<initialised, status1, size, data, controllerVars>>
         /\ UNCHANGED <<op.name, op.dev, op.first, op.n>> /\ op' = Locals
         /\ \/ NextCommand <= Last(op.name) /\ at' = NextCommand /\ pc' = "send" /\ result' = result
            \/ NextCommand > Last(op.name) /\ at' = at /\ pc' = "idle" /\ result' = 0
         /\ dev'[op.dev] = Updated /\ \A d \in Devices : d # op.dev => dev'[d] = dev[d]
         /\ cid' = IF op.name = "get_cid" /\ at = 2 THEN Device.ret ELSE cid
         /\ line' = NewLine
<1>1. dev \in DevType /\ op.dev \in Devices /\ op.name \in Names
  BY DEF DriverType, OpType
<1>2. Len(Script(op)) = Last(op.name) /\ Last(op.name) \in Nat /\ NextCommand \in Nat
  BY <1>1, ScriptLength DEF Last, NextCommand, DriverType
<1>3. UNCHANGED <<op.name, op.dev, op.first, op.n>> /\ op' = Locals
  BY LocalsType DEF Proceed
<1>4. dev'[op.dev] = Updated /\ \A d \in Devices : d # op.dev => dev'[d] = dev[d]
  BY <1>1 DEF Proceed, DevType
<1> QED BY <1>2, <1>3, <1>4 DEF Proceed, CidAfter

-----------------------------------------------------------------------------
(* ControllerInv is kept by the driver.                                     *)
LEMMA PortKept ==
  ASSUME DriverType, op.name # "none", NextCommand <= Last(op.name)
  PROVE  NewLine.port = line.port
<1>1. line \in [port : Devices, clk : Nat, wide : BOOLEAN]
  BY DEF DriverType
<1>2. op.name \notin Transfers /\ ~(op.name = "nand_init" /\ at = 10)
  <2>1. at \in 1 .. Last(op.name)
    BY DEF DriverType
  <2> QED BY <2>1 DEF NextCommand, Last, Transfers
<1>3. \A c \in Nat : [line EXCEPT !.clk = c].port = line.port
  BY <1>1
<1>4. [line EXCEPT !.wide = TRUE].port = line.port
  BY <1>1
<1> QED BY <1>2, <1>3, <1>4 DEF NewLine, Transfers

LEMMA DriverRests ==
  ASSUME DriverType, ControllerInv, Driver
  PROVE  ControllerInv'
<1>r. reg.busy \in BOOLEAN /\ reg.err \in BOOLEAN /\ reg.answered \in BOOLEAN /\ reg.respond \in BOOLEAN
  BY DEF DriverType, RegType
<1>d. op.dev \in Devices /\ Device.error \in SUBSET {1, 2, 4}
  BY DeviceTypes DEF Device
<1>1. CASE Send
  <2>1. Command' = Command /\ ~Live /\ Live' /\ Device'.error = {}
    BY <1>1, SendFields, SettingsKept DEF Live, Device
  <2>2. Len(<<>>) = 0 /\ ~reg.stopping
    BY <1>1, SendFields DEF ControllerInv
  <2> QED BY <1>1, <2>1, <2>2, SendFields DEF ControllerInv, Pending, Done
<1>2. CASE SampleStatus
  <2>1. /\ UNCHANGED <<op, at, dev, line, reg>> /\ pc = "status" /\ pc' = "transfer"
        /\ status1'.busy = reg.busy /\ status1'.err = reg.err
    BY <1>2 DEF SampleStatus, controllerVars
  <2>2. Command' = Command /\ Device' = Device /\ Live /\ Live'
    BY <2>1, CommandSame DEF Device, Live
  <2> QED BY <2>1, <2>2 DEF ControllerInv, Pending, Done
<1>3. CASE Transfer
  <2>1. Command' = Command /\ Device' = Device /\ Live /\ Live'
    BY <1>3, TransferFields, CommandSame DEF Device, Live
  <2>2. Len(reg'.fifo) <= 1
    <3>1. Len(<<>>) <= 1 /\ Len(<<op.n - size + 1>>) <= 1 /\ Len(reg.fifo) <= 1
      BY DEF ControllerInv
    <3>2. reg'.fifo \in {<<>>, <<op.n - size + 1>>, reg.fifo}
      BY <1>3, TransferFields
    <3> QED BY <3>1, <3>2, Zenon
  <2> QED BY <1>3, <2>1, <2>2, TransferFields DEF ControllerInv, Pending, Done
<1>4. CASE Check
  <2>0. reg' = reg /\ UNCHANGED <<op, at, line, status1>> /\ pc = "check" /\ Live
    BY <1>4, CheckFields DEF controllerVars, Live
  <2>1. Command' = Command /\ reg.cmd = Command
    BY <1>4, <2>0, CheckFields, SettingsKept DEF ControllerInv
  <2>2. CASE status1.err
    <3>1. pc' = "end" /\ Device'.error = Device.error \cup {4} /\ reg.err
      BY <1>4, <2>0, <2>2, CheckFields DEF Device, ControllerInv
    <3>2. ~Live'
      BY <3>1 DEF Live
    <3>3. ~reg.busy \/ reg.stopping
      BY <2>0, <3>1 DEF ControllerInv
    <3>4. 1 \notin Device'.error
      BY <2>0, <3>1 DEF ControllerInv, Done
    <3> QED BY <2>0, <2>1, <3>1, <3>2, <3>3, <3>4 DEF ControllerInv
  <2>3. CASE ~status1.err /\ ~status1.busy
    <3>1. Device'.error = Device.error \cup Status0 /\ Done
          /\ pc' = IF Flags \subseteq Status0 THEN "end" ELSE "status"
      BY <1>4, <2>0, <2>3, CheckFields DEF Device, ControllerInv
    <3>2. 4 \notin Device'.error /\ (1 \in Device'.error => reg.respond)
      BY <2>0, <3>1 DEF Status0, ControllerInv
    <3>3. CASE pc' = "status"
      <4>1. Live'
        BY <3>3 DEF Live
      <4> QED BY <2>0, <2>1, <3>1, <3>2, <3>3, <4>1 DEF ControllerInv, Pending, Done
    <3>4. CASE pc' = "end" /\ Flags \subseteq Status0
      <4>1. ~Live' /\ ~reg.err /\ ~reg.busy
        BY <3>1, <3>4 DEF Live, Done
      <4>2. HasResponse(Command) <=> (1 \in Device'.error)
        <5>1. HasResponse(Command) => 1 \in Device'.error
          BY <3>1, <3>4 DEF Flags
        <5>2. 1 \in Device'.error => HasResponse(Command)
          BY <2>0, <2>1, <3>2 DEF ControllerInv
        <5> QED BY <5>1, <5>2
      <4>3. HasResponse(Command) => reg.resp.n = Command.n /\ reg.resp.of = op.dev
        BY <2>0, <2>1, <3>1 DEF ControllerInv
      <4> QED BY <2>0, <2>1, <3>2, <3>4, <4>1, <4>2, <4>3 DEF ControllerInv
    <3> QED BY <3>1, <3>3, <3>4
  <2>4. CASE ~status1.err /\ status1.busy
    <3>1. pc' = "status" /\ Device'.error = Device.error
      BY <1>4, <2>4, CheckFields DEF Device
    <3>2. Live'
      BY <3>1 DEF Live
    <3> QED BY <2>0, <2>1, <3>1, <3>2 DEF ControllerInv, Pending, Done
  <2> QED BY <2>2, <2>3, <2>4
<1>5. CASE End
  <2>0. pc = "end" /\ pc' = "next" /\ UNCHANGED <<op, at, line, reg.busy, reg.stopping, reg.fifo>>
    BY <1>5, EndFields
  <2>1. Command' = Command /\ ~Live /\ ~Live'
    BY <1>5, <2>0, EndFields, SettingsKept DEF Live
  <2>2. /\ Device'.error = Device.error
        /\ Device'.ret = IF HasResponse(Command) THEN reg.resp ELSE Device.ret
    BY <1>5, <2>0, EndFields DEF Device
  <2>3. /\ 4 \notin Device.error => (HasResponse(Command) <=> 1 \in Device.error)
        /\ 4 \notin Device.error /\ HasResponse(Command) => reg.resp.n = Command.n /\ reg.resp.of = op.dev
    BY <2>0 DEF ControllerInv
  <2>4. ~reg.busy \/ reg.stopping
    BY <2>1 DEF ControllerInv
  <2> QED BY <2>0, <2>1, <2>2, <2>3, <2>4 DEF ControllerInv, Error
<1>6. CASE Proceed
  <2>0. op.name # "none" /\ pc = "next"
    BY <1>6 DEF ControllerInv, Proceed
  <2>1. reg' = reg /\ op'.dev = op.dev /\ op'.name = op.name /\ pc' \in {"send", "idle"}
    BY <1>6, <2>0, ProceedFields DEF controllerVars
  <2>2. ~Live /\ ~Live' /\ pc' \notin {"transfer", "check", "end", "next"}
    BY <2>0, <2>1 DEF Live
  <2>3. pc' # "idle" => line'.port = line.port
    BY <1>6, <2>0, ProceedFields, PortKept
  <2> QED BY <2>0, <2>1, <2>2, <2>3 DEF ControllerInv
<1>7. CASE ReturnError
  <2>1. pc = "next" /\ pc' = "idle" /\ reg' = reg
    BY <1>7 DEF ReturnError, controllerVars
  <2> QED BY <2>1 DEF ControllerInv, Live
<1> QED BY <1>1, <1>2, <1>3, <1>4, <1>5, <1>6, <1>7 DEF Driver

-----------------------------------------------------------------------------
(* The way of a card through a startup.                                     *)
LEMMA NandStation ==
  ASSUME op.name = "nand_init", op.dev = "nand", NEW c, NEW k \in 1 .. 11
  PROVE  ArrivedAs(c, k) <=> /\ k = 3 => c.state = "ready"
                             /\ k = 4 => c.state = "ident"
                             /\ k \in {5, 6} => c.state = "stby"
                             /\ k > 6 => c.state = "tran"
                             /\ k > 4 => c.rca = 1
                             /\ k > 7 => c.wide
<1>1. Stations(op.name) = <<"any", "any", "ready", "ident", "stby", "stby", "tran", "tran", "tran", "tran", "tran">>
  BY DEF Stations
<1>2. Addressed(op.name) = 5 /\ Widened(op.name) = 8 /\ RCA[op.dev] = 1
  BY DEF Addressed, Widened, RCA, Devices
<1> QED BY <1>1, <1>2 DEF ArrivedAs

LEMMA SdStation ==
  ASSUME op.name = "sdcard_init", op.dev = "sd", NEW c, NEW k \in 1 .. 16
  PROVE  ArrivedAs(c, k) <=> /\ k = 5 => c.state = "ready"
                             /\ k = 6 => c.state = "ident"
                             /\ k \in {7, 8} => c.state = "stby"
                             /\ k > 8 => c.state = "tran"
                             /\ k > 6 => c.rca = 7
                             /\ k > 12 => c.wide
                             /\ k > 4 /\ "hc" \in kind => op.hcs
<1>1. Stations(op.name) = <<"any", "any", "any", "any", "ready", "ident", "stby", "stby", "tran", "tran", "tran",
                            "tran", "tran", "tran", "tran", "tran">>
  BY DEF Stations
<1>2. Addressed(op.name) = 7 /\ Widened(op.name) = 13 /\ RCA[op.dev] = 7
  BY DEF Addressed, Widened, RCA, Devices
<1> QED BY <1>1, <1>2 DEF ArrivedAs

LEMMA CidStation ==
  ASSUME op.name = "get_cid", op.dev = "nand", NEW c, NEW k \in 1 .. 4
  PROVE  ArrivedAs(c, k) <=> /\ k \in {1, 4} => c.state = "tran"
                             /\ k \in {2, 3} => c.state = "stby"
                             /\ c.rca = 1
<1>1. Stations(op.name) = <<"tran", "stby", "stby", "tran">>
  BY DEF Stations
<1>2. Addressed(op.name) = 1 /\ Widened(op.name) = 5 /\ RCA[op.dev] = 1
  BY DEF Addressed, Widened, RCA, Devices
<1> QED BY <1>1, <1>2 DEF ArrivedAs

(* What the cards do with the commands of a startup.                        *)
LEMMA BecomesOf ==
  ASSUME DriverType, NEW d \in Devices, NEW c
  PROVE  /\ c.n = 2 /\ card[d].state = "ready" =>
              Becomes(d, c).state = "ident" /\ Becomes(d, c).rca = card[d].rca
         /\ c.n = 3 /\ card[d].state = "ident" =>
              Becomes(d, c).state = "stby" /\ Becomes(d, c).rca = RCA[d]
         /\ c.n = 7 /\ card[d].state = "stby" /\ c.arg = card[d].rca =>
              Becomes(d, c).state = "tran" /\ Becomes(d, c).rca = card[d].rca
         /\ c.n = 7 /\ card[d].state = "tran" /\ c.arg # card[d].rca =>
              Becomes(d, c).state = "stby" /\ Becomes(d, c).rca = card[d].rca
         /\ c.n = 6 /\ card[d].state = "tran" =>
              /\ Becomes(d, c).state = "tran" /\ Becomes(d, c).rca = card[d].rca
              /\ card[d].wide \/ c.arg = 183 => Becomes(d, c).wide
         /\ c.n = 106 /\ card[d].state = "tran" /\ d = "sd" =>
              Becomes(d, c).state = "tran" /\ Becomes(d, c).rca = card[d].rca /\ Becomes(d, c).wide
         /\ c.n \notin {0, 2, 3, 6, 7, 106} => Becomes(d, c) = card[d]
         /\ card[d].state = "idle" => Becomes(d, c).state = "idle"
<1>1. card[d] \in OneCard
  BY DEF DriverType, CardType
<1>2. CASE c.n = 2
  BY <1>1, <1>2 DEF Becomes
<1>3. CASE c.n = 3
  BY <1>1, <1>3 DEF Becomes
<1>4. CASE c.n = 6
  BY <1>1, <1>4 DEF Becomes
<1>5. CASE c.n = 7
  BY <1>1, <1>5 DEF Becomes
<1>6. CASE c.n = 106
  BY <1>1, <1>6 DEF Becomes
<1>7. CASE c.n = 0
  BY <1>1, <1>7 DEF Becomes
<1>8. CASE c.n \notin {0, 2, 3, 6, 7, 106}
  BY <1>1, <1>8 DEF Becomes
<1> QED BY <1>2, <1>3, <1>4, <1>5, <1>6, <1>7, <1>8

LEMMA NandWay ==
  ASSUME DriverType, op.name = "nand_init", op.dev = "nand", Device.initarg = 1, at \in 3 .. 10,
         Arrived(at)
  PROVE  Understands(op.dev, Command) /\ ArrivedAs(Becomes(op.dev, Command), at + 1)
<1>1. op.dev \in Devices /\ RCA[op.dev] = 1
  BY DEF Devices, RCA
<1>2. ASSUME NEW n \in Nat, NEW arg \in Nat
      PROVE  Cmd(n, arg).n = n /\ Cmd(n, arg).arg = arg
  BY DEF Cmd
<1>3. CASE at = 3
  <2>1. Command.n = 2
    BY <1>2, <1>3, NandCommand
  <2>2. card[op.dev].state = "ready"
    BY <1>3, NandStation DEF Arrived
  <2> QED BY <1>1, <1>3, <2>1, <2>2, BecomesOf, NandStation DEF Understands
<1>4. CASE at = 4
  <2>1. Command.n = 3
    BY <1>2, <1>4, NandCommand
  <2>2. card[op.dev].state = "ident"
    BY <1>4, NandStation DEF Arrived
  <2> QED BY <1>1, <1>4, <2>1, <2>2, BecomesOf, NandStation DEF Understands
<1>5. CASE at = 5
  <2>1. Command.n = 9 /\ Command.arg = 1
    BY <1>2, <1>5, NandCommand
  <2>2. card[op.dev].state = "stby" /\ card[op.dev].rca = 1
    BY <1>5, NandStation DEF Arrived
  <2> QED BY <1>1, <1>5, <2>1, <2>2, BecomesOf, NandStation DEF Understands
<1>6. CASE at = 6
  <2>1. Command.n = 7 /\ Command.arg = 1
    BY <1>2, <1>6, NandCommand
  <2>2. card[op.dev].state = "stby" /\ card[op.dev].rca = 1
    BY <1>6, NandStation DEF Arrived
  <2> QED BY <1>1, <1>6, <2>1, <2>2, BecomesOf, NandStation DEF Understands
<1>7. CASE at = 7
  <2>1. Command.n = 6 /\ Command.arg = 183
    BY <1>2, <1>7, NandCommand
  <2>2. card[op.dev].state = "tran" /\ card[op.dev].rca = 1
    BY <1>7, NandStation DEF Arrived
  <2> QED BY <1>1, <1>7, <2>1, <2>2, BecomesOf, NandStation DEF Understands
<1>8. CASE at = 8
  <2>1. Command.n = 6
    BY <1>2, <1>8, NandCommand
  <2>2. card[op.dev].state = "tran" /\ card[op.dev].rca = 1 /\ card[op.dev].wide
    BY <1>8, NandStation DEF Arrived
  <2> QED BY <1>1, <1>8, <2>1, <2>2, BecomesOf, NandStation DEF Understands
<1>9. CASE at \in {9, 10}
  <2>1. (Command.n = 13 /\ Command.arg = 1) \/ Command.n = 16
    BY <1>2, <1>9, NandCommand
  <2>2. card[op.dev].state = "tran" /\ card[op.dev].rca = 1 /\ card[op.dev].wide
    BY <1>9, NandStation DEF Arrived
  <2> QED BY <1>1, <1>9, <2>1, <2>2, BecomesOf, NandStation DEF Understands
<1> QED BY <1>3, <1>4, <1>5, <1>6, <1>7, <1>8, <1>9

LEMMA SdWay ==
  ASSUME DriverType, op.name = "sdcard_init", op.dev = "sd", at > 6 => Device.initarg = 7,
         at \in 5 .. 15, Arrived(at)
  PROVE  ArrivedAs(Becomes(op.dev, Command), at + 1)
<1>1. op.dev \in Devices /\ RCA[op.dev] = 7
  BY DEF Devices, RCA
<1>2. ASSUME NEW n \in Nat, NEW arg \in Nat
      PROVE  /\ Cmd(n, arg).n = n /\ Cmd(n, arg).arg = arg
             /\ Data(n, arg, "read").n = n /\ Data(n, arg, "read").arg = arg
  BY DEF Cmd, Data
<1>h. "hc" \in kind => op.hcs
  BY SdStation DEF Arrived
<1>3. CASE at = 5
  <2>1. Command.n = 2
    BY <1>2, <1>3, SdCommand
  <2>2. card[op.dev].state = "ready"
    BY <1>3, SdStation DEF Arrived
  <2> QED BY <1>1, <1>h, <1>3, <2>1, <2>2, BecomesOf, SdStation
<1>4. CASE at = 6
  <2>1. Command.n = 3
    BY <1>2, <1>4, SdCommand
  <2>2. card[op.dev].state = "ident"
    BY <1>4, SdStation DEF Arrived
  <2> QED BY <1>1, <1>h, <1>4, <2>1, <2>2, BecomesOf, SdStation
<1>5. CASE at = 7
  <2>1. Command.n = 9
    BY <1>2, <1>5, SdCommand
  <2>2. card[op.dev].state = "stby" /\ card[op.dev].rca = 7
    BY <1>5, SdStation DEF Arrived
  <2> QED BY <1>1, <1>h, <1>5, <2>1, <2>2, BecomesOf, SdStation
<1>6. CASE at = 8
  <2>1. Command.n = 7 /\ Command.arg = 7
    BY <1>2, <1>6, SdCommand
  <2>2. card[op.dev].state = "stby" /\ card[op.dev].rca = 7
    BY <1>6, SdStation DEF Arrived
  <2> QED BY <1>1, <1>h, <1>6, <2>1, <2>2, BecomesOf, SdStation
<1>7. CASE at \in 9 .. 11
  <2>1. Command.n \in {55, 142}
    BY <1>2, <1>7, SdCommand
  <2>2. card[op.dev].state = "tran" /\ card[op.dev].rca = 7
    BY <1>7, SdStation DEF Arrived
  <2> QED BY <1>1, <1>h, <1>7, <2>1, <2>2, BecomesOf, SdStation
<1>8. CASE at = 12
  <2>1. Command.n = 106
    BY <1>2, <1>8, SdCommand
  <2>2. card[op.dev].state = "tran" /\ card[op.dev].rca = 7
    BY <1>8, SdStation DEF Arrived
  <2> QED BY <1>1, <1>h, <1>8, <2>1, <2>2, BecomesOf, SdStation
<1>9. CASE at \in 13 .. 15
  <2>1. Command.n \in {6, 13, 16}
    BY <1>2, <1>9, SdCommand
  <2>2. card[op.dev].state = "tran" /\ card[op.dev].rca = 7 /\ card[op.dev].wide
    BY <1>9, SdStation DEF Arrived
  <2> QED BY <1>1, <1>h, <1>9, <2>1, <2>2, BecomesOf, SdStation
<1> QED BY <1>3, <1>4, <1>5, <1>6, <1>7, <1>8, <1>9

LEMMA CidWay ==
  ASSUME DriverType, op.name = "get_cid", op.dev = "nand", Device.initarg = 1, at \in 1 .. 3,
         Arrived(at)
  PROVE  /\ ArrivedAs(Becomes(op.dev, Command), at + 1)
         /\ at = 2 => Understands(op.dev, Command) /\ Command.n = 10
<1>1. op.dev \in Devices /\ RCA[op.dev] = 1
  BY DEF Devices, RCA
<1>2. ASSUME NEW n \in Nat, NEW arg \in Nat
      PROVE  Cmd(n, arg).n = n /\ Cmd(n, arg).arg = arg
  BY DEF Cmd
<1>3. CASE at = 1
  <2>1. Command.n = 7 /\ Command.arg = 0
    BY <1>2, <1>3, OtherCommand
  <2>2. card[op.dev].state = "tran" /\ card[op.dev].rca = 1
    BY <1>3, CidStation DEF Arrived
  <2> QED BY <1>1, <1>3, <2>1, <2>2, BecomesOf, CidStation
<1>4. CASE at = 2
  <2>1. Command.n = 10 /\ Command.arg = 1
    BY <1>2, <1>4, OtherCommand
  <2>2. card[op.dev].state = "stby" /\ card[op.dev].rca = 1
    BY <1>4, CidStation DEF Arrived
  <2> QED BY <1>1, <1>4, <2>1, <2>2, BecomesOf, CidStation DEF Understands
<1>5. CASE at = 3
  <2>1. Command.n = 7 /\ Command.arg = 1
    BY <1>2, <1>5, OtherCommand
  <2>2. card[op.dev].state = "stby" /\ card[op.dev].rca = 1
    BY <1>5, CidStation DEF Arrived
  <2> QED BY <1>1, <1>5, <2>1, <2>2, BecomesOf, CidStation
<1> QED BY <1>3, <1>4, <1>5

(* The commands that make a card ready, and those that have no answer.      *)
LEMMA ReadyCommand ==
  ASSUME DriverType, op.name # "none"
  PROVE  /\ Command.n = 141 <=> op.name = "sdcard_init" /\ at = 4
         /\ op.name = "sdcard_init" /\ at = 4 => Command.arg = IF op.hcs THEN 1 ELSE 0
         /\ Command.n = 1 <=> op.name = "nand_init" /\ at = 2
         /\ ~HasResponse(Command) => op.name \in Startups /\ at = 1
         /\ op.name \in Startups /\ Command.data # "none" => op.name = "sdcard_init" /\ at = 13
         /\ op.name = "get_cid" => Command.data = "none"
<1>1. ASSUME NEW n, NEW arg, NEW to
      PROVE  /\ Cmd(n, arg).n = n /\ Cmd(n, arg).arg = arg /\ Cmd(n, arg).data = "none"
             /\ Data(n, arg, to).n = n /\ Data(n, arg, to).data = to
  BY DEF Cmd, Data
<1>2. CASE op.name = "nand_init"
  <2>1. at \in 1 .. 10
    BY <1>2 DEF DriverType, Last
  <2>2. /\ Command.data = "none" /\ Command.n \in 0 .. 16 /\ (Command.n = 0 => at = 1)
        /\ at = 2 <=> Command.n = 1
    <3>1. CASE at \in {1, 2}
      BY <1>1, <1>2, <3>1, NandCommand
    <3>2. CASE at \in {3, 4, 5, 6}
      BY <1>1, <1>2, <3>2, NandCommand
    <3>3. CASE at \in {7, 8, 9, 10}
      BY <1>1, <1>2, <3>3, NandCommand
    <3> QED BY <2>1, <3>1, <3>2, <3>3
  <2>3. Command.n # 141
    BY <2>2
  <2> QED BY <1>2, <2>2, <2>3 DEF HasResponse, Startups
<1>3. CASE op.name = "sdcard_init"
  <2>1. at \in 1 .. 15
    BY <1>3 DEF DriverType, Last
  <2>2. CASE at \in {4, 13}
    BY <1>1, <1>3, <2>2, SdCommand DEF HasResponse, Startups
  <2>3. CASE at \in {1, 2, 3, 5, 6, 7, 8}
    BY <1>1, <1>3, <2>3, SdCommand DEF HasResponse, Startups
  <2>4. CASE at \in {9, 10, 11, 12, 14, 15}
    BY <1>1, <1>3, <2>4, SdCommand DEF HasResponse, Startups
  <2> QED BY <2>1, <2>2, <2>3, <2>4
<1>4. CASE op.name = "get_cid"
  <2>1. at \in 1 .. 3
    BY <1>4 DEF DriverType, Last
  <2> QED BY <1>1, <1>4, <2>1, OtherCommand DEF HasResponse, Startups
<1>5. CASE op.name \in Transfers
  <2>1. at = 1
    BY <1>5 DEF DriverType, Last, Transfers
  <2> QED BY <1>1, <1>5, <2>1, OtherCommand DEF HasResponse, Startups, Transfers
<1> QED BY <1>2, <1>3, <1>4, <1>5, DeviceTypes DEF Names, Startups, Transfers

-----------------------------------------------------------------------------
(* StartupInv, SettingsInv and FaultFree are kept by the controller.        *)
LEMMA ArrivedNext ==
  ASSUME op' = op, at' = at, kind' = kind
  PROVE  /\ Arrived(at)' <=> ArrivedAs(card'[op.dev], at)
         /\ Arrived(at + 1)' <=> ArrivedAs(card'[op.dev], at + 1)
         /\ Arrived(4)' <=> ArrivedAs(card'[op.dev], 4)
BY DEF Arrived, ArrivedAs

LEMMA ArrivedSame ==
  ASSUME op' = op, at' = at, kind' = kind, card' = card
  PROVE  /\ Arrived(at)' <=> Arrived(at)
         /\ Arrived(at + 1)' <=> Arrived(at + 1)
         /\ Arrived(4)' <=> Arrived(4)
BY ArrivedNext DEF Arrived

LEMMA AtRange ==
  ASSUME DriverType
  PROVE  /\ op.name = "nand_init" => at \in 1 .. 10
         /\ op.name = "sdcard_init" => at \in 1 .. 15
         /\ op.name = "get_cid" => at \in 1 .. 3
         /\ op.name \in Transfers => at = 1
<1>1. at \in 1 .. Last(op.name)
  BY DEF DriverType
<1> QED BY <1>1 DEF Last, Transfers

(* Before the card has powered up nothing is claimed of it.                 *)
LEMMA EarlyArrived ==
  ASSUME SettingsInv, NEW c, NEW k \in 1 .. 4,
         \/ op.name = "nand_init" /\ k <= 2
         \/ op.name = "sdcard_init"
  PROVE  ArrivedAs(c, k)
<1>1. CASE op.name = "nand_init"
  BY <1>1, NandStation DEF SettingsInv
<1>2. CASE op.name = "sdcard_init"
  BY <1>2, SdStation DEF SettingsInv
<1> QED BY <1>1, <1>2

(* One command of a startup or of get_cid, answered.                        *)
LEMMA AnswerArrives ==
  ASSUME DriverType, ControllerInv, StartupInv, SettingsInv, Live, Pending,
         NEW up \in BOOLEAN, up => PowersUp(op.dev, Command),
         op.name \in Startups \/ Genuine, Loops => up,
         NEW c, c = IF up THEN [card[op.dev] EXCEPT !.state = "ready"] ELSE Becomes(op.dev, Command)
  PROVE  ArrivedAs(c, at + 1)
<1>1. Arrived(at) /\ op.name # "none" /\ op.dev \in Devices
  BY DeviceTypes DEF StartupInv, Waits, Startups, Genuine
<1>2. up => Loops
  BY <1>1, ReadyCommand DEF PowersUp, Loops
<1>3. up => c.state = "ready"
  BY <1>1 DEF DriverType, CardType
<1>4. CASE op.name = "nand_init"
  <2>1. op.dev = "nand" /\ Device.initarg = 1 /\ at \in 1 .. 10
    BY <1>4, AtRange DEF SettingsInv, Device, Startups
  <2>2. CASE at = 1
    BY <1>4, <2>1, <2>2, EarlyArrived
  <2>3. CASE at = 2
    <3>1. up
      BY <1>4, <2>3 DEF Loops
    <3>2. 3 \in 1 .. 11 /\ at + 1 = 3 /\ c.state = "ready"
      BY <1>3, <2>3, <3>1
    <3>3. ArrivedAs(c, 3)
      <4> DEFINE x == c
      <4>1. x.state = "ready"
        BY <3>2
      <4> HIDE DEF x
      <4>2. ArrivedAs(x, 3)
        BY <1>4, <2>1, <3>2, <4>1, NandStation
      <4> QED BY <4>2 DEF x
    <3> QED BY <3>2, <3>3
  <2>4. CASE at \in 3 .. 10
    <3>1. ~up
      BY <1>2, <1>4, <2>4 DEF Loops
    <3> QED BY <1>1, <1>4, <2>1, <2>4, <3>1, NandWay
  <2> QED BY <2>1, <2>2, <2>3, <2>4
<1>5. CASE op.name = "sdcard_init"
  <2>1. op.dev = "sd" /\ at \in 1 .. 15 /\ (at > 6 => Device.initarg = 7)
    BY <1>5, AtRange DEF SettingsInv, RCA, Devices
  <2>2. CASE at \in 1 .. 3
    BY <1>5, <2>1, <2>2, EarlyArrived
  <2>3. CASE at = 4
    <3>1. up
      BY <1>5, <2>3 DEF Loops
    <3>2. "hc" \in kind => op.hcs
      BY <1>1, <1>5, <2>1, <2>3, <3>1, ReadyCommand DEF PowersUp
    <3>3. 5 \in 1 .. 16 /\ at + 1 = 5 /\ c.state = "ready"
      BY <1>3, <2>3, <3>1
    <3>4. ArrivedAs(c, 5)
      <4> DEFINE x == c
      <4>1. x.state = "ready"
        BY <3>3
      <4> HIDE DEF x
      <4>2. ArrivedAs(x, 5)
        BY <1>5, <2>1, <3>2, <3>3, <4>1, SdStation
      <4> QED BY <4>2 DEF x
    <3> QED BY <3>3, <3>4
  <2>4. CASE at \in 5 .. 15
    <3>1. ~up
      BY <1>2, <1>5, <2>4 DEF Loops
    <3> QED BY <1>1, <1>5, <2>1, <2>4, <3>1, SdWay
  <2> QED BY <2>1, <2>2, <2>3, <2>4
<1>6. CASE op.name = "get_cid"
  <2>1. op.dev = "nand" /\ Device.initarg = 1 /\ at \in 1 .. 3
    BY <1>6, AtRange DEF SettingsInv, Device, Live
  <2>2. ~up
    BY <1>2, <1>6 DEF Loops
  <2> QED BY <1>1, <1>6, <2>1, <2>2, CidWay
<1> QED BY <1>4, <1>5, <1>6 DEF Startups, Genuine

LEMMA CardAnswersWay ==
  ASSUME DriverType, ControllerInv, StartupInv, SettingsInv, FaultFree, CardAnswers
  PROVE  StartupInv' /\ SettingsInv' /\ FaultFree'
<1>1. PICK up \in BOOLEAN :
        /\ up => PowersUp(line.port, reg.cmd)
        /\ card' = [card EXCEPT ![line.port] = IF up THEN [@ EXCEPT !.state = "ready"] ELSE Becomes(line.port, reg.cmd)]
        /\ reg' = IF Understands(line.port, reg.cmd) \/ ~HasResponse(reg.cmd)
                  THEN [reg EXCEPT !.answered = TRUE, !.respond = HasResponse(reg.cmd),
                                   !.busy = reg.cmd.data # "none",
                                   !.resp = IF HasResponse(reg.cmd)
                                            THEN [n |-> reg.cmd.n, of |-> line.port, ready |-> up] ELSE @]
                  ELSE [reg EXCEPT !.err = TRUE, !.stopping = TRUE]
  BY DEF CardAnswers
<1>2. Live /\ Pending /\ UNCHANGED <<driverVars, kind, faults>>
  BY AnswerFields DEF ControllerInv, Pending
<1>3. /\ UNCHANGED <<op, at, pc, result, dev, initialised, cid, Live, Device, Command>> /\ pc # "idle"
      /\ op.name # "none" /\ line.port = op.dev /\ reg.cmd = Command /\ op.dev \in Devices
  BY <1>2, ControllerKeepsCommand, DeviceTypes DEF driverVars, Live, Controller, ControllerInv
<1> DEFINE c == IF up THEN [card[op.dev] EXCEPT !.state = "ready"] ELSE Becomes(op.dev, Command)
<1>4. card'[op.dev] = c /\ \A d \in Devices : d # op.dev => card'[d] = card[d]
  BY <1>1, <1>3 DEF DriverType, CardType
<1>5. ~reg.err /\ ~Waits' /\ pc \notin {"send", "end", "next", "idle"}
  BY <1>2, <1>3, AnswerFields DEF Waits, Pending, Live, ControllerInv
<1>6. Answered' /\ Loops => up
  <2>1. ASSUME Answered', Loops
        PROVE  up
    <3>1. Understands(line.port, reg.cmd) /\ HasResponse(reg.cmd)
      <4>1. HasResponse(reg.cmd)
        BY <1>3, <2>1, ReadyCommand DEF Loops
      <4>2. ~reg'.err
        BY <1>3, <1>5, <2>1 DEF Answered
      <4> QED BY <4>1, <4>2, AnswerFields
    <3>2. reg' = [reg EXCEPT !.answered = TRUE, !.respond = HasResponse(reg.cmd),
                             !.busy = reg.cmd.data # "none",
                             !.resp = [n |-> reg.cmd.n, of |-> line.port, ready |-> up]]
      BY <1>1, <3>1, Zenon
    <3>3. reg'.resp.ready = up
      BY <3>2 DEF DriverType, RegType
    <3>4. reg'.resp.ready
      BY <1>3, <1>5, <2>1 DEF Answered, Loops
    <3> QED BY <3>3, <3>4
  <2> QED BY <2>1
<1>7. up => PowersUp(op.dev, Command)
  BY <1>1, <1>3
<1>8. ASSUME op.name \in Startups \/ Genuine, Loops => up
      PROVE  ArrivedAs(c, at + 1)
  BY <1>2, <1>7, <1>8, AnswerArrives
<1> HIDE DEF c
<1>9. StartupInv'
  <2>1. op.name \in Startups /\ Answered' => Arrived(at + 1)'
    BY <1>3, <1>4, <1>2, <1>6, <1>8, ArrivedNext
  <2>2. Genuine' => Arrived(at + 1)'
    <3>1. Genuine' => Genuine /\ ~Loops
      BY <1>2, <1>3 DEF Genuine, Loops
    <3> QED BY <1>2, <1>3, <1>4, <1>8, <3>1, ArrivedNext
  <2> QED BY <1>3, <1>5, <2>1, <2>2 DEF StartupInv
<1>10. SettingsInv'
  <2>1. card'["sd"].state # "idle" => (dev["sd"].isSDHC <=> HighCapacity) \/ Upgrading'
    <3>1. CASE op.dev # "sd"
      <4>1. card'["sd"] = card["sd"]
        BY <1>3, <1>4, <3>1 DEF Devices
      <4>2. ~Upgrading
        BY <3>1 DEF Upgrading, SettingsInv
      <4> QED BY <4>1, <4>2 DEF SettingsInv
    <3>2. CASE op.dev = "sd"
      <4>1. ~Upgrading
        BY <1>2, <1>3 DEF Upgrading, Answered, Pending, Live
      <4>2. CASE card["sd"].state # "idle"
        BY <4>1, <4>2 DEF SettingsInv
      <4>3. CASE card["sd"].state = "idle" /\ ~up
        <5>1. c.state = "idle"
          BY <1>3, <3>2, <4>3, BecomesOf DEF c
        <5> QED BY <1>4, <3>2, <5>1
      <4>4. CASE up
        <5>1. Command.n = 141 /\ (HighCapacity => Command.arg = 1)
          BY <1>7, <3>2, <4>4 DEF PowersUp, Understands, HighCapacity
        <5>2. op.name = "sdcard_init" /\ at = 4 /\ (HighCapacity => op.hcs)
          BY <1>3, <5>1, ReadyCommand
        <5>3. Understands(op.dev, Command) /\ HasResponse(Command)
          BY <1>7, <4>4, <5>1 DEF PowersUp, HasResponse
        <5>4. reg' = [reg EXCEPT !.answered = TRUE, !.respond = HasResponse(reg.cmd),
                             !.busy = reg.cmd.data # "none",
                             !.resp = [n |-> reg.cmd.n, of |-> line.port, ready |-> up]]
          BY <1>1, <1>3, <5>3, Zenon
        <5>5. reg'.answered /\ ~reg'.err /\ reg'.resp.ready
          BY <1>5, <4>4, <5>4 DEF DriverType, RegType
        <5>6. Answered'
          BY <1>2, <1>3, <5>5 DEF Answered
        <5> QED BY <1>2, <1>3, <5>2, <5>6 DEF Upgrading, HighCapacity
      <4> QED BY <4>2, <4>3, <4>4
    <3> QED BY <3>1, <3>2
  <2>2. ~initialised => card'["sd"].state = "idle"
    <3>1. ASSUME ~initialised
          PROVE  op.name \notin Startups /\ card["sd"].state = "idle"
      BY <3>1 DEF SettingsInv
    <3>2. ASSUME ~initialised
          PROVE  ~up
      BY <1>3, <1>7, <3>1, <3>2, ReadyCommand DEF PowersUp, Startups
    <3>3. ASSUME ~initialised, op.dev = "sd"
          PROVE  c.state = "idle"
      BY <1>3, <3>1, <3>2, <3>3, BecomesOf DEF c
    <3> QED BY <1>3, <1>4, <3>1, <3>3 DEF Devices
  <2>3. HighCapacity' = HighCapacity
    BY <1>2 DEF HighCapacity
  <2> QED BY <1>3, <2>1, <2>2, <2>3 DEF SettingsInv
<1>11. FaultFree'
  <2>1. ASSUME faults = 0, op.name = "nand_init", at > 2
        PROVE  ~reg'.err
    <3>1. op.dev = "nand" /\ Device.initarg = 1 /\ at \in 3 .. 10 /\ Arrived(at)
      BY <1>2, <2>1, AtRange DEF SettingsInv, Device, Startups, StartupInv, Waits
    <3>2. Understands(line.port, reg.cmd)
      BY <1>3, <2>1, <3>1, NandWay
    <3> QED BY <1>5, <3>2, AnswerFields
  <2>2. ASSUME faults = 0, op.name = "get_cid", at = 2
        PROVE  ~reg'.err
    <3>1. op.dev = "nand" /\ Device.initarg = 1 /\ Arrived(at)
      BY <1>2, <1>3, <2>2, AtRange DEF SettingsInv, Device, StartupInv, Waits, Genuine
    <3>2. Understands(line.port, reg.cmd)
      BY <1>3, <2>2, <3>1, CidWay
    <3> QED BY <1>5, <3>2, AnswerFields
  <2> QED BY <1>2, <1>3, <1>5, <2>1, <2>2 DEF FaultFree
<1> QED BY <1>9, <1>10, <1>11

LEMMA CommandFailsWay ==
  ASSUME DriverType, ControllerInv, StartupInv, SettingsInv, FaultFree, CommandFails
  PROVE  StartupInv' /\ SettingsInv' /\ FaultFree'
<1>1. Live /\ Pending /\ UNCHANGED <<driverVars, kind>> /\ faults' # 0
  BY FailFields DEF ControllerInv, Pending, DriverType
<1>2. /\ UNCHANGED <<op, at, pc, result, dev, initialised, cid, Live, Device, Command>>
      /\ line.port = op.dev /\ op.dev \in Devices
  BY <1>1, ControllerKeepsCommand, DeviceTypes DEF driverVars, Live, Controller, ControllerInv
<1>3. ~Waits' /\ ~Answered' /\ ~Genuine' /\ ~Upgrading /\ pc \notin {"send", "end", "next", "idle"}
  BY <1>1, <1>2, FailFields DEF Waits, Pending, Live, ControllerInv, Answered, Genuine, Upgrading
<1>4. \/ card'["sd"] = card["sd"]
      \/ card["sd"].state = "idle" /\ card'["sd"].state = "idle"
      \/ card["sd"].state # "idle" /\ initialised
  <2>1. \/ card' = card
        \/ card' = [card EXCEPT ![op.dev] = Becomes(op.dev, reg.cmd)]
    BY <1>2 DEF CommandFails
  <2>2. card["sd"].state = "idle" /\ op.dev = "sd" => Becomes(op.dev, reg.cmd).state = "idle"
    BY <1>2, BecomesOf
  <2> QED BY <1>2, <2>1, <2>2 DEF DriverType, CardType, Devices, SettingsInv
<1>5. StartupInv'
  BY <1>2, <1>3 DEF StartupInv
<1>6. SettingsInv'
  <2>1. HighCapacity' = HighCapacity
    BY <1>1 DEF HighCapacity
  <2> QED BY <1>2, <1>3, <1>4, <2>1 DEF SettingsInv
<1>7. FaultFree'
  BY <1>1 DEF FaultFree
<1> QED BY <1>5, <1>6, <1>7

LEMMA BlockWay ==
  ASSUME DriverType, ControllerInv, StartupInv, SettingsInv, FaultFree, BlockArrives \/ BlockLeaves
  PROVE  StartupInv' /\ SettingsInv' /\ FaultFree'
<1>1. /\ Moving /\ reg.cmd.data # "none" /\ UNCHANGED <<driverVars, cardVars>>
      /\ \E f, st : MoveBlock(f, st)
  <2>1. CASE BlockArrives
    BY <2>1 DEF BlockArrives
  <2>2. CASE BlockLeaves
    BY <2>2 DEF BlockLeaves
  <2> QED BY <2>1, <2>2
<1>2. /\ UNCHANGED <<reg.answered, reg.resp>> /\ (reg.err => reg'.err)
      /\ faults' \in {faults, faults + 1}
  BY <1>1, MoveFields
<1>3. Live /\ ~Pending /\ ~Pending' /\ ~reg.err
  BY <1>1, <1>2 DEF ControllerInv, Pending, Moving
<1>4. /\ UNCHANGED <<op, at, pc, result, dev, initialised, cid, Live, Device, Command, card, kind>>
      /\ pc \notin {"send", "end", "next", "idle"} /\ reg.cmd = Command /\ op.name # "none"
  BY <1>1, <1>3, ControllerKeepsCommand DEF driverVars, cardVars, Live, Controller, ControllerInv
<1>5. op.name \notin {"nand_init", "get_cid"} /\ ~(op.name = "sdcard_init" /\ at = 4)
  BY <1>1, <1>4, ReadyCommand DEF Startups
<1>6. (Answered' => Answered) /\ ~Waits' /\ ~Genuine' /\ ~Upgrading
  BY <1>2, <1>3, <1>4, <1>5 DEF Answered, Waits, Genuine, Upgrading, Loops
<1>7. StartupInv'
  BY <1>4, <1>6, ArrivedSame DEF StartupInv
<1>8. SettingsInv'
  <2>1. HighCapacity' = HighCapacity
    BY <1>4 DEF HighCapacity
  <2> QED BY <1>4, <1>5, <1>6, <2>1 DEF SettingsInv
<1>9. FaultFree'
  BY <1>4, <1>5 DEF FaultFree
<1> QED BY <1>7, <1>8, <1>9

LEMMA StopsWay ==
  ASSUME DriverType, ControllerInv, StartupInv, SettingsInv, FaultFree, ControllerStops
  PROVE  StartupInv' /\ SettingsInv' /\ FaultFree'
<1>1. /\ reg.stopping /\ ~reg'.busy
      /\ UNCHANGED <<reg.answered, reg.err, reg.resp, reg.cmd, driverVars, cardVars, faults>>
  BY StopFields
<1>2. UNCHANGED <<op, at, pc, result, dev, initialised, cid, Live, Device, Command, card, kind>>
  BY <1>1, ControllerKeepsCommand DEF driverVars, cardVars, Controller
<1>3. UNCHANGED <<Answered, Waits, Genuine, Upgrading, Loops, HighCapacity>>
  <2>1. Loops' = Loops /\ Genuine' = Genuine /\ HighCapacity' = HighCapacity
    BY <1>1, <1>2 DEF Loops, Genuine, HighCapacity
  <2>2. Waits' = Waits
    BY <1>1, <1>2 DEF Waits, Pending
  <2>3. Answered' = Answered
    BY <1>1, <1>2, <2>1 DEF Answered, Error
  <2> QED BY <1>2, <2>1, <2>2, <2>3 DEF Upgrading
<1>4. Error(4)' = Error(4)
  BY <1>2 DEF Error
<1>5. StartupInv'
  BY <1>2, <1>3, ArrivedSame DEF StartupInv
<1>6. SettingsInv'
  BY <1>2, <1>3 DEF SettingsInv
<1>7. FaultFree'
  BY <1>1, <1>2, <1>4 DEF FaultFree
<1> QED BY <1>5, <1>6, <1>7

LEMMA ControllerWay ==
  ASSUME DriverType, ControllerInv, StartupInv, SettingsInv, FaultFree, Controller
  PROVE  StartupInv' /\ SettingsInv' /\ FaultFree'
BY CardAnswersWay, CommandFailsWay, BlockWay, StopsWay DEF Controller

-----------------------------------------------------------------------------
(* StartupInv, SettingsInv and FaultFree are kept by the driver.  Within a  *)
(* command the settings and the card stay; what is left to show is how the  *)
(* answer is handed on.                                                     *)
Broken == (Live /\ reg.err) \/ (pc \in {"end", "next"} /\ Error(4))
LEMMA WithinCommand ==
  ASSUME DriverType, StartupInv, SettingsInv, FaultFree,
         UNCHANGED <<op, at, result, initialised, cid, card, kind, faults>>,
         \A d \in Devices : Settings(d)' = Settings(d),
         pc # "idle", pc' # "idle", Waits' <=> Waits,
         op.name \in Startups /\ Answered' => Answered \/ at = 1,
         Upgrading => Upgrading', Broken' => Broken
  PROVE  StartupInv' /\ SettingsInv' /\ FaultFree'
<1>1. op.dev \in Devices
  BY DeviceTypes
<1>2. StartupInv'
  <2>1. Genuine' = Genuine
    BY DEF Genuine
  <2>2. op.name \in Startups /\ Answered' => Arrived(at + 1)
    <3>1. op.name \in Startups /\ at = 1 => Arrived(at + 1)
      BY EarlyArrived DEF Startups, Arrived
    <3> QED BY <3>1 DEF StartupInv
  <2>3. /\ Arrived(at)' <=> Arrived(at)
        /\ Arrived(at + 1)' <=> Arrived(at + 1)
    BY ArrivedSame
  <2> QED BY <2>1, <2>2, <2>3 DEF StartupInv
<1>3. SettingsInv'
  <2>1. \A d \in Devices : /\ dev'[d].initarg = dev[d].initarg /\ dev'[d].SDOPT = dev[d].SDOPT
                           /\ dev'[d].isSDHC = dev[d].isSDHC
    BY DEF Settings
  <2>2. HighCapacity' = HighCapacity
    BY DEF HighCapacity
  <2>3. "sd" \in Devices /\ "nand" \in Devices
    BY DEF Devices
  <2> QED BY <1>1, <2>1, <2>2, <2>3 DEF SettingsInv, Device
<1>4. FaultFree'
  <2>1. FaultFree' <=> (faults = 0 =>
           /\ op.name = "nand_init" /\ at > 2 => ~Broken'
           /\ op.name = "get_cid" => /\ at = 2 => ~Broken'
                                     /\ at = 3 => cid.n = 10 /\ cid.of = op.dev)
    BY DEF FaultFree, Broken
  <2>2. faults = 0 => /\ op.name = "nand_init" /\ at > 2 => ~Broken
                      /\ op.name = "get_cid" => /\ at = 2 => ~Broken
                                                /\ at = 3 => cid.n = 10 /\ cid.of = op.dev
    BY DEF FaultFree, Broken
  <2> QED BY <2>1, <2>2
<1> QED BY <1>2, <1>3, <1>4

LEMMA CommandWay ==
  ASSUME DriverType, ControllerInv, StartupInv, SettingsInv, FaultFree,
         Send \/ SampleStatus \/ Transfer \/ Check \/ End
  PROVE  StartupInv' /\ SettingsInv' /\ FaultFree'
<1>d. op.dev \in Devices
  BY DeviceTypes
<1>1. CASE Send
  <2>1. /\ UNCHANGED <<op, at, result, initialised, cid, card, kind, faults>> /\ pc = "send" /\ pc' = "status"
        /\ \A d \in Devices : Settings(d)' = Settings(d)
        /\ reg'.busy /\ ~reg'.answered /\ ~reg'.err /\ ~reg'.stopping
    BY <1>1, SendFields DEF cardVars, ControllerInv
  <2>2. Waits /\ Waits' /\ ~Answered' /\ ~Answered /\ ~Broken'
    BY <2>1 DEF Waits, Pending, Live, Answered, Broken
  <2> QED BY <2>1, <2>2, WithinCommand DEF Upgrading
<1>2. CASE SampleStatus \/ Transfer
  <2>1. /\ UNCHANGED <<op, at, result, initialised, cid, card, kind, faults, dev>>
        /\ UNCHANGED <<reg.busy, reg.answered, reg.stopping, reg.err, reg.resp>>
        /\ pc \in {"status", "transfer"} /\ pc' \in {"transfer", "check"}
    BY <1>2, TransferFields DEF SampleStatus, cardVars, controllerVars
  <2>2. Live /\ Live' /\ (Pending' <=> Pending) /\ \A d \in Devices : Settings(d)' = Settings(d)
    BY <2>1 DEF Live, Pending, Settings
  <2>3. (Waits' <=> Waits) /\ (Answered' <=> Answered) /\ (Broken' <=> Broken)
    BY <2>1, <2>2 DEF Waits, Answered, Broken, Loops
  <2>4. Upgrading => Upgrading'
    BY <2>1, <2>3 DEF Upgrading, HighCapacity
  <2> QED BY <2>1, <2>2, <2>3, <2>4, WithinCommand
<1>3. CASE Check
  <2>1. /\ UNCHANGED <<op, at, result, initialised, cid, card, kind, faults, reg>>
        /\ pc = "check" /\ Live /\ pc' \in {"end", "status"} /\ op.name # "none"
        /\ \A d \in Devices : Settings(d)' = Settings(d)
    BY <1>3, CheckFields DEF cardVars, controllerVars, Live, ControllerInv
  <2>2. CASE pc' = "status"
    <3>1. Live' /\ (Pending' <=> Pending)
      BY <2>1, <2>2 DEF Live, Pending
    <3>2. (Waits' <=> Waits) /\ (Answered' <=> Answered) /\ (Broken' <=> Broken)
      BY <2>1, <2>2, <3>1 DEF Waits, Answered, Broken, Loops
    <3>3. Upgrading => Upgrading'
      BY <2>1, <3>2 DEF Upgrading, HighCapacity
    <3> QED BY <2>1, <3>2, <3>3, WithinCommand
  <2>3. CASE pc' = "end" /\ status1.err
    <3>1. reg.err /\ Device'.error = Device.error \cup {4}
      BY <1>3, <2>1, <2>3, CheckFields DEF ControllerInv, Device
    <3>2. Error(4)' /\ ~Live' /\ ~Pending
      BY <2>1, <2>3, <3>1 DEF Error, Live, ControllerInv, Pending
    <3>3. ~Waits' /\ ~Waits /\ ~Answered' /\ ~Answered /\ Broken
      BY <2>1, <2>3, <3>1, <3>2 DEF Waits, Answered, Broken
    <3> QED BY <2>1, <2>3, <3>3, WithinCommand DEF Upgrading
  <2>4. CASE pc' = "end" /\ ~status1.err
    <3>1. Done /\ Device'.error = Device.error \cup Status0
      BY <1>3, <2>1, <2>4, CheckFields DEF ControllerInv, Device
    <3>2. ~Error(4)' /\ ~Live' /\ ~Pending
      BY <2>1, <2>4, <3>1 DEF Error, Live, ControllerInv, Pending, Status0, Done
    <3>3. ~Waits' /\ ~Waits /\ ~Broken'
      BY <2>1, <2>4, <3>1, <3>2 DEF Waits, Broken
    <3>4. reg.answered => (Answered' <=> Answered)
      BY <2>1, <2>4, <3>1, <3>2 DEF Answered, Loops, Done
    <3>5. Answered => reg.answered
      BY <2>1 DEF Answered, Live
    <3>6. op.name \in Startups => reg.answered \/ at = 1
      BY <2>1, <3>1, ReadyCommand DEF ControllerInv
    <3>7. Upgrading => Upgrading'
      BY <2>1, <3>4, <3>5 DEF Upgrading, HighCapacity
    <3> QED BY <2>1, <2>4, <3>3, <3>4, <3>6, <3>7, WithinCommand
  <2> QED BY <2>1, <2>2, <2>3, <2>4
<1>4. CASE End
  <2>1. /\ UNCHANGED <<op, at, result, initialised, cid, card, kind, faults>>
        /\ pc = "end" /\ pc' = "next" /\ op.name # "none"
        /\ \A d \in Devices : Settings(d)' = Settings(d)
        /\ Device'.error = Device.error
        /\ Device'.ret = IF HasResponse(Command) THEN reg.resp ELSE Device.ret
    BY <1>4, EndFields DEF cardVars, Device, ControllerInv
  <2>2. ~Live /\ ~Live' /\ ~Waits /\ ~Waits' /\ (Error(4)' <=> Error(4))
    BY <2>1 DEF Live, Waits, Error
  <2>3. Loops => HasResponse(Command)
    BY <2>1, ReadyCommand DEF Loops, Startups, HasResponse
  <2>4. (Answered' <=> Answered) /\ (Broken' <=> Broken)
    BY <2>1, <2>2, <2>3 DEF Answered, Broken, Loops
  <2>5. Upgrading => Upgrading'
    BY <2>1, <2>4 DEF Upgrading, HighCapacity
  <2> QED BY <2>1, <2>2, <2>4, <2>5, WithinCommand
<1> QED BY <1>1, <1>2, <1>3, <1>4

(* From one command to the next.                                            *)
LEMMA NextOf ==
  /\ op.name = "nand_init" => NextCommand = IF at = 2 /\ PoweringUp THEN 2 ELSE at + 1
  /\ op.name = "sdcard_init" => NextCommand = IF at = 4 /\ PoweringUp THEN 3
                                              ELSE IF at = 12 /\ ~op.cmd6 THEN 14 ELSE at + 1
  /\ op.name \notin Startups => NextCommand = at + 1
BY DEF NextCommand, Startups

LEMMA UpdatedSettings ==
  ASSUME DriverType
  PROVE  /\ Updated.ret = Device.ret /\ Updated.error = Device.error
         /\ Device.SDOPT => Updated.SDOPT
         /\ op.name = "nand_init" /\ at = 6 => Updated.SDOPT
         /\ op.name = "sdcard_init" /\ at = 11 => Updated.SDOPT
         /\ Updated.initarg = IF op.name = "sdcard_init" /\ at = 6
                              THEN RCA[Device.ret.of] ELSE Device.initarg
         /\ ~(op.name = "sdcard_init" /\ at = 4 /\ ~PoweringUp) => (Updated.isSDHC <=> Device.isSDHC)
         /\ op.name = "sdcard_init" /\ at = 4 /\ ~PoweringUp =>
              (Updated.isSDHC <=> op.hcs /\ HighCapacity)
<1>1. Device \in OneDevice
  BY DEF DriverType, OpType, DevType, Device
<1>2. CASE op.name = "nand_init"
  <2>1. CASE at = 5
    BY <1>1, <1>2, <2>1, UpdatedAt DEF OneDevice, OneCard
  <2>2. CASE at = 6
    BY <1>1, <1>2, <2>2, UpdatedAt DEF OneDevice, OneCard
  <2>3. CASE at = 10
    BY <1>1, <1>2, <2>3, UpdatedAt DEF OneDevice, OneCard
  <2>4. CASE at \notin {5, 6, 10}
    BY <1>1, <1>2, <2>4, UpdatedAt
  <2> QED BY <2>1, <2>2, <2>3, <2>4
<1>3. CASE op.name = "sdcard_init"
  <2>1. CASE at = 4 /\ PoweringUp
    BY <1>1, <1>3, <2>1, UpdatedAt
  <2>2. CASE at = 4 /\ ~PoweringUp
    <3>1. Updated = [Device EXCEPT !.isSDHC = op.hcs /\ "hc" \in kind]
      BY <1>3, <2>2, UpdatedAt
    <3>2. Updated.isSDHC <=> op.hcs /\ HighCapacity
      BY <1>1, <3>1, Zenon DEF HighCapacity, OneDevice, OneCard
    <3>3. PICK b \in BOOLEAN : Updated = [Device EXCEPT !.isSDHC = b]
      BY <3>1, Zenon
    <3> QED BY <1>1, <1>3, <2>2, <3>2, <3>3
  <2>3. CASE at = 6
    BY <1>1, <1>3, <2>3, UpdatedAt DEF OneDevice, OneCard
  <2>4. CASE at = 11
    BY <1>1, <1>3, <2>4, UpdatedAt DEF OneDevice, OneCard
  <2>5. CASE at = 12
    BY <1>1, <1>3, <2>5, UpdatedAt DEF OneDevice, OneCard
  <2>6. CASE at = 13
    BY <1>1, <1>3, <2>6, UpdatedAt DEF OneDevice, OneCard
  <2>7. CASE at \notin {4, 6, 11, 12, 13}
    BY <1>1, <1>3, <2>7, UpdatedAt
  <2> QED BY <2>1, <2>2, <2>3, <2>4, <2>5, <2>6, <2>7
<1>4. CASE op.name \notin Startups
  BY <1>4, UpdatedAt DEF Startups
<1> QED BY <1>2, <1>3, <1>4 DEF Startups

LEMMA StartupProceeds ==
  ASSUME DriverType, ControllerInv, StartupInv, SettingsInv, Proceed, op.name \in Startups
  PROVE  \/ NextCommand \in {2, 3} /\ NextCommand <= at
         \/ /\ NextCommand = at + 1 \/ (op.name = "sdcard_init" /\ at = 12 /\ NextCommand = 14)
            /\ (at = 1 \/ (op.name = "sdcard_init" /\ at \in {2, 3})) \/ (~Error(4) /\ Answered)
<1>1. pc = "next" /\ ~Failed
  BY DEF Proceed
<1>2. CASE op.name = "nand_init"
  <2>1. at \in 1 .. 10
    BY <1>2, AtRange
  <2>2. CASE at = 2 /\ PoweringUp
    BY <1>2, <2>2, NextOf
  <2>3. CASE at = 2 /\ ~PoweringUp
    <3>1. ~Error(4) /\ Device.ret.ready
      BY <1>1, <2>3 DEF PoweringUp, ControllerInv
    <3> QED BY <1>1, <1>2, <2>3, <3>1, NextOf DEF Answered
  <2>4. CASE at = 1
    BY <1>2, <2>4, NextOf
  <2>5. CASE at > 2
    <3>1. ~Error(4) /\ ~Loops
      BY <1>1, <1>2, <2>5 DEF Failed, Loops
    <3> QED BY <1>1, <1>2, <2>5, <3>1, NextOf DEF Answered
  <2> QED BY <2>1, <2>2, <2>3, <2>4, <2>5
<1>3. CASE op.name = "sdcard_init"
  <2>1. at \in 1 .. 15
    BY <1>3, AtRange
  <2>2. CASE at = 4 /\ PoweringUp
    BY <1>3, <2>2, NextOf
  <2>3. CASE at = 4 /\ ~PoweringUp
    <3>1. ~Error(4) /\ Device.ret.ready
      BY <1>1, <2>3 DEF PoweringUp, ControllerInv
    <3> QED BY <1>1, <1>3, <2>3, <3>1, NextOf DEF Answered
  <2>4. CASE at < 4
    BY <1>3, <2>1, <2>4, NextOf
  <2>5. CASE at > 4
    <3>1. ~Error(4) /\ ~Loops
      BY <1>1, <1>3, <2>5 DEF Failed, Loops
    <3> QED BY <1>1, <1>3, <2>1, <2>5, <3>1, NextOf DEF Answered
  <2> QED BY <2>1, <2>2, <2>3, <2>4, <2>5
<1> QED BY <1>2, <1>3 DEF Startups

LEMMA ArrivedMoves ==
  ASSUME op'.name = op.name, op'.dev = op.dev, kind' = kind, card' = card,
         at' \in Nat, op'.hcs = op.hcs \/ at' < 4
  PROVE  /\ Arrived(at)' <=> Arrived(at')
         /\ Arrived(at + 1)' <=> Arrived(at' + 1)
<1>1. ASSUME op'.hcs = op.hcs
      PROVE  /\ Arrived(at)' <=> Arrived(at')
             /\ Arrived(at + 1)' <=> Arrived(at' + 1)
  BY <1>1 DEF Arrived, ArrivedAs
<1>2. ASSUME at' < 4
      PROVE  /\ Arrived(at)' <=> Arrived(at')
             /\ Arrived(at + 1)' <=> Arrived(at' + 1)
  <2>1. PICK m \in Nat : m = at'
    OBVIOUS
  <2>2. ~(m >= 5) /\ ~(m + 1 >= 5)
    BY <1>2, <2>1
  <2>3. /\ Arrived(at)' <=> Arrived(m)
        /\ Arrived(at + 1)' <=> Arrived(m + 1)
    BY <2>1, <2>2 DEF Arrived, ArrivedAs
  <2> QED BY <2>1, <2>3
<1> QED BY <1>1, <1>2

LEMMA ProceedWay ==
  ASSUME DriverType, ControllerInv, StartupInv, SettingsInv, FaultFree, Proceed
  PROVE  StartupInv' /\ SettingsInv' /\ FaultFree'
<1>1. /\ pc = "next" /\ ~Failed /\ op.name # "none" /\ op.dev \in Devices /\ at \in 1 .. Last(op.name)
      /\ UNCHANGED <<initialised, card, kind, faults, op.name, op.dev>>
      /\ at' \in 1 .. Last(op.name)
      /\ \/ NextCommand <= Last(op.name) /\ at' = NextCommand /\ pc' = "send" /\ result' = result
         \/ NextCommand > Last(op.name) /\ at' = at /\ pc' = "idle" /\ result' = 0
  BY ProceedFields, DeviceTypes, DriverTypes DEF Proceed, ControllerInv, controllerVars, cardVars, DriverType, Driver
<1>2. /\ dev'[op.dev] = Updated /\ \A d \in Devices : d # op.dev => dev'[d] = dev[d]
      /\ cid' = IF op.name = "get_cid" /\ at = 2 THEN Device.ret ELSE cid
  BY <1>1, ProceedFields
<1>3. op'.hcs = op.hcs \/ (op.name = "sdcard_init" /\ at = 2)
  <2>1. op' = Locals /\ op \in OpType
    BY <1>1, ProceedFields DEF DriverType
  <2> QED BY <2>1 DEF Locals, OpType
<1>4. op.name = "sdcard_init" /\ at = 2 => at' < 4
  <2>1. ASSUME op.name = "sdcard_init", at = 2
        PROVE  at' < 4
    BY <1>1, <2>1, NextOf DEF Last
  <2> QED BY <2>1
<1>5. /\ Arrived(at)' <=> Arrived(at')
      /\ Arrived(at + 1)' <=> Arrived(at' + 1)
  <2>1. at' \in Nat
    BY <1>1 DEF Last
  <2> QED BY <1>1, <1>3, <1>4, <2>1, ArrivedMoves
<1>6. ~Live' /\ ~Answered' /\ (Waits' <=> pc' = "send") /\ (Genuine' <=> Genuine) /\ ~Waits
  BY <1>1 DEF Live, Answered, Waits, Genuine
<1>7. StartupInv'
  <2>1. CASE op.name \in Startups
    <3>1. at \in 1 .. 15 /\ at' \in 1 .. 15 /\ Last(op.name) \in {10, 15}
      BY <1>1, <2>1 DEF Startups, Last
    <3>2. CASE pc' = "send"
      <4>1. CASE at' \in {2, 3} /\ (op.name = "nand_init" => at' = 2)
        <5>1. Arrived(at')
          BY <2>1, <4>1, EarlyArrived DEF Arrived, Startups
        <5> QED BY <1>1, <1>5, <1>6, <2>1, <3>2, <5>1 DEF StartupInv, Genuine, Startups
      <4>2. CASE ~(at' \in {2, 3} /\ (op.name = "nand_init" => at' = 2))
        <5>1. at' = NextCommand /\ NextCommand > at
          <6>1. NextCommand \in {2, 3} /\ NextCommand <= at => NextCommand = IF op.name = "nand_init" THEN 2 ELSE 3
            BY <2>1, <3>1, NextOf DEF Startups
          <6> QED BY <1>1, <2>1, <3>1, <3>2, <4>2, <6>1, StartupProceeds
        <5>a. /\ NextCommand = at + 1 \/ (op.name = "sdcard_init" /\ at = 12 /\ NextCommand = 14)
              /\ (at = 1 \/ (op.name = "sdcard_init" /\ at \in {2, 3})) \/ (~Error(4) /\ Answered)
          <6>1. ~(NextCommand <= at)
            BY <3>1, <5>1
          <6> QED BY <1>1, <2>1, <6>1, StartupProceeds
        <5>2. /\ at' = at + 1 \/ (op.name = "sdcard_init" /\ at = 12 /\ at' = 14)
              /\ Arrived(at + 1) \/ at = 1 \/ (op.name = "sdcard_init" /\ at \in {2, 3})
          BY <2>1, <5>1, <5>a DEF StartupInv
        <5>3. Arrived(at')
          <6>1. CASE at' = at + 1 /\ Arrived(at + 1)
            BY <6>1
          <6>2. CASE at' = at + 1 /\ ~Arrived(at + 1)
            <7>1. op.name = "sdcard_init" /\ at' \in 1 .. 4
              BY <2>1, <3>1, <4>2, <5>2, <6>2 DEF Startups
            <7> QED BY <7>1, EarlyArrived DEF Arrived
          <6>3. CASE op.name = "sdcard_init" /\ at = 12 /\ at' = 14
            <7>1. op.dev = "sd" /\ ArrivedAs(card[op.dev], 13)
              BY <5>2, <6>3 DEF SettingsInv, Arrived
            <7>2. ArrivedAs(card[op.dev], 14)
              BY <6>3, <7>1, SdStation
            <7> QED BY <6>3, <7>2 DEF Arrived
          <6> QED BY <5>2, <6>1, <6>2, <6>3
        <5> QED BY <1>1, <1>5, <1>6, <2>1, <3>2, <5>3 DEF StartupInv, Genuine, Startups
      <4> QED BY <4>1, <4>2
    <3>3. CASE pc' = "idle"
      <4>1. at' = at /\ NextCommand > Last(op.name)
        BY <1>1, <3>3
      <4>2. at = Last(op.name) /\ at >= 10 /\ Arrived(at + 1)
        BY <1>1, <2>1, <3>1, <4>1, StartupProceeds DEF StartupInv, Last, Startups
      <4> QED BY <1>1, <1>5, <1>6, <2>1, <3>3, <4>1, <4>2 DEF StartupInv, Genuine, Startups
    <3> QED BY <1>1, <3>2, <3>3
  <2>2. CASE Genuine
    <3>1. NextCommand = at + 1 /\ Arrived(at + 1) /\ Last(op.name) = 3 /\ at \in 1 .. 3
      BY <1>1, <1>6, <2>2, NextOf, AtRange DEF Genuine, StartupInv, Last, Startups
    <3>2. CASE pc' = "send"
      BY <1>1, <1>5, <1>6, <2>2, <3>1, <3>2 DEF StartupInv, Genuine, Startups
    <3>3. CASE pc' = "idle"
      <4>1. at' = 3 /\ at = 3 /\ Arrived(at' + 1)
        BY <1>1, <3>1, <3>3
      <4>2. Arrived(4)'
        <5>1. (at + 1)' = 4
          BY <4>1
        <5>2. Arrived(at + 1)'
          BY <1>5, <4>1
        <5> QED BY <5>1, <5>2 DEF Arrived, ArrivedAs
      <4> QED BY <1>1, <1>6, <2>2, <3>3, <4>2 DEF StartupInv, Genuine, Startups
    <3> QED BY <1>1, <3>2, <3>3
  <2>3. CASE op.name \notin Startups /\ ~Genuine
    BY <1>1, <1>6, <2>3 DEF StartupInv
  <2> QED BY <2>1, <2>2, <2>3
<1>8. SettingsInv'
  <2>a. /\ Updated.SDOPT = TRUE \/ ~(op.name = "nand_init" /\ at >= 6)
        /\ Updated.SDOPT = TRUE \/ ~(op.name = "sdcard_init" /\ at >= 11)
    BY UpdatedSettings DEF SettingsInv, DriverType, Last
  <2>b. at \in Nat /\ at' \in Nat /\ (at' = at \/ at' = NextCommand)
    BY <1>1 DEF Last
  <2>c. HighCapacity' = HighCapacity
    BY <1>1 DEF HighCapacity
  <2>1. op.name = "nand_init" /\ at' > 6 => Device'.SDOPT
    <3>1. op.name = "nand_init" /\ at' > 6 => at >= 6
      BY <2>b, NextOf
    <3> QED BY <1>1, <1>2, <2>a, <3>1 DEF Device
  <2>2. op.name = "sdcard_init" /\ at' > 11 => Device'.SDOPT
    <3>1. op.name = "sdcard_init" /\ at' > 11 => at >= 11
      BY <2>b, NextOf
    <3> QED BY <1>1, <1>2, <2>a, <3>1 DEF Device
  <2>3. op.name = "sdcard_init" /\ at' > 6 => Device'.initarg = RCA["sd"]
    <3>1. op.name = "sdcard_init" /\ at' > 6 => at >= 6
      BY <2>b, NextOf
    <3>2. op.name = "sdcard_init" /\ at = 6 => Device.ret.of = "sd"
      <4>1. op.name = "sdcard_init" /\ at = 6 => ~Error(4) /\ HasResponse(Command)
        BY <1>1, ReadyCommand DEF Failed
      <4> QED BY <1>1, <4>1 DEF ControllerInv, SettingsInv
    <3>3. op.name = "sdcard_init" /\ at > 6 => Device.initarg = RCA["sd"]
      BY DEF SettingsInv
    <3>4. Updated.initarg = IF op.name = "sdcard_init" /\ at = 6
                            THEN RCA[Device.ret.of] ELSE Device.initarg
      BY UpdatedSettings
    <3>5. Device'.initarg = Updated.initarg
      BY <1>1, <1>2 DEF Device
    <3>6. CASE at = 6
      BY <3>2, <3>4, <3>5, <3>6
    <3>7. CASE at # 6
      BY <2>b, <3>1, <3>3, <3>4, <3>5, <3>7
    <3> QED BY <3>6, <3>7
  <2>4. /\ initialised => dev'["nand"].initarg = 1
        /\ ~dev'["nand"].isSDHC
    <3>1. CASE op.dev = "nand"
      <4>1. op.name # "sdcard_init"
        BY <3>1 DEF SettingsInv
      <4> QED BY <1>2, <3>1, <4>1, UpdatedSettings DEF SettingsInv, Device
    <3>2. CASE op.dev # "nand"
      BY <1>2, <3>2 DEF SettingsInv, Devices
    <3> QED BY <3>1, <3>2
  <2>5. card["sd"].state # "idle" => (dev'["sd"].isSDHC <=> HighCapacity)
    <3>1. CASE op.dev # "sd"
      <4>1. ~Upgrading
        BY <3>1 DEF Upgrading, SettingsInv
      <4> QED BY <1>2, <3>1, <4>1 DEF SettingsInv, Devices
    <3>2. CASE op.dev = "sd" /\ op.name = "sdcard_init" /\ at = 4 /\ ~PoweringUp
      <4>1. Error(1) /\ Device.ret.ready /\ ~Error(4)
        BY <1>1, <3>2 DEF PoweringUp, ControllerInv
      <4>2. Arrived(at + 1)
        BY <1>1, <3>2, <4>1 DEF Answered, StartupInv, Startups
      <4>3. HighCapacity => op.hcs
        BY <3>2, <4>2 DEF Arrived, ArrivedAs, HighCapacity
      <4>4. Updated.isSDHC <=> op.hcs /\ HighCapacity
        BY <3>2, UpdatedSettings
      <4> QED BY <1>2, <3>2, <4>3, <4>4
    <3>3. CASE op.dev = "sd" /\ ~(op.name = "sdcard_init" /\ at = 4 /\ ~PoweringUp)
      <4>1. ~Upgrading
        <5>1. ASSUME Upgrading
              PROVE  FALSE
          <6>1. op.name = "sdcard_init" /\ at = 4 /\ ~Error(4) /\ Device.ret.ready
            BY <1>1, <5>1 DEF Upgrading, Answered, Loops, Live
          <6>2. HasResponse(Command) /\ Error(1)
            BY <1>1, <6>1, ReadyCommand DEF ControllerInv
          <6> QED BY <3>3, <6>1, <6>2 DEF PoweringUp
        <5> QED BY <5>1
      <4>2. Updated.isSDHC <=> Device.isSDHC
        BY <3>3, UpdatedSettings
      <4> QED BY <1>2, <3>3, <4>1, <4>2 DEF SettingsInv, Device
    <3> QED BY <3>1, <3>2, <3>3
  <2> QED BY <1>1, <2>c, <2>1, <2>2, <2>3, <2>4, <2>5 DEF SettingsInv
<1>9. FaultFree'
  <2>1. faults = 0 /\ op.name = "get_cid" /\ at' = 3 => cid'.n = 10 /\ cid'.of = op.dev
    <3>1. CASE op.name = "get_cid" /\ at = 2 /\ faults = 0
      <4>1. Command.n = 10 /\ HasResponse(Command)
        BY <3>1, OtherCommand DEF Cmd, HasResponse
      <4>2. ~Error(4)
        BY <1>1, <3>1 DEF FaultFree
      <4> QED BY <1>1, <1>2, <3>1, <4>1, <4>2 DEF ControllerInv
    <3>2. CASE op.name = "get_cid" /\ at # 2 /\ faults = 0 /\ at' = 3
      <4>1. at = 3
        BY <1>1, <3>2, NextOf, AtRange DEF Startups
      <4> QED BY <1>2, <3>2, <4>1 DEF FaultFree
    <3> QED BY <3>1, <3>2
  <2>2. ~Live' /\ pc' \notin {"end", "next"}
    BY <1>1 DEF Live
  <2>3. op.name = "get_cid" /\ pc' = "idle" => at' = 3
    BY <1>1, NextOf, AtRange DEF Startups, Last
  <2> QED BY <1>1, <2>1, <2>2, <2>3 DEF FaultFree
<1> QED BY <1>7, <1>8, <1>9

LEMMA ReturnErrorWay ==
  ASSUME DriverType, ControllerInv, StartupInv, SettingsInv, FaultFree, ReturnError
  PROVE  StartupInv' /\ SettingsInv' /\ FaultFree'
<1>1. /\ pc = "next" /\ Failed /\ Error(4) /\ pc' = "idle" /\ result' = 1
      /\ UNCHANGED <<op, at, dev, initialised, cid, card, kind, faults>>
  BY DEF ReturnError, Failed, controllerVars, cardVars
<1>2. ~Waits' /\ ~Answered' /\ ~Upgrading /\ ~Live'
  BY <1>1 DEF Waits, Answered, Upgrading, Live
<1>3. op.name # "get_cid" /\ ~Genuine' /\ ~(op.name = "nand_init" /\ faults = 0)
  BY <1>1 DEF Failed, Genuine, FaultFree, Startups
<1>4. StartupInv'
  BY <1>1, <1>2, <1>3 DEF StartupInv
<1>5. SettingsInv'
  <2>1. HighCapacity' = HighCapacity /\ Device' = Device
    BY <1>1 DEF HighCapacity, Device
  <2> QED BY <1>1, <1>2, <2>1 DEF SettingsInv
<1>6. FaultFree'
  BY <1>1, <1>2, <1>3 DEF FaultFree
<1> QED BY <1>4, <1>5, <1>6

LEMMA DriverWay ==
  ASSUME DriverType, ControllerInv, StartupInv, SettingsInv, FaultFree, Driver
  PROVE  StartupInv' /\ SettingsInv' /\ FaultFree'
BY CommandWay, ProceedWay, ReturnErrorWay DEF Driver

-----------------------------------------------------------------------------
(* Transfers.                                                               *)
LEMMA TransferCommand ==
  ASSUME DriverType, op.name \in Transfers
  PROVE  /\ at = 1 /\ Command.n \in {18, 25} /\ HasResponse(Command)
         /\ Command.arg = Address(op.dev, op.first)
         /\ Command.data = IF op.name = "readsectors" THEN "read" ELSE "write"
         /\ op.name \notin Startups
<1>1. at = 1
  BY AtRange
<1>2. CASE op.name = "readsectors"
  BY <1>1, <1>2, OtherCommand DEF Data, HasResponse, Startups
<1>3. CASE op.name = "writesectors"
  BY <1>1, <1>3, OtherCommand DEF Data, HasResponse, Startups
<1> QED BY <1>2, <1>3 DEF Transfers

(* The sector the card takes a block for is the one the caller means.       *)
LEMMA SectorMeant ==
  ASSUME DriverType, ControllerInv, SettingsInv, TransferInv, op.name \in Transfers,
         Live, ~reg.err, reg.answered
  PROVE  BlockOf(op.dev, reg.moved) = Place(reg.moved + 1)
<1>1. reg.cmd = Command /\ card[op.dev].state = "tran"
  BY DEF ControllerInv, TransferInv
<1>2. /\ reg.cmd.n # 6 /\ reg.cmd.arg = Address(op.dev, op.first)
      /\ op.first \in Nat /\ op.dev \in Devices /\ reg.moved \in Nat
  BY <1>1, TransferCommand, DeviceTypes DEF DriverType, RegType
<1>3. dev[op.dev].isSDHC <=> op.dev = "sd" /\ HighCapacity
  <2>1. ~Upgrading
    BY DEF Upgrading, Transfers
  <2> QED BY <1>1, <1>2, <2>1 DEF SettingsInv, Devices
<1>4. (op.first * 512) \div 512 = op.first
  BY <1>2
<1>5. BlockOf(op.dev, reg.moved) = <<op.dev, op.first + reg.moved>>
  BY <1>2, <1>3, <1>4 DEF BlockOf, Address, HighCapacity
<1> QED BY <1>2, <1>5 DEF Place

LEMMA ZeroOrOne ==
  ASSUME NEW T, NEW f \in Seq(T), Len(f) <= 1
  PROVE  f = <<>> \/ Len(f) = 1
<1>1. Len(f) \in Nat
  BY LenProperties, Zenon
<1>2. Len(f) = 0 \/ Len(f) = 1
  BY <1>1
<1>3. Len(f) = 0 => f = <<>>
  BY EmptySeq, Zenon
<1> QED BY <1>2, <1>3

LEMMA OneMore ==
  ASSUME NEW T, NEW s \in Seq(T), NEW f \in Seq(T), Len(f) = 1
  PROVE  /\ Len(s \o f) = Len(s) + 1
         /\ \A k \in 1 .. Len(s) : (s \o f)[k] = s[k]
         /\ (s \o f)[Len(s) + 1] = f[1]
<1>1. Len(s) \in Nat
  BY LenProperties, Zenon
<1>2. /\ Len(s \o f) = Len(s) + Len(f)
      /\ \A k \in 1 .. Len(s) + Len(f) : (s \o f)[k] = IF k <= Len(s) THEN s[k] ELSE f[k - Len(s)]
  BY ConcatProperties, Zenon
<1>3. ASSUME NEW m \in Nat, NEW k \in 1 .. m + 1
      PROVE  /\ k \in 1 .. m => k <= m
             /\ k = m + 1 => ~(k <= m) /\ k - m = 1
  OBVIOUS
<1>4. ASSUME NEW k \in 1 .. Len(s) + 1
      PROVE  (s \o f)[k] = IF k <= Len(s) THEN s[k] ELSE f[k - Len(s)]
  BY <1>2
<1>5. Len(s) + 1 \in 1 .. Len(s) + 1 /\ \A k \in 1 .. Len(s) : k \in 1 .. Len(s) + 1
  BY <1>1
<1> QED BY <1>1, <1>2, <1>3, <1>4, <1>5

LEMMA OnePush ==
  ASSUME NEW T, NEW s \in Seq(T), NEW x \in T
  PROVE  /\ Len(Append(s, x)) = Len(s) + 1
         /\ \A k \in 1 .. Len(s) : Append(s, x)[k] = s[k]
         /\ Append(s, x)[Len(s) + 1] = x
<1>1. Len(s) \in Nat
  BY LenProperties, Zenon
<1> QED BY <1>1

(* The card is selected when it answers.                                    *)
LEMMA ControllerTransfers ==
  ASSUME DriverType, ControllerInv, TransferInv, Controller
  PROVE  TransferInv'
<1>1. UNCHANGED <<op, pc, Live, Command>>
  BY ControllerKeepsCommand DEF driverVars
<1>2. ASSUME op.name \in Transfers, Live, ~reg'.err, reg'.answered
      PROVE  card'[op.dev].state = "tran"
  <2>1. reg.cmd = Command /\ line.port = op.dev /\ op.dev \in Devices
    BY <1>2, DeviceTypes DEF ControllerInv, Live
  <2>2. CASE CardAnswers
    <3>1. Understands(op.dev, Command)
      BY <1>2, <2>1, <2>2, AnswerFields, TransferCommand
    <3>2. card[op.dev].state = "tran" /\ Becomes(op.dev, Command) = card[op.dev]
      BY <1>2, <3>1, TransferCommand DEF Understands, Becomes
    <3>3. ~PowersUp(op.dev, Command)
      BY <1>2, TransferCommand DEF PowersUp
    <3>4. card' = [card EXCEPT ![op.dev] = card[op.dev]]
      BY <2>1, <2>2, <3>2, <3>3 DEF CardAnswers
    <3> QED BY <2>1, <3>2, <3>4 DEF DriverType, CardType
  <2>3. CASE CommandFails
    BY <1>2, <2>3, FailFields
  <2>4. CASE BlockArrives \/ BlockLeaves
    <3>1. card' = card /\ Moving /\ \E f, st : MoveBlock(f, st)
      BY <2>4 DEF BlockArrives, BlockLeaves, cardVars
    <3>2. ~reg.err
      BY <1>2, <3>1 DEF ControllerInv, Moving
    <3> QED BY <1>2, <3>1, <3>2 DEF TransferInv, Moving
  <2>5. CASE ControllerStops
    BY <1>2, <2>5, StopFields DEF TransferInv, cardVars
  <2> QED BY <2>2, <2>3, <2>4, <2>5 DEF Controller
<1> QED BY <1>1, <1>2 DEF TransferInv

LEMMA DriverTransfers ==
  ASSUME DriverType, ControllerInv, TransferInv, Driver
  PROVE  TransferInv'
<1>1. CASE Send
  BY <1>1, SendFields DEF TransferInv
<1>2. CASE SampleStatus
  BY <1>2 DEF SampleStatus, TransferInv, controllerVars, cardVars, Live
<1>3. CASE Transfer
  BY <1>3, TransferFields DEF TransferInv, cardVars, Live
<1>4. CASE Check
  BY <1>4, CheckFields DEF TransferInv, controllerVars, cardVars, Live
<1>5. CASE End \/ Proceed \/ ReturnError
  <2>1. ~Live'
    BY <1>5 DEF End, Proceed, ReturnError, Live
  <2> QED BY <2>1 DEF TransferInv
<1> QED BY <1>1, <1>2, <1>3, <1>4, <1>5 DEF Driver

(* What is kept of a read when nothing but the controller moves.            *)
LEMMA ControllerReads ==
  ASSUME DriverType, ControllerInv, SettingsInv, TransferInv, ReadInv, Controller
  PROVE  ReadInv'
<1> SUFFICES ASSUME op.name = "readsectors"
             PROVE  ReadInv'
  BY ControllerKeepsCommand DEF ReadInv, driverVars
<1>1. /\ UNCHANGED <<op, pc, result, dev, status1, size, data, Live>> /\ op.name \in Transfers
      /\ op.dev \in Devices /\ (Live => line.port = op.dev)
  BY ControllerKeepsCommand, DeviceTypes DEF driverVars, Transfers, ControllerInv, Live
<1>2. /\ Moved' = Moved /\ \A k \in Nat : Place(k)' = Place(k)
  BY <1>1 DEF Moved, Error, Device, Place
<1>3. data \in Seq(Items) /\ Len(data) \in Nat /\ op.n \in Nat /\ size \in Int
  BY DeviceTypes DEF DriverType
<1>4. Live => reg.cmd = Command /\ HasResponse(Command) /\ Command.data = "read"
  BY <1>1, TransferCommand DEF ControllerInv
<1>5. CASE CardAnswers
  <2>1. Live /\ Pending /\ (reg'.err \/ (reg'.answered /\ reg'.busy))
        /\ UNCHANGED <<reg.fifo, reg.moved>> /\ (reg.err => reg'.err)
    BY <1>4, <1>5, AnswerFields DEF ControllerInv, Pending
  <2> QED BY <1>1, <1>2, <2>1 DEF ReadInv, Pending, Done, Moved, Live
<1>6. CASE CommandFails
  <2>1. Live /\ Pending /\ reg'.err /\ reg'.fifo = reg.fifo
    BY <1>4, <1>6, FailFields DEF ControllerInv, Pending
  <2> QED BY <1>1, <1>2, <2>1 DEF ReadInv, Moved, Live
<1>7. CASE BlockArrives
  <2>1. /\ Live /\ ~reg.err /\ reg.answered /\ reg.busy /\ reg.fifo = <<>>
        /\ ~(pc = "check" /\ ~status1.err /\ ~status1.busy)
    BY <1>1, <1>7 DEF BlockArrives, Moving, ControllerInv, Done
  <2>2. BlockOf(line.port, reg.moved) = Place(reg.moved + 1) /\ Blocks = op.n
    BY <1>1, <1>4, <2>1, SectorMeant, TransferCommand DEF ControllerInv, Blocks
  <2>3. MoveBlock(<<Place(reg.moved + 1)>>, reg.stored)
    BY <1>7, <2>2 DEF BlockArrives
  <2>4. CASE reg'.err
    BY <1>1, <1>2, <2>1, <2>4 DEF ReadInv, Moved, Live
  <2>5. CASE ~reg'.err
    <3>1. /\ reg'.fifo = <<Place(reg.moved + 1)>> /\ reg'.moved = reg.moved + 1
          /\ (reg'.busy <=> reg.moved + 1 # op.n) /\ reg'.answered
      BY <2>1, <2>2, <2>3, <2>5, MoveFields
    <3>2. reg.moved = Len(data)
      BY <1>3, <2>1 DEF ReadInv
    <3>3. /\ reg'.moved = Len(data) + Len(reg'.fifo) /\ reg'.fifo[1] = Place(Len(data) + 1)
      BY <1>3, <3>1, <3>2
    <3> QED BY <1>1, <1>2, <1>3, <2>1, <3>1, <3>2, <3>3 DEF ReadInv, Pending, Done, Moved, Live
  <2> QED BY <2>4, <2>5
<1>8. CASE BlockLeaves
  <2>1. Live /\ reg.cmd.data = "write"
    BY <1>8 DEF BlockLeaves, Moving, ControllerInv
  <2> QED BY <1>4, <2>1
<1>9. CASE ControllerStops
  <2>1. reg.stopping /\ UNCHANGED <<reg.err, reg.fifo>>
    BY <1>9, StopFields
  <2>2. Live => reg.err
    BY <2>1 DEF ControllerInv
  <2> QED BY <1>1, <1>2, <2>1, <2>2 DEF ReadInv, Moved, Live
<1> QED BY <1>5, <1>6, <1>7, <1>8, <1>9 DEF Controller

LEMMA DriverReads ==
  ASSUME DriverType, ControllerInv, ReadInv, Driver
  PROVE  ReadInv'
<1>n. op'.name = op.name
  <2>1. CASE Proceed
    BY <2>1, LocalsType DEF Proceed
  <2> QED BY <2>1 DEF Driver, Send, SampleStatus, Transfer, Check, End, ReturnError
<1> SUFFICES ASSUME op.name = "readsectors"
             PROVE  ReadInv'
  BY <1>n DEF ReadInv
<1>1. op.name \in Transfers /\ op.dev \in Devices /\ data \in Seq(Items) /\ Len(data) \in Nat
      /\ op.n \in Nat /\ size \in Int /\ reg.fifo \in Seq(Items)
  BY DeviceTypes DEF DriverType, Transfers, RegType
<1>2. ASSUME op' = op
      PROVE  \A k \in Nat : Place(k)' = Place(k)
  BY <1>2 DEF Place
<1>3. CASE Send
  <2>1. Live' /\ ~Moved' /\ Len(<<>>) = 0 /\ ~Done'
    BY <1>3, SendFields DEF Live, Moved, Done
  <2>2. data = <<>> /\ data' = <<>> /\ op' = op /\ pc' = "status"
    BY <1>3, SendFields DEF ReadInv
  <2> QED BY <1>1, <1>2, <1>3, <2>1, <2>2, SendFields DEF ReadInv, Pending
<1>4. CASE SampleStatus
  <2>1. UNCHANGED <<op, reg, data, size>> /\ pc = "status" /\ pc' = "transfer"
    BY <1>4 DEF SampleStatus, controllerVars
  <2>2. Live /\ Live' /\ ~Moved' /\ Pending' = Pending /\ Done' = Done
    BY <2>1 DEF Live, Moved, Pending, Done
  <2> QED BY <1>2, <2>1, <2>2 DEF ReadInv
<1>5. CASE Transfer
  <2>1. Live /\ Live' /\ ~Moved' /\ (Pending' <=> Pending) /\ (Done' <=> Done)
        /\ op' = op /\ status1' = status1 /\ reg'.moved = reg.moved /\ reg'.err = reg.err
        /\ pc = "transfer" /\ pc' = "check"
    BY <1>5, TransferFields DEF Live, Moved, Pending, Done
  <2>2. ~Delivers /\ Command.data = "read" /\ Command.n # 6
    BY <1>1, TransferCommand DEF Delivers
  <2>3. CASE Receives
    <3>1. /\ data' = data \o reg.fifo /\ reg'.fifo = <<>> /\ size' = size - 1 /\ size > 0
          /\ Len(reg.fifo) = 1
      <4>3. Len(reg.fifo) = 1
        BY <1>1, <2>3, ZeroOrOne DEF ControllerInv, Receives
      <4>4. size > 0
        BY <2>3 DEF Receives
      <4>5. data' = data \o reg.fifo /\ reg'.fifo = <<>> /\ size' = size - 1
        BY <1>5, <2>2, <2>3, TransferFields
      <4> QED BY <4>3, <4>4, <4>5
    <3>2. /\ Len(data') = Len(data) + 1 /\ Len(<<>>) = 0
          /\ \A k \in 1 .. Len(data) : data'[k] = data[k]
          /\ data'[Len(data) + 1] = reg.fifo[1]
      BY <1>1, <3>1, OneMore
    <3>3. ~reg'.err => \A k \in 1 .. Len(data') : data'[k] = Place(k)
      BY <1>1, <2>1, <3>1, <3>2 DEF ReadInv
    <3>4. size' + Len(data') = op.n /\ size' >= 0
      BY <1>1, <2>1, <3>1, <3>2 DEF ReadInv
    <3>5. Len(reg'.fifo) = 0
      BY <3>1, <3>2
    <3>6. ~reg'.err => /\ reg'.moved = Len(data') + Len(reg'.fifo)
                       /\ Pending' => reg'.moved = 0
                       /\ Done' => reg'.moved = op.n
      BY <1>1, <2>1, <3>1, <3>2, <3>5 DEF ReadInv
    <3>7. reg'.fifo = <<>> /\ pc' # "send"
      BY <2>1, <3>1
    <3>8. ~Moved' /\ op' = op
      BY <2>1
    <3>9. Len(reg'.fifo) # 1
      BY <3>5
    <3> QED BY <3>3, <3>4, <3>6, <3>7, <3>8, <3>9, SMTT(60) DEF ReadInv, Place
  <2>4. CASE ~Receives
    <3>1. data' = data /\ reg' = reg /\ size' = size
      BY <1>5, <2>2, <2>4, TransferFields
    <3>2. ASSUME ~status1.err, ~status1.busy
          PROVE  reg.fifo = <<>>
      <4>1. Done /\ ~reg.err
        BY <2>1, <3>2 DEF ControllerInv, Done
      <4>2. size = Len(reg.fifo)
        BY <1>1, <2>1, <4>1 DEF ReadInv
      <4>3. reg.fifo = <<>> \/ size = 0
        BY <1>1, <2>2, <2>4, <4>2 DEF Receives
      <4> QED BY <1>1, <4>2, <4>3
    <3> QED BY <1>2, <2>1, <3>1, <3>2 DEF ReadInv
  <2> QED BY <2>3, <2>4
<1>6. CASE Check
  <2>1. UNCHANGED <<op, reg, data, size, status1>> /\ pc = "check" /\ Live /\ pc' \in {"end", "status"}
    BY <1>6, CheckFields DEF controllerVars, Live
  <2>2. CASE pc' = "status"
    <3>1. Live' /\ ~Moved' /\ (Pending' <=> Pending) /\ (Done' <=> Done)
      BY <2>1, <2>2 DEF Live, Moved, Pending, Done
    <3> QED BY <1>2, <2>1, <2>2, <3>1 DEF ReadInv
  <2>3. CASE pc' = "end"
    <3>1. ~Live'
      BY <2>3 DEF Live
    <3>2. ASSUME Moved'
          PROVE  Len(data) = op.n /\ \A k \in 1 .. op.n : data[k] = Place(k)
      <4>1. ~status1.err /\ ~status1.busy
        BY <1>6, <2>1, <2>3, <3>2, CheckFields DEF Moved, Error, Device
      <4>2. Done /\ reg.fifo = <<>>
        BY <2>1, <4>1 DEF ControllerInv, ReadInv
      <4> QED BY <1>1, <2>1, <4>2 DEF ReadInv, Done
    <3> QED BY <1>1, <1>2, <2>1, <2>3, <3>1, <3>2 DEF ReadInv
  <2> QED BY <2>1, <2>2, <2>3
<1>7. CASE End
  <2>1. UNCHANGED <<op, data>> /\ pc = "end" /\ pc' = "next" /\ Device'.error = Device.error
    BY <1>7, EndFields DEF Device
  <2>2. ~Live' /\ (Moved' => Moved)
    BY <2>1 DEF Live, Moved, Error
  <2> QED BY <1>1, <1>2, <2>1, <2>2 DEF ReadInv
<1>8. CASE Proceed
  <2>1. /\ at = 1 /\ NextCommand = 2 /\ Last(op.name) = 1
    BY <1>1, TransferCommand, NextOf DEF Last
  <2>2. pc = "next" /\ pc' = "idle" /\ data' = data /\ op'.dev = op.dev /\ op'.first = op.first
        /\ op'.n = op.n /\ ~Failed
    BY <1>8, <2>1, ProceedFields DEF ControllerInv
  <2>3. Moved
    BY <1>1, <2>2 DEF Moved, Failed, Transfers
  <2>4. ~Live' /\ \A k \in Nat : Place(k)' = Place(k)
    BY <2>2 DEF Live, Place
  <2> QED BY <1>1, <2>2, <2>3, <2>4 DEF ReadInv
<1>9. CASE ReturnError
  <2>1. ~Live' /\ ~Moved' /\ pc' = "idle"
    BY <1>9 DEF ReturnError, Live, Moved
  <2> QED BY <2>1 DEF ReadInv
<1> QED BY <1>3, <1>4, <1>5, <1>6, <1>7, <1>8, <1>9 DEF Driver

LEMMA ControllerWrites ==
  ASSUME DriverType, ControllerInv, SettingsInv, TransferInv, WriteInv, Controller
  PROVE  WriteInv'
<1> SUFFICES ASSUME op.name = "writesectors"
             PROVE  WriteInv'
  BY ControllerKeepsCommand DEF WriteInv, driverVars
<1>1. /\ UNCHANGED <<op, pc, result, dev, size, Live>> /\ op.name \in Transfers
      /\ op.dev \in Devices /\ (Live => line.port = op.dev)
  BY ControllerKeepsCommand, DeviceTypes DEF driverVars, Transfers, ControllerInv, Live
<1>2. /\ Moved' = Moved /\ \A k \in Nat : Place(k)' = Place(k)
  BY <1>1 DEF Moved, Error, Device, Place
<1>3. /\ reg.stored \in Seq(Sectors \X Items) /\ Len(reg.stored) \in Nat /\ op.n \in Nat
      /\ size \in Int /\ reg.fifo \in Seq(Items)
  <2>1. reg.stored \in Seq(Sectors \X Items) /\ op.n \in Nat /\ size \in Int /\ reg.fifo \in Seq(Items)
    BY DeviceTypes DEF DriverType, RegType
  <2> QED BY <2>1, LenProperties, Zenon
<1>4. Live => reg.cmd = Command /\ HasResponse(Command) /\ Command.data = "write"
  BY <1>1, TransferCommand DEF ControllerInv
<1>m. Moved => ~Live
  BY DEF Moved, Live
<1>5. CASE CardAnswers
  <2>1. Live /\ Pending /\ (reg'.err \/ (reg'.answered /\ reg'.busy))
        /\ UNCHANGED <<reg.fifo, reg.moved, reg.stored>> /\ (reg.err => reg'.err)
    BY <1>4, <1>5, AnswerFields DEF ControllerInv, Pending
  <2> QED BY <1>1, <1>2, <1>m, <2>1 DEF WriteInv, Pending, Done
<1>6. CASE CommandFails
  <2>1. Live /\ Pending /\ reg'.err
    BY <1>4, <1>6, FailFields DEF ControllerInv, Pending
  <2> QED BY <1>1, <1>2, <1>m, <2>1 DEF WriteInv
<1>7. CASE BlockLeaves
  <2>1. /\ Live /\ ~reg.err /\ reg.answered /\ reg.busy /\ reg.fifo # <<>>
    BY <1>1, <1>7 DEF BlockLeaves, Moving, ControllerInv, Done
  <2>2. BlockOf(line.port, reg.moved) = Place(reg.moved + 1) /\ Blocks = op.n
    BY <1>1, <1>4, <2>1, SectorMeant, TransferCommand DEF ControllerInv, Blocks
  <2>3. Len(reg.fifo) = 1 /\ reg.moved = Len(reg.stored) /\ reg.fifo[1] = Len(reg.stored) + 1
    <3>1. Len(reg.fifo) = 1
      BY <1>3, <2>1, ZeroOrOne DEF ControllerInv
    <3> QED BY <2>1, <3>1 DEF WriteInv
  <2>4. CASE reg'.err
    BY <1>1, <1>2, <1>m, <2>1, <2>4 DEF WriteInv
  <2>5. CASE ~reg'.err
    <3> DEFINE n == Len(reg.stored)
               e == <<Place(n + 1), n + 1>>
    <3>1. /\ reg'.fifo = <<>> /\ reg'.moved = reg.moved + 1 /\ reg'.stored = Append(reg.stored, e)
          /\ (reg'.busy <=> reg.moved + 1 # op.n) /\ reg'.answered
      <4>1. MoveBlock(<<>>, Append(reg.stored, e))
        BY <1>7, <2>2, <2>3 DEF BlockLeaves
      <4> DEFINE st == Append(reg.stored, e)
      <4> HIDE DEF st
      <4>2. /\ reg'.answered = reg.answered
            /\ \/ /\ reg'.busy = (reg.moved + 1 # Blocks)
                  /\ reg'.fifo = <<>> /\ reg'.stored = st /\ reg'.moved = reg.moved + 1
               \/ reg'.err
        <5>1. MoveBlock(<<>>, st)
          BY <4>1 DEF st
        <5> QED BY <5>1, MoveFields
      <4> QED BY <2>1, <2>2, <2>5, <4>2 DEF st
    <3>2. e \in Sectors \X Items
      <4>1. n + 1 \in Items /\ Place(n + 1) \in Sectors
        <5>1. n + 1 \in Int /\ op.first + (n + 1) - 1 \in Int
          BY <1>3, DeviceTypes
        <5> QED BY <1>1, <5>1 DEF Items, Sectors, Place
      <4> QED BY <4>1
    <3> HIDE DEF e
    <3>3. /\ Len(reg'.stored) = Len(reg.stored) + 1
          /\ \A k \in 1 .. Len(reg.stored) : reg'.stored[k] = reg.stored[k]
          /\ reg'.stored[Len(reg.stored) + 1] = e
      <4>1. /\ Len(Append(reg.stored, e)) = Len(reg.stored) + 1
            /\ \A k \in 1 .. Len(reg.stored) : Append(reg.stored, e)[k] = reg.stored[k]
            /\ Append(reg.stored, e)[Len(reg.stored) + 1] = e
        BY <1>3, <3>2, OnePush
      <4> QED BY <3>1, <4>1
    <3>4. ASSUME NEW k \in 1 .. Len(reg'.stored)
          PROVE  reg'.stored[k] = <<Place(k), k>>
      <4>1. k \in 1 .. n \/ k = n + 1
        BY <1>3, <3>3, <3>4
      <4>2. k \in 1 .. n => reg.stored[k] = <<Place(k), k>>
        BY <2>1 DEF WriteInv
      <4> QED BY <3>3, <4>1, <4>2 DEF e
    <3>5. Len(reg'.fifo) = 0
      BY <3>1
    <3>6. /\ reg'.moved = Len(reg'.stored)
          /\ size + Len(reg'.fifo) + Len(reg'.stored) = op.n
          /\ ~reg'.busy => reg'.moved = op.n
      <4>1. size + 1 + n = op.n
        BY <2>1, <2>3 DEF WriteInv
      <4>2. ASSUME NEW m \in Nat, size + 1 + m = op.n
            PROVE  size + 0 + (m + 1) = op.n
        BY <1>3, <4>2
      <4>3. size + 0 + (n + 1) = op.n
        BY <1>3, <4>1, <4>2
      <4> QED BY <2>3, <3>1, <3>3, <3>5, <4>3
    <3> QED BY <1>1, <1>2, <1>3, <1>m, <2>1, <3>1, <3>3, <3>4, <3>5, <3>6 DEF WriteInv, Pending, Done
  <2> QED BY <2>4, <2>5
<1>8. CASE BlockArrives
  <2>1. Live /\ reg.cmd.data = "read"
    BY <1>8 DEF BlockArrives, Moving, ControllerInv
  <2> QED BY <1>4, <2>1
<1>9. CASE ControllerStops
  <2>1. reg.stopping /\ UNCHANGED <<reg.err, reg.stored>>
    BY <1>9, StopFields
  <2>2. Live => reg.err
    BY <2>1 DEF ControllerInv
  <2> QED BY <1>1, <1>2, <2>1, <2>2 DEF WriteInv
<1> QED BY <1>5, <1>6, <1>7, <1>8, <1>9 DEF Controller

LEMMA DriverWrites ==
  ASSUME DriverType, ControllerInv, WriteInv, Driver
  PROVE  WriteInv'
<1>n. op'.name = op.name
  <2>1. CASE Proceed
    BY <2>1, LocalsType DEF Proceed
  <2> QED BY <2>1 DEF Driver, Send, SampleStatus, Transfer, Check, End, ReturnError
<1> SUFFICES ASSUME op.name = "writesectors"
             PROVE  WriteInv'
  BY <1>n DEF WriteInv
<1>1. op.name \in Transfers /\ op.dev \in Devices /\ op.n \in Nat /\ size \in Int
      /\ reg.fifo \in Seq(Items) /\ Len(reg.stored) \in Nat
  <2>1. reg.stored \in Seq(Sectors \X Items)
    BY DEF DriverType, RegType
  <2>2. Len(reg.stored) \in Nat
    BY <2>1, LenProperties, Zenon
  <2> QED BY <2>2, DeviceTypes DEF DriverType, Transfers, RegType
<1>2. ASSUME op' = op
      PROVE  \A k \in Nat : Place(k)' = Place(k)
  BY <1>2 DEF Place
<1>3. CASE Send
  <2>1. Live' /\ ~Moved' /\ Len(<<>>) = 0 /\ ~Done'
    BY <1>3, SendFields DEF Live, Moved, Done
  <2>2. reg'.fifo = <<>> /\ reg'.stored = <<>> /\ reg'.moved = 0 /\ size' = op.n /\ op' = op
    BY <1>3, SendFields
  <2>3. size' >= 0
    BY <1>1, <2>2
  <2>4. /\ reg'.moved = Len(reg'.stored) /\ Len(reg'.stored) = 0 /\ Len(reg'.fifo) # 1
        /\ size' + Len(reg'.fifo) + Len(reg'.stored) = op.n
    BY <1>1, <2>1, <2>2
  <2> QED BY <2>1, <2>2, <2>3, <2>4 DEF WriteInv
<1>4. CASE SampleStatus
  <2>1. UNCHANGED <<op, reg, size>> /\ pc = "status" /\ pc' = "transfer"
    BY <1>4 DEF SampleStatus, controllerVars
  <2>2. Live /\ Live' /\ ~Moved' /\ Pending' = Pending /\ Done' = Done
    BY <2>1 DEF Live, Moved, Pending, Done
  <2> QED BY <1>2, <2>1, <2>2 DEF WriteInv
<1>5. CASE Transfer
  <2>1. Live /\ Live' /\ ~Moved' /\ (Pending' <=> Pending) /\ (Done' <=> Done)
        /\ op' = op /\ reg'.moved = reg.moved /\ reg'.err = reg.err /\ reg'.stored = reg.stored
    BY <1>5, TransferFields DEF Live, Moved, Pending, Done
  <2>2. ~Receives
    BY <1>1, TransferCommand DEF Receives
  <2>3. CASE Delivers
    <3>1. reg.fifo = <<>> /\ size > 0 /\ reg'.fifo = <<op.n - size + 1>> /\ size' = size - 1
      <4>1. reg.fifo = <<>> /\ size > 0
        BY <2>3 DEF Delivers
      <4> QED BY <1>5, <2>2, <2>3, <4>1, TransferFields
    <3>2. Len(reg.fifo) = 0 /\ Len(reg'.fifo) = 1 /\ reg'.fifo[1] = op.n - size + 1
      BY <3>1
    <3>3. size' >= 0
      BY <1>1, <3>1
    <3>4. ~reg.err => /\ size' + Len(reg'.fifo) + Len(reg.stored) = op.n
                      /\ reg'.fifo[1] = Len(reg.stored) + 1
      <4>1. ASSUME ~reg.err
            PROVE  size + 0 + Len(reg.stored) = op.n
        BY <2>1, <3>2, <4>1 DEF WriteInv
      <4>2. ASSUME NEW m \in Nat, size + 0 + m = op.n
            PROVE  (size - 1) + 1 + m = op.n /\ op.n - size + 1 = m + 1
        BY <1>1, <4>2
      <4> QED BY <1>1, <3>1, <3>2, <4>1, <4>2
    <3>5. Live' /\ ~Moved' /\ size' >= 0
      BY <2>1, <3>3
    <3>6. ASSUME ~reg'.err
          PROVE  /\ reg'.moved = Len(reg'.stored)
                 /\ \A k \in 1 .. Len(reg'.stored) : reg'.stored[k] = <<Place(k), k>>
                 /\ Pending' => reg'.moved = 0
                 /\ Done' => reg'.moved = op.n
      BY <2>1, <3>6 DEF WriteInv
    <3> QED BY <1>1, <1>2, <2>1, <3>4, <3>5, <3>6 DEF WriteInv
  <2>4. CASE ~Delivers
    <3>1. reg' = reg /\ size' = size
      BY <1>5, <2>2, <2>4, TransferFields
    <3> QED BY <1>2, <2>1, <3>1 DEF WriteInv
  <2> QED BY <2>3, <2>4
<1>6. CASE Check
  <2>1. UNCHANGED <<op, reg, size, status1>> /\ pc = "check" /\ Live /\ pc' \in {"end", "status"}
    BY <1>6, CheckFields DEF controllerVars, Live
  <2>2. CASE pc' = "status"
    <3>1. Live' /\ ~Moved' /\ (Pending' <=> Pending) /\ (Done' <=> Done)
      BY <2>1, <2>2 DEF Live, Moved, Pending, Done
    <3> QED BY <1>2, <2>1, <2>2, <3>1 DEF WriteInv
  <2>3. CASE pc' = "end"
    <3>1. ~Live'
      BY <2>3 DEF Live
    <3>2. ASSUME Moved'
          PROVE  Len(reg.stored) = op.n /\ \A k \in 1 .. op.n : reg.stored[k] = <<Place(k), k>>
      <4>1. ~status1.err /\ ~status1.busy
        BY <1>6, <2>1, <2>3, <3>2, CheckFields DEF Moved, Error, Device
      <4>2. Done
        BY <2>1, <4>1 DEF ControllerInv
      <4> QED BY <1>1, <2>1, <4>2 DEF WriteInv, Done
    <3>3. \A k \in 1 .. op.n : Place(k)' = Place(k)
      BY <1>1, <1>2, <2>1
    <3>4. Moved' => Len(reg'.stored) = op'.n /\ \A k \in 1 .. op'.n : reg'.stored[k] = <<Place(k)', k>>
      BY <2>1, <3>2, <3>3
    <3> QED BY <3>1, <3>4 DEF WriteInv
  <2> QED BY <2>1, <2>2, <2>3
<1>7. CASE End
  <2>1. op' = op /\ reg'.stored = reg.stored /\ pc = "end" /\ pc' = "next" /\ Device'.error = Device.error
    BY <1>7, EndFields DEF Device
  <2>2. ~Live' /\ (Moved' => Moved)
    BY <2>1 DEF Live, Moved, Error
  <2> QED BY <1>1, <1>2, <2>1, <2>2 DEF WriteInv
<1>8. CASE Proceed
  <2>1. /\ at = 1 /\ NextCommand = 2 /\ Last(op.name) = 1
    BY <1>1, TransferCommand, NextOf DEF Last
  <2>2. pc = "next" /\ pc' = "idle" /\ reg' = reg /\ op'.dev = op.dev /\ op'.first = op.first
        /\ op'.n = op.n /\ ~Failed
    BY <1>8, <2>1, ProceedFields DEF ControllerInv, controllerVars
  <2>3. Moved
    BY <1>1, <2>2 DEF Moved, Failed, Transfers
  <2>4. ~Live' /\ \A k \in Nat : Place(k)' = Place(k)
    BY <2>2 DEF Live, Place
  <2> QED BY <1>1, <2>2, <2>3, <2>4 DEF WriteInv
<1>9. CASE ReturnError
  <2>1. ~Live' /\ ~Moved'
    BY <1>9 DEF ReturnError, Live, Moved
  <2> QED BY <2>1 DEF WriteInv
<1> QED BY <1>3, <1>4, <1>5, <1>6, <1>7, <1>8, <1>9 DEF Driver

-----------------------------------------------------------------------------
(* DriverInv is kept by both, by what leaves the driver alone, and by a     *)
(* call.                                                                    *)
LEMMA DriverKeeps ==
  ASSUME DriverInv, Controller \/ Driver
  PROVE  DriverInv'
<1> USE DEF DriverInv
<1>1. CASE Controller
  BY <1>1, ControllerTypes, ControllerRests, ControllerWay, ControllerTransfers, ControllerReads,
     ControllerWrites
<1>2. CASE Driver
  <2>1. pc # "idle" => op.name # "none"
    BY DEF ControllerInv
  <2> QED BY <1>2, <2>1, DriverTypes, DriverRests, DriverWay, DriverTransfers, DriverReads, DriverWrites
<1> QED BY <1>1, <1>2

LEMMA DriverSame ==
  ASSUME DriverInv, UNCHANGED sdmmcVars
  PROVE  DriverInv'
<1>1. UNCHANGED <<op, at, pc, result, dev, initialised, status1, size, data, cid, line, reg, card, kind, faults>>
  BY DEF sdmmcVars, driverVars, cardVars
<1>2. UNCHANGED <<Live, Pending, Done, Device, Command, Moved, HighCapacity, Loops, Genuine>>
  BY <1>1, CommandSame DEF Live, Pending, Done, Device, Moved, Error, HighCapacity, Loops, Genuine
<1>3. Error(4)' = Error(4) /\ Error(1)' = Error(1) /\ \A k \in Int : Place(k)' = Place(k)
  BY <1>1, <1>2 DEF Error, Place
<1>4. Answered' = Answered /\ Waits' = Waits
  BY <1>1, <1>2, <1>3 DEF Answered, Waits
<1>5. Upgrading' = Upgrading
  BY <1>1, <1>2, <1>4 DEF Upgrading
<1>6. DriverType'
  BY <1>1 DEF DriverInv, DriverType
<1>7. ControllerInv'
  BY <1>1, <1>2, <1>3 DEF DriverInv, ControllerInv
<1>8. StartupInv'
  BY <1>1, <1>2, <1>4, ArrivedSame DEF DriverInv, StartupInv
<1>9. SettingsInv'
  BY <1>1, <1>2, <1>5 DEF DriverInv, SettingsInv
<1>10. FaultFree'
  BY <1>1, <1>2, <1>3 DEF DriverInv, FaultFree
<1>11. TransferInv'
  BY <1>1, <1>2 DEF DriverInv, TransferInv
<1>12. ReadInv' /\ WriteInv'
  <2>1. data \in Seq(Items) /\ reg.stored \in Seq(Sectors \X Items) /\ op.n \in Nat
    BY DeviceTypes DEF DriverInv, DriverType, RegType
  <2>2. Len(data) \in Nat /\ Len(reg.stored) \in Nat
    BY <2>1, LenProperties, Zenon
  <2>3. ReadInv'
    BY <1>1, <1>2, <1>3, <2>1, <2>2 DEF DriverInv, ReadInv
  <2>4. WriteInv'
    BY <1>1, <1>2, <1>3, <2>1, <2>2 DEF DriverInv, WriteInv
  <2> QED BY <2>3, <2>4
<1> QED BY <1>6, <1>7, <1>8, <1>9, <1>10, <1>11, <1>12 DEF DriverInv

LEMMA FreshType ==
  ASSUME NEW d \in Devices
  PROVE  /\ Fresh(d) \in OneDevice
         /\ d = "nand" => Fresh(d).initarg = 1
         /\ ~Fresh(d).isSDHC
<1>1. NoAnswer \in Answers
  BY DEF NoAnswer, Answers, Devices
<1>2. (IF d = "nand" THEN 1 ELSE 0) \in Nat
  OBVIOUS
<1> QED BY <1>1, <1>2 DEF Fresh, OneDevice, OneCard

LEMMA ClearedType ==
  ASSUME NEW d \in Devices
  PROVE  /\ [Fresh(d) EXCEPT !.clk = 0, !.initarg = 0] \in
              OneDevice
         /\ ~[Fresh(d) EXCEPT !.clk = 0, !.initarg = 0].isSDHC
<1>1. ASSUME NEW f \in OneDevice, ~f.isSDHC
      PROVE  [f EXCEPT !.clk = 0, !.initarg = 0] \in OneDevice /\ ~[f EXCEPT !.clk = 0, !.initarg = 0].isSDHC
  BY <1>1 DEF OneDevice, OneCard
<1> QED BY <1>1, FreshType

Callable(name, d) == <<name, d>> \in {<<"nand_init", "nand">>, <<"sdcard_init", "sd">>, <<"get_cid", "nand">>}
                                       \cup Transfers \X Devices
LEMMA CallTypes ==
  ASSUME DriverInv, NEW name, NEW d, NEW first \in Nat, NEW n \in Nat,
         Call(name, d, first, n), Callable(name, d)
  PROVE  /\ DriverType'
         /\ pc = "idle" /\ pc' = "send" /\ at' = 1 /\ data' = <<>>
         /\ op'.name = name /\ op'.dev = d /\ op'.n = n /\ line'.port = d
         /\ UNCHANGED <<result, status1, size, cid, controllerVars>>
         /\ \/ /\ name \in Startups /\ ~initialised /\ initialised'
               /\ dev'["nand"].initarg = 1 /\ ~dev'["nand"].isSDHC /\ ~dev'["sd"].isSDHC
            \/ /\ ~(name \in Startups /\ ~initialised)
               /\ dev' = dev /\ initialised' = initialised
<1>1. op' = [name |-> name, dev |-> d, first |-> first, n |-> n, hcs |-> FALSE, cmd6 |-> FALSE]
  BY DEF Call
<1>2. name \in Names /\ name # "none" /\ d \in Devices
  BY DEF Callable, Names, Startups, Transfers, Devices
<1>3. op' \in OpType /\ 1 \in 1 .. Last(op'.name)
  BY <1>1, <1>2 DEF OpType, Last
<1>4. /\ dev' \in DevType /\ line' \in [port : Devices, clk : Nat, wide : BOOLEAN]
      /\ initialised' \in BOOLEAN /\ line'.port = d
      /\ \/ /\ name \in Startups /\ ~initialised /\ initialised'
            /\ dev'["nand"].initarg = 1 /\ ~dev'["nand"].isSDHC /\ ~dev'["sd"].isSDHC
         \/ /\ ~(name \in Startups /\ ~initialised)
            /\ dev' = dev /\ initialised' = initialised
  <2>1. CASE name \in Startups /\ ~initialised
    <3>1. /\ dev' = [e \in Devices |-> [Fresh(e) EXCEPT !.ret = dev[e].ret, !.error = dev[e].error]]
          /\ initialised' = TRUE /\ line' = [port |-> d, clk |-> 128, wide |-> FALSE]
      BY <2>1 DEF Call
    <3>2. ASSUME NEW e \in Devices
          PROVE  /\ dev'[e] \in OneDevice
                 /\ dev'[e].initarg = Fresh(e).initarg /\ dev'[e].isSDHC = Fresh(e).isSDHC
      <4>1. dev'[e] = [Fresh(e) EXCEPT !.ret = dev[e].ret, !.error = dev[e].error]
        BY <3>1, <3>2
      <4>2. dev[e].ret \in Answers /\ dev[e].error \in SUBSET {1, 2, 4}
        BY DeviceTypes DEF DriverInv
      <4>3. Fresh(e) \in OneDevice
        BY FreshType
      <4> QED BY <4>1, <4>2, <4>3 DEF OneDevice, OneCard
    <3>3. dev' \in [Devices -> OneDevice]
      <4>1. dev' = [e \in Devices |-> dev'[e]]
        BY <3>1
      <4> QED BY <3>2, <4>1
    <3>4. "sd" \in Devices /\ "nand" \in Devices
      BY DEF Devices
    <3>5. dev'["nand"].initarg = 1 /\ ~dev'["nand"].isSDHC /\ ~dev'["sd"].isSDHC
      BY <3>2, <3>4, FreshType
    <3> QED BY <1>2, <2>1, <3>1, <3>3, <3>5 DEF DevType
  <2>2. CASE ~(name \in Startups /\ ~initialised)
    <3>1. line' = [port |-> d, clk |-> dev[d].clk, wide |-> dev[d].SDOPT] /\ UNCHANGED <<dev, initialised>>
      BY <2>2 DEF Call, Target
    <3>2. dev[d].clk \in Nat /\ dev[d].SDOPT \in BOOLEAN
      BY <1>2 DEF DriverInv, DriverType, DevType, OneDevice, OneCard
    <3> QED BY <1>2, <2>2, <3>1, <3>2 DEF DriverInv, DriverType
  <2> QED BY <2>1, <2>2
<1>5. DriverType'
  <2>1. <<>> \in Seq(Items)
    OBVIOUS
  <2> QED BY <1>3, <1>4, <2>1 DEF Call, DriverInv, DriverType, Phases, controllerVars, cardVars
<1>6. op'.name = name /\ op'.dev = d /\ op'.n = n
  BY <1>1
<1>7. /\ pc = "idle" /\ pc' = "send" /\ at' = 1 /\ data' = <<>>
      /\ UNCHANGED <<result, status1, size, cid, controllerVars>>
  BY DEF Call
<1> QED BY <1>4, <1>5, <1>6, <1>7

(* The CID is asked for when the chip was started before.                   *)
LEMMA CallKeeps ==
  ASSUME DriverInv, NEW name, NEW d, NEW first \in Nat, NEW n \in Nat,
         Call(name, d, first, n), Callable(name, d),
         name = "get_cid" => op.name = "nand_init"
  PROVE  DriverInv'
<1>1. /\ DriverType'
      /\ pc = "idle" /\ pc' = "send" /\ at' = 1 /\ data' = <<>>
      /\ op'.name = name /\ op'.dev = d /\ op'.n = n /\ line'.port = d
      /\ UNCHANGED <<result, cid, reg, card, kind, faults>>
  BY CallTypes DEF controllerVars, cardVars
<1>2. \/ /\ name \in Startups /\ ~initialised /\ initialised'
         /\ dev'["nand"].initarg = 1 /\ ~dev'["nand"].isSDHC /\ ~dev'["sd"].isSDHC
      \/ /\ ~(name \in Startups /\ ~initialised)
         /\ dev' = dev /\ initialised' = initialised
  BY CallTypes
<1>3. /\ name = "nand_init" => d = "nand"
      /\ name = "sdcard_init" => d = "sd"
      /\ name = "get_cid" => d = "nand"
      /\ name # "none"
  BY DEF Callable, Transfers
<1>4. ~Live' /\ ~Live /\ ~Answered' /\ ~Moved' /\ ~Upgrading'
  BY <1>1 DEF Live, Answered, Moved, Upgrading
<1>5. ControllerInv'
  BY <1>1, <1>3, <1>4 DEF DriverInv, ControllerInv
<1>6. StartupInv'
  <2>1. ASSUME name \in Startups
        PROVE  Arrived(at)'
    <3>1. CASE name = "nand_init"
      BY <1>1, <3>1 DEF Arrived, ArrivedAs, Stations, Addressed, Widened
    <3>2. CASE name = "sdcard_init"
      BY <1>1, <3>2 DEF Arrived, ArrivedAs, Stations, Addressed, Widened
    <3> QED BY <2>1, <3>1, <3>2 DEF Startups
  <2>2. ASSUME name = "get_cid", faults = 0
        PROVE  Arrived(at)'
    <3>1. op.name = "nand_init" /\ op.dev = "nand" /\ result = 0 /\ at = 10 /\ Arrived(at + 1)
      BY <1>1, <2>2 DEF DriverInv, SettingsInv, FaultFree, StartupInv, Startups, Last
    <3>2. card["nand"].state = "tran" /\ card["nand"].rca = 1
      BY <3>1, NandStation DEF Arrived
    <3>3. /\ Stations("get_cid") = <<"tran", "stby", "stby", "tran">>
          /\ Addressed("get_cid") = 1 /\ Widened("get_cid") = 5 /\ RCA["nand"] = 1
      BY DEF Stations, Addressed, Widened, RCA, Devices
    <3> QED BY <1>1, <1>3, <2>2, <3>2, <3>3 DEF Arrived, ArrivedAs
  <2> QED BY <1>1, <1>4, <2>1, <2>2 DEF StartupInv, Genuine, Waits
<1>7. SettingsInv'
  <2>1. name = "get_cid" => initialised
    BY DEF DriverInv, SettingsInv, Startups
  <2>2. ~Upgrading
    BY <1>1, <1>4 DEF Upgrading, Answered
  <2>3. HighCapacity' = HighCapacity
    BY <1>1 DEF HighCapacity
  <2>4. CASE name \in Startups /\ ~initialised
    <3>1. card["sd"].state = "idle"
      BY <2>4 DEF DriverInv, SettingsInv
    <3> QED BY <1>1, <1>2, <1>3, <2>4, <3>1 DEF SettingsInv, Startups
  <2>5. CASE ~(name \in Startups /\ ~initialised)
    <3>1. dev' = dev /\ initialised' = initialised
      BY <1>2, <2>5
    <3> QED BY <1>1, <1>3, <2>1, <2>2, <2>3, <2>5, <3>1 DEF DriverInv, SettingsInv
  <2> QED BY <2>4, <2>5
<1>8. FaultFree'
  BY <1>1, <1>4 DEF FaultFree
<1>9. TransferInv' /\ WriteInv'
  BY <1>4 DEF TransferInv, WriteInv
<1>10. ReadInv'
  BY <1>1, <1>4 DEF ReadInv
<1> QED BY <1>1, <1>5, <1>6, <1>7, <1>8, <1>9, <1>10 DEF DriverInv

(* The initial state.                                                       *)
LEMMA DriverStarts ==
  ASSUME SdmmcInit
  PROVE  DriverInv /\ card["sd"].state = "idle" /\ op.name = "none" /\ pc = "idle" /\ faults = 0
<1>1. /\ op.name = "none" /\ op.dev = "sd" /\ at = 1 /\ pc = "idle" /\ result = 0 /\ initialised = FALSE
      /\ ~reg.busy /\ ~reg.stopping /\ reg.fifo = <<>> /\ faults = 0
  BY DEF SdmmcInit
<1>2. ~dev["nand"].isSDHC /\ dev \in DevType
  <2>1. ASSUME NEW d \in Devices
        PROVE  dev[d] \in OneDevice /\ ~dev[d].isSDHC
    <3>1. dev[d] = [Fresh(d) EXCEPT !.clk = 0, !.initarg = 0]
      BY DEF SdmmcInit
    <3> QED BY <3>1, ClearedType
  <2>2. dev \in [Devices -> OneDevice]
    <3> QED BY <2>1 DEF SdmmcInit
  <2> QED BY <2>1, <2>2 DEF DevType, Devices
<1>3. card \in CardType /\ card["sd"].state = "idle"
  <2>1. PICK s \in Origins :
          card = [sd   |-> [state |-> "idle", rca |-> 0, wide |-> FALSE],
                  nand |-> [state |-> s, rca |-> IF s = "tran" THEN 1 ELSE 0, wide |-> s = "tran"]]
    BY DEF SdmmcInit
  <2>2. s \in CardStates /\ (IF s = "tran" THEN 1 ELSE 0) \in Nat /\ (s = "tran") \in BOOLEAN
    BY OriginAssumption DEF CardStates
  <2>3. PICK w \in BOOLEAN : w = (s = "tran")
    BY <2>2
  <2>4. /\ card["sd"] = [state |-> "idle", rca |-> 0, wide |-> FALSE]
        /\ card["nand"] = [state |-> s, rca |-> IF s = "tran" THEN 1 ELSE 0, wide |-> w]
        /\ card = [d \in Devices |-> card[d]]
    BY <2>1, <2>3 DEF Devices
  <2>5. card["sd"] \in OneCard /\ card["nand"] \in OneCard
    BY <2>2, <2>4 DEF CardStates, OneDevice, OneCard
  <2>6. card \in [Devices -> OneCard]
    <3> QED BY <2>4, <2>5 DEF Devices
  <2> QED BY <2>4, <2>6 DEF CardType
<1>4. DriverType
  <2>1. NoAnswer \in Answers /\ Cmd(0, 0) \in Commands
    BY DEF NoAnswer, Answers, Devices, Cmd, Commands
  <2>2. /\ <<>> \in Seq(Items) /\ <<>> \in Seq(Sectors \X Items)
    OBVIOUS
  <2>3. reg \in RegType
    <3>1. reg = [busy |-> FALSE, answered |-> FALSE, respond |-> FALSE, dataend |-> FALSE,
                 err |-> FALSE, stopping |-> FALSE, fifo |-> <<>>, resp |-> NoAnswer, cmd |-> Cmd(0, 0),
                 moved |-> 0, stored |-> <<>>]
      BY DEF SdmmcInit
    <3> QED BY <2>1, <2>2, <3>1 DEF RegType
  <2>4. op \in OpType
    BY DEF SdmmcInit, OpType, Names, Devices
  <2>5. line \in [port : Devices, clk : Nat, wide : BOOLEAN]
    BY DEF SdmmcInit, Devices
  <2>6. at \in 1 .. Last(op.name)
    BY <1>1 DEF Last
  <2>7. /\ pc \in Phases /\ result \in {0, 1} /\ initialised \in BOOLEAN /\ size \in Int
        /\ faults \in Nat /\ data = <<>> /\ cid = NoAnswer
        /\ status1 \in [busy : BOOLEAN, err : BOOLEAN]
    <3>1. /\ pc = "idle" /\ result = 0 /\ initialised = FALSE /\ size = 0 /\ faults = 0 /\ data = <<>>
          /\ cid = NoAnswer /\ status1 = [busy |-> FALSE, err |-> FALSE]
      BY DEF SdmmcInit
    <3>2. initialised \in BOOLEAN /\ status1 \in [busy : BOOLEAN, err : BOOLEAN]
      BY <3>1, Zenon
    <3>3. pc \in Phases
      BY <3>1, Zenon DEF Phases
    <3>4. result \in {0, 1} /\ size \in Int /\ faults \in Nat
      BY <3>1
    <3> QED BY <3>1, <3>2, <3>3, <3>4, Zenon
  <2> QED BY <1>2, <1>3, <2>1, <2>2, <2>3, <2>4, <2>5, <2>6, <2>7 DEF DriverType
<1>5. ~Live
  BY <1>1 DEF Live
<1>6. ControllerInv
  <2>1. Len(reg.fifo) <= 1
    BY <1>1
  <2> QED BY <1>1, <1>5, <2>1 DEF ControllerInv
<1>7. StartupInv /\ FaultFree
  BY <1>1, <1>5 DEF StartupInv, FaultFree, Genuine, Startups
<1>8. SettingsInv
  BY <1>1, <1>2, <1>3 DEF SettingsInv, Startups
<1>9. TransferInv /\ ReadInv /\ WriteInv
  BY <1>1 DEF TransferInv, ReadInv, WriteInv, Transfers
<1> QED BY <1>1, <1>3, <1>4, <1>6, <1>7, <1>8, <1>9 DEF DriverInv

(* The handlers start with variables of their own.                          *)
LEMMA InstallKeeps ==
  ASSUME DriverInv, Install, op.name = "get_cid", card["sd"].state = "idle"
  PROVE  DriverInv'
<1>1. /\ pc = "idle" /\ initialised' = FALSE
      /\ dev' = [d \in Devices |-> [Fresh(d) EXCEPT !.clk = 0, !.initarg = 0]]
      /\ UNCHANGED <<op, at, pc, result, status1, size, data, cid, line, reg, card, kind, faults>>
  BY DEF Install, controllerVars, cardVars
<1>2. ~dev'["nand"].isSDHC /\ dev' \in DevType
  <2>1. ASSUME NEW d \in Devices
        PROVE  dev'[d] \in OneDevice /\ ~dev'[d].isSDHC
    <3>1. dev'[d] = [Fresh(d) EXCEPT !.clk = 0, !.initarg = 0]
      BY <1>1
    <3> QED BY <3>1, ClearedType
  <2>2. dev' \in [Devices -> OneDevice]
    <3>1. dev' = [d \in Devices |-> dev'[d]]
      BY <1>1
    <3> QED BY <2>1, <3>1
  <2> QED BY <2>1, <2>2 DEF DevType, Devices
<1>3. ~Live' /\ ~Live
  BY <1>1 DEF Live
<1>4. DriverType'
  BY <1>1, <1>2 DEF DriverInv, DriverType
<1>5. ControllerInv'
  BY <1>1, <1>3 DEF DriverInv, ControllerInv
<1>6. StartupInv'
  <2>1. Genuine' = Genuine /\ ~Waits'
    BY <1>1, <1>3 DEF Genuine, Waits
  <2> QED BY <1>1, <2>1, ArrivedSame DEF DriverInv, StartupInv, Startups
<1>7. SettingsInv'
  BY <1>1, <1>2 DEF DriverInv, SettingsInv, Startups
<1>8. FaultFree'
  BY <1>1, <1>3 DEF DriverInv, FaultFree
<1>9. TransferInv' /\ ReadInv' /\ WriteInv'
  BY <1>1 DEF TransferInv, ReadInv, WriteInv, Transfers
<1> QED BY <1>4, <1>5, <1>6, <1>7, <1>8, <1>9 DEF DriverInv

-----------------------------------------------------------------------------
(* DriverInv and the start: a step of the two processors.                   *)
LEMMA Asked ==
  ASSUME DriverInv, StageInv, IdentityInv
  PROVE  /\ StartNand => Callable("nand_init", "nand")
         /\ GetCid => Callable("get_cid", "nand") /\ op.name = "nand_init"
         /\ msg # <<>> => /\ Callable(msg[1].name, msg[1].dev) /\ msg[1].name # "get_cid"
                          /\ msg[1].name \in Startups \cup Transfers
                          /\ msg[1].first \in Nat /\ msg[1].n \in Nat
<1>1. GetCid => op.name = "nand_init"
  BY DEF GetCid, Stage, StageInv
<1>2. ASSUME NEW m \in Requests \cup {NandStart, Sector0}
      PROVE  /\ <<m.name, m.dev>> \in {<<"nand_init", "nand">>, <<"sdcard_init", "sd">>}
                                        \cup {"readsectors", "writesectors"} \X Devices
             /\ m.first \in Nat /\ m.n \in Nat
  BY RequestAssumption DEF NandStart, Sector0, Devices
<1>3. ASSUME NEW name, NEW d, <<name, d>> \in {<<"nand_init", "nand">>, <<"sdcard_init", "sd">>}
                                               \cup {"readsectors", "writesectors"} \X Devices
      PROVE  Callable(name, d) /\ name # "get_cid" /\ name \in Startups \cup Transfers
  BY <1>3 DEF Callable, Startups, Transfers
<1>4. msg # <<>> => msg[1] \in Requests \cup {NandStart, Sector0}
  BY DEF IdentityInv
<1> QED BY <1>1, <1>2, <1>3, <1>4 DEF Callable

LEMMA NextKeepsDriver ==
  ASSUME DriverInv, StageInv, IdentityInv, Next
  PROVE  DriverInv'
<1>1. CASE UNCHANGED sdmmcVars
  BY <1>1, DriverSame
<1>2. CASE StartNand
  BY <1>2, Asked, CallKeeps DEF StartNand
<1>3. CASE GetCid
  BY <1>3, Asked, CallKeeps DEF GetCid
<1>4. CASE Install
  BY <1>4, InstallKeeps DEF Install, Stage, InstallAfter, StageInv
<1>5. CASE Handle
  <2>1. CASE ~UNCHANGED sdmmcVars
    <3>1. msg # <<>> /\ Call(msg[1].name, msg[1].dev, msg[1].first, msg[1].n)
      BY <1>5, <2>1 DEF Handle
    <3> QED BY <3>1, Asked, CallKeeps
  <2> QED BY <1>1, <2>1
<1>6. CASE RecoverKey \/ Answer \/ Arm9
  BY <1>1, <1>6 DEF RecoverKey, Answer, Arm9, VBlank, CheckIdentity, SendStart, Started, ReadSector0,
                    CryptInit, SendRequest, TakeReply
<1>7. CASE DriverStep \/ ControllerStep
  BY <1>7, DriverKeeps DEF DriverStep, ControllerStep
<1> QED BY <1>2, <1>3, <1>4, <1>5, <1>6, <1>7 DEF Next, Arm7

(* The search for the key.                                                  *)
LEMMA RecoverKeepsKey ==
  ASSUME KeyInv, RecoverKey
  PROVE  KeyInv'
<1>1. /\ stage = "key" /\ stage' = stage /\ key' = key /\ i <= Len(key)
      /\ slot' = [slot EXCEPT ![i] = j]
      /\ out' = IF slot' = key THEN [out EXCEPT ![i] = j] ELSE out
      /\ i' = IF slot' = key \/ j = LastByte THEN i + 1 ELSE i
      /\ j' = IF slot' = key \/ j = LastByte THEN 0 ELSE j + 1
  BY DEF RecoverKey, SameOutput, Tried
<1>2. Len(key) \in Nat /\ key \in [1 .. Len(key) -> 0 .. LastByte] /\ LastByte \in Nat
  <2>1. key \in Seq(0 .. LastByte)
    BY DEF KeyInv
  <2> QED BY <2>1, LenProperties, KeyAssumption, Zenon
<1> DEFINE n == Len(key)
<1> HIDE DEF n
<1>3. /\ n \in Nat /\ key \in [1 .. n -> 0 .. LastByte] /\ i <= n /\ LastByte \in Nat
      /\ slot \in [1 .. n -> Int] /\ out \in [1 .. n -> Int]
      /\ i \in 1 .. n + 1 /\ j \in 0 .. LastByte /\ (i <= n => j <= key[i])
      /\ \A k \in 1 .. n : k # i => slot[k] = key[k]
      /\ \A k \in 1 .. n : k < i => out[k] = key[k]
  BY <1>1, <1>2 DEF KeyInv, n
<1>4. i \in 1 .. n /\ j <= key[i] /\ key[i] \in 0 .. LastByte
  BY <1>3
<1>5. /\ slot' \in [1 .. n -> Int] /\ slot'[i] = j
      /\ \A k \in 1 .. n : k # i => slot'[k] = key[k]
  BY <1>1, <1>3, <1>4
<1>6. slot' = key <=> j = key[i]
  <2>1. slot' = key => j = key[i]
    BY <1>5
  <2>2. j = key[i] => slot' = key
    <3>1. ASSUME j = key[i]
          PROVE  \A k \in 1 .. n : slot'[k] = key[k]
      BY <1>5, <3>1
    <3> QED BY <1>3, <1>5, <3>1
  <2> QED BY <2>1, <2>2
<1>7. slot' = key \/ j = LastByte => slot' = key
  BY <1>3, <1>4, <1>6
<1>8. CASE slot' = key
  <2>1. /\ out' = [out EXCEPT ![i] = j] /\ i' = i + 1 /\ j' = 0
    BY <1>1, <1>8
  <2>2. /\ out' \in [1 .. n -> Int] /\ i' \in 1 .. n + 1 /\ j' \in 0 .. LastByte
        /\ \A k \in 1 .. n : k < i' => out'[k] = key[k]
        /\ i' <= n => j' <= key[i']
    BY <1>3, <1>4, <1>6, <1>8, <2>1
  <2> QED BY <1>1, <1>5, <1>8, <2>2 DEF KeyInv, n
<1>9. CASE slot' # key
  <2>1. out' = out /\ i' = i /\ j' = j + 1
    BY <1>1, <1>7, <1>9
  <2>2. j' \in 0 .. LastByte /\ j' <= key[i]
    BY <1>3, <1>4, <1>6, <1>9, <2>1
  <2> QED BY <1>1, <1>3, <1>5, <2>1, <2>2 DEF KeyInv, n
<1> QED BY <1>8, <1>9

LEMMA NextKeepsKey ==
  ASSUME KeyInv, Next
  PROVE  KeyInv'
<1>1. CASE RecoverKey
  BY <1>1, RecoverKeepsKey
<1>2. CASE StartNand
  <2>1. /\ stage = "key" /\ stage' = "startup" /\ i > Len(key) /\ UNCHANGED <<key, slot, out>>
    BY <1>2 DEF StartNand, Stage, recoveryVars
  <2>2. Len(key) \in Nat /\ key \in [1 .. Len(key) -> 0 .. LastByte]
    <3>1. key \in Seq(0 .. LastByte)
      BY DEF KeyInv
    <3> QED BY <3>1, LenProperties, Zenon
  <2>3. \A k \in 1 .. Len(key) : slot[k] = key[k] /\ out[k] = key[k]
    BY <2>1, <2>2 DEF KeyInv
  <2>4. out = key /\ slot = key
    BY <2>2, <2>3 DEF KeyInv
  <2> QED BY <2>1, <2>4 DEF KeyInv
<1>3. CASE UNCHANGED recoveryVars /\ (stage' = "key" <=> stage = "key")
  BY <1>3 DEF KeyInv, recoveryVars
<1>4. CASE GetCid \/ Install \/ Handle \/ Answer \/ Arm9 \/ DriverStep \/ ControllerStep
  <2>1. UNCHANGED recoveryVars
    BY <1>4 DEF GetCid, Install, Handle, Answer, Arm9, DriverStep, ControllerStep, arm7Vars, VBlank,
                CheckIdentity, SendStart, Started, ReadSector0, CryptInit, SendRequest, TakeReply
  <2>2. stage' = "key" <=> stage = "key"
    BY <1>4 DEF GetCid, Install, Handle, Answer, Arm9, DriverStep, ControllerStep, arm7Vars, VBlank,
                CheckIdentity, SendStart, Started, ReadSector0, CryptInit, SendRequest, TakeReply,
                Stage, InstallAfter
  <2> QED BY <1>3, <2>1, <2>2
<1> QED BY <1>1, <1>2, <1>4 DEF Next, Arm7

-----------------------------------------------------------------------------
(* The order of the start.                                                  *)
LEMMA DriverLeaves ==
  ASSUME DriverInv, Driver
  PROVE  /\ pc # "idle" /\ op'.name = op.name /\ UNCHANGED <<card, faults>>
         /\ op.name # "get_cid" => cid' = cid
<1>1. CASE Proceed
  BY <1>1, LocalsType DEF DriverInv, Proceed, controllerVars, cardVars
<1>2. CASE ~Proceed
  BY <1>2 DEF Driver, Send, SampleStatus, Transfer, Check, End, ReturnError, controllerVars, cardVars
<1> QED BY <1>1, <1>2

LEMMA ControllerLeaves ==
  ASSUME DriverInv, Controller
  PROVE  /\ UNCHANGED <<op, pc, cid>> /\ faults \in Nat /\ faults' \in Nat /\ faults' >= faults
         /\ pc = "idle" \/ op.dev = "nand" => card'["sd"] = card["sd"]
<1>1. UNCHANGED <<op, pc, cid>> /\ faults \in Nat
  BY ControllerKeepsCommand DEF driverVars, DriverInv, DriverType
<1>2. faults' = faults \/ faults' = faults + 1
  BY MoveFields DEF Controller, CardAnswers, CommandFails, BlockArrives, BlockLeaves, ControllerStops,
                    MoveBlock
<1>3. card' = card \/ (Live /\ \E c : card' = [card EXCEPT ![op.dev] = c])
  <2>1. CASE CardAnswers
    <3>1. reg.busy /\ ~reg.stopping
      BY <2>1 DEF CardAnswers
    <3>2. Live /\ line.port = op.dev
      BY <3>1 DEF DriverInv, ControllerInv, Live
    <3> QED BY <2>1, <3>2 DEF CardAnswers
  <2>2. CASE CommandFails
    <3>1. reg.busy /\ ~reg.stopping
      BY <2>2 DEF CommandFails
    <3>2. Live /\ line.port = op.dev
      BY <3>1 DEF DriverInv, ControllerInv, Live
    <3> QED BY <2>2, <3>2 DEF CommandFails
  <2>3. CASE BlockArrives \/ BlockLeaves \/ ControllerStops
    BY <2>3 DEF BlockArrives, BlockLeaves, ControllerStops, cardVars
  <2> QED BY <2>1, <2>2, <2>3 DEF Controller
<1>4. pc = "idle" \/ op.dev = "nand" => card'["sd"] = card["sd"]
  BY <1>3 DEF Live, DriverInv, DriverType, CardType, Devices
<1> QED BY <1>1, <1>2, <1>4

LEMMA CallLeaves ==
  ASSUME NEW name, NEW d, NEW first, NEW n, Call(name, d, first, n)
  PROVE  pc = "idle" /\ pc' = "send" /\ op'.name = name /\ UNCHANGED <<card, cid, faults>>
BY DEF Call, controllerVars, cardVars

LEMMA NextKeepsStage ==
  ASSUME DriverInv, StageInv, IdentityInv, Next
  PROVE  StageInv'
<1>1. CASE RecoverKey \/ Arm9
  <2>1. UNCHANGED <<op, pc, card, cid, faults, stage>>
    BY <1>1 DEF RecoverKey, Arm9, VBlank, CheckIdentity, SendStart, Started, ReadSector0, CryptInit,
                SendRequest, TakeReply, arm7Vars, sdmmcVars, driverVars, cardVars
  <2> QED BY <2>1 DEF StageInv
<1>2. CASE StartNand
  <2>1. stage = "key" /\ stage' = "startup" /\ op'.name = "nand_init" /\ UNCHANGED <<card, cid, faults>>
    BY <1>2, CallLeaves DEF StartNand, Stage
  <2> QED BY <2>1 DEF StageInv, Startups
<1>3. CASE GetCid
  <2>1. stage = "startup" /\ stage' = "cid" /\ op'.name = "get_cid" /\ UNCHANGED <<card, cid, faults>>
    BY <1>3, CallLeaves DEF GetCid, Stage
  <2> QED BY <2>1 DEF StageInv
<1>4. CASE Install
  <2>1. stage = "cid" /\ stage' = "serve" /\ pc = "idle" /\ UNCHANGED <<op, pc, card, cid, faults>>
    BY <1>4 DEF Install, Stage, InstallAfter, controllerVars, cardVars
  <2>2. faults = 0 => cid.n = 10 /\ cid.of = "nand"
    BY <2>1 DEF StageInv, DriverInv, FaultFree, SettingsInv
  <2> QED BY <2>1, <2>2 DEF StageInv
<1>5. CASE Handle
  <2>1. stage = "serve" /\ msg # <<>>
    BY <1>5 DEF Handle
  <2>2. CASE stage' = "handle" /\ Call(msg[1].name, msg[1].dev, msg[1].first, msg[1].n)
    <3>1. op'.name = msg[1].name /\ UNCHANGED <<card, cid, faults>>
      BY <2>2, CallLeaves
    <3>2. op'.name \in Startups \cup Transfers /\ op'.name # "get_cid"
      BY <2>1, <3>1, Asked
    <3> QED BY <2>1, <2>2, <3>1, <3>2 DEF StageInv
  <2>3. CASE UNCHANGED <<stage, sdmmcVars>>
    BY <2>3 DEF StageInv, sdmmcVars, driverVars, cardVars
  <2> QED BY <1>5, <2>2, <2>3 DEF Handle
<1>6. CASE Answer
  <2>1. stage = "handle" /\ stage' = "serve" /\ pc = "idle" /\ UNCHANGED <<op, pc, card, cid, faults>>
    BY <1>6 DEF Answer, Stage, sdmmcVars, driverVars, cardVars
  <2> QED BY <2>1 DEF StageInv
<1>7. CASE DriverStep
  <2>1. /\ pc # "idle" /\ stage' = stage /\ op'.name = op.name /\ UNCHANGED <<card, faults>>
        /\ op.name # "get_cid" => cid' = cid
    BY <1>7, DriverLeaves DEF DriverStep, arm7Vars
  <2>2. stage \in {"serve", "handle"} => stage = "handle" /\ op.name \in Startups \cup Transfers
    BY <2>1 DEF StageInv
  <2>3. op.name = "get_cid" => op.name \notin Startups \cup Transfers
    BY DEF Startups, Transfers
  <2> QED BY <2>1, <2>2, <2>3 DEF StageInv
<1>8. CASE ControllerStep
  <2>1. /\ stage' = stage /\ UNCHANGED <<op, pc, cid>> /\ (faults' = 0 => faults = 0)
        /\ pc = "idle" \/ op.dev = "nand" => card'["sd"] = card["sd"]
    BY <1>8, ControllerLeaves DEF ControllerStep, arm7Vars
  <2>2. stage \in {"key", "startup", "cid"} => pc = "idle" \/ op.dev = "nand"
    BY DEF StageInv, DriverInv, SettingsInv
  <2> QED BY <2>1, <2>2 DEF StageInv
<1> QED BY <1>1, <1>2, <1>3, <1>4, <1>5, <1>6, <1>7, <1>8 DEF Next, Arm7

LEMMA NextKeepsIdentity ==
  ASSUME DriverInv, KeyInv, StageInv, IdentityInv, Next
  PROVE  IdentityInv'
<1>1. CASE UNCHANGED <<msg, reply, arm9, ciphers, key>> /\ (faults' = 0 => faults = 0)
           /\ (stage \in {"serve", "handle"} => stage' \in {"serve", "handle"})
  BY <1>1 DEF IdentityInv, IdentityComplete
<1>2. CASE RecoverKey \/ StartNand \/ GetCid \/ Install
  <2>1. UNCHANGED <<msg, reply, arm9, ciphers, key, faults>>
    BY <1>2, CallLeaves DEF RecoverKey, StartNand, GetCid, Install, arm9Vars, fifo, recoveryVars, sdmmcVars,
                            controllerVars
  <2>2. stage \in {"serve", "handle"} => stage' \in {"serve", "handle"}
    BY <1>2 DEF RecoverKey, StartNand, GetCid, Install, Stage, InstallAfter
  <2> QED BY <1>1, <2>1, <2>2
<1>3. CASE DriverStep \/ ControllerStep
  <2>1. UNCHANGED <<msg, reply, arm9, ciphers, key, stage>>
    BY <1>3 DEF DriverStep, ControllerStep, arm7Vars, arm9Vars, fifo, recoveryVars
  <2>2. faults' = 0 => faults = 0
    BY <1>3, DriverLeaves, ControllerLeaves DEF DriverStep, ControllerStep
  <2> QED BY <1>1, <2>1, <2>2
<1>4. CASE Handle
  <2>1. /\ stage = "serve" /\ stage' \in {"serve", "handle"} /\ msg' = <<>>
        /\ UNCHANGED <<arm9, ciphers, key, faults>>
    BY <1>4, CallLeaves DEF Handle, arm9Vars, recoveryVars, sdmmcVars
  <2> QED BY <2>1 DEF IdentityInv, IdentityComplete
<1>5. CASE Answer
  <2>1. stage' = "serve" /\ UNCHANGED <<msg, arm9, ciphers, key, faults>>
    BY <1>5 DEF Answer, Stage, arm9Vars, recoveryVars, sdmmcVars
  <2> QED BY <2>1 DEF IdentityInv, IdentityComplete
<1>6. CASE VBlank \/ CheckIdentity
  <2>1. /\ arm9 \in {"frames", "identity"} /\ UNCHANGED <<msg, reply, ciphers, key, faults, stage>>
        /\ arm9' \notin {"sector0", "crypt", "client"}
    BY <1>6 DEF VBlank, CheckIdentity, arm7Vars, fifo, recoveryVars, sdmmcVars
  <2>2. ciphers = <<>>
    BY <2>1 DEF IdentityInv
  <2> QED BY <2>1, <2>2 DEF IdentityInv, IdentityComplete
<1>7. ASSUME NEW m \in Requests \cup {NandStart, Sector0}, Request(m),
             UNCHANGED <<ciphers, key, faults, stage>>,
             arm9 = "client" => arm9' = "client",
             arm9' \in {"sector0", "crypt", "client"} => arm9 \in {"sector0", "crypt", "client"}
      PROVE  IdentityInv'
  <2>1. reply' = reply /\ msg' = <<m>> /\ msg'[1] \in Requests \cup {NandStart, Sector0}
    BY <1>7 DEF Request
  <2> QED BY <1>7, <2>1 DEF IdentityInv, IdentityComplete
<1>8. CASE SendStart \/ ReadSector0
  BY <1>7, <1>8 DEF SendStart, ReadSector0, sdmmcVars, arm7Vars, recoveryVars
<1>9. CASE SendRequest
  <2>1. arm9 = "client" /\ UNCHANGED <<ciphers, key, faults, stage, arm9>>
    BY <1>9 DEF SendRequest, sdmmcVars, arm7Vars, recoveryVars, arm9Vars
  <2>2. PICK m \in Requests : Request(m)
    BY <1>9 DEF SendRequest
  <2> QED BY <1>7, <2>1, <2>2
<1>10. CASE Started \/ TakeReply
  <2>1. /\ reply # <<>> /\ reply' = <<>> /\ UNCHANGED <<msg, ciphers, key, faults, stage>>
        /\ arm9 = "client" => arm9' = "client"
    BY <1>10 DEF Started, TakeReply, sdmmcVars, arm7Vars, recoveryVars, arm9Vars
  <2> QED BY <2>1 DEF IdentityInv, IdentityComplete
<1>11. CASE CryptInit
  <2>1. /\ arm9 = "crypt" /\ arm9' = "client" /\ reply' = <<>> /\ UNCHANGED <<msg, key, faults, stage>>
        /\ ciphers' = <<out, cid>>
    BY <1>11 DEF CryptInit, sdmmcVars, arm7Vars, recoveryVars
  <2>2. stage \in {"serve", "handle"}
    BY <2>1 DEF IdentityInv
  <2>3. out = key /\ (faults = 0 => cid.n = 10 /\ cid.of = "nand")
    BY <2>2 DEF KeyInv, StageInv
  <2>4. ciphers'[1] = out /\ ciphers'[2] = cid
    BY <2>1
  <2> QED BY <2>1, <2>2, <2>3, <2>4 DEF IdentityInv, IdentityComplete
<1> QED BY <1>2, <1>3, <1>4, <1>5, <1>6, <1>8, <1>9, <1>10, <1>11 DEF Next, Arm7, Arm9

-----------------------------------------------------------------------------
LEMMA InitInv ==
  ASSUME BootInit
  PROVE  Inv
<1>1. DriverInv /\ card["sd"].state = "idle" /\ op.name = "none" /\ pc = "idle"
  BY DriverStarts DEF BootInit
<1>2. StageInv
  BY <1>1 DEF BootInit, StageInv
<1>3. KeyInv
  <2>1. /\ key \in Seq(0 .. LastByte) /\ LastByte \in Nat
        /\ stage = "key" /\ slot = key /\ i = 1 /\ j = 0
        /\ out = [k \in DOMAIN key |-> LastByte + 1]
    BY KeyAssumption DEF BootInit, Unknown
  <2>2. Len(key) \in Nat /\ key \in [1 .. Len(key) -> 0 .. LastByte] /\ DOMAIN key = 1 .. Len(key)
    BY <2>1, LenProperties, Zenon
  <2>3. key \in [1 .. Len(key) -> Int] /\ out \in [1 .. Len(key) -> Int]
    BY <2>1, <2>2
  <2>4. i \in 1 .. Len(key) + 1 /\ j \in 0 .. LastByte /\ \A k \in 1 .. Len(key) : ~(k < i)
    BY <2>1, <2>2
  <2>5. i <= Len(key) => j <= key[i]
    BY <2>1, <2>2
  <2> QED BY <2>1, <2>3, <2>4, <2>5 DEF KeyInv
<1>4. IdentityInv
  BY DEF BootInit, IdentityInv, IdentityComplete
<1> QED BY <1>1, <1>2, <1>3, <1>4 DEF Inv

LEMMA NextInv ==
  ASSUME Inv, [Next]_vars
  PROVE  Inv'
<1>1. CASE Next
  BY <1>1, NextKeepsDriver, NextKeepsKey, NextKeepsStage, NextKeepsIdentity DEF Inv
<1>2. CASE UNCHANGED vars
  <2>1. UNCHANGED <<sdmmcVars, stage, recoveryVars, arm9, ciphers, msg, reply>>
    BY <1>2 DEF vars, arm7Vars, arm9Vars, fifo
  <2>2. UNCHANGED <<op, pc, card, cid, faults, key, slot, out, i, j>>
    BY <2>1 DEF sdmmcVars, driverVars, cardVars, recoveryVars
  <2>3. DriverInv'
    BY <2>1, DriverSame DEF Inv
  <2>4. KeyInv'
    BY <2>1, <2>2 DEF Inv, KeyInv
  <2>5. StageInv' /\ IdentityInv'
    BY <2>1, <2>2 DEF Inv, StageInv, IdentityInv, IdentityComplete
  <2> QED BY <2>3, <2>4, <2>5 DEF Inv
<1> QED BY <1>1, <1>2

(* my_sdmmc.c, template.c and main.cpp:114-147 together.  Every reachable   *)
(* state satisfies the inductive invariant: what the driver believes of     *)
(* the controller and of the cards is true at every access to a register.   *)
THEOREM Invariant == BootSpec => []Inv
<1>1. BootInit => Inv
  BY InitInv
<1>2. Inv /\ [Next]_vars => Inv'
  BY NextInv
<1> QED BY <1>1, <1>2, PTL DEF BootSpec

(* my_sdmmc.c:43-241.  The command that runs belongs to the script of its   *)
(* function, and the blocks still to move and those moved make the whole    *)
(* transfer, whatever the number of blocks.                                 *)
THEOREM DriverTypeCorrect == BootSpec => []TypeOK
<1>1. Inv => TypeOK
  <2> SUFFICES ASSUME Inv
               PROVE  TypeOK
    OBVIOUS
  <2>1. DriverType /\ ReadInv /\ WriteInv
    BY DEF Inv, DriverInv
  <2>2. /\ op.name \in Startups \cup {"none", "get_cid", "readsectors", "writesectors"}
        /\ op.dev \in Devices /\ line.port \in Devices
    BY <2>1, DeviceTypes DEF DriverType, Names
  <2>3. op.name # "none" => at \in 1 .. Len(Script(op))
    <3>1. op.name # "none" => Len(Script(op)) = Last(op.name)
      BY <2>2, ScriptLength DEF Names
    <3> QED BY <2>1, <3>1 DEF DriverType
  <2>4. pc \in {"status", "transfer", "check"} /\ op.name = "readsectors" => size + Len(data) = op.n
    BY <2>1 DEF ReadInv, Live
  <2>5. pc \in {"status", "transfer", "check"} /\ op.name = "writesectors" =>
          reg.err \/ reg.stopping \/ size + Len(reg.fifo) + Len(reg.stored) = op.n
    BY <2>1 DEF WriteInv, Live
  <2> QED BY <2>1, <2>2, <2>3, <2>4, <2>5 DEF TypeOK, DriverType, Phases
<1> QED BY <1>1, Invariant, PTL

(* my_sdmmc.c:43-241, 489-527.  A transfer that reports success has moved   *)
(* every block, once and in order, between the buffer and the sectors that  *)
(* were asked for, for every number of blocks and of faults.                *)
THEOREM TransfersAreComplete == BootSpec => []DataComplete
<1>1. Inv => DataComplete
  <2> SUFFICES ASSUME Inv
               PROVE  DataComplete
    OBVIOUS
  <2>1. DriverType /\ ReadInv /\ WriteInv
    BY DEF Inv, DriverInv
  <2>2. data \in Seq(Items) /\ reg.stored \in Seq(Sectors \X Items)
    BY <2>1 DEF DriverType, RegType
  <2>3. /\ data = [k \in 1 .. Len(data) |-> data[k]]
        /\ reg.stored = [k \in 1 .. Len(reg.stored) |-> reg.stored[k]]
    <3>1. /\ data \in [1 .. Len(data) -> Items]
          /\ reg.stored \in [1 .. Len(reg.stored) -> Sectors \X Items]
      BY <2>2, LenProperties, Zenon
    <3> QED BY <3>1
  <2>4. ASSUME Returned({"readsectors"}), result = 0
        PROVE  data = [k \in 1 .. op.n |-> <<op.dev, op.first + k - 1>>]
    <3>1. Len(data) = op.n /\ \A k \in 1 .. op.n : data[k] = <<op.dev, op.first + k - 1>>
      BY <2>1, <2>4 DEF Returned, ReadInv, Moved, Place
    <3> QED BY <2>3, <3>1
  <2>5. ASSUME Returned({"writesectors"}), result = 0
        PROVE  reg.stored = [k \in 1 .. op.n |-> <<<<op.dev, op.first + k - 1>>, k>>]
    <3>1. /\ Len(reg.stored) = op.n
          /\ \A k \in 1 .. op.n : reg.stored[k] = <<<<op.dev, op.first + k - 1>>, k>>
      BY <2>1, <2>5 DEF Returned, WriteInv, Moved, Place
    <3> QED BY <2>3, <3>1
  <2> QED BY <2>4, <2>5 DEF DataComplete
<1> QED BY <1>1, Invariant, PTL

(* my_sdmmc.c:344-486.  A startup that reports success leaves a selected    *)
(* card whose address, bus width and kind of addressing are those the       *)
(* driver goes by, whichever answers were lost and however the card was     *)
(* found.                                                                   *)
THEOREM StartupIsReady == BootSpec => []StartupReady
<1>1. Inv => StartupReady
  <2> SUFFICES ASSUME Inv, Returned(Startups), result = 0
               PROVE  /\ card[op.dev].state = "tran"
                      /\ card[op.dev].rca = Device.initarg
                      /\ card[op.dev].wide = Device.SDOPT
                      /\ op.dev = "sd" => Device.isSDHC = ("hc" \in kind)
    BY DEF StartupReady
  <2>1. DriverType /\ StartupInv /\ SettingsInv /\ pc = "idle" /\ op.name \in Startups
    BY DEF Inv, DriverInv, Returned
  <2>2. at = Last(op.name) /\ Arrived(at + 1) /\ initialised
    BY <2>1 DEF StartupInv, SettingsInv
  <2>3. op.dev \in Devices /\ card[op.dev].wide \in BOOLEAN /\ Device.SDOPT \in BOOLEAN
        /\ Device.isSDHC \in BOOLEAN
    BY <2>1, DeviceTypes DEF DriverType, CardType, Device, OneDevice, OneCard
  <2>4. CASE op.name = "nand_init"
    <3>1. op.dev = "nand" /\ at = 10 /\ Device.initarg = 1 /\ Device.SDOPT
      BY <2>1, <2>2, <2>4 DEF SettingsInv, Last, Device
    <3>2. card[op.dev].state = "tran" /\ card[op.dev].rca = 1 /\ card[op.dev].wide
      BY <2>2, <2>4, <3>1, NandStation DEF Arrived
    <3> QED BY <2>3, <3>1, <3>2
  <2>5. CASE op.name = "sdcard_init"
    <3>1. op.dev = "sd" /\ at = 15 /\ Device.initarg = 7 /\ Device.SDOPT
      BY <2>1, <2>2, <2>5 DEF SettingsInv, Last, RCA
    <3>2. card[op.dev].state = "tran" /\ card[op.dev].rca = 7 /\ card[op.dev].wide
      BY <2>2, <2>5, <3>1, SdStation DEF Arrived
    <3>3. Device.isSDHC <=> "hc" \in kind
      BY <2>1, <3>1, <3>2 DEF SettingsInv, Upgrading, HighCapacity, Device
    <3> QED BY <2>3, <3>1, <3>2, <3>3
  <2> QED BY <2>1, <2>4, <2>5 DEF Startups
<1> QED BY <1>1, Invariant, PTL

(* my_sdmmc.c:530-555, template.c:144-145.  Without faults the CID is that  *)
(* of the chip, and the chip is selected again.                             *)
THEOREM CidIsGenuine == BootSpec => []CidGenuine
<1>1. Inv => CidGenuine
  <2> SUFFICES ASSUME Inv, Returned({"get_cid"}), faults = 0
               PROVE  cid.n = 10 /\ cid.of = op.dev /\ card[op.dev].state = "tran"
    BY DEF CidGenuine
  <2>1. StartupInv /\ SettingsInv /\ FaultFree /\ pc = "idle" /\ op.name = "get_cid"
    BY DEF Inv, DriverInv, Returned
  <2>2. Arrived(4) /\ op.dev = "nand" /\ at = 3
    BY <2>1 DEF StartupInv, Genuine, SettingsInv, FaultFree
  <2> QED BY <2>1, <2>2, CidStation DEF Arrived, FaultFree
<1> QED BY <1>1, Invariant, PTL

(* template.c:116-139.  The search finds every byte of every key of any     *)
(* length, and leaves the key register as it was.                           *)
THEOREM KeyIsRecovered == BootSpec => []KeyRecovered
<1>1. Inv => KeyRecovered
  BY DEF Inv, KeyInv, KeyRecovered
<1> QED BY <1>1, Invariant, PTL

(* nandio.c:64-84, template.c:104-163.  The keys of the NAND are computed   *)
(* after key 3 and the CID were stored, in every interleaving of the two    *)
(* processors, the driver and the controller.                               *)
THEOREM IdentityIsComplete == BootSpec => []IdentityComplete
<1>1. Inv => IdentityComplete
  BY DEF Inv, IdentityInv
<1> QED BY <1>1, Invariant, PTL
=============================================================================
