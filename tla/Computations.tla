----------------------------- MODULE Computations -----------------------------
(***************************************************************************)
(* What the program works out by itself, one job at a time: a mode of      *)
(* operation, a sealed container, the keys and the sectors of the chip,    *)
(* which all rest on the same block cipher; calls of the integers; and the *)
(* progress that long work shows.                                          *)
(***************************************************************************)
EXTENDS AesModes, EsBlock, DsiCrypto, Bignum, Progress

(* The hypothesis of the theorem about EsVerdict, for the instance checked. *)
ASSUME NonceAssumption == NonceShows

vars == <<aesVars, esVars, dsiVars, bignumVars, progressVars>>

(* Jobs that have not begun.                                                *)
AesOff ==
  /\ aesPc = "off" /\ job = [mode |-> "none", text |-> <<>>] /\ aesKey = [bits |-> 0, key |-> <<>>]
  /\ dir = "none" /\ aes = NoContext.aes /\ iv0 = ZeroBlock /\ iv = ZeroBlock /\ iv_off = 0
  /\ n = 0 /\ length = 0 /\ off = 0 /\ data = <<>>
EsOff ==
  /\ esPc = "off" /\ es = [key |-> ZeroBlock] /\ cryptoctx = NoContext /\ nonce = <<>>
  /\ buffer = <<>> /\ metablock = ZeroMeta /\ size = 0 /\ pos = 0 /\ ret = 0 /\ chain = <<>>
  /\ plain = <<>> /\ arrived = <<>> /\ damaged = FALSE
DsiOff ==
  /\ cryptPc = "off" /\ console = "none" /\ slot3 = ZeroBlock /\ console_id = NoId /\ key = ZeroBlock
  /\ nand_ctx = NoContext /\ es_ctx = NoContext /\ boot2_ctx = NoContext /\ ctx = NoContext
  /\ nand_ctr_iv = ZeroBlock /\ boot2_ctr = ZeroBlock
  /\ call = NoCall /\ done = 0 /\ ctr = ZeroBlock /\ out = <<>>
  /\ boot2From = -1 /\ boot2Done = 0 /\ calls = 0
BignumOff ==
  /\ denied = {} /\ regs = [X |-> NewMpi, A |-> NewMpi, B |-> NewMpi] /\ RRs = <<>>
  /\ did = Nothing /\ bigCalls = 0
ProgressOff ==
  /\ progPc = "off" /\ work = [kind |-> "none", size |-> 0] /\ reached = 0
  /\ lastReportedProgress = 255 /\ barRow = BlankRow

Init == \/ AesInit /\ EsOff /\ DsiOff /\ BignumOff /\ ProgressOff
        \/ AesOff /\ EsInit /\ DsiOff /\ BignumOff /\ ProgressOff
        \/ AesOff /\ EsOff /\ DsiInit /\ BignumOff /\ ProgressOff
        \/ AesOff /\ EsOff /\ DsiOff /\ BignumInit /\ ProgressOff
        \/ AesOff /\ EsOff /\ DsiOff /\ BignumOff /\ ProgressInit
Next == \/ AesNext /\ UNCHANGED <<esVars, dsiVars, bignumVars, progressVars>>
        \/ EsNext /\ UNCHANGED <<aesVars, dsiVars, bignumVars, progressVars>>
        \/ DsiNext /\ UNCHANGED <<aesVars, esVars, bignumVars, progressVars>>
        \/ BignumNext /\ UNCHANGED <<aesVars, esVars, dsiVars, progressVars>>
        \/ ProgressNext /\ UNCHANGED <<aesVars, esVars, dsiVars, bignumVars>>
ComputationsSpec == Init /\ [][Next]_vars
=============================================================================
