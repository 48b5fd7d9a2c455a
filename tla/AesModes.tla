------------------------------ MODULE AesModes ------------------------------
(***************************************************************************)
(* aes_crypt_cbc and aes_crypt_cfb128 of polarssl/aes.c.  A text is        *)
(* encrypted in place by calls that may cut it anywhere, and decrypted     *)
(* again by calls that may cut it differently; iv and iv_off carry over    *)
(* from one call to the next.  One action per block of CBC and per byte of *)
(* CFB.                                                                    *)
(***************************************************************************)
EXTENDS Aes, Fips197, FiniteSets

CONSTANTS
  AesKeys,   \* [bits, key], key a function from 0 .. 31; the rest is not read
  Texts,     \* [mode, text], functions from 0
  IVs,
  Cuts       \* lengths a call may have

ASSUME AesAssumption ==
  /\ AesKeys \subseteq [bits : KeySizes, key : [0 .. 31 -> Byte]]
  /\ \A t \in Texts : /\ t.mode \in {"cbc", "cfb128"}
                      /\ IsFiniteSet(DOMAIN t.text)
                      /\ t.text \in [0 .. (Cardinality(DOMAIN t.text) - 1) -> Byte]
  /\ IVs \subseteq Block /\ Cuts \subseteq Nat

VARIABLES
  aesPc,     \* "setkey", "call", "run" or "idle"
  job,       \* [mode, text]
  aesKey,
  dir,       \* argument mode: "encrypt" or "decrypt"
  aes,       \* aes_context
  iv0,       \* the first iv
  iv, iv_off,
  n,         \* local of aes_crypt_cfb128
  length,    \* what is left of the call
  off,       \* bytes behind input and output
  data       \* input and output

aesVars == <<aesPc, job, aesKey, dir, aes, iv0, iv, iv_off, n, length, off, data>>

TextLen == Cardinality(DOMAIN job.text)

AesInit ==
  /\ aesPc = "setkey"
  /\ job \in Texts /\ aesKey \in AesKeys /\ iv0 \in IVs
  /\ dir = "encrypt" /\ aes = [nr |-> 0, rk |-> <<>>]
  /\ iv = iv0 /\ iv_off = 0 /\ n = 0 /\ length = 0 /\ off = 0 /\ data = job.text

(* CBC decrypts with the reverse key; CFB never runs the cipher backwards.  *)
SetKey ==
  /\ aesPc = "setkey"
  /\ aes' = IF job.mode = "cbc" /\ dir = "decrypt" THEN aes_setkey_dec(aesKey.key, aesKey.bits)
                                                   ELSE aes_setkey_enc(aesKey.key, aesKey.bits)
  /\ iv' = iv0 /\ iv_off' = 0 /\ off' = 0
  /\ aesPc' = "call"
  /\ UNCHANGED <<job, aesKey, dir, iv0, n, length, data>>

(* aes_crypt_cbc refuses a length that is no multiple of 16 and changes     *)
(* nothing.                                                                 *)
Entered(len) == ~(job.mode = "cbc" /\ len % 16 # 0)
CallMode ==
  /\ aesPc = "call" /\ off < TextLen
  /\ \E len \in Cuts : off + len <= TextLen /\ Entered(len) /\ length' = len
  /\ n' = iv_off
  /\ aesPc' = "run"
  /\ UNCHANGED <<job, aesKey, dir, aes, iv0, iv, iv_off, off, data>>

Replace(from, out) == [i \in DOMAIN data |-> IF i - from \in DOMAIN out THEN out[i - from] ELSE data[i]]

(* The iv after a block: the cipher text, which decryption has to save      *)
(* before it overwrites it.  A mistake that RoundTrip would show: the copy  *)
(* is made afterwards.                                                      *)
IvAfterwards(input, output) == output
IvAfter(input, output) == IF dir = "decrypt" THEN input ELSE output
CbcBlock ==
  LET input == [i \in Index |-> data[off + i]]
  IN  /\ aesPc = "run" /\ job.mode = "cbc" /\ length > 0
      /\ \E output \in {IF dir = "decrypt" THEN XorBlock(aes_crypt_ecb(aes, "decrypt", input), iv)
                                           ELSE aes_crypt_ecb(aes, "encrypt", XorBlock(input, iv))} :
           /\ data' = Replace(off, output)
           /\ iv' = IvAfter(input, output)
      /\ off' = off + 16 /\ length' = length - 16
      /\ UNCHANGED <<aesPc, job, aesKey, dir, aes, iv0, iv_off, n>>

CfbByte ==
  /\ aesPc = "run" /\ job.mode = "cfb128" /\ length > 0
  /\ \E stream \in {IF n = 0 THEN aes_crypt_ecb(aes, "encrypt", iv) ELSE iv} :
       LET output == Xor(data[off], stream[n])
       IN  /\ data' = [data EXCEPT ![off] = output]
           /\ iv' = [stream EXCEPT ![n] = IvAfter(data[off], output)]
  /\ n' = (n + 1) % 16
  /\ off' = off + 1 /\ length' = length - 1
  /\ UNCHANGED <<aesPc, job, aesKey, dir, aes, iv0, iv_off>>

ReturnMode ==
  /\ aesPc = "run" /\ length = 0
  /\ iv_off' = n
  /\ aesPc' = "call"
  /\ UNCHANGED <<job, aesKey, dir, aes, iv0, iv, n, length, off, data>>

(* The caller turns round, or has ended.                                    *)
TurnRound ==
  /\ aesPc = "call" /\ off = TextLen
  /\ IF dir = "encrypt" THEN dir' = "decrypt" /\ aesPc' = "setkey"
                        ELSE aesPc' = "idle" /\ UNCHANGED dir
  /\ UNCHANGED <<job, aesKey, aes, iv0, iv, iv_off, n, length, off, data>>

AesNext == SetKey \/ CallMode \/ CbcBlock \/ CfbByte \/ ReturnMode \/ TurnRound
AesSpec == AesInit /\ [][AesNext]_aesVars

-----------------------------------------------------------------------------
(* aes.c:363-543, 652-862.  With tables, words and loops of its own the     *)
(* code computes the modes of operation of the standard: the key schedule   *)
(* of FIPS 197, C(k) = E(P(k) xor C(k-1)) for CBC and                       *)
(* C(k) = P(k) xor E(C(k-1)) for CFB128, wherever the calls cut the text.   *)
ModeIsStandard ==
  (aesPc = "call" /\ dir = "encrypt") =>
    LET E(block) == Cipher(aes.rk, aesKey.bits \div 32 + 6, block)
        Out(k) == IF k = 0 THEN iv0 ELSE [i \in Index |-> data[16 * (k - 1) + i]]
        P(k, i) == job.text[16 * (k - 1) + i]
        Here(k) == {i \in Index : 16 * (k - 1) + i < off}
    IN  /\ IsKeyExpansion(aes.rk, aesKey.key, aesKey.bits \div 32)
        /\ \A k \in 1 .. ((off + 15) \div 16) :
             IF job.mode = "cbc"
             THEN Out(k) = E([i \in Index |-> Xor(P(k, i), Out(k - 1)[i])])
             ELSE \A stream \in {E(Out(k - 1))} :
                    \A i \in Here(k) : data[16 * (k - 1) + i] = Xor(P(k, i), stream[i])

(* aes.c:549-601, 759-862.  What was encrypted is decrypted again, in       *)
(* place and with other cuts.                                               *)
RoundTrip == (dir = "decrypt" /\ aesPc # "setkey") => \A i \in 0 .. (off - 1) : data[i] = job.text[i]
=============================================================================
