------------------------------ MODULE EsBlock ------------------------------
(***************************************************************************)
(* The sealed containers ("ES blocks") of twltool/dsi.c: a buffer that is  *)
(* encrypted and authenticated in place, and a metablock of 32 bytes that  *)
(* says how.  The state machine seals a buffer, delivers it, damaged or    *)
(* not, and opens it again, with one action per block of dsi_encrypt_ccm   *)
(* and dsi_decrypt_ccm.                                                    *)
(***************************************************************************)
EXTENDS Twl, FiniteSets

CONSTANTS
  EsKeys,     \* keys of containers
  Nonces,     \* what rand() may deliver, and the caller set
  Payloads,   \* contents, functions from 0 .. size - 1
  Damages     \* bytes of a container that are damaged on the way: buffer or
              \* metablock and the place; NoDamage for none

(* Sizes have three bytes, also when they are rounded up to whole blocks.   *)
Largest == 16777200
ASSUME EsAssumption ==
  /\ EsKeys \subseteq Block /\ Nonces \subseteq [0 .. 11 -> Byte]
  /\ \A t \in Payloads : /\ IsFiniteSet(DOMAIN t) /\ Cardinality(DOMAIN t) <= Largest
                         /\ t \in [0 .. (Cardinality(DOMAIN t) - 1) -> Byte]
  /\ \A d \in Damages : /\ d.part \in {"none", "buffer", "metablock", "size"}
                        /\ d.part = "metablock" => d.at \in 0 .. 31

VARIABLES
  es,         \* dsi_es_context: [key, nonce, randomnonce]
  esPc,
  cryptoctx,  \* local of dsi_es_encrypt and dsi_es_decrypt
  nonce,      \* local
  buffer, metablock,
  size,       \* argument
  pos,        \* bytes behind the loop of dsi_encrypt_ccm, dsi_decrypt_ccm
  ret,        \* of dsi_es_decrypt
  chain,      \* history: the values cryptoctx.mac has had since dsi_init_ccm
  plain,      \* history: what was sealed
  arrived,    \* history: the buffer as dsi_es_decrypt found it
  damaged     \* history: was it altered on the way

esVars == <<es, esPc, cryptoctx, nonce, buffer, metablock, size, pos, ret, chain, plain, arrived, damaged>>

ZeroMeta   == [i \in 0 .. 31 |-> 0]
NoDamage   == [part |-> "none", at |-> 0]

(* A new context takes random nonces until the caller sets one.             *)
dsi_es_init(key) == [key |-> key, nonce |-> [i \in 0 .. 11 |-> 0], randomnonce |-> TRUE]
dsi_es_set_nonce(c, n) == [c EXCEPT !.nonce = n, !.randomnonce = FALSE]
dsi_es_set_random_nonce(c) == [c EXCEPT !.randomnonce = TRUE]

EsInit ==
  /\ \E k \in EsKeys, n \in Nonces :
       LET set == dsi_es_set_nonce(dsi_es_init(k), n)
       IN  es \in {dsi_es_init(k), set, dsi_es_set_random_nonce(set)}
  /\ plain \in Payloads /\ buffer = plain
  /\ size = Cardinality(DOMAIN plain)
  /\ esPc = "seal" /\ cryptoctx = NoContext /\ nonce = es.nonce /\ metablock = ZeroMeta
  /\ pos = 0 /\ ret = 0 /\ chain = <<>> /\ arrived = buffer /\ damaged = FALSE

(* The block at pos, its end zeros when fewer bytes are left.               *)
BlockAt == [i \in Index |-> IF pos + i < size THEN buffer[pos + i] ELSE 0]
Store(out) == [j \in DOMAIN buffer |-> IF j - pos \in Index THEN out[j - pos] ELSE buffer[j]]
More == size - pos > 16

(* dsi_init_ccm, an action on the context.                                  *)
dsi_init_ccm(n) ==
  /\ \E start \in {CcmStart(cryptoctx, es.key, size, n)} : cryptoctx' = CcmReady(start)
  /\ chain' = <<cryptoctx'.mac>>
  /\ pos' = 0

(* dsi_es_encrypt *)
EsEncrypt ==
  /\ esPc = "seal"
  /\ nonce' \in IF es.randomnonce THEN Nonces ELSE {es.nonce}
  /\ dsi_init_ccm(nonce')
  /\ esPc' = "encrypt"
  /\ UNCHANGED <<es, buffer, metablock, size, ret, plain, arrived, damaged>>

(* A round of the loop, or the rest behind it, which is padded with zeros.  *)
EncryptBlock ==
  /\ esPc = "encrypt"
  /\ buffer' = Store(CtrBlock(cryptoctx, BlockAt))
  /\ cryptoctx' = AfterBlock(cryptoctx, BlockAt)
  /\ chain' = Append(chain, cryptoctx'.mac)
  /\ pos' = pos + 16
  /\ esPc' = IF More THEN "encrypt" ELSE "metablock"
  /\ UNCHANGED <<es, nonce, metablock, size, ret, plain, arrived, damaged>>

HeaderCounter(n) == [i \in Index |-> IF i \in 1 .. 12 THEN n[i - 1] ELSE 0]
EsSeal ==
  LET scratchpad == [i \in Index |-> IF i = 0 THEN 58 ELSE IF i < 13 THEN 0 ELSE SizeByte(size, i)]
      mac        == Mac(cryptoctx)
  IN  /\ esPc = "metablock"
      /\ \E keyed \in {dsi_init_ctr(cryptoctx, es.key, HeaderCounter(nonce))} :
           \E header \in {CtrBlock(keyed, scratchpad)} :
             metablock' = [i \in 0 .. 31 |-> IF i < 16 THEN mac[i]
                                             ELSE IF i \in 17 .. 28 THEN nonce[i - 17]
                                             ELSE header[i - 16]]
      /\ esPc' = "deliver"
      /\ UNCHANGED <<es, cryptoctx, nonce, buffer, size, pos, ret, chain, plain, arrived, damaged>>

(* On the way a bit may change; or the reader believes in another size.     *)
Deliver ==
  /\ esPc = "deliver"
  /\ \E d \in Damages :
       /\ d.part = "buffer" => d.at \in DOMAIN buffer
       /\ buffer' = IF d.part = "buffer" THEN [buffer EXCEPT ![d.at] = Xor(@, 1)] ELSE buffer
       /\ metablock' = IF d.part = "metablock" THEN [metablock EXCEPT ![d.at] = Xor(@, 1)] ELSE metablock
       /\ size' = IF d.part = "size" THEN size + 1 ELSE size
       /\ damaged' = (d.part # "none")
  /\ arrived' = buffer'
  /\ esPc' = "open"
  /\ UNCHANGED <<es, cryptoctx, nonce, pos, ret, chain, plain>>

(* dsi_es_decrypt: marker and size come first, and nothing is touched when  *)
(* they are wrong.                                                          *)
EsDecrypt ==
  LET ctr == HeaderCounter([i \in 0 .. 11 |-> metablock[17 + i]])
      chksize(s) == 65536 * s[13] + 256 * s[14] + s[15]
  IN  /\ esPc = "open"
      /\ \E keyed \in {dsi_init_ctr(cryptoctx, es.key, ctr)} :
           \E scratchpad \in {CtrBlock(keyed, [i \in Index |-> metablock[16 + i]])} :
             ret' = IF scratchpad[0] # 58 THEN -1 ELSE IF chksize(scratchpad) # size THEN -2 ELSE 0
      /\ nonce' = [i \in 0 .. 11 |-> metablock[17 + i]]
      /\ esPc' = IF ret' = 0 THEN "init" ELSE "done"
      /\ UNCHANGED <<es, cryptoctx, buffer, metablock, size, pos, chain, plain, arrived, damaged>>

EsInitCcm ==
  /\ esPc = "init"
  /\ dsi_init_ccm(nonce)
  /\ esPc' = "decrypt"
  /\ UNCHANGED <<es, nonce, buffer, metablock, size, ret, plain, arrived, damaged>>

(* The rest behind the loop is padded with the stream itself, so that zeros *)
(* are authenticated as they were when sealing; the counter is put back in  *)
(* between.  A mistake that EsVerdict would show: zeros as in encryption.   *)
PaddedWithZeros == BlockAt
PaddedWithStream ==
  LET stream == Stream(cryptoctx)
  IN  [i \in Index |-> IF pos + i < size THEN buffer[pos + i] ELSE stream[i]]
DecryptBlock ==
  /\ esPc = "decrypt"
  /\ \E block \in {IF More THEN BlockAt ELSE PaddedWithStream} :
       \E out \in {CtrBlock(cryptoctx, block)} :
         /\ buffer' = Store(out)
         /\ cryptoctx' = AfterBlock(cryptoctx, out)
  /\ pos' = pos + 16
  /\ esPc' = IF More THEN "decrypt" ELSE "verify"
  /\ UNCHANGED <<es, nonce, metablock, size, ret, chain, plain, arrived, damaged>>

EsVerify ==
  /\ esPc = "verify"
  /\ ret' = IF Mac(cryptoctx) # [i \in Index |-> metablock[i]] THEN -3 ELSE 0
  /\ esPc' = "done"
  /\ UNCHANGED <<es, cryptoctx, nonce, buffer, metablock, size, pos, chain, plain, arrived, damaged>>

EsNext == EsEncrypt \/ EncryptBlock \/ EsSeal \/ Deliver \/ EsDecrypt \/ EsInitCcm
          \/ DecryptBlock \/ EsVerify
EsSpec == EsInit /\ [][EsNext]_esVars

-----------------------------------------------------------------------------
(* dsi.c:107-171, 240-264, 337-379.  A container is what RFC 3610 defines,  *)
(* for the payload padded to whole blocks and every block reversed: with    *)
(* B(0) the flags, nonce and length, X(k+1) = E(X(k) xor B(k)) and          *)
(* S(k) = E(A(k)), the tag is X xor S(0) and block k of the text is xored   *)
(* with S(k).                                                               *)
CcmIsStandard ==
  (esPc = "deliver" /\ size > 0) =>
    LET E(b)   == aes_crypt_ecb(cryptoctx.aes, "encrypt", b)
        blocks == (size + 15) \div 16
        Lead(flags, n) == [i \in Index |-> IF i = 0 THEN flags
                                           ELSE IF i <= 12 THEN nonce[12 - i]
                                           ELSE IF i = 13 THEN n \div 65536
                                           ELSE IF i = 14 THEN (n \div 256) % 256 ELSE n % 256]
        Payload(k) == [i \in Index |-> LET j == 16 * k - 1 - i
                                       IN  IF j < size THEN plain[j] ELSE 0]
    IN  /\ Len(chain) = blocks + 1
        /\ chain[1] = E(Lead(58, 16 * blocks))
        /\ \A k \in 1 .. blocks : chain[k + 1] = E(XorBlock(chain[k], Payload(k)))
        /\ \A S \in {E(Lead(2, 0))} :
             \A i \in Index : metablock[15 - i] = Xor(chain[blocks + 1][i], S[i])
        /\ \A k \in 1 .. blocks : \A S \in {E(Lead(2, k))} :
             \A j \in {16 * k - 1 - i : i \in Index} \cap DOMAIN buffer :
               buffer[j] = Xor(plain[j], S[16 * k - 1 - j])

(* dsi.c:174-237, 286-334.  Only a container that arrived as it was sealed  *)
(* is accepted, and then it holds what was sealed, whatever its length; one *)
(* refused for its header is left as it came.                               *)
EsVerdict ==
  esPc = "done" =>
    /\ ret = 0 <=> ~damaged
    /\ ret = 0 => buffer = plain
    /\ ret \in {-1, -2} => buffer = arrived

(* The nonce is not authenticated by anything but its use, so EsVerdict     *)
(* needs of the cipher that a damaged one gives another stream, in one of   *)
(* the four bytes of the header that are looked at.                         *)
HeaderStream(key, n) == Stream(dsi_init_ctr(NoContext, key, HeaderCounter(n)))
NonceShows ==
  \A d \in Damages, k \in EsKeys, n \in Nonces :
    (d.part = "metablock" /\ d.at \in 17 .. 28) =>
      \E i \in {0, 13, 14, 15} :
        HeaderStream(k, [n EXCEPT ![d.at - 17] = Xor(@, 1)])[i] # HeaderStream(k, n)[i]
=============================================================================
