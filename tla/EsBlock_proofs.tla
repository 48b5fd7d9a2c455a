-------------------------- MODULE EsBlock_proofs --------------------------
(***************************************************************************)
(* Proofs about the es blocks of twltool (EsBlock): what dsi_es_encrypt    *)
(* seals is the CCM of the standard, and dsi_es_decrypt accepts a block    *)
(* just when nothing of it was damaged on the way, and then returns the    *)
(* text that was sealed.                                                   *)
(***************************************************************************)
EXTENDS EsBlock, Aes_proofs, SequenceTheorems

-----------------------------------------------------------------------------
(* The cipher of a container.  A sealing s is [key, nonce, text].           *)
KeyOf(s) == aes_setkey_enc(u128_swap(s.key), 128)
E(s, b)  == aes_crypt_ecb(KeyOf(s), "encrypt", b)

(* A key of sixteen bytes, with zeros behind them.                          *)
Filled32(key16) == [i \in 0 .. 31 |-> IF i \in Index THEN key16[i] ELSE 0]

(* A key of 128 bits is expanded from its sixteen bytes alone, so the two   *)
(* expand alike.                                                            *)
LEMMA ShortKey ==
  ASSUME NEW key16 \in Block
  PROVE  /\ Filled32(key16) \in [0 .. 31 -> Byte]
         /\ aes_setkey_enc(key16, 128) = aes_setkey_enc(Filled32(key16), 128)
<1> DEFINE key32 == Filled32(key16)
           words(k) == Table([j \in 1 .. 4 |-> WordOf(k, 4 * (j - 1))])
           Eq(f, T, w) == f = [i \in 0 .. 10 |-> IF i = 0 THEN w ELSE With(f[i - 1], LAMBDA v : Lengthened(T, 4, v, i))]
           X(T, w) == (CHOOSE f : Eq(f, T, w))[10]
           Made(T, w) == [nr |-> Rounds(128), rk |-> X(T, w)]
<1>1. key32 \in [0 .. 31 -> Byte]
  <2>1. 0 \in Byte
    BY BytesAre
  <2>2. \A i \in 0 .. 31 : (IF i \in Index THEN key16[i] ELSE 0) \in Byte
    BY <2>1 DEF Block
  <2> QED BY <2>2 DEF Filled32
<1>2. words(key16) = words(key32)
  <2>1. ASSUME NEW j \in 1 .. 4  PROVE WordOf(key16, 4 * (j - 1)) = WordOf(key32, 4 * (j - 1))
    <3>1. /\ 4 * (j - 1) \in Index /\ 4 * (j - 1) + 1 \in Index
          /\ 4 * (j - 1) + 2 \in Index /\ 4 * (j - 1) + 3 \in Index
      BY DEF Index
    <3>2. \A i \in Index : i \in 0 .. 31 /\ key32[i] = key16[i]
      BY DEF Index, Filled32
    <3> HIDE DEF key32
    <3> QED BY <3>1, <3>2 DEF WordOf
  <2>2. [j \in 1 .. 4 |-> WordOf(key16, 4 * (j - 1))] = [j \in 1 .. 4 |-> WordOf(key32, 4 * (j - 1))]
    BY <2>1
  <2> QED BY <2>2
<1>3. ASSUME NEW k  PROVE aes_setkey_enc(k, 128) = Made(Tb, words(k))
  <2>1. 128 \div 32 = 4 /\ Loops(128) = 10
    BY DEF Loops
  <2>2. ExpandedKey(Tb, k, 4, 10) = X(Tb, words(k))
    BY DEF ExpandedKey
  <2>3. aes_setkey_enc(k, 128) = [nr |-> Rounds(128), rk |-> ExpandedKey(Tb, k, 128 \div 32, Loops(128))]
    BY TableFacts DEF aes_setkey_enc, With
  <2> QED BY <2>1, <2>2, <2>3
<1> HIDE DEF Made, words, key32
<1>4. aes_setkey_enc(key16, 128) = aes_setkey_enc(key32, 128)
  BY <1>2, <1>3
<1> QED BY <1>1, <1>4 DEF key32

(* It makes blocks of blocks, and different ones of different ones.         *)
LEMMA EnciphersBlocks ==
  ASSUME NEW s, s.key \in Block
  PROVE  /\ \A b \in Block : E(s, b) \in Block
         /\ \A a, b \in Block : E(s, a) = E(s, b) => a = b
<1> DEFINE key32 == Filled32(u128_swap(s.key))
           enc == aes_setkey_enc(key32, 128)
           dec == aes_setkey_dec(key32, 128)
<1>1. u128_swap(s.key) \in Block
  BY SwapsBack
<1>2. key32 \in [0 .. 31 -> Byte] /\ KeyOf(s) = enc
  BY <1>1, ShortKey DEF KeyOf
<1>3. 128 \in KeySizes
  BY DEF KeySizes
<1>4. IsAesContext(enc)
  BY <1>2, <1>3, EncryptionKey
<1>5. \A b \in Block : aes_crypt_ecb(dec, "decrypt", aes_crypt_ecb(enc, "encrypt", b)) = b
  BY <1>2, <1>3, BlockRoundTrip
<1> HIDE DEF enc, dec
<1>6. \A b \in Block : E(s, b) = aes_crypt_ecb(enc, "encrypt", b)
  BY <1>2 DEF E
<1>7. \A b \in Block : E(s, b) \in Block
  BY <1>4, <1>6, Enciphered16
<1>8. ASSUME NEW a \in Block, NEW b \in Block, E(s, a) = E(s, b)  PROVE a = b
  BY <1>5, <1>6, <1>8
<1> QED BY <1>7, <1>8

-----------------------------------------------------------------------------
(* What is sealed, and the parts of the standard: the size of the text, the *)
(* blocks there are, the counter and the stream of block m, block k of the  *)
(* text in the order of the code, and the first block that is               *)
(* authenticated.                                                           *)
Size(s)   == Cardinality(DOMAIN s.text)
Turns(s)  == IF Size(s) = 0 THEN 1 ELSE (Size(s) + 15) \div 16
Count(s, m) == CcmBlock(2, s.nonce, m)
Pad(s, m) == u128_swap(E(s, Count(s, m)))
TextBlock(s, k) == [i \in Index |-> IF 16 * k + i < Size(s) THEN s.text[16 * k + i] ELSE 0]
First(s)  == CcmBlock(58, s.nonce, Padded(Size(s)))

IsSealing(s) ==
  /\ s.key \in Block /\ s.nonce \in [0 .. 11 -> Byte]
  /\ Size(s) \in Nat /\ Size(s) <= Largest /\ s.text \in [0 .. (Size(s) - 1) -> Byte]

(* Numbers of three bytes.                                                  *)
Small == {m \in Nat : m \div 65536 < 256}

(* The three bytes a size is written in.                                    *)
LEMMA SizeBytes ==
  ASSUME NEW m
  PROVE  /\ SizeByte(m, 13) = (m \div 65536) % 256
         /\ SizeByte(m, 14) = (m \div 256) % 256
         /\ SizeByte(m, 15) = (m \div 1) % 256
<1>1. 256^(15 - 13) = 65536 /\ 256^(15 - 14) = 256 /\ 256^(15 - 15) = 1
  <2>1. 15 - 13 = 2 /\ 15 - 14 = 1 /\ 15 - 15 = 0
    OBVIOUS
  <2>2. 256^2 = 65536 /\ 256^1 = 256 /\ 256^0 = 1
    OBVIOUS
  <2> QED BY <2>1, <2>2
<1> QED BY <1>1 DEF SizeByte

(* A block that carries a number of three bytes, byte by byte.              *)
LEMMA CcmBlockIs ==
  ASSUME NEW flags \in Byte, NEW v \in [0 .. 11 -> Byte], NEW m \in Small
  PROVE  /\ CcmBlock(flags, v, m) \in Block
         /\ CcmBlock(flags, v, m)[0] = flags
         /\ \A i \in 1 .. 12 : CcmBlock(flags, v, m)[i] = v[12 - i]
         /\ CcmBlock(flags, v, m)[13] = m \div 65536
         /\ CcmBlock(flags, v, m)[14] = (m \div 256) % 256
         /\ CcmBlock(flags, v, m)[15] = m % 256
<1> DEFINE b == CcmBlock(flags, v, m)
<1>1. b = [i \in Index |-> IF i = 0 THEN flags ELSE IF i < 13 THEN v[12 - i] ELSE SizeByte(m, i)]
  BY DEF CcmBlock
<1>2. m \in Int /\ 0 <= m /\ m \div 65536 < 256
  BY DEF Small
<1>3. /\ SizeByte(m, 13) = m \div 65536 /\ SizeByte(m, 14) = (m \div 256) % 256
      /\ SizeByte(m, 15) = m % 256
  BY <1>2, SizeBytes
<1>4. SizeByte(m, 13) \in Byte /\ SizeByte(m, 14) \in Byte /\ SizeByte(m, 15) \in Byte
  BY <1>2, <1>3 DEF Byte
<1> HIDE DEF b
<1>5. \A i \in Index : i = 0 \/ i \in 1 .. 12 \/ i = 13 \/ i = 14 \/ i = 15
  BY DEF Index
<1>6. \A i \in 1 .. 12 : i \in Index /\ i # 0 /\ i < 13 /\ 12 - i \in 0 .. 11
  BY DEF Index
<1>7. 0 \in Index /\ 13 \in Index /\ 14 \in Index /\ 15 \in Index
  BY DEF Index
<1>8. /\ b[0] = flags /\ \A i \in 1 .. 12 : b[i] = v[12 - i]
      /\ b[13] = SizeByte(m, 13) /\ b[14] = SizeByte(m, 14) /\ b[15] = SizeByte(m, 15)
  BY <1>1, <1>6, <1>7
<1>9. \A i \in 1 .. 12 : v[12 - i] \in Byte
  BY <1>6
<1>10. \A i \in Index : b[i] \in Byte
  BY <1>4, <1>5, <1>8, <1>9
<1>11. b = [i \in Index |-> b[i]]
  BY <1>1
<1>12. b \in Block
  BY <1>10, <1>11 DEF Block
<1> QED BY <1>3, <1>8, <1>12 DEF b

(* The counter steps from block to block.                                   *)
LEMMA CountSteps ==
  ASSUME NEW v \in [0 .. 11 -> Byte], NEW m \in Small, m + 1 \in Small
  PROVE  LET c == CcmBlock(2, v, m)
         IN  [i \in Index |-> (c[i] + IF Ones(c, (i + 1) .. 15) THEN 1 ELSE 0) % 256] = CcmBlock(2, v, m + 1)
<1> DEFINE c == CcmBlock(2, v, m)
           d == CcmBlock(2, v, m + 1)
           Carries1(i) == IF Ones(c, (i + 1) .. 15) THEN 1 ELSE 0
<1>0. 2 \in Byte
  BY DEF Byte
<1>1. /\ c \in Block /\ c[0] = 2 /\ \A i \in 1 .. 12 : c[i] = v[12 - i]
      /\ c[13] = m \div 65536 /\ c[14] = (m \div 256) % 256 /\ c[15] = m % 256
  BY <1>0, CcmBlockIs
<1>2. /\ d \in Block /\ d[0] = 2 /\ \A i \in 1 .. 12 : d[i] = v[12 - i]
      /\ d[13] = (m + 1) \div 65536 /\ d[14] = ((m + 1) \div 256) % 256 /\ d[15] = (m + 1) % 256
  BY <1>0, CcmBlockIs
<1>3. m \in Int /\ 0 <= m /\ (m + 1) \div 65536 < 256
  BY DEF Small
<1> HIDE DEF c, d
<1>4. /\ Carries1(15) = 1
      /\ Carries1(14) = IF c[15] = 255 THEN 1 ELSE 0
      /\ Carries1(13) = IF c[15] = 255 /\ c[14] = 255 THEN 1 ELSE 0
  <2>1. (15 + 1) .. 15 = {} /\ (14 + 1) .. 15 = {15} /\ (13 + 1) .. 15 = {14, 15}
    OBVIOUS
  <2> QED BY <2>1 DEF Ones
<1>5. \A i \in 0 .. 12 : Carries1(i) = 0
  <2> SUFFICES ASSUME NEW i \in 0 .. 12  PROVE ~Ones(c, (i + 1) .. 15)
    OBVIOUS
  <2>1. 13 \in (i + 1) .. 15 /\ 14 \in (i + 1) .. 15 /\ 15 \in (i + 1) .. 15
    OBVIOUS
  <2>2. ~(c[13] = 255 /\ c[14] = 255 /\ c[15] = 255)
    BY <1>1, <1>3
  <2> QED BY <2>1, <2>2 DEF Ones
<1>6. /\ (c[15] + Carries1(15)) % 256 = d[15]
      /\ (c[14] + Carries1(14)) % 256 = d[14]
      /\ (c[13] + Carries1(13)) % 256 = d[13]
  <2> DEFINE c15 == m % 256
             c14 == (m \div 256) % 256
             c13 == m \div 65536
  <2>1. m = 65536 * c13 + 256 * c14 + c15 /\ c13 \in 0 .. 255 /\ c14 \in 0 .. 255 /\ c15 \in 0 .. 255
    BY <1>3
  <2>2. c[13] = c13 /\ c[14] = c14 /\ c[15] = c15
    BY <1>1
  <2> HIDE DEF c13, c14, c15
  <2>3. CASE c15 < 255
    <3>1. (m + 1) % 256 = c15 + 1 /\ (m + 1) \div 256 = 256 * c13 + c14 /\ (m + 1) \div 65536 = c13
      BY <2>1, <2>3
    <3>2. (256 * c13 + c14) % 256 = c14
      BY <2>1
    <3> QED BY <1>2, <1>4, <2>1, <2>2, <2>3, <3>1, <3>2
  <2>4. CASE c15 = 255 /\ c14 < 255
    <3>1. (m + 1) % 256 = 0 /\ (m + 1) \div 256 = 256 * c13 + c14 + 1 /\ (m + 1) \div 65536 = c13
      BY <2>1, <2>4
    <3>2. (256 * c13 + c14 + 1) % 256 = c14 + 1
      BY <2>1, <2>4
    <3> QED BY <1>2, <1>4, <2>1, <2>2, <2>4, <3>1, <3>2
  <2>5. CASE c15 = 255 /\ c14 = 255
    <3>1. (m + 1) % 256 = 0 /\ (m + 1) \div 256 = 256 * c13 + 256 /\ (m + 1) \div 65536 = c13 + 1
      BY <2>1, <2>5
    <3>2. (256 * c13 + 256) % 256 = 0 /\ c13 + 1 <= 255
      BY <2>1, <2>5, <1>3
    <3> QED BY <1>2, <1>4, <2>1, <2>2, <2>5, <3>1, <3>2
  <2> QED BY <2>1, <2>3, <2>4, <2>5
<1>7. ASSUME NEW i \in Index  PROVE (c[i] + Carries1(i)) % 256 = d[i]
  <2>1. CASE i \in 0 .. 12
    <3>1. c[i] = d[i] /\ c[i] \in Byte
      <4>1. i = 0 \/ i \in 1 .. 12
        BY <2>1
      <4> QED BY <4>1, <1>1, <1>2 DEF Block
    <3>2. Carries1(i) = 0
      BY <1>5, <2>1
    <3>3. \A x \in Byte : (x + 0) % 256 = x
      BY DEF Byte
    <3> HIDE DEF Carries1
    <3> QED BY <3>1, <3>2, <3>3
  <2>2. CASE i \in {13, 14, 15}
    BY <1>6, <2>2
  <2> QED BY <2>1, <2>2 DEF Index
<1>8. d = [i \in Index |-> d[i]]
  BY <1>2 DEF Block
<1>9. [i \in Index |-> (c[i] + Carries1(i)) % 256] = d
  BY <1>7, <1>8
<1> QED BY <1>9 DEF c, d

-----------------------------------------------------------------------------
(* The context of a container before its block k: key, counter and S0.      *)
HasContext(c, s, k) ==
  /\ IsContext(c) /\ c.aes = KeyOf(s) /\ c.ctr = Count(s, k + 1) /\ c.S0 = Pad(s, 0) /\ c.mac \in Block

(* The counter of a block and its stream are blocks; the stream is the      *)
(* enciphered counter, turned round.                                        *)
LEMMA PadIs ==
  ASSUME NEW s, IsSealing(s), NEW m \in Small
  PROVE  /\ Count(s, m) \in Block /\ E(s, Count(s, m)) \in Block /\ Pad(s, m) \in Block
         /\ \A i \in Index : Pad(s, m)[i] = E(s, Count(s, m))[15 - i]
<1>1. 2 \in Byte
  BY DEF Byte
<1>2. Count(s, m) \in Block
  BY <1>1, CcmBlockIs DEF Count, IsSealing
<1>3. E(s, Count(s, m)) \in Block
  BY <1>2, EnciphersBlocks DEF IsSealing
<1>4. Pad(s, m) \in Block
  BY <1>3, SwapsBack DEF Pad
<1>5. Pad(s, m) = [i \in Index |-> E(s, Count(s, m))[15 - i]]
  BY SwapFacts DEF Pad
<1>6. \A i \in Index : Pad(s, m)[i] = E(s, Count(s, m))[15 - i]
  BY <1>5
<1> QED BY <1>2, <1>3, <1>4, <1>6

(* The same of the counter a context holds.                                 *)
LEMMA CounterSteps ==
  ASSUME NEW s, IsSealing(s), NEW m \in Small, m + 1 \in Small, NEW c, c = Count(s, m)
  PROVE  [i \in Index |-> (c[i] + IF Ones(c, (i + 1) .. 15) THEN 1 ELSE 0) % 256] = Count(s, m + 1)
<1> DEFINE v == s.nonce
<1>1. v \in [0 .. 11 -> Byte]
  BY DEF IsSealing
<1>2. c = CcmBlock(2, v, m) /\ Count(s, m + 1) = CcmBlock(2, v, m + 1)
  BY DEF Count
<1> HIDE DEF v
<1>3. [i \in Index |-> (CcmBlock(2, v, m)[i] + IF Ones(CcmBlock(2, v, m), (i + 1) .. 15) THEN 1 ELSE 0) % 256]
        = CcmBlock(2, v, m + 1)
  BY <1>1, CountSteps
<1> QED BY <1>2, <1>3

(* dsi_init_ccm.                                                            *)
LEMMA ContextStarts ==
  ASSUME NEW c, IsContext(c), NEW s, IsSealing(s), Padded(Size(s)) \in Small, NEW ready,
         ready = CcmReady(CcmStart(c, s.key, Size(s), s.nonce))
  PROVE  HasContext(ready, s, 0) /\ ready.mac = E(s, First(s))
<1> DEFINE set == dsi_set_key(c, s.key)
           start == CcmStart(c, s.key, Size(s), s.nonce)
           next == AfterCtrBlock(start)
<1>1. IsContext(set) /\ set.aes = KeyOf(s)
  BY DEF IsContext, dsi_set_key, KeyOf
<1>2. 8 * ((MACLEN - 2) \div 2) + 2 = 58
  BY DEF MACLEN
<1>3. start = [set EXCEPT !.mac = First(s), !.ctr = Count(s, 0)]
  BY <1>2 DEF CcmStart, First, Count
<1> HIDE DEF set
<1>4. IsContext(start) /\ start.aes = KeyOf(s) /\ start.mac = First(s) /\ start.ctr = Count(s, 0)
  BY <1>1, <1>3 DEF IsContext
<1> HIDE DEF start
<1>5. /\ IsContext(next) /\ next.aes = KeyOf(s)
      /\ next.ctr = [i \in Index |-> (start.ctr[i] + IF Ones(start.ctr, (i + 1) .. 15) THEN 1 ELSE 0) % 256]
  BY <1>4, AfterFacts
<1>6. next.mac = First(s)
  BY <1>4 DEF AfterCtrBlock, dsi_add_ctr, IsContext
<1>7. 0 \in Small /\ 0 + 1 \in Small
  BY DEF Small
<1>8. next.ctr = Count(s, 0 + 1)
  BY <1>4, <1>5, <1>7, CounterSteps
<1>9. Stream(start) = Pad(s, 0)
  BY <1>4 DEF Stream, Pad, E
<1>10. ready = [next EXCEPT !.mac = aes_crypt_ecb(start.aes, "encrypt", @), !.S0 = Stream(start)]
  BY DEF CcmReady, start, next
<1> HIDE DEF next
<1>11. /\ IsContext(ready) /\ ready.aes = KeyOf(s) /\ ready.ctr = Count(s, 0 + 1) /\ ready.S0 = Pad(s, 0)
       /\ ready.mac = E(s, First(s))
  BY <1>4, <1>5, <1>6, <1>8, <1>9, <1>10 DEF IsContext, E
<1>12. First(s) \in Block
  <2>1. 58 \in Byte
    BY DEF Byte
  <2> QED BY <2>1, CcmBlockIs DEF First, IsSealing
<1>13. E(s, First(s)) \in Block
  BY <1>12, EnciphersBlocks DEF IsSealing
<1> QED BY <1>11, <1>13 DEF HasContext

(* What comes out of a block, whatever comes in.                            *)
LEMMA BlockMade ==
  ASSUME NEW c, NEW s, NEW k, HasContext(c, s, k), NEW input
  PROVE  /\ CtrBlock(c, input) = [i \in Index |-> Xor(Pad(s, k + 1)[i], input[i])]
         /\ Stream(c) = Pad(s, k + 1)
<1>1. c.aes = KeyOf(s) /\ c.ctr = Count(s, k + 1)
  BY DEF HasContext
<1>2. Stream(c) = Pad(s, k + 1)
  BY <1>1 DEF Stream, Pad, E
<1>3. CtrBlock(c, input) = [i \in Index |-> Xor(Pad(s, k + 1)[i], input[i])]
  BY <1>2, TableIs DEF CtrBlock, XorBlock
<1> QED BY <1>2, <1>3

(* The context after a block that was encrypted or decrypted.               *)
LEMMA BlockDone ==
  ASSUME NEW c, NEW s, IsSealing(s), NEW k \in Nat, k + 1 \in Small, k + 2 \in Small, HasContext(c, s, k),
         NEW text \in Block
  PROVE  /\ HasContext(AfterBlock(c, text), s, k + 1)
         /\ AfterBlock(c, text).mac = E(s, XorBlock(c.mac, u128_swap(text)))
<1> DEFINE taken == Absorb(c, text)
           next == AfterCtrBlock(taken)
           mac == E(s, XorBlock(c.mac, u128_swap(text)))
<1>1. /\ IsContext(c) /\ c.aes = KeyOf(s) /\ c.ctr = Count(s, k + 1)
      /\ c.S0 = Pad(s, 0) /\ c.mac \in Block
  BY DEF HasContext
<1>4. /\ IsContext(taken) /\ taken.aes = KeyOf(s) /\ taken.ctr = Count(s, k + 1)
      /\ taken.S0 = Pad(s, 0) /\ taken.mac = mac
  BY <1>1 DEF Absorb, IsContext, E
<1>5. mac \in Block
  <2>1. u128_swap(text) \in Block
    BY SwapsBack
  <2>2. XorBlock(c.mac, u128_swap(text)) \in Block
    BY <1>1, <2>1, XorBlockIs
  <2> QED BY <2>2, EnciphersBlocks DEF IsSealing
<1> HIDE DEF taken, mac
<1>6. /\ IsContext(next) /\ next.aes = KeyOf(s)
      /\ next.ctr = [i \in Index |-> (taken.ctr[i] + IF Ones(taken.ctr, (i + 1) .. 15) THEN 1 ELSE 0) % 256]
  BY <1>4, AfterFacts
<1>7. next.mac = mac /\ next.S0 = Pad(s, 0)
  BY <1>4 DEF AfterCtrBlock, dsi_add_ctr, IsContext
<1>8. (k + 1) + 1 = k + 2
  OBVIOUS
<1>9. next.ctr = Count(s, (k + 1) + 1)
  BY <1>4, <1>6, <1>8, CounterSteps
<1>10. next = AfterBlock(c, text)
  BY DEF AfterBlock, next, taken
<1> HIDE DEF next
<1>11. HasContext(next, s, k + 1)
  BY <1>5, <1>6, <1>7, <1>9 DEF HasContext
<1> QED BY <1>7, <1>10, <1>11 DEF mac

-----------------------------------------------------------------------------
(* What the blocks of a container become.  h is the sequence of the values  *)
(* of mac up to block k; then the bytes of the cipher text, and a buffer    *)
(* whose first k blocks are encrypted.                                      *)
IsChain(s, h, k) ==
  /\ h \in Seq(Block) /\ Len(h) = k + 1 /\ h[1] = E(s, First(s))
  /\ \A j \in 0 .. (k - 1) : h[j + 2] = E(s, XorBlock(h[j + 1], u128_swap(TextBlock(s, j))))
MacAt(h, k) == h[k + 1]
CipherByte(s, j) == Xor(Pad(s, (j \div 16) + 1)[j % 16], s.text[j])
Partly(s, k) == [j \in 0 .. (Size(s) - 1) |-> IF j < 16 * k THEN CipherByte(s, j) ELSE s.text[j]]

(* Sizes and numbers of blocks have three bytes; the last block is the one  *)
(* that reaches the end.                                                    *)
LEMMA TurnFacts ==
  ASSUME NEW s, IsSealing(s)
  PROVE  /\ Turns(s) \in Nat /\ Size(s) <= 16 * Turns(s)
         /\ Size(s) \in Small /\ Padded(Size(s)) \in Small
         /\ Size(s) > 0 => Turns(s) = (Size(s) + 15) \div 16 /\ Padded(Size(s)) = 16 * Turns(s)
         /\ \A k \in Nat : k <= Turns(s) => k \in Small /\ k + 1 \in Small /\ k + 2 \in Small
         /\ \A k \in Nat : k < Turns(s) => (Size(s) - 16 * k > 16 <=> k + 1 < Turns(s))
<1> DEFINE size0 == Size(s)
           turns0 == Turns(s)
<1>1. size0 \in Nat /\ size0 <= 16777200
  BY DEF IsSealing, Largest
<1>2. turns0 = IF size0 = 0 THEN 1 ELSE (size0 + 15) \div 16
  BY DEF Turns
<1> HIDE DEF size0, turns0
<1>3. turns0 \in Nat /\ turns0 <= 1048575 /\ size0 <= 16 * turns0
  BY <1>1, <1>2
<1>4. size0 \div 65536 < 256
  BY <1>1
<1>5. 16 * ((size0 + 15) \div 16) \in Nat /\ 16 * ((size0 + 15) \div 16) <= 16777200
  BY <1>1
<1>6. \A x \in Nat : x <= 16777200 => x \div 65536 < 256
  OBVIOUS
<1>7. size0 \in Small /\ Padded(size0) \in Small
  BY <1>1, <1>5, <1>6 DEF Small, Padded
<1>8. \A k \in Nat : k <= turns0 => k \in Small /\ k + 1 \in Small /\ k + 2 \in Small
  BY <1>3, <1>6 DEF Small
<1>9. \A k \in Nat : k < turns0 => (size0 - 16 * k > 16 <=> k + 1 < turns0)
  BY <1>1, <1>2
<1>10. size0 > 0 => turns0 = (size0 + 15) \div 16 /\ Padded(size0) = 16 * turns0
  BY <1>2 DEF Padded
<1> QED BY <1>3, <1>7, <1>8, <1>9, <1>10 DEF size0, turns0

(* Where byte i of block k lies.                                            *)
LEMMA BytePlace ==
  ASSUME NEW k \in Nat, NEW i \in Index
  PROVE  /\ (16 * k + i) \div 16 = k /\ (16 * k + i) % 16 = i
         /\ ~(16 * k + i < 16 * k) /\ 16 * k + i < 16 * (k + 1) /\ (16 * k + i) - 16 * k = i
  BY DEF Index
(* Which block byte j of a text lies in, and where in it.                   *)
LEMMA PlaceOfByte ==
  ASSUME NEW j \in Nat
  PROVE  /\ j \div 16 \in Nat /\ j % 16 \in Index /\ j = 16 * (j \div 16) + (j % 16)
         /\ \A k \in Nat : (j - 16 * k \in Index) <=> j \div 16 = k
         /\ \A k \in Nat : j < 16 * k <=> j \div 16 < k
  BY DEF Index

(* A text is bytes, and so are its blocks.                                  *)
LEMMA TextFacts ==
  ASSUME NEW s, IsSealing(s)
  PROVE  /\ DOMAIN s.text = 0 .. (Size(s) - 1)
         /\ \A j \in Nat : j < Size(s) => s.text[j] \in Byte
         /\ \A k \in Nat : TextBlock(s, k) \in Block
         /\ \A k \in Nat, i \in Index : 16 * k + i < Size(s) => TextBlock(s, k)[i] = s.text[16 * k + i]
<1>1. /\ Size(s) \in Nat /\ s.text \in [0 .. (Size(s) - 1) -> Byte]
  BY DEF IsSealing
<1>2. \A j \in Nat : j < Size(s) => s.text[j] \in Byte
  BY <1>1
<1>3. 0 \in Byte
  BY DEF Byte
<1>4. ASSUME NEW k \in Nat
      PROVE  /\ TextBlock(s, k) \in Block
             /\ \A i \in Index : 16 * k + i < Size(s) => TextBlock(s, k)[i] = s.text[16 * k + i]
  <2>1. \A i \in Index : 16 * k + i \in Nat
    BY DEF Index
  <2>2. \A i \in Index : (IF 16 * k + i < Size(s) THEN s.text[16 * k + i] ELSE 0) \in Byte
    BY <1>2, <1>3, <2>1
  <2> QED BY <2>2 DEF TextBlock, Block
<1> QED BY <1>1, <1>2, <1>4

(* Bytes of the cipher text are bytes.                                      *)
LEMMA CipherBytes ==
  ASSUME NEW s, IsSealing(s), NEW j \in Nat, j < Size(s)
  PROVE  /\ CipherByte(s, j) \in Byte /\ Pad(s, (j \div 16) + 1)[j % 16] \in Byte /\ s.text[j] \in Byte
<1>1. j \div 16 \in Nat /\ j % 16 \in Index
  BY PlaceOfByte
<1>2. j \div 16 <= Turns(s) /\ Turns(s) \in Nat
  <2>1. Size(s) \in Nat /\ Turns(s) \in Nat /\ Size(s) <= 16 * Turns(s)
    BY TurnFacts DEF IsSealing
  <2> QED BY <2>1
<1>3. (j \div 16) + 1 \in Small
  BY <1>1, <1>2, TurnFacts
<1>4. Pad(s, (j \div 16) + 1) \in Block
  BY <1>3, PadIs
<1>5. Pad(s, (j \div 16) + 1)[j % 16] \in Byte
  BY <1>1, <1>4 DEF Block
<1>6. s.text[j] \in Byte
  BY TextFacts
<1> QED BY <1>5, <1>6, XorFacts DEF CipherByte

(* A chain that grows by a block.                                           *)
LEMMA ChainGrows ==
  ASSUME NEW s, IsSealing(s), NEW k \in Nat, NEW h, IsChain(s, h, k),
         NEW x, x = E(s, XorBlock(MacAt(h, k), u128_swap(TextBlock(s, k))))
  PROVE  /\ IsChain(s, Append(h, x), k + 1) /\ MacAt(Append(h, x), k + 1) = x /\ x \in Block
<1>1. h \in Seq(Block) /\ Len(h) = k + 1 /\ h[1] = E(s, First(s))
  BY DEF IsChain
<1>2. h[k + 1] \in Block
  BY <1>1
<1>3. x \in Block /\ x = E(s, XorBlock(h[k + 1], u128_swap(TextBlock(s, k))))
  <2>1. u128_swap(TextBlock(s, k)) \in Block
    BY TextFacts, SwapsBack
  <2>2. XorBlock(h[k + 1], u128_swap(TextBlock(s, k))) \in Block
    BY <1>2, <2>1, XorBlockIs
  <2> QED BY <2>2, EnciphersBlocks DEF IsSealing, MacAt
<1> DEFINE g == Append(h, x)
<1>4. /\ g \in Seq(Block) /\ Len(g) = k + 2 /\ g[k + 2] = x
      /\ \A i \in 1 .. (k + 1) : g[i] = h[i]
  BY <1>1, <1>3, AppendProperties
<1> HIDE DEF g
<1>5. ASSUME NEW j \in 0 .. ((k + 1) - 1)
      PROVE  g[j + 2] = E(s, XorBlock(g[j + 1], u128_swap(TextBlock(s, j))))
  <2>1. g[j + 1] = h[j + 1]
    BY <1>4
  <2>2. CASE j = k
    BY <1>3, <1>4, <2>1, <2>2
  <2>3. CASE j \in 0 .. (k - 1)
    <3>1. h[j + 2] = E(s, XorBlock(h[j + 1], u128_swap(TextBlock(s, j))))
      BY <2>3 DEF IsChain
    <3>2. j + 2 \in 1 .. (k + 1)
      BY <2>3
    <3> QED BY <1>4, <2>1, <3>1, <3>2
  <2> QED BY <2>2, <2>3
<1>6. g[1] = E(s, First(s)) /\ Len(g) = (k + 1) + 1
  BY <1>1, <1>4
<1>7. IsChain(s, g, k + 1)
  BY <1>4, <1>5, <1>6 DEF IsChain
<1>8. MacAt(g, k + 1) = x
  <2>1. (k + 1) + 1 = k + 2
    OBVIOUS
  <2> QED BY <1>4, <2>1 DEF MacAt
<1> QED BY <1>3, <1>7, <1>8 DEF g

-----------------------------------------------------------------------------
(* Encryption, before block k.                                              *)
EncryptedUpTo(s, c, h, buf, k) ==
  HasContext(c, s, k) /\ IsChain(s, h, k) /\ c.mac = MacAt(h, k) /\ buf = Partly(s, k)

(* The block at a place, and a buffer with a block put there.               *)
Taken(s, buf, k)   == [i \in Index |-> IF 16 * k + i < Size(s) THEN buf[16 * k + i] ELSE 0]
Put(buf, k, block) == [j \in DOMAIN buf |-> IF j - 16 * k \in Index THEN block[j - 16 * k] ELSE buf[j]]

(* A block of dsi_encrypt_ccm encrypts block k, and its mac is the next of  *)
(* the chain.                                                               *)
LEMMA EncryptOne ==
  ASSUME NEW s, IsSealing(s), NEW k \in Nat, k < Turns(s),
         NEW c, NEW h, NEW buf, EncryptedUpTo(s, c, h, buf, k),
         NEW input, input = Taken(s, buf, k)
  PROVE  EncryptedUpTo(s, AfterBlock(c, input), Append(h, AfterBlock(c, input).mac),
                    Put(buf, k, CtrBlock(c, input)), k + 1)
<1>1. HasContext(c, s, k) /\ IsChain(s, h, k) /\ c.mac = MacAt(h, k) /\ buf = Partly(s, k)
  BY DEF EncryptedUpTo
<1>2. Size(s) \in Nat /\ k \in Small /\ k + 1 \in Small /\ k + 2 \in Small
  <2>1. Turns(s) \in Nat
    BY TurnFacts
  <2>2. k <= Turns(s)
    BY <2>1
  <2> QED BY <2>2, TurnFacts DEF IsSealing
<1>3. /\ DOMAIN buf = 0 .. (Size(s) - 1)
      /\ \A j \in 0 .. (Size(s) - 1) : buf[j] = IF j < 16 * k THEN CipherByte(s, j) ELSE s.text[j]
  BY <1>1 DEF Partly
<1>4. input = TextBlock(s, k)
  <2>1. ASSUME NEW i \in Index, 16 * k + i < Size(s)  PROVE buf[16 * k + i] = s.text[16 * k + i]
    <3>1. 16 * k + i \in 0 .. (Size(s) - 1)
      BY <1>2, <2>1 DEF Index
    <3> QED BY <1>3, <3>1, BytePlace
  <2> QED BY <2>1 DEF Taken, TextBlock
<1>5. input \in Block
  BY <1>4, TextFacts
<1> DEFINE after == AfterBlock(c, input)
           block == CtrBlock(c, input)
<1>6. /\ block = [i \in Index |-> Xor(Pad(s, k + 1)[i], input[i])]
      /\ HasContext(after, s, k + 1) /\ after.mac = E(s, XorBlock(c.mac, u128_swap(input)))
  <2>1. ASSUME NEW text \in Block
        PROVE  /\ HasContext(AfterBlock(c, text), s, k + 1)
               /\ AfterBlock(c, text).mac = E(s, XorBlock(c.mac, u128_swap(text)))
    BY <1>1, <1>2, BlockDone
  <2>2. block = [i \in Index |-> Xor(Pad(s, k + 1)[i], input[i])]
    BY <1>1, BlockMade
  <2> QED BY <1>5, <2>1, <2>2
<1> HIDE DEF after, block
<1>7. IsChain(s, Append(h, after.mac), k + 1) /\ MacAt(Append(h, after.mac), k + 1) = after.mac
  <2>1. after.mac = E(s, XorBlock(MacAt(h, k), u128_swap(TextBlock(s, k))))
    BY <1>1, <1>4, <1>6
  <2> QED BY <1>1, <2>1, ChainGrows
<1>8. Put(buf, k, block) = Partly(s, k + 1)
  <2>1. ASSUME NEW j \in 0 .. (Size(s) - 1)
        PROVE  (IF j - 16 * k \in Index THEN block[j - 16 * k] ELSE buf[j])
                 = IF j < 16 * (k + 1) THEN CipherByte(s, j) ELSE s.text[j]
    <3>1. j \in Nat /\ j < Size(s)
      BY <1>2
    <3>2. CASE j - 16 * k \in Index
      <4>1. j < 16 * (k + 1) /\ j \div 16 = k /\ j % 16 = j - 16 * k /\ 16 * k + (j - 16 * k) = j
        BY <3>2 DEF Index
      <4>2. block[j - 16 * k] = Xor(Pad(s, k + 1)[j - 16 * k], s.text[j])
        <5>1. input[j - 16 * k] = s.text[16 * k + (j - 16 * k)]
          <6> DEFINE i == j - 16 * k
          <6>1. i \in Index /\ 16 * k + i < Size(s)
            BY <3>1, <3>2, <4>1
          <6> HIDE DEF i
          <6>2. TextBlock(s, k)[i] = s.text[16 * k + i]
            BY <6>1, TextFacts
          <6> QED BY <1>4, <6>2 DEF i
        <5>2. block[j - 16 * k] = Xor(Pad(s, k + 1)[j - 16 * k], input[j - 16 * k])
          BY <1>6, <3>2
        <5> QED BY <4>1, <5>1, <5>2
      <4>3. CipherByte(s, j) = Xor(Pad(s, k + 1)[j - 16 * k], s.text[j])
        BY <4>1 DEF CipherByte
      <4> QED BY <3>2, <4>1, <4>2, <4>3
    <3>3. CASE j - 16 * k \notin Index
      <4>1. j < 16 * (k + 1) <=> j < 16 * k
        BY <3>3 DEF Index
      <4> QED BY <1>3, <3>3, <4>1
    <3> QED BY <3>2, <3>3
  <2>2. Put(buf, k, block) = [j \in 0 .. (Size(s) - 1) |-> IF j - 16 * k \in Index THEN block[j - 16 * k] ELSE buf[j]]
    BY <1>3 DEF Put
  <2> QED BY <2>1, <2>2 DEF Partly
<1>9. EncryptedUpTo(s, after, Append(h, after.mac), Put(buf, k, block), k + 1)
  BY <1>6, <1>7, <1>8 DEF EncryptedUpTo
<1> QED BY <1>9 DEF after, block

(* Before the first block nothing is encrypted.                             *)
LEMMA EncryptFirst ==
  ASSUME NEW c, IsContext(c), NEW s, IsSealing(s), NEW ready,
         ready = CcmReady(CcmStart(c, s.key, Size(s), s.nonce))
  PROVE  /\ HasContext(ready, s, 0) /\ ready.mac = E(s, First(s)) /\ IsChain(s, <<ready.mac>>, 0)
         /\ EncryptedUpTo(s, ready, <<ready.mac>>, s.text, 0)
<1>1. HasContext(ready, s, 0) /\ ready.mac = E(s, First(s))
  BY TurnFacts, ContextStarts
<1>2. ready.mac \in Block
  BY <1>1 DEF HasContext
<1>3. <<ready.mac>> \in Seq(Block) /\ Len(<<ready.mac>>) = 1 /\ <<ready.mac>>[1] = ready.mac
  BY <1>2
<1>4. IsChain(s, <<ready.mac>>, 0)
  <2>1. 0 .. (0 - 1) = {} /\ 1 = 0 + 1
    OBVIOUS
  <2> QED BY <1>1, <1>3, <2>1 DEF IsChain
<1>5. s.text = Partly(s, 0)
  <2>1. s.text = [j \in 0 .. (Size(s) - 1) |-> s.text[j]] /\ Size(s) \in Nat
    BY DEF IsSealing
  <2>2. \A j \in 0 .. (Size(s) - 1) : (IF j < 16 * 0 THEN CipherByte(s, j) ELSE s.text[j]) = s.text[j]
    BY <2>1
  <2> QED BY <2>1, <2>2 DEF Partly
<1>6. MacAt(<<ready.mac>>, 0) = ready.mac
  <2>1. 0 + 1 = 1
    OBVIOUS
  <2> QED BY <1>3, <2>1 DEF MacAt
<1> QED BY <1>1, <1>4, <1>5, <1>6 DEF EncryptedUpTo

-----------------------------------------------------------------------------
(* The metablock, for the last value x of mac.                              *)
HeaderPad(s, v) == HeaderStream(s.key, v)
Header(s) == [i \in Index |-> IF i = 0 THEN 58 ELSE IF i < 13 THEN 0 ELSE SizeByte(Size(s), i)]
Meta(s, x) == [i \in 0 .. 31 |-> IF i < 16 THEN Xor(x[15 - i], Pad(s, 0)[i])
                                 ELSE IF i \in 17 .. 28 THEN s.nonce[i - 17]
                                 ELSE Xor(HeaderPad(s, s.nonce)[i - 16], Header(s)[i - 16])]

(* The stream of the header comes from the key and the nonce alone, whatever*)
(* the context held before.                                                 *)
LEMMA HeaderPadIs ==
  ASSUME NEW s, IsSealing(s), NEW v \in [0 .. 11 -> Byte]
  PROVE  /\ HeaderPad(s, v) \in Block
         /\ \A c : IsContext(c) => Stream(dsi_init_ctr(c, s.key, HeaderCounter(v))) = HeaderPad(s, v)
<1> DEFINE b == HeaderCounter(v)
<1>1. b \in Block
  <2>1. 0 \in Byte
    BY DEF Byte
  <2>2. \A i \in 1 .. 12 : i - 1 \in 0 .. 11
    OBVIOUS
  <2>3. \A i \in Index : (IF i \in 1 .. 12 THEN v[i - 1] ELSE 0) \in Byte
    BY <2>1, <2>2
  <2> QED BY <2>3 DEF HeaderCounter, Block
<1> HIDE DEF b
<1>2. ASSUME NEW c, IsContext(c)
      PROVE  Stream(dsi_init_ctr(c, s.key, b)) = u128_swap(E(s, u128_swap(b)))
  <2> DEFINE set == dsi_set_key(c, s.key)
  <2>1. IsContext(set) /\ set.aes = KeyOf(s)
    BY <1>2 DEF IsContext, dsi_set_key, KeyOf
  <2> HIDE DEF set
  <2>2. dsi_set_ctr(set, b).aes = KeyOf(s) /\ dsi_set_ctr(set, b).ctr = u128_swap(b)
    BY <2>1, SetCtrFacts
  <2>3. dsi_init_ctr(c, s.key, b) = dsi_set_ctr(set, b)
    BY DEF dsi_init_ctr, set
  <2> QED BY <2>2, <2>3 DEF Stream, E
<1>3. IsContext(NoContext)
  BY DEF IsContext, NoContext
<1>4. HeaderPad(s, v) = u128_swap(E(s, u128_swap(b)))
  BY <1>2, <1>3 DEF HeaderPad, HeaderStream, b
<1>5. HeaderPad(s, v) \in Block
  BY <1>1, <1>4, SwapsBack, EnciphersBlocks DEF IsSealing
<1> QED BY <1>2, <1>4, <1>5 DEF b

-----------------------------------------------------------------------------
(* What is undone by doing it again, and what a changed bit changes.        *)
LEMMA XorUndone ==
  ASSUME NEW p \in Byte, NEW t \in Byte
  PROVE  /\ Xor(p, t) \in Byte /\ Xor(p, Xor(p, t)) = t /\ Xor(t, 1) # t
         /\ Xor(p, Xor(Xor(p, t), 1)) # t /\ Xor(p, p) = 0 /\ Xor(t, 1) \in Byte
<1>0. 1 \in Byte /\ 0 \in Byte
  BY DEF Byte
<1>1. ASSUME NEW x \in Byte, NEW y \in Byte  PROVE Xor(x, y) \in Byte /\ Xor(x, Xor(x, y)) = y /\ Xor(x, x) = 0
  <2>1. Xor(x, Xor(x, y)) = Xor(Xor(x, x), y) /\ Xor(x, x) = 0 /\ Xor(x, y) \in Byte
    BY XorAlgebra
  <2>2. Xor(0, y) = y
    BY XorAlgebra
  <2> QED BY <2>1, <2>2
<1>2. ASSUME NEW x \in Byte  PROVE Xor(x, 1) # x /\ Xor(x, 1) \in Byte
  <2>1. Xor(x, Xor(x, 1)) = 1 /\ Xor(x, x) = 0 /\ Xor(x, 1) \in Byte
    BY <1>0, <1>1
  <2> QED BY <2>1
<1>3. Xor(p, t) \in Byte /\ Xor(p, Xor(p, t)) = t /\ Xor(p, p) = 0
  BY <1>1
<1>4. Xor(Xor(p, t), 1) # Xor(p, t) /\ Xor(Xor(p, t), 1) \in Byte
  BY <1>2, <1>3
<1>5. Xor(p, Xor(p, Xor(Xor(p, t), 1))) = Xor(Xor(p, t), 1)
  BY <1>1, <1>4
<1>6. Xor(p, Xor(Xor(p, t), 1)) # t
  BY <1>4, <1>5
<1>7. Xor(t, 1) # t /\ Xor(t, 1) \in Byte
  BY <1>2
<1> QED BY <1>3, <1>6, <1>7

(* A block that is added on both sides cancels.                             *)
LEMMA XorBlockCancels ==
  ASSUME NEW a \in Block, NEW b \in Block, NEW c \in Block
  PROVE  /\ XorBlock(a, c) = XorBlock(b, c) => a = b
         /\ XorBlock(c, a) = XorBlock(c, b) => a = b
<1>1. XorBlock(XorBlock(a, c), c) = a /\ XorBlock(XorBlock(b, c), c) = b
  BY XorBlockIs
<1>2. XorBlock(c, a) = XorBlock(a, c) /\ XorBlock(c, b) = XorBlock(b, c)
  <2>1. ASSUME NEW x \in Block, NEW y \in Block  PROVE XorBlock(x, y) = XorBlock(y, x)
    <3>1. \A i \in Index : x[i] \in Byte /\ y[i] \in Byte
      BY DEF Block
    <3>2. \A i \in Index : Xor(x[i], y[i]) = Xor(y[i], x[i])
      BY <3>1, XorAlgebra
    <3> QED BY <3>2, TableIs DEF XorBlock
  <2> QED BY <2>1
<1>3. ASSUME XorBlock(a, c) = XorBlock(b, c)  PROVE a = b
  BY <1>1, <1>3
<1> QED BY <1>2, <1>3

-----------------------------------------------------------------------------
(* What arrives, when d has happened on the way.                            *)
Hit(d, j)     == d.part = "buffer" /\ d.at = j
Touched(d, k) == d.part = "buffer" /\ d.at < 16 * k
Arrival(s, d) == [j \in 0 .. (Size(s) - 1) |-> IF Hit(d, j) THEN Xor(CipherByte(s, j), 1) ELSE CipherByte(s, j)]
IsDamage(s, d) == d.part = "buffer" => d.at \in 0 .. (Size(s) - 1)

(* Decryption, before block k: the first k blocks are what was sealed, but  *)
(* for the byte that was hit, and mac is what it was when sealing as long   *)
(* as no byte was.                                                          *)
DecryptedUpTo(s, d, c, h, buf, k) ==
  /\ IsDamage(s, d) /\ HasContext(c, s, k) /\ IsChain(s, h, Turns(s))
  /\ c.mac = MacAt(h, k) <=> ~Touched(d, k)
  /\ buf \in [0 .. (Size(s) - 1) -> Byte]
  /\ \A j \in 0 .. (Size(s) - 1) : IF j < 16 * k THEN buf[j] = s.text[j] <=> ~Hit(d, j)
                                                  ELSE buf[j] = Arrival(s, d)[j]

(* The input of block k: what is there, and the stream behind it.           *)
Received(s, c, buf, k) ==
  IF Size(s) - 16 * k > 16 THEN Taken(s, buf, k)
  ELSE [i \in Index |-> IF 16 * k + i < Size(s) THEN buf[16 * k + i] ELSE Stream(c)[i]]

(* A block is decrypted to the text, but for the byte that was hit.         *)
LEMMA DecryptedBytes ==
  ASSUME NEW s, IsSealing(s), NEW d, NEW k \in Nat, k < Turns(s),
         NEW c, NEW h, NEW buf, DecryptedUpTo(s, d, c, h, buf, k)
  PROVE  LET block == CtrBlock(c, Received(s, c, buf, k))
         IN  /\ block \in Block
             /\ \A i \in Index : block[i] = TextBlock(s, k)[i] <=> ~Hit(d, 16 * k + i)
<1>1. HasContext(c, s, k) /\ IsDamage(s, d)
  BY DEF DecryptedUpTo
<1>2. Size(s) \in Nat /\ k \in Small /\ k + 1 \in Small /\ k + 2 \in Small
  <2>1. Turns(s) \in Nat
    BY TurnFacts
  <2>2. k <= Turns(s)
    BY <2>1
  <2> QED BY <2>2, TurnFacts DEF IsSealing
<1> DEFINE input == Received(s, c, buf, k)
           P == Pad(s, k + 1)
<1>3. P \in Block
  BY <1>2, PadIs
<1>4. Stream(c) = P /\ CtrBlock(c, input) = [i \in Index |-> Xor(P[i], input[i])]
  BY <1>1, BlockMade
<1>5. ASSUME NEW i \in Index
      PROVE  input[i] = IF 16 * k + i < Size(s) THEN buf[16 * k + i] ELSE P[i]
  <2>1. CASE Size(s) - 16 * k > 16
    <3>1. 16 * k + i < Size(s)
      BY <1>2, <2>1 DEF Index
    <3> QED BY <2>1, <3>1 DEF Received, Taken
  <2>2. CASE ~(Size(s) - 16 * k > 16)
    BY <1>4, <2>2 DEF Received
  <2> QED BY <2>1, <2>2
<1> HIDE DEF input, P
<1>6. ASSUME NEW i \in Index
      PROVE  /\ Xor(P[i], input[i]) \in Byte
             /\ Xor(P[i], input[i]) = TextBlock(s, k)[i] <=> ~Hit(d, 16 * k + i)
  <2> DEFINE j == 16 * k + i
  <2>1. j \in Nat /\ P[i] \in Byte
    BY <1>3 DEF Index, Block
  <2>2. CASE j < Size(s)
    <3>1. j \in 0 .. (Size(s) - 1) /\ ~(j < 16 * k) /\ j \div 16 = k /\ j % 16 = i
      BY <1>2, <2>1, <2>2, BytePlace
    <3>2. s.text[j] \in Byte /\ TextBlock(s, k)[i] = s.text[j]
      BY <2>1, <2>2, TextFacts
    <3>3. CipherByte(s, j) = Xor(P[i], s.text[j])
      BY <3>1 DEF CipherByte, P
    <3>4. input[i] = Arrival(s, d)[j]
      <4>1. buf[j] = Arrival(s, d)[j]
        BY <3>1 DEF DecryptedUpTo
      <4> QED BY <1>5, <2>2, <4>1
    <3>5. Arrival(s, d)[j] = IF Hit(d, j) THEN Xor(CipherByte(s, j), 1) ELSE CipherByte(s, j)
      BY <3>1 DEF Arrival
    <3> HIDE DEF j
    <3>6. CASE Hit(d, j)
      <4>1. input[i] = Xor(Xor(P[i], s.text[j]), 1)
        BY <3>3, <3>4, <3>5, <3>6
      <4>2. Xor(P[i], input[i]) # s.text[j] /\ input[i] \in Byte
        <5>1. Xor(P[i], s.text[j]) \in Byte /\ Xor(P[i], Xor(Xor(P[i], s.text[j]), 1)) # s.text[j]
          BY <2>1, <3>2, XorUndone
        <5>2. Xor(Xor(P[i], s.text[j]), 1) \in Byte
          BY <5>1, XorUndone
        <5> QED BY <4>1, <5>1, <5>2
      <4>3. Xor(P[i], input[i]) \in Byte
        BY <2>1, <4>2, XorUndone
      <4> QED BY <3>2, <3>6, <4>2, <4>3 DEF j
    <3>7. CASE ~Hit(d, j)
      <4>1. input[i] = Xor(P[i], s.text[j])
        BY <3>3, <3>4, <3>5, <3>7
      <4>2. Xor(P[i], Xor(P[i], s.text[j])) = s.text[j]
        BY <2>1, <3>2, XorUndone
      <4> QED BY <3>2, <3>7, <4>1, <4>2 DEF j
    <3> QED BY <3>6, <3>7
  <2>3. CASE ~(j < Size(s))
    <3>1. input[i] = P[i]
      BY <1>5, <2>3
    <3>2. Xor(P[i], P[i]) = 0 /\ 0 \in Byte
      <4>1. 0 \in Byte
        BY DEF Byte
      <4> QED BY <2>1, <4>1, XorUndone
    <3>3. TextBlock(s, k)[i] = 0
      BY <2>3 DEF TextBlock
    <3>4. ~Hit(d, j)
      BY <1>1, <1>2, <2>1, <2>3 DEF IsDamage, Hit
    <3> QED BY <3>1, <3>2, <3>3, <3>4
  <2> QED BY <2>2, <2>3
<1>7. CtrBlock(c, input) \in Block
  BY <1>4, <1>6 DEF Block
<1>8. \A i \in Index : CtrBlock(c, input)[i] = Xor(P[i], input[i])
  BY <1>4
<1>9. \A i \in Index : CtrBlock(c, input)[i] = TextBlock(s, k)[i] <=> ~Hit(d, 16 * k + i)
  BY <1>6, <1>8
<1> QED BY <1>7, <1>9 DEF input

-----------------------------------------------------------------------------
(* Block k is decrypted, and mac differs from then on if it was hit.        *)
LEMMA DecryptOne ==
  ASSUME NEW s, IsSealing(s), NEW d, NEW k \in Nat, k < Turns(s),
         NEW c, NEW h, NEW buf, DecryptedUpTo(s, d, c, h, buf, k),
         NEW block, block = CtrBlock(c, Received(s, c, buf, k))
  PROVE  DecryptedUpTo(s, d, AfterBlock(c, block), h, Put(buf, k, block), k + 1)
<1> DEFINE after == AfterBlock(c, block)
           T == TextBlock(s, k)
           x == MacAt(h, k)
           y == MacAt(h, k + 1)
<1>1. /\ IsDamage(s, d) /\ HasContext(c, s, k) /\ IsChain(s, h, Turns(s))
      /\ c.mac = x <=> ~Touched(d, k)
      /\ buf \in [0 .. (Size(s) - 1) -> Byte]
  BY DEF DecryptedUpTo
<1>2. Size(s) \in Nat /\ Turns(s) \in Nat /\ k \in Small /\ k + 1 \in Small /\ k + 2 \in Small
  <2>1. Turns(s) \in Nat
    BY TurnFacts
  <2>2. k <= Turns(s)
    BY <2>1
  <2> QED BY <2>1, <2>2, TurnFacts DEF IsSealing
<1>3. /\ block \in Block
      /\ \A i \in Index : block[i] = T[i] <=> ~Hit(d, 16 * k + i)
  <2>1. /\ CtrBlock(c, Received(s, c, buf, k)) \in Block
        /\ \A i \in Index : CtrBlock(c, Received(s, c, buf, k))[i] = TextBlock(s, k)[i] <=> ~Hit(d, 16 * k + i)
    BY DecryptedBytes
  <2> QED BY <2>1
<1>4. T \in Block
  BY TextFacts
<1>5. HasContext(after, s, k + 1) /\ after.mac = E(s, XorBlock(c.mac, u128_swap(block)))
  <2>1. ASSUME NEW text \in Block
        PROVE  /\ HasContext(AfterBlock(c, text), s, k + 1)
               /\ AfterBlock(c, text).mac = E(s, XorBlock(c.mac, u128_swap(text)))
    <3>1. HasContext(c, s, k)
      BY <1>1
    <3> QED BY <1>2, <3>1, BlockDone
  <2> QED BY <1>3, <2>1
<1>6. x \in Block /\ c.mac \in Block /\ y = E(s, XorBlock(x, u128_swap(T)))
  <2>1. h \in Seq(Block) /\ Len(h) = Turns(s) + 1 /\ k + 1 \in 1 .. Len(h) /\ k \in 0 .. (Turns(s) - 1)
    BY <1>1, <1>2 DEF IsChain
  <2>2. h[k + 1] \in Block
    BY <2>1
  <2>3. h[k + 2] = E(s, XorBlock(h[k + 1], u128_swap(T)))
    BY <1>1, <2>1 DEF IsChain
  <2>4. (k + 1) + 1 = k + 2
    OBVIOUS
  <2> QED BY <1>1, <2>2, <2>3, <2>4 DEF MacAt, HasContext
<1> HIDE DEF after, T, x, y
<1>7. after.mac = y <=> XorBlock(c.mac, u128_swap(block)) = XorBlock(x, u128_swap(T))
  <2>1. u128_swap(block) \in Block /\ u128_swap(T) \in Block
    BY <1>3, <1>4, SwapsBack
  <2>2. XorBlock(c.mac, u128_swap(block)) \in Block /\ XorBlock(x, u128_swap(T)) \in Block
    BY <1>6, <2>1, XorBlockIs
  <2>3. s.key \in Block
    BY DEF IsSealing
  <2> QED BY <1>5, <1>6, <2>2, <2>3, EnciphersBlocks
<1>8. block = T <=> \A i \in Index : ~Hit(d, 16 * k + i)
  <2>1. block = T <=> \A i \in Index : block[i] = T[i]
    BY <1>3, <1>4 DEF Block
  <2> QED BY <1>3, <2>1
<1>9. Touched(d, k + 1) <=> Touched(d, k) \/ \E i \in Index : Hit(d, 16 * k + i)
  <2>1. ASSUME Touched(d, k + 1), ~Touched(d, k)  PROVE \E i \in Index : Hit(d, 16 * k + i)
    <3>1. d.part = "buffer" /\ d.at \in Nat /\ 16 * k <= d.at /\ d.at < 16 * (k + 1)
      BY <1>1, <1>2, <2>1 DEF Touched, IsDamage
    <3>2. d.at - 16 * k \in Index /\ 16 * k + (d.at - 16 * k) = d.at
      BY <3>1 DEF Index
    <3> QED BY <3>1, <3>2 DEF Hit
  <2>2. ASSUME Touched(d, k)  PROVE Touched(d, k + 1)
    BY <1>1, <1>2, <2>2 DEF Touched, IsDamage
  <2>3. ASSUME NEW i \in Index, Hit(d, 16 * k + i)  PROVE Touched(d, k + 1)
    BY <2>3, BytePlace DEF Touched, Hit
  <2> QED BY <2>1, <2>2, <2>3
<1>10. Touched(d, k) => \A i \in Index : ~Hit(d, 16 * k + i)
  BY BytePlace DEF Touched, Hit
<1>11. after.mac = y <=> ~Touched(d, k + 1)
  <2>0. u128_swap(block) \in Block /\ u128_swap(T) \in Block
    BY <1>3, <1>4, SwapsBack
  <2>1. CASE Touched(d, k)
    <3>1. block = T /\ c.mac # x
      BY <1>1, <1>8, <1>10, <2>1 DEF x
    <3>2. XorBlock(c.mac, u128_swap(T)) # XorBlock(x, u128_swap(T))
      BY <1>6, <2>0, <3>1, XorBlockCancels
    <3> QED BY <1>7, <1>9, <2>1, <3>1, <3>2
  <2>2. CASE ~Touched(d, k)
    <3>1. c.mac = x
      BY <1>1, <2>2 DEF x
    <3>2. XorBlock(x, u128_swap(block)) = XorBlock(x, u128_swap(T)) <=> block = T
      <4>1. u128_swap(u128_swap(block)) = block /\ u128_swap(u128_swap(T)) = T
        BY <1>3, <1>4, SwapsBack
      <4>2. XorBlock(x, u128_swap(block)) = XorBlock(x, u128_swap(T)) => u128_swap(block) = u128_swap(T)
        BY <1>6, <2>0, XorBlockCancels
      <4> QED BY <4>1, <4>2
    <3> QED BY <1>7, <1>8, <1>9, <2>2, <3>1, <3>2
  <2> QED BY <2>1, <2>2
<1>12. DOMAIN buf = 0 .. (Size(s) - 1) /\ \A j \in 0 .. (Size(s) - 1) : buf[j] \in Byte
  BY <1>1
<1> DEFINE new == Put(buf, k, block)
<1>13. /\ new = [j \in 0 .. (Size(s) - 1) |-> IF j - 16 * k \in Index THEN block[j - 16 * k] ELSE buf[j]]
  BY <1>12 DEF Put
<1>14. new \in [0 .. (Size(s) - 1) -> Byte]
  <2>1. \A i \in Index : block[i] \in Byte
    BY <1>3 DEF Block
  <2> QED BY <1>12, <1>13, <2>1
<1> HIDE DEF new
<1>15. ASSUME NEW j \in 0 .. (Size(s) - 1)
       PROVE  IF j < 16 * (k + 1) THEN new[j] = s.text[j] <=> ~Hit(d, j) ELSE new[j] = Arrival(s, d)[j]
  <2>0. j \in Nat /\ j < Size(s)
    BY <1>2
  <2>1. CASE j - 16 * k \in Index
    <3>1. j < 16 * (k + 1) /\ 16 * k + (j - 16 * k) = j
      BY <2>1 DEF Index
    <3>2. new[j] = block[j - 16 * k]
      BY <1>13, <2>1
    <3>3. T[j - 16 * k] = s.text[j]
      BY <2>0, <2>1, <3>1, TextFacts DEF T
    <3> QED BY <1>3, <2>1, <3>1, <3>2, <3>3
  <2>2. CASE j - 16 * k \notin Index
    <3>1. j < 16 * (k + 1) <=> j < 16 * k
      BY <2>2 DEF Index
    <3>2. new[j] = buf[j]
      BY <1>13, <2>2
    <3>3. IF j < 16 * k THEN buf[j] = s.text[j] <=> ~Hit(d, j) ELSE buf[j] = Arrival(s, d)[j]
      BY DEF DecryptedUpTo
    <3> QED BY <3>1, <3>2, <3>3
  <2> QED BY <2>1, <2>2
<1>16. DecryptedUpTo(s, d, after, h, new, k + 1)
  BY <1>1, <1>5, <1>11, <1>14, <1>15 DEF DecryptedUpTo, y
<1> QED BY <1>16 DEF after, new

(* Before the first block everything is as it arrived.                      *)
LEMMA DecryptFirst ==
  ASSUME NEW c, IsContext(c), NEW s, IsSealing(s), NEW d, IsDamage(s, d), NEW h, IsChain(s, h, Turns(s)),
         NEW ready, ready = CcmReady(CcmStart(c, s.key, Size(s), s.nonce))
  PROVE  DecryptedUpTo(s, d, ready, h, Arrival(s, d), 0)
<1>1. HasContext(ready, s, 0) /\ ready.mac = E(s, First(s))
  BY EncryptFirst
<1>2. ready.mac = MacAt(h, 0) /\ ~Touched(d, 0)
  <2>1. 0 + 1 = 1 /\ Size(s) \in Nat
    BY DEF IsSealing
  <2>2. h[1] = E(s, First(s))
    BY DEF IsChain
  <2>3. ~Touched(d, 0)
    BY <2>1 DEF Touched, IsDamage
  <2> QED BY <1>1, <2>1, <2>2, <2>3 DEF MacAt
<1>3. Arrival(s, d) \in [0 .. (Size(s) - 1) -> Byte]
  <2>0. Size(s) \in Nat
    BY DEF IsSealing
  <2>1. ASSUME NEW j \in 0 .. (Size(s) - 1)
        PROVE  (IF Hit(d, j) THEN Xor(CipherByte(s, j), 1) ELSE CipherByte(s, j)) \in Byte
    <3>1. CipherByte(s, j) \in Byte
      BY <2>0, CipherBytes
    <3> QED BY <3>1, XorUndone
  <2> QED BY <2>1 DEF Arrival
<1>4. \A j \in 0 .. (Size(s) - 1) : ~(j < 16 * 0)
  BY DEF IsSealing
<1> QED BY <1>1, <1>2, <1>3, <1>4 DEF DecryptedUpTo

-----------------------------------------------------------------------------
(* The metablock as it arrives, what is read of it, and the size that is    *)
(* expected then.                                                           *)
MetaHit(d, i) == d.part = "metablock" /\ d.at = i
MetaArrival(s, d, x) == [i \in 0 .. 31 |-> IF MetaHit(d, i) THEN Xor(Meta(s, x)[i], 1) ELSE Meta(s, x)[i]]
NonceOf(m)       == [i \in 0 .. 11 |-> m[17 + i]]
HeaderOf(m)      == [i \in Index |-> m[16 + i]]
SizeArrival(s, d) == IF d.part = "size" THEN Size(s) + 1 ELSE Size(s)
NonceHit(d)      == d.part = "metablock" /\ d.at \in 17 .. 28
Looked == {0, 13, 14, 15}

(* The size in the three bytes is the size.                                 *)
LEMMA SizeInBytes ==
  ASSUME NEW m \in Small, NEW a \in Byte, NEW b \in Byte, NEW c \in Byte
  PROVE  65536 * a + 256 * b + c = m <=> a = SizeByte(m, 13) /\ b = SizeByte(m, 14) /\ c = SizeByte(m, 15)
<1>1. /\ m \in Int /\ 0 <= m /\ m \div 65536 < 256
      /\ a \in Int /\ 0 <= a /\ a <= 255 /\ b \in Int /\ 0 <= b /\ b <= 255 /\ c \in Int /\ 0 <= c /\ c <= 255
  BY DEF Small, Byte
<1>2. /\ SizeByte(m, 13) = m \div 65536 /\ SizeByte(m, 14) = (m \div 256) % 256
      /\ SizeByte(m, 15) = m % 256
  BY <1>1, SizeBytes
<1>3. ASSUME 65536 * a + 256 * b + c = m  PROVE a = m \div 65536 /\ b = (m \div 256) % 256 /\ c = m % 256
  <2>1. m \div 65536 = a /\ m \div 256 = 256 * a + b /\ m % 256 = c
    BY <1>1, <1>3
  <2>2. (256 * a + b) % 256 = b
    BY <1>1
  <2> QED BY <2>1, <2>2
<1>4. m = 65536 * (m \div 65536) + 256 * ((m \div 256) % 256) + (m % 256)
  BY <1>1
<1> QED BY <1>2, <1>3, <1>4

(* What is sealed in the metablock.                                         *)
LEMMA MetaFacts ==
  ASSUME NEW s, IsSealing(s), NEW x \in Block
  PROVE  /\ Header(s) \in Block
         /\ \A i \in 0 .. 31 : Meta(s, x)[i] \in Byte
         /\ \A i \in Index : Meta(s, x)[i] = Xor(x[15 - i], Pad(s, 0)[i])
         /\ \A i \in 0 .. 11 : Meta(s, x)[17 + i] = s.nonce[i]
         /\ \A i \in Looked : Meta(s, x)[16 + i] = Xor(HeaderPad(s, s.nonce)[i], Header(s)[i])
<1>0. s.nonce \in [0 .. 11 -> Byte] /\ Size(s) \in Small
  BY TurnFacts DEF IsSealing
<1>1. HeaderPad(s, s.nonce) \in Block
  BY <1>0, HeaderPadIs
<1>2. Header(s) \in Block
  <2>1. 58 \in Byte /\ 0 \in Byte
    BY DEF Byte
  <2>2. SizeByte(Size(s), 13) \in Byte /\ SizeByte(Size(s), 14) \in Byte /\ SizeByte(Size(s), 15) \in Byte
    <3>1. Size(s) \in Nat /\ \A y \in Int : y % 256 \in Byte
      BY <1>0 DEF Small, Byte
    <3>2. /\ Size(s) \div 65536 \in Int /\ Size(s) \div 256 \in Int /\ Size(s) \div 1 \in Int
      BY <3>1
    <3> DEFINE y1 == Size(s) \div 65536
               y2 == Size(s) \div 256
               y3 == Size(s) \div 1
    <3>3. SizeByte(Size(s), 13) = y1 % 256 /\ SizeByte(Size(s), 14) = y2 % 256 /\ SizeByte(Size(s), 15) = y3 % 256
      BY SizeBytes
    <3>4. y1 \in Int /\ y2 \in Int /\ y3 \in Int
      BY <3>2
    <3> HIDE DEF y1, y2, y3
    <3> QED BY <3>1, <3>3, <3>4
  <2>3. ASSUME NEW i \in Index
        PROVE  (IF i = 0 THEN 58 ELSE IF i < 13 THEN 0 ELSE SizeByte(Size(s), i)) \in Byte
    <3>1. i < 13 \/ i = 13 \/ i = 14 \/ i = 15
      BY DEF Index
    <3> QED BY <2>1, <2>2, <3>1
  <2> QED BY <2>3 DEF Header, Block
<1>3. Pad(s, 0) \in Block
  BY PadIs, 0 \in Small DEF Small
<1>4. ASSUME NEW i \in Index
      PROVE  Meta(s, x)[i] = Xor(x[15 - i], Pad(s, 0)[i]) /\ Meta(s, x)[i] \in Byte
  <2>1. i \in 0 .. 31 /\ i < 16 /\ 15 - i \in Index
    BY DEF Index
  <2>2. Meta(s, x)[i] = Xor(x[15 - i], Pad(s, 0)[i])
    BY <2>1 DEF Meta
  <2>3. x[15 - i] \in Byte /\ Pad(s, 0)[i] \in Byte
    BY <1>3, <2>1 DEF Block
  <2> QED BY <2>2, <2>3, XorFacts
<1>5. ASSUME NEW i \in 0 .. 11
      PROVE  Meta(s, x)[17 + i] = s.nonce[i] /\ Meta(s, x)[17 + i] \in Byte
  <2>1. 17 + i \in 0 .. 31 /\ ~(17 + i < 16) /\ 17 + i \in 17 .. 28 /\ (17 + i) - 17 = i
    OBVIOUS
  <2> QED BY <1>0, <2>1 DEF Meta
<1>6. ASSUME NEW i \in Looked
      PROVE  /\ Meta(s, x)[16 + i] = Xor(HeaderPad(s, s.nonce)[i], Header(s)[i])
             /\ Meta(s, x)[16 + i] \in Byte
  <2>1. /\ 16 + i \in 0 .. 31 /\ ~(16 + i < 16) /\ 16 + i \notin 17 .. 28 /\ (16 + i) - 16 = i
        /\ i \in Index
    BY DEF Looked, Index
  <2>2. Meta(s, x)[16 + i] = Xor(HeaderPad(s, s.nonce)[i], Header(s)[i])
    BY <2>1 DEF Meta
  <2>3. HeaderPad(s, s.nonce)[i] \in Byte /\ Header(s)[i] \in Byte
    BY <1>1, <1>2, <2>1 DEF Block
  <2> QED BY <2>2, <2>3, XorFacts
<1>7. ASSUME NEW i \in 0 .. 31  PROVE Meta(s, x)[i] \in Byte
  <2>1. CASE i \in Index
    BY <1>4, <2>1
  <2>2. CASE i \in 17 .. 28
    <3>1. i - 17 \in 0 .. 11 /\ 17 + (i - 17) = i
      BY <2>2
    <3> QED BY <1>5, <3>1
  <2>3. CASE i \in {16, 29, 30, 31}
    <3>1. i - 16 \in Looked /\ 16 + (i - 16) = i
      BY <2>3 DEF Looked
    <3> QED BY <1>6, <3>1
  <2> QED BY <2>1, <2>2, <2>3 DEF Index
<1> QED BY <1>2, <1>4, <1>5, <1>6, <1>7

(* Which nonce is read, and which of the bytes that are looked at are       *)
(* right.                                                                   *)
LEMMA HeaderBytes ==
  ASSUME NEW s, IsSealing(s), NEW d, NEW x \in Block, NEW m, m = MetaArrival(s, d, x),
         NEW c, IsContext(c)
  PROVE  LET v == NonceOf(m)
             b == CtrBlock(dsi_init_ctr(c, s.key, HeaderCounter(v)), HeaderOf(m))
         IN  /\ v \in [0 .. 11 -> Byte]
             /\ ~NonceHit(d) => v = s.nonce
             /\ NonceHit(d) => v = [s.nonce EXCEPT ![d.at - 17] = Xor(@, 1)]
             /\ \A i \in Looked : b[i] \in Byte
             /\ ~NonceHit(d) => \A i \in Looked : b[i] = Header(s)[i] <=> ~MetaHit(d, 16 + i)
             /\ NonceHit(d) =>
                  \A i \in Looked : HeaderPad(s, v)[i] # HeaderPad(s, s.nonce)[i] => b[i] # Header(s)[i]
<1> DEFINE v == NonceOf(m)
           b == CtrBlock(dsi_init_ctr(c, s.key, HeaderCounter(v)), HeaderOf(m))
           P == HeaderPad(s, v)
           Q == HeaderPad(s, s.nonce)
           H == Header(s)
<1>1. s.nonce \in [0 .. 11 -> Byte]
  BY DEF IsSealing
<1>2. \A i \in 0 .. 31 : m[i] = IF MetaHit(d, i) THEN Xor(Meta(s, x)[i], 1) ELSE Meta(s, x)[i]
  BY DEF MetaArrival
<1>3. \A i \in 0 .. 31 : Meta(s, x)[i] \in Byte /\ m[i] \in Byte
  <2>1. ASSUME NEW i \in 0 .. 31  PROVE Meta(s, x)[i] \in Byte /\ Xor(Meta(s, x)[i], 1) \in Byte
    <3>1. Meta(s, x)[i] \in Byte
      BY MetaFacts
    <3> QED BY <3>1, XorUndone
  <2> QED BY <1>2, <2>1
<1>4. /\ v \in [0 .. 11 -> Byte]
      /\ \A i \in 0 .. 11 : v[i] = IF MetaHit(d, 17 + i) THEN Xor(s.nonce[i], 1) ELSE s.nonce[i]
  <2>1. ASSUME NEW i \in 0 .. 11
        PROVE  /\ m[17 + i] \in Byte
               /\ m[17 + i] = IF MetaHit(d, 17 + i) THEN Xor(s.nonce[i], 1) ELSE s.nonce[i]
    <3>1. 17 + i \in 0 .. 31
      OBVIOUS
    <3>2. Meta(s, x)[17 + i] = s.nonce[i]
      BY MetaFacts
    <3> QED BY <1>2, <1>3, <3>1, <3>2
  <2> QED BY <2>1 DEF NonceOf
<1>5. /\ ~NonceHit(d) => v = s.nonce
      /\ NonceHit(d) => v = [s.nonce EXCEPT ![d.at - 17] = Xor(@, 1)]
  <2> HIDE DEF v
  <2>1. \A i \in 0 .. 11 : MetaHit(d, 17 + i) <=> NonceHit(d) /\ i = d.at - 17
    BY DEF MetaHit, NonceHit
  <2>2. v = [i \in 0 .. 11 |-> v[i]] /\ s.nonce = [i \in 0 .. 11 |-> s.nonce[i]]
    BY <1>1, <1>4
  <2>3. ASSUME ~NonceHit(d)  PROVE v = s.nonce
    BY <1>4, <2>1, <2>2, <2>3
  <2>4. ASSUME NonceHit(d)  PROVE v = [s.nonce EXCEPT ![d.at - 17] = Xor(@, 1)]
    <3>1. \A i \in 0 .. 11 : v[i] = IF i = d.at - 17 THEN Xor(s.nonce[i], 1) ELSE s.nonce[i]
      BY <1>4, <2>1, <2>4
    <3>2. [s.nonce EXCEPT ![d.at - 17] = Xor(@, 1)]
            = [i \in 0 .. 11 |-> IF i = d.at - 17 THEN Xor(s.nonce[i], 1) ELSE s.nonce[i]]
      BY <1>1
    <3> QED BY <2>2, <3>1, <3>2
  <2> QED BY <2>3, <2>4
<1>6. P \in Block /\ Q \in Block /\ H \in Block
      /\ Stream(dsi_init_ctr(c, s.key, HeaderCounter(v))) = P
  BY <1>1, <1>4, HeaderPadIs, MetaFacts
<1>7. b = [i \in Index |-> Xor(P[i], m[16 + i])]
  BY <1>6, TableIs DEF CtrBlock, XorBlock, HeaderOf
<1> HIDE DEF v, b, P, Q, H
<1>8. ASSUME NEW i \in Looked
      PROVE  /\ b[i] = Xor(P[i], m[16 + i]) /\ b[i] \in Byte
             /\ m[16 + i] = IF MetaHit(d, 16 + i) THEN Xor(Xor(Q[i], H[i]), 1) ELSE Xor(Q[i], H[i])
             /\ P[i] \in Byte /\ Q[i] \in Byte /\ H[i] \in Byte
  <2>1. i \in Index /\ 16 + i \in 0 .. 31
    BY DEF Looked, Index
  <2>2. b[i] = Xor(P[i], m[16 + i])
    BY <1>7, <2>1
  <2>3. P[i] \in Byte /\ Q[i] \in Byte /\ H[i] \in Byte /\ m[16 + i] \in Byte
    BY <1>3, <1>6, <2>1 DEF Block
  <2>4. Meta(s, x)[16 + i] = Xor(Q[i], H[i])
    BY MetaFacts DEF Q, H
  <2>5. Xor(P[i], m[16 + i]) \in Byte
    BY <2>3, XorFacts
  <2> QED BY <1>2, <2>1, <2>2, <2>3, <2>4, <2>5
<1>9. ASSUME ~NonceHit(d), NEW i \in Looked  PROVE b[i] = H[i] <=> ~MetaHit(d, 16 + i)
  <2>1. P = Q
    BY <1>5, <1>9 DEF P, Q
  <2>2. Xor(Q[i], Xor(Q[i], H[i])) = H[i] /\ Xor(Q[i], Xor(Xor(Q[i], H[i]), 1)) # H[i]
    <3>1. Q[i] \in Byte /\ H[i] \in Byte
      BY <1>8
    <3> QED BY <3>1, XorUndone
  <2> QED BY <1>8, <2>1, <2>2
<1>10. ASSUME NonceHit(d), NEW i \in Looked, P[i] # Q[i]  PROVE b[i] # H[i]
  <2>1. ~MetaHit(d, 16 + i)
    BY <1>10 DEF NonceHit, MetaHit, Looked
  <2>2. b[i] = Xor(P[i], Xor(Q[i], H[i]))
    BY <1>8, <2>1
  <2>3. Xor(Xor(P[i], Q[i]), H[i]) = Xor(P[i], Xor(Q[i], H[i])) /\ Xor(P[i], Q[i]) \in Byte
    BY <1>8, XorAlgebra
  <2>4. ASSUME b[i] = H[i]  PROVE FALSE
    <3> DEFINE z == Xor(P[i], Q[i])
    <3>1. z \in Byte /\ Xor(z, H[i]) = H[i] /\ H[i] \in Byte
      BY <1>8, <2>2, <2>3, <2>4
    <3> HIDE DEF z
    <3>2. Xor(Xor(z, H[i]), H[i]) = z /\ Xor(H[i], H[i]) = 0
      BY <3>1, XorFacts, XorUndone
    <3>3. z = 0
      BY <3>1, <3>2
    <3>4. Xor(P[i], Xor(P[i], Q[i])) = Q[i] /\ Xor(P[i], 0) = P[i]
      <4>1. P[i] \in Byte /\ Q[i] \in Byte
        BY <1>8
      <4>2. Xor(P[i], Xor(P[i], Q[i])) = Q[i]
        BY <4>1, XorUndone
      <4>3. Xor(P[i], 0) = P[i]
        BY <4>1, XorAlgebra
      <4> QED BY <4>2, <4>3
    <3> QED BY <1>10, <3>3, <3>4 DEF z
  <2> QED BY <2>4
<1>11. \A i \in Looked : b[i] \in Byte
  BY <1>8
<1> QED BY <1>4, <1>5, <1>9, <1>10, <1>11 DEF v, b, P, Q, H

(* The header is accepted unless size or metablock were altered where it is *)
(* looked at.                                                               *)
Accepted(b, m) == b[0] = 58 /\ 65536 * b[13] + 256 * b[14] + b[15] = m
HeaderHit(d) == d.part = "size" \/ (d.part = "metablock" /\ d.at \in 16 .. 31)

(* What dsi_es_decrypt makes of the header.  That an altered nonce shows is *)
(* NonceShows; everything else follows from what the bytes are.             *)
LEMMA HeaderVerdict ==
  ASSUME NonceShows, NEW s, IsSealing(s), s.key \in EsKeys, s.nonce \in Nonces,
         NEW d \in Damages, NEW x \in Block, NEW m, m = MetaArrival(s, d, x),
         NEW c, IsContext(c), NEW b,
         b = CtrBlock(dsi_init_ctr(c, s.key, HeaderCounter(NonceOf(m))), HeaderOf(m))
  PROVE  /\ Accepted(b, SizeArrival(s, d)) <=> ~HeaderHit(d)
         /\ ~HeaderHit(d) => NonceOf(m) = s.nonce
<1> DEFINE v == NonceOf(m)
           H == Header(s)
           size0 == Size(s)
<1>1. /\ ~NonceHit(d) => v = s.nonce
      /\ NonceHit(d) => v = [s.nonce EXCEPT ![d.at - 17] = Xor(@, 1)]
      /\ \A i \in Looked : b[i] \in Byte
      /\ ~NonceHit(d) => \A i \in Looked : b[i] = H[i] <=> ~MetaHit(d, 16 + i)
      /\ NonceHit(d) => \A i \in Looked : HeaderPad(s, v)[i] # HeaderPad(s, s.nonce)[i] => b[i] # H[i]
  BY HeaderBytes
<1>2. size0 \in Nat /\ size0 \in Small /\ size0 + 1 # size0
  BY TurnFacts DEF IsSealing
<1>3. H[0] = 58 /\ H[13] = SizeByte(size0, 13) /\ H[14] = SizeByte(size0, 14) /\ H[15] = SizeByte(size0, 15)
  <2>1. 0 \in Index /\ 13 \in Index /\ 14 \in Index /\ 15 \in Index
    BY DEF Index
  <2> QED BY <2>1 DEF Header
<1>4. d.part = "metablock" => d.at \in 0 .. 31
  BY EsAssumption
<1> HIDE DEF v, H, size0
<1>5. (\A i \in Looked : b[i] = H[i]) <=> b[0] = 58 /\ 65536 * b[13] + 256 * b[14] + b[15] = size0
  <2>1. b[13] \in Byte /\ b[14] \in Byte /\ b[15] \in Byte
    BY <1>1 DEF Looked
  <2>2. 65536 * b[13] + 256 * b[14] + b[15] = size0 <=> b[13] = H[13] /\ b[14] = H[14] /\ b[15] = H[15]
    BY <1>2, <1>3, <2>1, SizeInBytes
  <2>3. (\A i \in Looked : b[i] = H[i]) <=> b[0] = H[0] /\ b[13] = H[13] /\ b[14] = H[14] /\ b[15] = H[15]
    BY DEF Looked
  <2> QED BY <1>3, <2>2, <2>3
<1>6. CASE NonceHit(d)
  <2>1. \E i \in Looked : HeaderPad(s, v)[i] # HeaderPad(s, s.nonce)[i]
    BY <1>1, <1>6 DEF NonceShows, NonceHit, Looked, HeaderPad
  <2>2. ~\A i \in Looked : b[i] = H[i]
    BY <1>1, <1>6, <2>1
  <2>3. d.part = "metablock" /\ HeaderHit(d) /\ d.part # "size"
    BY <1>6 DEF NonceHit, HeaderHit
  <2>4. SizeArrival(s, d) = size0
    BY <2>3 DEF SizeArrival, size0
  <2> QED BY <1>5, <2>2, <2>3, <2>4 DEF Accepted
<1>7. CASE ~NonceHit(d) /\ d.part = "metablock"
  <2>1. SizeArrival(s, d) = size0
    BY <1>7 DEF SizeArrival, size0
  <2>2. (\A i \in Looked : ~MetaHit(d, 16 + i)) <=> ~HeaderHit(d)
    <3>1. d.at \in 0 .. 31 /\ d.at \notin 17 .. 28
      BY <1>4, <1>7 DEF NonceHit
    <3>2. HeaderHit(d) <=> d.at = 16 \/ d.at = 29 \/ d.at = 30 \/ d.at = 31
      BY <1>7, <3>1 DEF HeaderHit
    <3>3. (\A i \in Looked : ~MetaHit(d, 16 + i)) <=> d.at # 16 /\ d.at # 29 /\ d.at # 30 /\ d.at # 31
      BY <1>7, <3>1 DEF MetaHit, Looked
    <3> QED BY <3>2, <3>3
  <2>3. (\A i \in Looked : b[i] = H[i]) <=> ~HeaderHit(d)
    BY <1>1, <1>7, <2>2
  <2> QED BY <1>1, <1>5, <1>7, <2>1, <2>3 DEF Accepted, v
<1>8. CASE d.part # "metablock"
  <2>1. ~NonceHit(d) /\ (HeaderHit(d) <=> d.part = "size") /\ \A i \in Looked : ~MetaHit(d, 16 + i)
    BY <1>8 DEF NonceHit, HeaderHit, MetaHit
  <2>2. \A i \in Looked : b[i] = H[i]
    BY <1>1, <2>1
  <2>3. 65536 * b[13] + 256 * b[14] + b[15] = size0 /\ b[0] = 58
    BY <1>5, <2>2
  <2>4. SizeArrival(s, d) = size0 <=> d.part # "size"
    BY <1>2 DEF SizeArrival, size0
  <2>5. Accepted(b, SizeArrival(s, d)) <=> SizeArrival(s, d) = size0
    BY <2>3 DEF Accepted
  <2> QED BY <1>1, <2>1, <2>4, <2>5 DEF v
<1> QED BY <1>6, <1>7, <1>8

-----------------------------------------------------------------------------
(* The invariant.  While it is sealed, a container is encrypted up to pos;  *)
(* when it has come, it is what was sealed but for d; and when it is opened *)
(* it is decrypted up to pos, with a chain that has its values when sealing *)
(* as long as nothing was hit.                                              *)
Sealing == [key |-> es.key, nonce |-> nonce, text |-> plain]
Delivered(d, h) ==
  /\ d \in Damages /\ IsDamage(Sealing, d) /\ IsChain(Sealing, h, Turns(Sealing))
  /\ metablock = MetaArrival(Sealing, d, MacAt(h, Turns(Sealing)))
  /\ size = SizeArrival(Sealing, d)
  /\ damaged = (d.part # "none")

EsPlaces == {"seal", "encrypt", "metablock", "deliver", "open", "init", "decrypt", "verify", "done"}
BaseInv ==
  /\ esPc \in EsPlaces
  /\ es.key \in EsKeys /\ (~es.randomnonce => es.nonce \in Nonces)
  /\ plain \in Payloads /\ IsContext(cryptoctx)
  /\ esPc \in {"encrypt", "metablock", "deliver"} => nonce \in Nonces
  /\ esPc \in {"seal", "encrypt", "metablock", "deliver"} => size = Size(Sealing)
SealInv    == esPc = "seal" => buffer = plain
EncryptInv ==
  esPc = "encrypt" =>
    \E k \in Nat : k < Turns(Sealing) /\ pos = 16 * k /\ EncryptedUpTo(Sealing, cryptoctx, chain, buffer, k)
SealedInv  ==
  /\ esPc \in {"metablock", "deliver"} => EncryptedUpTo(Sealing, cryptoctx, chain, buffer, Turns(Sealing))
  /\ esPc = "deliver" => metablock = Meta(Sealing, MacAt(chain, Turns(Sealing)))
OpenInv ==
  esPc \in {"open", "init"} =>
    /\ nonce \in Nonces
    /\ \E d : /\ Delivered(d, chain) /\ buffer = Arrival(Sealing, d) /\ arrived = buffer
              /\ esPc = "init" => ~HeaderHit(d)
DecryptInv ==
  esPc \in {"decrypt", "verify"} =>
    /\ nonce \in Nonces
    /\ \E d, h :
         /\ Delivered(d, h) /\ ~HeaderHit(d)
         /\ esPc = "decrypt" =>
              \E k \in Nat : k < Turns(Sealing) /\ pos = 16 * k /\ DecryptedUpTo(Sealing, d, cryptoctx, h, buffer, k)
         /\ esPc = "verify" => DecryptedUpTo(Sealing, d, cryptoctx, h, buffer, Turns(Sealing))
SealPart == BaseInv /\ SealInv /\ EncryptInv /\ SealedInv
OpenPart == OpenInv /\ DecryptInv /\ EsVerdict
EsInv == SealPart /\ (NonceShows => OpenPart)

(* What is sealed has a key, a nonce and bytes that are not too many.       *)
LEMMA SealingFacts ==
  ASSUME es.key \in EsKeys, plain \in Payloads, nonce \in [0 .. 11 -> Byte]
  PROVE  /\ IsSealing(Sealing) /\ Size(Sealing) = Cardinality(DOMAIN plain)
         /\ Sealing.key = es.key /\ Sealing.nonce = nonce /\ Sealing.text = plain
<1>1. Sealing.key = es.key /\ Sealing.nonce = nonce /\ Sealing.text = plain
  BY DEF Sealing
<1>2. Size(Sealing) = Cardinality(DOMAIN plain)
  BY <1>1 DEF Size
<1>3. es.key \in Block
  BY EsAssumption
<1>4. /\ IsFiniteSet(DOMAIN plain) /\ Cardinality(DOMAIN plain) <= Largest
      /\ plain \in [0 .. (Cardinality(DOMAIN plain) - 1) -> Byte]
  BY EsAssumption
<1>5. Cardinality(DOMAIN plain) \in Nat
  BY <1>4, FS_CardinalityType
<1> HIDE DEF Sealing
<1> QED BY <1>1, <1>2, <1>3, <1>4, <1>5 DEF IsSealing

(* A nonce has twelve bytes.                                                *)
LEMMA NonceFacts == Nonces \subseteq [0 .. 11 -> Byte]
  BY EsAssumption

(* What is sealed, once a nonce is chosen.                                  *)
LEMMA SealingInv ==
  ASSUME BaseInv, nonce \in Nonces
  PROVE  /\ IsSealing(Sealing) /\ Size(Sealing) = Cardinality(DOMAIN plain) /\ nonce \in Nonces
         /\ Sealing.key = es.key /\ Sealing.nonce = nonce /\ Sealing.text = plain /\ es.key \in EsKeys
         /\ IsContext(cryptoctx)
<1>1. es.key \in EsKeys /\ plain \in Payloads /\ nonce \in Nonces /\ IsContext(cryptoctx)
  BY DEF BaseInv
<1>2. nonce \in [0 .. 11 -> Byte]
  BY <1>1, NonceFacts
<1> QED BY <1>1, <1>2, SealingFacts

-----------------------------------------------------------------------------
(* Nothing is sealed yet.                                                   *)
LEMMA EsInitial == EsInit => EsInv
<1> SUFFICES ASSUME EsInit  PROVE EsInv
  OBVIOUS
<1>1. es.key \in EsKeys /\ (~es.randomnonce => es.nonce \in Nonces)
  <2>1. PICK k \in EsKeys, v \in Nonces :
          es \in {dsi_es_init(k), dsi_es_set_nonce(dsi_es_init(k), v),
                  dsi_es_set_random_nonce(dsi_es_set_nonce(dsi_es_init(k), v))}
    BY DEF EsInit
  <2>2. dsi_es_init(k).key = k /\ dsi_es_init(k).randomnonce
    BY DEF dsi_es_init
  <2>3. /\ dsi_es_set_nonce(dsi_es_init(k), v).key = k
        /\ dsi_es_set_nonce(dsi_es_init(k), v).nonce = v
    BY DEF dsi_es_init, dsi_es_set_nonce
  <2>4. /\ dsi_es_set_random_nonce(dsi_es_set_nonce(dsi_es_init(k), v)).key = k
        /\ dsi_es_set_random_nonce(dsi_es_set_nonce(dsi_es_init(k), v)).randomnonce
    BY DEF dsi_es_init, dsi_es_set_nonce, dsi_es_set_random_nonce
  <2> QED BY <2>1, <2>2, <2>3, <2>4
<1>2. /\ plain \in Payloads /\ buffer = plain /\ size = Cardinality(DOMAIN plain)
      /\ esPc = "seal" /\ cryptoctx = NoContext
  BY DEF EsInit
<1>3. IsContext(cryptoctx)
  BY <1>2 DEF IsContext, NoContext
<1>4. size = Size(Sealing)
  BY <1>2 DEF Size, Sealing
<1>5. BaseInv
  BY <1>1, <1>2, <1>3, <1>4 DEF BaseInv, EsPlaces
<1> QED BY <1>2, <1>5 DEF EsInv, SealPart, OpenPart, SealInv, EncryptInv, SealedInv, OpenInv, DecryptInv, EsVerdict

(* dsi_es_encrypt.                                                          *)
LEMMA EsEncryptStep == EsInv /\ EsEncrypt => EsInv'
<1> SUFFICES ASSUME EsInv, EsEncrypt  PROVE EsInv'
  OBVIOUS
<1>1. /\ esPc = "seal" /\ esPc' = "encrypt"
      /\ nonce' \in IF es.randomnonce THEN Nonces ELSE {es.nonce}
      /\ cryptoctx' = CcmReady(CcmStart(cryptoctx, es.key, size, nonce'))
      /\ chain' = <<cryptoctx'.mac>> /\ pos' = 0
      /\ es' = es /\ buffer' = buffer /\ size' = size /\ plain' = plain
  BY DEF EsEncrypt, dsi_init_ccm
<1>2. /\ es.key \in EsKeys /\ plain \in Payloads /\ IsContext(cryptoctx) /\ size = Size(Sealing)
      /\ (~es.randomnonce => es.nonce \in Nonces) /\ buffer = plain
  BY <1>1 DEF EsInv, SealPart, BaseInv, SealInv
<1>3. nonce' \in Nonces
  BY <1>1, <1>2
<1> DEFINE s == Sealing'
<1>4. s = [key |-> es.key, nonce |-> nonce', text |-> plain]
  BY <1>1 DEF Sealing
<1>5. s.key = es.key /\ s.nonce = nonce' /\ s.text = plain /\ Size(s) = size
  BY <1>2, <1>4 DEF Size, Sealing
<1> HIDE DEF s
<1>6. IsSealing(s)
  <2>1. nonce' \in [0 .. 11 -> Byte]
    BY <1>3, NonceFacts
  <2>2. es.key \in Block
    BY <1>2, EsAssumption
  <2>3. /\ IsFiniteSet(DOMAIN plain) /\ Cardinality(DOMAIN plain) <= Largest
        /\ plain \in [0 .. (Cardinality(DOMAIN plain) - 1) -> Byte]
    BY <1>2, EsAssumption
  <2>4. Cardinality(DOMAIN plain) \in Nat
    BY <2>3, FS_CardinalityType
  <2> QED BY <1>5, <2>1, <2>2, <2>3, <2>4 DEF IsSealing, Size
<1>7. cryptoctx' = CcmReady(CcmStart(cryptoctx, s.key, Size(s), s.nonce))
  BY <1>1, <1>5
<1>8. HasContext(cryptoctx', s, 0) /\ EncryptedUpTo(s, cryptoctx', chain', buffer', 0)
  <2>1. /\ HasContext(cryptoctx', s, 0)
        /\ EncryptedUpTo(s, cryptoctx', <<cryptoctx'.mac>>, s.text, 0)
    BY <1>2, <1>6, <1>7, EncryptFirst
  <2> QED BY <1>1, <1>2, <1>5, <2>1
<1>9. 0 < Turns(s) /\ pos' = 16 * 0
  <2>1. Size(s) \in Nat
    BY <1>6 DEF IsSealing
  <2> QED BY <1>1, <2>1 DEF Turns
<1>10. IsContext(cryptoctx')
  BY <1>8 DEF HasContext
<1>11. BaseInv'
  BY <1>1, <1>2, <1>3, <1>5, <1>10 DEF BaseInv, EsPlaces, s
<1>12. EncryptInv'
  BY <1>8, <1>9 DEF EncryptInv, s
<1> QED BY <1>1, <1>11, <1>12 DEF EsInv, SealPart, OpenPart, SealInv, SealedInv, OpenInv, DecryptInv, EsVerdict

(* What stays when nothing about the text, key and nonce changes.           *)
LEMMA SealingStays ==
  ASSUME UNCHANGED <<es, nonce, plain>>
  PROVE  Sealing' = Sealing
  BY DEF Sealing

(* A block of dsi_encrypt_ccm.                                              *)
LEMMA EncryptBlockStep == EsInv /\ EncryptBlock => EsInv'
<1> SUFFICES ASSUME EsInv, EncryptBlock  PROVE EsInv'
  OBVIOUS
<1> DEFINE s == Sealing
           input == BlockAt
<1>1. /\ esPc = "encrypt" /\ esPc' = IF More THEN "encrypt" ELSE "metablock"
      /\ buffer' = Store(CtrBlock(cryptoctx, input)) /\ cryptoctx' = AfterBlock(cryptoctx, input)
      /\ chain' = Append(chain, cryptoctx'.mac) /\ pos' = pos + 16
      /\ es' = es /\ nonce' = nonce /\ size' = size /\ plain' = plain
  BY DEF EncryptBlock
<1>2. BaseInv /\ EncryptInv
  BY DEF EsInv, SealPart
<1>3. IsSealing(s)
  BY <1>1, <1>2, SealingInv DEF BaseInv
<1>4. size = Size(s)
  BY <1>1, <1>2 DEF BaseInv
<1>5. PICK k \in Nat : k < Turns(s) /\ pos = 16 * k /\ EncryptedUpTo(s, cryptoctx, chain, buffer, k)
  BY <1>1, <1>2 DEF EncryptInv
<1>6. s' = s
  BY <1>1, SealingStays
<1>7. input = Taken(s, buffer, k) /\ Store(CtrBlock(cryptoctx, input)) = Put(buffer, k, CtrBlock(cryptoctx, input))
  BY <1>4, <1>5 DEF BlockAt, Taken, Store, Put
<1> HIDE DEF s, input
<1>8. EncryptedUpTo(s, cryptoctx', chain', buffer', k + 1)
  <2>1. EncryptedUpTo(s, AfterBlock(cryptoctx, input), Append(chain, AfterBlock(cryptoctx, input).mac),
                   Put(buffer, k, CtrBlock(cryptoctx, input)), k + 1)
    BY <1>3, <1>5, <1>7, EncryptOne
  <2> QED BY <1>1, <1>7, <2>1
<1>9. Turns(s) \in Nat /\ (More <=> k + 1 < Turns(s)) /\ pos' = 16 * (k + 1)
  <2>1. Turns(s) \in Nat /\ (Size(s) - 16 * k > 16 <=> k + 1 < Turns(s))
    BY <1>3, <1>5, TurnFacts
  <2> QED BY <1>1, <1>4, <1>5, <2>1 DEF More
<1>10. IsContext(cryptoctx')
  BY <1>8 DEF EncryptedUpTo, HasContext
<1>11. BaseInv'
  <2>1. size' = Size(s')
    BY <1>1, <1>4, <1>6
  <2> QED BY <1>1, <1>2, <1>10, <2>1 DEF BaseInv, EsPlaces, s
<1>12. CASE More
  <2>1. esPc' = "encrypt" /\ k + 1 \in Nat /\ k + 1 < Turns(s)
    BY <1>1, <1>9, <1>12
  <2>2. EncryptInv'
    BY <1>6, <1>8, <1>9, <2>1 DEF EncryptInv, s
  <2> QED BY <1>11, <2>1, <2>2 DEF EsInv, SealPart, OpenPart, SealInv, SealedInv, OpenInv, DecryptInv, EsVerdict
<1>13. CASE ~More
  <2>1. esPc' = "metablock" /\ k + 1 = Turns(s)
    BY <1>1, <1>5, <1>9, <1>13
  <2>2. SealedInv'
    BY <1>6, <1>8, <2>1 DEF SealedInv, s
  <2> QED BY <1>11, <2>1, <2>2 DEF EsInv, SealPart, OpenPart, SealInv, EncryptInv, OpenInv, DecryptInv, EsVerdict
<1> QED BY <1>12, <1>13

(* The metablock.                                                           *)
LEMMA MacFacts ==
  ASSUME NEW s, IsSealing(s), NEW c, NEW k, HasContext(c, s, k)
  PROVE  Mac(c) = [i \in Index |-> Xor(c.mac[15 - i], Pad(s, 0)[i])]
  BY DEF Mac, HasContext

(* The metablock is sealed with the last value of the chain.                *)
LEMMA EsSealStep == EsInv /\ EsSeal => EsInv'
<1> SUFFICES ASSUME EsInv, EsSeal  PROVE EsInv'
  OBVIOUS
<1> DEFINE s == Sealing
           scratchpad == [i \in Index |-> IF i = 0 THEN 58 ELSE IF i < 13 THEN 0 ELSE SizeByte(size, i)]
           header == CtrBlock(dsi_init_ctr(cryptoctx, es.key, HeaderCounter(nonce)), scratchpad)
           x == MacAt(chain, Turns(s))
<1>1. /\ esPc = "metablock" /\ esPc' = "deliver"
      /\ metablock' = [i \in 0 .. 31 |-> IF i < 16 THEN Mac(cryptoctx)[i]
                                          ELSE IF i \in 17 .. 28 THEN nonce[i - 17]
                                          ELSE header[i - 16]]
      /\ UNCHANGED <<es, cryptoctx, nonce, buffer, size, pos, ret, chain, plain, arrived, damaged>>
  BY DEF EsSeal
<1>2. BaseInv /\ SealedInv
  BY DEF EsInv, SealPart
<1>3. /\ IsSealing(s) /\ s.key = es.key /\ s.nonce = nonce /\ nonce \in Nonces /\ IsContext(cryptoctx)
  BY <1>1, <1>2, SealingInv DEF BaseInv
<1>4. size = Size(s)
  BY <1>1, <1>2 DEF BaseInv
<1>5. EncryptedUpTo(s, cryptoctx, chain, buffer, Turns(s))
  BY <1>1, <1>2 DEF SealedInv
<1>6. s' = s
  BY <1>1, SealingStays
<1> HIDE DEF s
<1>7. HasContext(cryptoctx, s, Turns(s)) /\ cryptoctx.mac = x
  BY <1>5 DEF EncryptedUpTo
<1>8. Mac(cryptoctx) = [i \in Index |-> Xor(x[15 - i], Pad(s, 0)[i])]
  BY <1>3, <1>7, MacFacts
<1>9. Stream(dsi_init_ctr(cryptoctx, es.key, HeaderCounter(nonce))) = HeaderPad(s, nonce)
  <2>1. nonce \in [0 .. 11 -> Byte]
    BY <1>3, NonceFacts
  <2> QED BY <1>3, <2>1, HeaderPadIs
<1>10. scratchpad = Header(s)
  BY <1>4 DEF Header
<1>11. header = [i \in Index |-> Xor(HeaderPad(s, nonce)[i], Header(s)[i])]
  BY <1>9, <1>10, TableIs DEF CtrBlock, XorBlock
<1> HIDE DEF header, scratchpad, x
<1>12. metablock' = Meta(s, x)
  <2>1. ASSUME NEW i \in 0 .. 31
        PROVE  (IF i < 16 THEN Mac(cryptoctx)[i] ELSE IF i \in 17 .. 28 THEN nonce[i - 17] ELSE header[i - 16])
                 = IF i < 16 THEN Xor(x[15 - i], Pad(s, 0)[i]) ELSE IF i \in 17 .. 28 THEN s.nonce[i - 17]
                   ELSE Xor(HeaderPad(s, s.nonce)[i - 16], Header(s)[i - 16])
    <3>1. CASE i < 16
      <4>1. i \in Index
        BY <3>1 DEF Index
      <4> QED BY <1>8, <3>1, <4>1
    <3>2. CASE i \in 17 .. 28
      BY <1>3, <3>2
    <3>3. CASE ~(i < 16) /\ i \notin 17 .. 28
      <4>1. i - 16 \in Index
        BY <3>3 DEF Index
      <4> QED BY <1>3, <1>11, <3>3, <4>1
    <3> QED BY <3>1, <3>2, <3>3
  <2> QED BY <1>1, <2>1 DEF Meta
<1>13. BaseInv'
  <2>1. size' = Size(s')
    BY <1>1, <1>4, <1>6
  <2> QED BY <1>1, <1>2, <2>1 DEF BaseInv, EsPlaces, s
<1>14. SealedInv'
  BY <1>1, <1>5, <1>6, <1>12 DEF SealedInv, s, x
<1> QED BY <1>1, <1>13, <1>14 DEF EsInv, SealPart, OpenPart, SealInv, EncryptInv, OpenInv, DecryptInv, EsVerdict

-----------------------------------------------------------------------------
(* On the way.                                                              *)
LEMMA DeliverStep == EsInv /\ Deliver => EsInv'
<1> SUFFICES ASSUME EsInv, Deliver  PROVE EsInv'
  OBVIOUS
<1> DEFINE s == Sealing
           x == MacAt(chain, Turns(s))
<1>1. /\ esPc = "deliver" /\ esPc' = "open" /\ arrived' = buffer'
      /\ UNCHANGED <<es, cryptoctx, nonce, pos, ret, chain, plain>>
  BY DEF Deliver
<1>2. PICK d \in Damages :
       /\ d.part = "buffer" => d.at \in DOMAIN buffer
       /\ buffer' = IF d.part = "buffer" THEN [buffer EXCEPT ![d.at] = Xor(@, 1)] ELSE buffer
       /\ metablock' = IF d.part = "metablock" THEN [metablock EXCEPT ![d.at] = Xor(@, 1)] ELSE metablock
       /\ size' = IF d.part = "size" THEN size + 1 ELSE size
       /\ damaged' = (d.part # "none")
  BY DEF Deliver
<1>3. BaseInv /\ SealedInv
  BY DEF EsInv, SealPart
<1>4. IsSealing(s) /\ size = Size(s) /\ s' = s /\ nonce \in Nonces
  BY <1>1, <1>3, SealingInv, SealingStays DEF BaseInv
<1>5. EncryptedUpTo(s, cryptoctx, chain, buffer, Turns(s)) /\ metablock = Meta(s, x)
  BY <1>1, <1>3 DEF SealedInv
<1> HIDE DEF s, x
<1>6. IsChain(s, chain, Turns(s)) /\ buffer = Partly(s, Turns(s))
  BY <1>5 DEF EncryptedUpTo
<1>7. buffer = [j \in 0 .. (Size(s) - 1) |-> CipherByte(s, j)]
  <2>1. Turns(s) \in Nat /\ Size(s) <= 16 * Turns(s) /\ Size(s) \in Nat
    BY <1>4, TurnFacts DEF IsSealing
  <2>2. \A j \in 0 .. (Size(s) - 1) : j < 16 * Turns(s)
    BY <2>1
  <2> QED BY <1>6, <2>2 DEF Partly
<1>8. IsDamage(s, d)
  BY <1>2, <1>7 DEF IsDamage
<1>9. buffer' = Arrival(s, d)
  <2>1. \A j \in 0 .. (Size(s) - 1) : Hit(d, j) <=> d.part = "buffer" /\ d.at = j
    BY DEF Hit
  <2>2. CASE d.part = "buffer"
    <3>1. buffer' = [buffer EXCEPT ![d.at] = Xor(@, 1)]
      BY <1>2, <2>2
    <3>2. [buffer EXCEPT ![d.at] = Xor(@, 1)]
            = [j \in 0 .. (Size(s) - 1) |-> IF Hit(d, j) THEN Xor(CipherByte(s, j), 1) ELSE CipherByte(s, j)]
      BY <1>7, <2>1, <2>2
    <3> QED BY <3>1, <3>2 DEF Arrival
  <2>3. CASE d.part # "buffer"
    BY <1>2, <1>7, <2>1, <2>3 DEF Arrival
  <2> QED BY <2>2, <2>3
<1>10. metablock' = MetaArrival(s, d, x)
  <2>0. metablock = [i \in 0 .. 31 |-> Meta(s, x)[i]]
    BY <1>5 DEF Meta
  <2>1. \A i \in 0 .. 31 : MetaHit(d, i) <=> d.part = "metablock" /\ d.at = i
    BY DEF MetaHit
  <2>2. CASE d.part = "metablock"
    <3>1. metablock' = [metablock EXCEPT ![d.at] = Xor(@, 1)]
      BY <1>2, <2>2
    <3>2. [metablock EXCEPT ![d.at] = Xor(@, 1)]
            = [i \in 0 .. 31 |-> IF MetaHit(d, i) THEN Xor(Meta(s, x)[i], 1) ELSE Meta(s, x)[i]]
      BY <2>0, <2>1, <2>2
    <3> QED BY <3>1, <3>2 DEF MetaArrival
  <2>3. CASE d.part # "metablock"
    BY <1>2, <2>0, <2>1, <2>3 DEF MetaArrival
  <2> QED BY <2>2, <2>3
<1>11. size' = SizeArrival(s, d)
  BY <1>2, <1>4 DEF SizeArrival
<1>12. Delivered(d, chain)'
  BY <1>1, <1>2, <1>4, <1>6, <1>8, <1>10, <1>11 DEF Delivered, s, x
<1>13. OpenInv'
  BY <1>1, <1>4, <1>9, <1>12 DEF OpenInv, s
<1>14. BaseInv'
  BY <1>1, <1>3, <1>4 DEF BaseInv, EsPlaces
<1> QED BY <1>1, <1>13, <1>14 DEF EsInv, SealPart, OpenPart, SealInv, EncryptInv, SealedInv, DecryptInv, EsVerdict

(* The header is read.                                                      *)
LEMMA EsDecryptOpens ==
  ASSUME NonceShows, BaseInv, OpenPart, EsDecrypt
  PROVE  OpenPart'
<1> DEFINE s == Sealing
           x == MacAt(chain, Turns(s))
           b == CtrBlock(dsi_init_ctr(cryptoctx, es.key, HeaderCounter(NonceOf(metablock))), HeaderOf(metablock))
<1>1. /\ esPc = "open" /\ esPc' = IF ret' = 0 THEN "init" ELSE "done"
      /\ ret' = IF b[0] # 58 THEN -1 ELSE IF 65536 * b[13] + 256 * b[14] + b[15] # size THEN -2 ELSE 0
      /\ nonce' = NonceOf(metablock)
      /\ UNCHANGED <<es, cryptoctx, buffer, metablock, size, pos, chain, plain, arrived, damaged>>
  BY DEF EsDecrypt, NonceOf, HeaderOf
<1>2. BaseInv /\ OpenInv
  BY DEF OpenPart
<1>3. PICK d : Delivered(d, chain) /\ buffer = Arrival(s, d) /\ arrived = buffer
  BY <1>1, <1>2 DEF OpenInv
<1>4. /\ d \in Damages /\ IsChain(s, chain, Turns(s)) /\ metablock = MetaArrival(s, d, x)
      /\ size = SizeArrival(s, d) /\ damaged = (d.part # "none")
  BY <1>3 DEF Delivered
<1>5. /\ IsSealing(s) /\ s.key = es.key /\ s.key \in EsKeys /\ s.nonce = nonce /\ s.nonce \in Nonces
      /\ IsContext(cryptoctx)
  BY <1>1, <1>2, SealingInv DEF OpenInv, DecryptInv
<1>6. x \in Block
  <2>1. /\ chain \in Seq(Block) /\ Len(chain) = Turns(s) + 1 /\ Turns(s) \in Nat
    BY <1>4, <1>5, TurnFacts DEF IsChain
  <2>2. Turns(s) + 1 \in 1 .. Len(chain)
    BY <2>1
  <2> QED BY <2>1, <2>2 DEF MacAt
<1> HIDE DEF s, x, b
<1>7. /\ Accepted(b, SizeArrival(s, d)) <=> ~HeaderHit(d)
      /\ ~HeaderHit(d) => NonceOf(metablock) = s.nonce
  BY <1>4, <1>5, <1>6, HeaderVerdict DEF b
<1>8. ret' = 0 <=> ~HeaderHit(d)
  BY <1>1, <1>4, <1>7 DEF Accepted
<1>9. CASE HeaderHit(d)
  <2>1. esPc' = "done" /\ ret' # 0 /\ ret' \in {-1, -2, 0} /\ damaged
    <3>1. ret' # 0
      BY <1>8, <1>9
    <3>2. ret' \in {-1, -2, 0}
      BY <1>1
    <3>3. d.part = "size" \/ d.part = "metablock"
      BY <1>9 DEF HeaderHit
    <3>4. damaged
      BY <1>4, <3>3
    <3> QED BY <1>1, <3>1, <3>2, <3>4
  <2>2. EsVerdict'
    BY <1>1, <1>3, <2>1 DEF EsVerdict
  <2> QED BY <2>1, <2>2 DEF OpenPart, OpenInv, DecryptInv
<1>10. CASE ~HeaderHit(d)
  <2>1. esPc' = "init" /\ nonce' = nonce
    BY <1>1, <1>5, <1>7, <1>8, <1>10
  <2>2. s' = s
    BY <1>1, <2>1, SealingStays DEF s
  <2>3. Delivered(d, chain)'
    BY <1>1, <1>3, <2>2 DEF Delivered, s
  <2>4. OpenInv'
    BY <1>1, <1>3, <1>5, <1>10, <2>1, <2>2, <2>3 DEF OpenInv, s
  <2> QED BY <2>1, <2>4 DEF OpenPart, DecryptInv, EsVerdict
<1> QED BY <1>9, <1>10

(* A size that was not damaged is the size.                                 *)
LEMMA SizeArrives ==
  ASSUME NEW d, NEW h, Delivered(d, h), ~HeaderHit(d)
  PROVE  size = Size(Sealing)
  BY DEF Delivered, SizeArrival, HeaderHit

(* The context is made ready to decrypt what has arrived.                   *)
LEMMA EsInitCcmOpens ==
  ASSUME BaseInv, OpenPart, EsInitCcm
  PROVE  OpenPart'
<1> DEFINE s == Sealing
<1>1. /\ esPc = "init" /\ esPc' = "decrypt"
      /\ cryptoctx' = CcmReady(CcmStart(cryptoctx, es.key, size, nonce)) /\ pos' = 0
      /\ UNCHANGED <<es, nonce, buffer, metablock, size, ret, plain, arrived, damaged>>
  BY DEF EsInitCcm, dsi_init_ccm
<1>2. BaseInv /\ OpenInv
  BY DEF OpenPart
<1>3. PICK d : Delivered(d, chain) /\ buffer = Arrival(s, d) /\ ~HeaderHit(d)
  BY <1>1, <1>2 DEF OpenInv
<1>4. /\ IsSealing(s) /\ s.key = es.key /\ s.nonce = nonce /\ nonce \in Nonces /\ IsContext(cryptoctx)
  BY <1>1, <1>2, SealingInv DEF OpenInv, DecryptInv
<1>5. size = Size(s) /\ IsDamage(s, d) /\ IsChain(s, chain, Turns(s)) /\ s' = s
  BY <1>1, <1>3, SizeArrives, SealingStays DEF Delivered
<1> HIDE DEF s
<1>6. DecryptedUpTo(s, d, cryptoctx', chain, buffer', 0)
  <2>1. cryptoctx' = CcmReady(CcmStart(cryptoctx, s.key, Size(s), s.nonce))
    BY <1>1, <1>4, <1>5
  <2>2. DecryptedUpTo(s, d, cryptoctx', chain, Arrival(s, d), 0)
    BY <1>4, <1>5, <2>1, DecryptFirst
  <2> QED BY <1>1, <1>3, <2>2
<1>7. 0 < Turns(s) /\ pos' = 16 * 0
  <2>1. Size(s) \in Nat
    BY <1>4 DEF IsSealing
  <2> QED BY <1>1, <2>1 DEF Turns
<1> DEFINE h == chain
<1>8. \E g : /\ Delivered(d, g)' /\ DecryptedUpTo(s, d, cryptoctx', g, buffer', 0)
  <2> HIDE DEF h
  <2>1. DecryptedUpTo(s, d, cryptoctx', h, buffer', 0)
    BY <1>6 DEF h
  <2>2. /\ d \in Damages /\ IsDamage(s, d) /\ IsChain(s, h, Turns(s))
        /\ metablock = MetaArrival(s, d, MacAt(h, Turns(s))) /\ size = SizeArrival(s, d)
        /\ damaged = (d.part # "none")
    BY <1>3 DEF Delivered, s, h
  <2>3. \E g : /\ d \in Damages /\ IsDamage(s, d) /\ IsChain(s, g, Turns(s))
               /\ metablock = MetaArrival(s, d, MacAt(g, Turns(s))) /\ size = SizeArrival(s, d)
               /\ damaged = (d.part # "none") /\ DecryptedUpTo(s, d, cryptoctx', g, buffer', 0)
    BY <2>1, <2>2
  <2> QED BY <1>1, <1>5, <2>3 DEF Delivered, s
<1>9. DecryptInv'
  BY <1>1, <1>3, <1>4, <1>5, <1>7, <1>8 DEF DecryptInv, s
<1> QED BY <1>1, <1>9 DEF OpenPart, OpenInv, EsVerdict

(* A block of dsi_decrypt_ccm.                                              *)
LEMMA DecryptBlockOpens ==
  ASSUME BaseInv, OpenPart, DecryptBlock
  PROVE  OpenPart'
<1> DEFINE s == Sealing
           input == IF More THEN BlockAt ELSE PaddedWithStream
           block == CtrBlock(cryptoctx, input)
<1>1. /\ esPc = "decrypt" /\ esPc' = IF More THEN "decrypt" ELSE "verify"
      /\ buffer' = Store(block) /\ cryptoctx' = AfterBlock(cryptoctx, block) /\ pos' = pos + 16
      /\ UNCHANGED <<es, nonce, metablock, size, ret, chain, plain, arrived, damaged>>
  BY DEF DecryptBlock
<1>2. BaseInv /\ DecryptInv
  BY DEF OpenPart
<1>3. PICK d, h :
        /\ Delivered(d, h) /\ ~HeaderHit(d)
        /\ \E k \in Nat : k < Turns(s) /\ pos = 16 * k /\ DecryptedUpTo(s, d, cryptoctx, h, buffer, k)
  BY <1>1, <1>2 DEF DecryptInv
<1>4. PICK k \in Nat : k < Turns(s) /\ pos = 16 * k /\ DecryptedUpTo(s, d, cryptoctx, h, buffer, k)
  BY <1>3
<1>5. IsSealing(s) /\ nonce \in Nonces
  BY <1>1, <1>2, SealingInv DEF OpenInv, DecryptInv
<1>6. size = Size(s) /\ s' = s
  BY <1>1, <1>3, SizeArrives, SealingStays
<1>7. input = Received(s, cryptoctx, buffer, k) /\ Store(block) = Put(buffer, k, block)
  <2>1. More <=> Size(s) - 16 * k > 16
    BY <1>4, <1>6 DEF More
  <2>2. BlockAt = Taken(s, buffer, k)
    BY <1>4, <1>6 DEF BlockAt, Taken
  <2>3. PaddedWithStream = [i \in Index |-> IF 16 * k + i < Size(s) THEN buffer[16 * k + i] ELSE Stream(cryptoctx)[i]]
    BY <1>4, <1>6 DEF PaddedWithStream
  <2>4. input = Received(s, cryptoctx, buffer, k)
    BY <2>1, <2>2, <2>3 DEF Received
  <2>5. \A u : Store(u) = Put(buffer, k, u)
    BY <1>4 DEF Store, Put
  <2> QED BY <2>4, <2>5
<1> HIDE DEF s, input
<1>8. DecryptedUpTo(s, d, cryptoctx', h, buffer', k + 1)
  <2>1. block = CtrBlock(cryptoctx, Received(s, cryptoctx, buffer, k))
    BY <1>7
  <2> HIDE DEF block
  <2>2. DecryptedUpTo(s, d, AfterBlock(cryptoctx, block), h, Put(buffer, k, block), k + 1)
    BY <1>4, <1>5, <2>1, DecryptOne
  <2> QED BY <1>1, <1>7, <2>2
<1> HIDE DEF block
<1>9. Turns(s) \in Nat /\ (More <=> k + 1 < Turns(s)) /\ pos' = 16 * (k + 1)
  <2>1. Turns(s) \in Nat /\ (Size(s) - 16 * k > 16 <=> k + 1 < Turns(s))
    BY <1>4, <1>5, TurnFacts
  <2> QED BY <1>1, <1>4, <1>6, <2>1 DEF More
<1>12. Delivered(d, h)'
  BY <1>1, <1>3, <1>6 DEF Delivered, s
<1>13. CASE More
  <2>1. esPc' = "decrypt" /\ k + 1 \in Nat /\ k + 1 < Turns(s)
    BY <1>1, <1>9, <1>13
  <2>2. DecryptInv'
    BY <1>1, <1>3, <1>5, <1>6, <1>8, <1>9, <1>12, <2>1 DEF DecryptInv, s
  <2> QED BY <2>1, <2>2 DEF OpenPart, OpenInv, EsVerdict
<1>14. CASE ~More
  <2>1. esPc' = "verify" /\ k + 1 = Turns(s)
    BY <1>1, <1>4, <1>9, <1>14
  <2>2. DecryptInv'
    BY <1>1, <1>3, <1>5, <1>6, <1>8, <1>12, <2>1 DEF DecryptInv, s
  <2> QED BY <2>1, <2>2 DEF OpenPart, OpenInv, EsVerdict
<1> QED BY <1>13, <1>14

(* The tag is compared.                                                     *)
LEMMA EsVerifyOpens ==
  ASSUME BaseInv, OpenPart, EsVerify
  PROVE  OpenPart'
<1> DEFINE s == Sealing
           tag == [i \in Index |-> metablock[i]]
<1>1. /\ esPc = "verify" /\ esPc' = "done" /\ ret' = IF Mac(cryptoctx) # tag THEN -3 ELSE 0
      /\ UNCHANGED <<es, cryptoctx, nonce, buffer, metablock, size, pos, chain, plain, arrived, damaged>>
  BY DEF EsVerify
<1>2. BaseInv /\ DecryptInv
  BY DEF OpenPart
<1>3. PICK d, h : Delivered(d, h) /\ ~HeaderHit(d) /\ DecryptedUpTo(s, d, cryptoctx, h, buffer, Turns(s))
  BY <1>1, <1>2 DEF DecryptInv
<1>4. IsSealing(s) /\ s.text = plain
  BY <1>1, <1>2, SealingInv DEF OpenInv, DecryptInv
<1> DEFINE x == MacAt(h, Turns(s))
           y == cryptoctx.mac
<1>5. /\ d \in Damages /\ IsDamage(s, d) /\ IsChain(s, h, Turns(s)) /\ metablock = MetaArrival(s, d, x)
      /\ damaged = (d.part # "none")
  BY <1>3 DEF Delivered
<1>6. /\ HasContext(cryptoctx, s, Turns(s)) /\ (y = x <=> ~Touched(d, Turns(s)))
      /\ buffer \in [0 .. (Size(s) - 1) -> Byte]
      /\ \A j \in 0 .. (Size(s) - 1) : IF j < 16 * Turns(s) THEN buffer[j] = s.text[j] <=> ~Hit(d, j)
                                                             ELSE buffer[j] = Arrival(s, d)[j]
  BY <1>3 DEF DecryptedUpTo
<1> HIDE DEF s
<1>7. Turns(s) \in Nat /\ Size(s) \in Nat /\ Size(s) <= 16 * Turns(s) /\ s.text \in [0 .. (Size(s) - 1) -> Byte]
  BY <1>4, TurnFacts DEF IsSealing
<1>8. x \in Block /\ y \in Block
  <2>1. /\ h \in Seq(Block) /\ Len(h) = Turns(s) + 1
    BY <1>5 DEF IsChain
  <2>2. Turns(s) + 1 \in 1 .. Len(h)
    BY <1>7, <2>1
  <2> QED BY <1>6, <2>1, <2>2 DEF MacAt, HasContext
<1>9. Touched(d, Turns(s)) <=> d.part = "buffer"
  BY <1>5, <1>7 DEF Touched, IsDamage
<1>10. /\ d.part \in {"none", "buffer", "metablock", "size"}
       /\ d.part = "metablock" => d.at \in 0 .. 31
  BY <1>5, EsAssumption
<1>11. d.part # "size" /\ (d.part = "metablock" => d.at \in Index)
  <2>1. d.part # "size" /\ (d.part = "metablock" => d.at \notin 16 .. 31)
    BY <1>3 DEF HeaderHit
  <2> QED BY <1>10, <2>1 DEF Index
<1>12. Pad(s, 0) \in Block
  <2>1. 0 \in Small
    BY DEF Small
  <2> QED BY <1>4, <2>1, PadIs
<1> DEFINE p == Pad(s, 0)
<1>13. Mac(cryptoctx) = [i \in Index |-> Xor(y[15 - i], p[i])]
  BY <1>4, <1>6, MacFacts
<1> HIDE DEF x, y, p
<1>14. tag = [i \in Index |-> IF MetaHit(d, i) THEN Xor(Xor(x[15 - i], p[i]), 1) ELSE Xor(x[15 - i], p[i])]
  <2>1. ASSUME NEW i \in Index
        PROVE  metablock[i] = IF MetaHit(d, i) THEN Xor(Xor(x[15 - i], p[i]), 1) ELSE Xor(x[15 - i], p[i])
    <3>1. i \in 0 .. 31
      BY DEF Index
    <3>2. Meta(s, x)[i] = Xor(x[15 - i], p[i])
      BY <1>4, <1>8, MetaFacts DEF p
    <3>3. metablock[i] = IF MetaHit(d, i) THEN Xor(Meta(s, x)[i], 1) ELSE Meta(s, x)[i]
      BY <1>5, <3>1 DEF MetaArrival
    <3> QED BY <3>2, <3>3
  <2> QED BY <2>1
<1>15. \A i \in Index : 15 - i \in Index /\ 15 - (15 - i) = i /\ x[i] \in Byte /\ y[i] \in Byte /\ p[i] \in Byte
  BY <1>8, <1>12 DEF Block, Index, p
<1> HIDE DEF tag
<1> DEFINE Goal == (Mac(cryptoctx) = tag <=> ~damaged) /\ (Mac(cryptoctx) = tag => buffer = plain)
<1>16. ASSUME d.part = "none"  PROVE Goal
  <2>1. \A i \in Index : ~MetaHit(d, i)
    BY <1>16 DEF MetaHit
  <2>2. y = x
    BY <1>6, <1>9, <1>16
  <2>3. Mac(cryptoctx) = tag
    BY <1>13, <1>14, <2>1, <2>2
  <2>4. \A j \in 0 .. (Size(s) - 1) : buffer[j] = s.text[j]
    <3>1. \A j \in 0 .. (Size(s) - 1) : ~Hit(d, j) /\ j < 16 * Turns(s)
      BY <1>7, <1>16 DEF Hit
    <3> QED BY <1>6, <3>1
  <2>5. buffer = plain
    BY <1>4, <1>6, <1>7, <2>4
  <2> QED BY <1>5, <1>16, <2>3, <2>5
<1>17. ASSUME d.part = "buffer"  PROVE Goal
  <2>1. \A i \in Index : ~MetaHit(d, i)
    BY <1>17 DEF MetaHit
  <2>2. y # x
    BY <1>6, <1>9, <1>17
  <2>3. PICK i \in Index : y[i] # x[i]
    BY <1>8, <2>2 DEF Block
  <2>4. 15 - i \in Index /\ 15 - (15 - i) = i /\ x[i] \in Byte /\ y[i] \in Byte /\ p[15 - i] \in Byte
    BY <1>15
  <2>5. Mac(cryptoctx)[15 - i] = Xor(y[i], p[15 - i]) /\ tag[15 - i] = Xor(x[i], p[15 - i])
    BY <1>13, <1>14, <2>1, <2>4
  <2>6. Xor(Xor(y[i], p[15 - i]), p[15 - i]) = y[i] /\ Xor(Xor(x[i], p[15 - i]), p[15 - i]) = x[i]
    BY <2>4, XorFacts
  <2>7. Mac(cryptoctx) # tag
    BY <2>3, <2>5, <2>6
  <2> QED BY <1>5, <1>17, <2>7
<1>18. ASSUME d.part = "metablock"  PROVE Goal
  <2>1. y = x /\ d.at \in Index /\ MetaHit(d, d.at)
    BY <1>6, <1>9, <1>11, <1>18 DEF MetaHit
  <2>2. 15 - d.at \in Index /\ x[15 - d.at] \in Byte /\ p[d.at] \in Byte
    BY <1>15, <2>1
  <2>3. Xor(x[15 - d.at], p[d.at]) \in Byte
    BY <2>2, XorFacts
  <2>4. Xor(Xor(x[15 - d.at], p[d.at]), 1) # Xor(x[15 - d.at], p[d.at])
    BY <2>3, XorUndone
  <2>5. /\ Mac(cryptoctx)[d.at] = Xor(x[15 - d.at], p[d.at])
        /\ tag[d.at] = Xor(Xor(x[15 - d.at], p[d.at]), 1)
    BY <1>13, <1>14, <2>1
  <2>6. Mac(cryptoctx) # tag
    BY <2>4, <2>5
  <2> QED BY <1>5, <1>18, <2>6
<1>19. Goal
  BY <1>10, <1>11, <1>16, <1>17, <1>18
<1>20. EsVerdict'
  <2>1. CASE Mac(cryptoctx) = tag
    <3>1. ret' = 0 /\ ~damaged /\ buffer = plain
      BY <1>1, <1>19, <2>1 DEF tag
    <3> QED BY <1>1, <3>1 DEF EsVerdict
  <2>2. CASE Mac(cryptoctx) # tag
    <3>1. ret' = -3 /\ damaged
      BY <1>1, <1>19, <2>2 DEF tag
    <3>2. ret' # 0 /\ ret' \notin {-1, -2}
      BY <3>1
    <3> QED BY <1>1, <3>1, <3>2 DEF EsVerdict
  <2> QED BY <2>1, <2>2
<1> QED BY <1>1, <1>20 DEF OpenPart, OpenInv, DecryptInv

-----------------------------------------------------------------------------
(* A context keeps its parts.                                               *)
LEMMA ContextKept ==
  ASSUME NEW c, IsContext(c), NEW k, NEW m, NEW v, NEW t
  PROVE  IsContext(AfterBlock(c, t)) /\ IsContext(CcmReady(CcmStart(c, k, m, v)))
<1>1. IsContext(Absorb(c, t))
  BY DEF Absorb, IsContext
<1>2. IsContext(AfterBlock(c, t))
  BY <1>1, AfterFacts DEF AfterBlock
<1> DEFINE set == dsi_set_key(c, k)
           start == CcmStart(c, k, m, v)
           next == AfterCtrBlock(start)
<1>3. IsContext(set)
  BY SetKeyFacts
<1> HIDE DEF set
<1>4. IsContext(start)
  BY <1>3 DEF CcmStart, IsContext, set
<1> HIDE DEF start
<1>5. IsContext(next)
  BY <1>4, AfterFacts
<1>6. CcmReady(start) = [next EXCEPT !.mac = aes_crypt_ecb(start.aes, "encrypt", @), !.S0 = Stream(start)]
  BY DEF CcmReady
<1> HIDE DEF next
<1>7. IsContext(CcmReady(start))
  BY <1>5, <1>6 DEF IsContext
<1> QED BY <1>2, <1>7 DEF start

(* Sealing is over, and what is opened does not matter to it.               *)
LEMMA LaterStep ==
  ASSUME SealPart, EsDecrypt \/ EsInitCcm \/ DecryptBlock \/ EsVerify
  PROVE  SealPart'
<1> DEFINE Later == {"init", "decrypt", "verify", "done"}
<1>1. /\ es.key \in EsKeys /\ (~es.randomnonce => es.nonce \in Nonces)
      /\ plain \in Payloads /\ IsContext(cryptoctx)
  BY DEF SealPart, BaseInv
<1>2. esPc' \in Later /\ es' = es /\ plain' = plain /\ IsContext(cryptoctx')
  <2>1. CASE EsDecrypt
    BY <1>1, <2>1 DEF EsDecrypt
  <2>2. CASE EsInitCcm
    <3>1. esPc' = "decrypt" /\ es' = es /\ plain' = plain /\ cryptoctx' = CcmReady(CcmStart(cryptoctx, es.key, size, nonce))
      BY <2>2 DEF EsInitCcm, dsi_init_ccm
    <3> QED BY <1>1, <3>1, ContextKept
  <2>3. CASE DecryptBlock
    <3>1. PICK b : cryptoctx' = AfterBlock(cryptoctx, b)
      BY <2>3 DEF DecryptBlock
    <3>2. esPc' \in {"decrypt", "verify"} /\ es' = es /\ plain' = plain
      BY <2>3 DEF DecryptBlock
    <3> QED BY <1>1, <3>1, <3>2, ContextKept
  <2>4. CASE EsVerify
    BY <1>1, <2>4 DEF EsVerify
  <2> QED BY <2>1, <2>2, <2>3, <2>4
<1>3. /\ esPc' \in EsPlaces
      /\ esPc' \notin {"seal", "encrypt", "metablock", "deliver"}
  BY <1>2 DEF EsPlaces
<1> HIDE DEF Later
<1>4. BaseInv'
  BY <1>1, <1>2, <1>3 DEF BaseInv
<1> QED BY <1>3, <1>4 DEF SealPart, SealInv, EncryptInv, SealedInv

(* Every step.                                                              *)
LEMMA EsStep == EsInv /\ [EsNext]_esVars => EsInv'
<1> SUFFICES ASSUME EsInv, [EsNext]_esVars  PROVE EsInv'
  OBVIOUS
<1>1. CASE EsEncrypt
  BY <1>1, EsEncryptStep
<1>2. CASE EncryptBlock
  BY <1>2, EncryptBlockStep
<1>3. CASE EsSeal
  BY <1>3, EsSealStep
<1>4. CASE Deliver
  BY <1>4, DeliverStep
<1>5. ASSUME EsDecrypt \/ EsInitCcm \/ DecryptBlock \/ EsVerify  PROVE EsInv'
  <2>1. SealPart /\ BaseInv
    BY DEF EsInv, SealPart
  <2>2. SealPart'
    BY <1>5, <2>1, LaterStep
  <2>3. ASSUME NonceShows  PROVE OpenPart'
    <3>1. OpenPart
      BY <2>3 DEF EsInv
    <3> QED BY <1>5, <2>1, <2>3, <3>1, EsDecryptOpens, EsInitCcmOpens, DecryptBlockOpens, EsVerifyOpens
  <2>4. NonceShows' <=> NonceShows
    BY DEF NonceShows
  <2> QED BY <2>2, <2>3, <2>4 DEF EsInv
<1>6. CASE UNCHANGED esVars
  <2>1. /\ Sealing' = Sealing /\ esPc' = esPc /\ es' = es /\ plain' = plain /\ nonce' = nonce /\ cryptoctx' = cryptoctx
        /\ size' = size /\ buffer' = buffer /\ metablock' = metablock /\ chain' = chain /\ pos' = pos
        /\ arrived' = arrived /\ damaged' = damaged /\ ret' = ret
    BY <1>6 DEF esVars, Sealing
  <2>2. BaseInv' <=> BaseInv
    BY <2>1 DEF BaseInv
  <2>3. (SealInv' <=> SealInv) /\ (EncryptInv' <=> EncryptInv) /\ (SealedInv' <=> SealedInv)
    BY <2>1 DEF SealInv, EncryptInv, SealedInv
  <2>4. ASSUME NEW d, NEW h  PROVE Delivered(d, h)' <=> Delivered(d, h)
    BY <2>1 DEF Delivered
  <2>5. OpenInv' <=> OpenInv
    BY <2>1, <2>4 DEF OpenInv
  <2>6. DecryptInv' <=> DecryptInv
    BY <2>1, <2>4 DEF DecryptInv
  <2>7. EsVerdict' <=> EsVerdict
    BY <2>1 DEF EsVerdict
  <2>8. NonceShows' <=> NonceShows
    BY DEF NonceShows
  <2> QED BY <2>2, <2>3, <2>5, <2>6, <2>7, <2>8 DEF EsInv, SealPart, OpenPart
<1> QED BY <1>1, <1>2, <1>3, <1>4, <1>5, <1>6 DEF EsNext

(* dsi.c:107-379.  What is true of a container at every step of sealing and *)
(* opening it.                                                              *)
THEOREM EsInductive == EsSpec => []EsInv
<1>1. EsInit => EsInv
  BY EsInitial
<1>2. EsInv /\ [EsNext]_esVars => EsInv'
  BY EsStep
<1> QED BY <1>1, <1>2, PTL DEF EsSpec

(* dsi.c:286-334.  Whatever the key, nonce and text, a container is         *)
(* accepted if and only if it arrives as it was sealed, and then it holds   *)
(* what was sealed.                                                         *)
THEOREM EsVerdictHolds ==
  ASSUME NonceShows
  PROVE  EsSpec => []EsVerdict
<1>1. EsInv => EsVerdict
  BY DEF EsInv, OpenPart
<1>2. EsSpec => []EsInv
  BY EsInductive
<1> QED BY <1>1, <1>2, PTL

-----------------------------------------------------------------------------
(* The blocks of the standard, in its own order, are those of the code.     *)
LEMMA LeadIs ==
  ASSUME NEW flags \in Byte, NEW v \in [0 .. 11 -> Byte], NEW m \in Small
  PROVE  CcmBlock(flags, v, m)
           = [i \in Index |-> IF i = 0 THEN flags ELSE IF i <= 12 THEN v[12 - i]
                              ELSE IF i = 13 THEN m \div 65536
                              ELSE IF i = 14 THEN (m \div 256) % 256 ELSE m % 256]
<1> DEFINE b == CcmBlock(flags, v, m)
<1>1. /\ b \in Block /\ b[0] = flags /\ \A i \in 1 .. 12 : b[i] = v[12 - i]
      /\ b[13] = m \div 65536 /\ b[14] = (m \div 256) % 256 /\ b[15] = m % 256
  BY CcmBlockIs
<1> HIDE DEF b
<1>2. b = [i \in Index |-> b[i]]
  BY <1>1 DEF Block
<1>3. ASSUME NEW i \in Index
      PROVE  b[i] = IF i = 0 THEN flags ELSE IF i <= 12 THEN v[12 - i]
                    ELSE IF i = 13 THEN m \div 65536
                    ELSE IF i = 14 THEN (m \div 256) % 256 ELSE m % 256
  <2>1. i = 0 \/ i \in 1 .. 12 \/ i = 13 \/ i = 14 \/ i = 15
    BY DEF Index
  <2> QED BY <1>1, <2>1
<1>4. b = [i \in Index |-> IF i = 0 THEN flags ELSE IF i <= 12 THEN v[12 - i]
                           ELSE IF i = 13 THEN m \div 65536
                           ELSE IF i = 14 THEN (m \div 256) % 256 ELSE m % 256]
  BY <1>2, <1>3
<1> QED BY <1>4 DEF b

(* Block k of the standard is the code's block k - 1, turned round.         *)
LEMMA PayloadIs ==
  ASSUME NEW s, IsSealing(s), NEW k \in Nat, k >= 1
  PROVE  u128_swap(TextBlock(s, k - 1))
           = [i \in Index |-> IF 16 * k - 1 - i < Size(s) THEN s.text[16 * k - 1 - i] ELSE 0]
<1>1. u128_swap(TextBlock(s, k - 1)) = [i \in Index |-> TextBlock(s, k - 1)[15 - i]]
  BY SwapFacts
<1>2. ASSUME NEW i \in Index
      PROVE  TextBlock(s, k - 1)[15 - i] = IF 16 * k - 1 - i < Size(s) THEN s.text[16 * k - 1 - i] ELSE 0
  <2>1. 15 - i \in Index /\ 16 * (k - 1) + (15 - i) = 16 * k - 1 - i
    BY DEF Index
  <2> QED BY <2>1 DEF TextBlock
<1> QED BY <1>1, <1>2

(* A container that is sealed is what the standard says.                    *)
LEMMA SealedIsStandard == SealPart => CcmIsStandard
<1> SUFFICES ASSUME SealPart, esPc = "deliver", size > 0  PROVE CcmIsStandard
  BY DEF CcmIsStandard
<1> DEFINE s == Sealing
           EE(b)  == aes_crypt_ecb(cryptoctx.aes, "encrypt", b)
           blocks == (size + 15) \div 16
           Lead(flags, m) == [i \in Index |-> IF i = 0 THEN flags
                                              ELSE IF i <= 12 THEN nonce[12 - i]
                                              ELSE IF i = 13 THEN m \div 65536
                                              ELSE IF i = 14 THEN (m \div 256) % 256 ELSE m % 256]
           Payload(k) == [i \in Index |-> LET j == 16 * k - 1 - i
                                          IN  IF j < size THEN plain[j] ELSE 0]
<1>1. BaseInv /\ SealedInv
  BY DEF SealPart
<1>2. /\ IsSealing(s) /\ size = Size(s) /\ s.nonce = nonce /\ s.text = plain /\ nonce \in [0 .. 11 -> Byte]
  BY <1>1, SealingInv, NonceFacts DEF BaseInv
<1>3. EncryptedUpTo(s, cryptoctx, chain, buffer, Turns(s)) /\ metablock = Meta(s, MacAt(chain, Turns(s)))
  BY <1>1 DEF SealedInv
<1>4. /\ Turns(s) = blocks /\ blocks \in Nat /\ Padded(size) = 16 * blocks
      /\ Padded(size) \in Small /\ size \in Nat /\ size <= 16 * blocks
  BY <1>2, TurnFacts DEF IsSealing
<1>5. \A k \in Nat : k <= blocks => k \in Small
  BY <1>2, <1>4, TurnFacts
<1> HIDE DEF s, blocks
<1>6. /\ HasContext(cryptoctx, s, blocks) /\ IsChain(s, chain, blocks) /\ buffer = Partly(s, blocks)
  BY <1>3, <1>4 DEF EncryptedUpTo
<1>7. \A b : EE(b) = E(s, b)
  BY <1>6 DEF HasContext, E
<1>8. 2 \in Byte /\ 58 \in Byte /\ 0 \in Small
  BY DEF Byte, Small
<1>9. \A m \in Small : Lead(2, m) = Count(s, m) /\ Lead(58, m) = CcmBlock(58, nonce, m)
  BY <1>2, <1>8, LeadIs DEF Count
<1>10. Lead(58, 16 * blocks) = First(s)
  BY <1>2, <1>4, <1>9 DEF First
<1>11. \A k \in Nat : k >= 1 => Payload(k) = u128_swap(TextBlock(s, k - 1))
  <2>1. ASSUME NEW k \in Nat, k >= 1
        PROVE  Payload(k) = [i \in Index |-> IF 16 * k - 1 - i < Size(s) THEN s.text[16 * k - 1 - i] ELSE 0]
    BY <1>2
  <2>2. ASSUME NEW k \in Nat, k >= 1
        PROVE  u128_swap(TextBlock(s, k - 1))
                 = [i \in Index |-> IF 16 * k - 1 - i < Size(s) THEN s.text[16 * k - 1 - i] ELSE 0]
    BY <1>2, <2>2, PayloadIs
  <2> HIDE DEF Payload
  <2> QED BY <2>1, <2>2
<1> HIDE DEF EE, Lead, Payload
<1>12. Len(chain) = blocks + 1 /\ chain[1] = EE(Lead(58, 16 * blocks))
  BY <1>6, <1>7, <1>10 DEF IsChain
<1>13. ASSUME NEW k \in 1 .. blocks  PROVE chain[k + 1] = EE(XorBlock(chain[k], Payload(k)))
  <2>1. k - 1 \in 0 .. (blocks - 1) /\ (k - 1) + 2 = k + 1 /\ (k - 1) + 1 = k /\ k \in Nat /\ k >= 1
    BY <1>4
  <2>2. chain[(k - 1) + 2] = E(s, XorBlock(chain[(k - 1) + 1], u128_swap(TextBlock(s, k - 1))))
    BY <1>6, <2>1 DEF IsChain
  <2>3. chain[k + 1] = E(s, XorBlock(chain[k], u128_swap(TextBlock(s, k - 1))))
    BY <2>1, <2>2
  <2> QED BY <1>7, <1>11, <2>1, <2>3
<1>14. ASSUME NEW S \in {EE(Lead(2, 0))}, NEW i \in Index
       PROVE  metablock[15 - i] = Xor(chain[blocks + 1][i], S[i])
  <2>1. 15 - i \in Index /\ 15 - (15 - i) = i /\ 15 - i \in 0 .. 31 /\ 15 - i < 16
    BY DEF Index
  <2>2. metablock[15 - i] = Xor(MacAt(chain, blocks)[15 - (15 - i)], Pad(s, 0)[15 - i])
    BY <1>3, <1>4, <2>1 DEF Meta
  <2>3. Pad(s, 0)[15 - i] = E(s, Count(s, 0))[15 - (15 - i)]
    BY <1>2, <1>8, <2>1, PadIs
  <2>4. S = E(s, Count(s, 0))
    BY <1>7, <1>8, <1>9
  <2> QED BY <2>1, <2>2, <2>3, <2>4 DEF MacAt
<1>15. ASSUME NEW k \in 1 .. blocks, NEW S \in {EE(Lead(2, k))},
              NEW j \in {16 * k - 1 - i : i \in Index} \cap DOMAIN buffer
       PROVE  buffer[j] = Xor(plain[j], S[16 * k - 1 - j])
  <2>1. DOMAIN buffer = 0 .. (size - 1) /\ \A y \in 0 .. (size - 1) : y < 16 * blocks => buffer[y] = CipherByte(s, y)
    BY <1>2, <1>6 DEF Partly
  <2>2. PICK i \in Index : j = 16 * k - 1 - i
    OBVIOUS
  <2>3. j \in Nat /\ j < size /\ j < 16 * blocks /\ k \in Nat /\ k <= blocks
    BY <1>4, <2>1
  <2>4. /\ j = 16 * (k - 1) + (15 - i) /\ 15 - i \in Index /\ k - 1 \in Nat /\ 16 * k - 1 - j = i
        /\ 15 - (15 - i) = i /\ (k - 1) + 1 = k
    BY <2>2, <2>3 DEF Index
  <2>5. j \div 16 = k - 1 /\ j % 16 = 15 - i
    <3> DEFINE q == k - 1
               r == 15 - i
    <3>1. j = 16 * q + r /\ r \in Index /\ q \in Nat
      BY <2>4
    <3> HIDE DEF q, r
    <3>2. (16 * q + r) \div 16 = q /\ (16 * q + r) % 16 = r
      BY <3>1, BytePlace
    <3> QED BY <3>1, <3>2 DEF q, r
  <2>6. buffer[j] = Xor(Pad(s, k)[15 - i], plain[j])
    <3>1. buffer[j] = CipherByte(s, j)
      BY <2>1, <2>3
    <3> QED BY <1>2, <2>4, <2>5, <3>1 DEF CipherByte
  <2>7. k \in Small
    BY <1>5, <2>3
  <2>8. Pad(s, k)[15 - i] = E(s, Count(s, k))[i] /\ Pad(s, k)[15 - i] \in Byte
    <3>1. Pad(s, k) \in Block /\ \A y \in Index : Pad(s, k)[y] = E(s, Count(s, k))[15 - y]
      BY <1>2, <2>7, PadIs
    <3> QED BY <2>4, <3>1 DEF Block
  <2>9. S[16 * k - 1 - j] = E(s, Count(s, k))[i]
    BY <1>7, <1>9, <2>4, <2>7
  <2>10. plain[j] \in Byte
    BY <1>2, <2>3, TextFacts
  <2>11. Xor(Pad(s, k)[15 - i], plain[j]) = Xor(plain[j], Pad(s, k)[15 - i])
    BY <2>8, <2>10, XorAlgebra
  <2> QED BY <2>6, <2>8, <2>9, <2>11
<1> QED BY <1>12, <1>13, <1>14, <1>15 DEF CcmIsStandard, EE, Lead, Payload, blocks

(* dsi.c:107-171, 240-264, 337-379.  Whatever the key, nonce and text, a    *)
(* container is what RFC 3610 defines.                                      *)
THEOREM CcmIsStandardHolds == EsSpec => []CcmIsStandard
<1>1. EsInv => CcmIsStandard
  BY SealedIsStandard DEF EsInv
<1>2. EsSpec => []EsInv
  BY EsInductive
<1> QED BY <1>1, <1>2, PTL
=============================================================================
