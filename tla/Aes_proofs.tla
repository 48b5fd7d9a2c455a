----------------------------- MODULE Aes_proofs -----------------------------
(***************************************************************************)
(* Proofs about polarssl/aes.c (Aes, AesModes): the tables that            *)
(* aes_gen_tables builds, the key schedules and the rounds by tables       *)
(* compute the cipher of FIPS 197 (Fips197), decryption undoes encryption, *)
(* and CBC and CFB128 are the modes of the standard and undo themselves,   *)
(* for every key, block, text, iv and division into calls.                 *)
(***************************************************************************)
EXTENDS AesModes, DsiCrypto_proofs, FiniteSetTheorems

-----------------------------------------------------------------------------
(* Bytes as bits.  Exclusive or acts on every bit by itself, so sums of     *)
(* many bytes, in any order, are compared bit by bit.                       *)
IsSet(x, k) == (x \div 2^k) % 2 = 1

(* Powers of two, once for the provers.                                     *)
LEMMA PowersOfTwo == 2^0 = 1 /\ 2^1 = 2 /\ 2^2 = 4 /\ 2^3 = 8 /\ 2^4 = 16 /\ 2^5 = 32 /\ 2^6 = 64 /\ 2^7 = 128
  OBVIOUS

(* What holds of every bit holds of the eight.                              *)
LEMMA EachBit ==
  ASSUME NEW x \in Int
  PROVE  /\ IsSet(x, 0) <=> x % 2 = 1
         /\ IsSet(x, 1) <=> (x \div 2) % 2 = 1
         /\ IsSet(x, 2) <=> (x \div 4) % 2 = 1
         /\ IsSet(x, 3) <=> (x \div 8) % 2 = 1
         /\ IsSet(x, 4) <=> (x \div 16) % 2 = 1
         /\ IsSet(x, 5) <=> (x \div 32) % 2 = 1
         /\ IsSet(x, 6) <=> (x \div 64) % 2 = 1
         /\ IsSet(x, 7) <=> (x \div 128) % 2 = 1
<1>1. x \div 1 = x
  OBVIOUS
<1> QED BY <1>1, PowersOfTwo DEF IsSet

(* The numbers of the bits.                                                 *)
LEMMA EightBits == \A k \in 0 .. 7 : k = 0 \/ k = 1 \/ k = 2 \/ k = 3 \/ k = 4 \/ k = 5 \/ k = 6 \/ k = 7
  OBVIOUS

(* The four bits of a nibble, each from the nibble alone.                   *)
LEMMA NibbleBits ==
  ASSUME NEW x \in 0 .. 15, NEW y \in 0 .. 15, NEW k \in 0 .. 3
  PROVE  IsSet(Nibble(x, y), k) <=> ~(IsSet(x, k) <=> IsSet(y, k))
<1>1. CASE k = 0
  BY <1>1, SMTT(60) DEF IsSet, Nibble, XorNibble
<1>2. CASE k = 1
  BY <1>2, SMTT(60) DEF IsSet, Nibble, XorNibble
<1>3. CASE k = 2
  BY <1>3, SMTT(60) DEF IsSet, Nibble, XorNibble
<1>4. CASE k = 3
  BY <1>4, SMTT(60) DEF IsSet, Nibble, XorNibble
<1> QED BY <1>1, <1>2, <1>3, <1>4

(* The bits of a byte are those of its nibbles.                             *)
LEMMA ByteOfNibbles ==
  ASSUME NEW x \in Byte
  PROVE  /\ x \div 16 \in 0 .. 15 /\ x % 16 \in 0 .. 15 /\ x = 16 * (x \div 16) + (x % 16)
         /\ \A k \in 0 .. 3 : IsSet(x, k) <=> IsSet(x % 16, k)
         /\ \A k \in 0 .. 3 : IsSet(x, k + 4) <=> IsSet(x \div 16, k)
<1>1. x \in 0 .. 255
  BY DEF Byte
<1>2. x \div 16 \in 0 .. 15 /\ x % 16 \in 0 .. 15 /\ x = 16 * (x \div 16) + (x % 16)
  BY <1>1
<1>3. /\ x % 2 = (x % 16) % 2 /\ (x \div 2) % 2 = ((x % 16) \div 2) % 2
      /\ (x \div 4) % 2 = ((x % 16) \div 4) % 2 /\ (x \div 8) % 2 = ((x % 16) \div 8) % 2
  BY <1>1
<1>4. /\ (x \div 16) % 2 = (x \div 16) % 2 /\ (x \div 32) % 2 = ((x \div 16) \div 2) % 2
      /\ (x \div 64) % 2 = ((x \div 16) \div 4) % 2 /\ (x \div 128) % 2 = ((x \div 16) \div 8) % 2
  BY <1>1
<1>5. \A k \in 0 .. 3 : k = 0 \/ k = 1 \/ k = 2 \/ k = 3
  OBVIOUS
<1>6. x \in Int /\ x % 16 \in Int /\ x \div 16 \in Int
  BY <1>1, <1>2
<1>7. \A k \in 0 .. 3 : IsSet(x, k) <=> IsSet(x % 16, k)
  <2>1. /\ IsSet(x, 0) <=> IsSet(x % 16, 0)
        /\ IsSet(x, 1) <=> IsSet(x % 16, 1)
        /\ IsSet(x, 2) <=> IsSet(x % 16, 2)
        /\ IsSet(x, 3) <=> IsSet(x % 16, 3)
    BY <1>3, <1>6, EachBit
  <2> QED BY <1>5, <2>1
<1>8. \A k \in 0 .. 3 : IsSet(x, k + 4) <=> IsSet(x \div 16, k)
  <2>1. /\ IsSet(x, 4) <=> IsSet(x \div 16, 0)
        /\ IsSet(x, 5) <=> IsSet(x \div 16, 1)
        /\ IsSet(x, 6) <=> IsSet(x \div 16, 2)
        /\ IsSet(x, 7) <=> IsSet(x \div 16, 3)
    BY <1>4, <1>6, EachBit
  <2>2. 0 + 4 = 4 /\ 1 + 4 = 5 /\ 2 + 4 = 6 /\ 3 + 4 = 7
    OBVIOUS
  <2> QED BY <1>5, <2>1, <2>2
<1> QED BY <1>2, <1>7, <1>8

(* Nibbles with the same bits are the same.                                 *)
LEMMA NibbleIsBits ==
  ASSUME NEW x \in 0 .. 15, NEW y \in 0 .. 15, \A k \in 0 .. 3 : IsSet(x, k) <=> IsSet(y, k)
  PROVE  x = y
<1>1. /\ IsSet(x, 0) <=> IsSet(y, 0)
      /\ IsSet(x, 1) <=> IsSet(y, 1)
      /\ IsSet(x, 2) <=> IsSet(y, 2)
      /\ IsSet(x, 3) <=> IsSet(y, 3)
  OBVIOUS
<1>2. /\ x % 2 = 1 <=> y % 2 = 1
      /\ (x \div 2) % 2 = 1 <=> (y \div 2) % 2 = 1
      /\ (x \div 4) % 2 = 1 <=> (y \div 4) % 2 = 1
      /\ (x \div 8) % 2 = 1 <=> (y \div 8) % 2 = 1
  BY <1>1, EachBit
<1>3. \A n_ \in Int : n_ % 2 = 0 \/ n_ % 2 = 1
  OBVIOUS
<1>4. /\ x % 2 = y % 2 /\ (x \div 2) % 2 = (y \div 2) % 2 /\ (x \div 4) % 2 = (y \div 4) % 2
      /\ (x \div 8) % 2 = (y \div 8) % 2
  <2>1. x \in Int /\ x \div 2 \in Int /\ x \div 4 \in Int /\ x \div 8 \in Int
    OBVIOUS
  <2>2. y \in Int /\ y \div 2 \in Int /\ y \div 4 \in Int /\ y \div 8 \in Int
    OBVIOUS
  <2> QED BY <1>2, <1>3, <2>1, <2>2
<1>5. /\ x = (x % 2) + 2 * ((x \div 2) % 2) + 4 * ((x \div 4) % 2) + 8 * ((x \div 8) % 2)
      /\ y = (y % 2) + 2 * ((y \div 2) % 2) + 4 * ((y \div 4) % 2) + 8 * ((y \div 8) % 2)
  OBVIOUS
<1> QED BY <1>4, <1>5

(* Bytes with the same bits are the same.                                   *)
LEMMA ByteIsBits ==
  ASSUME NEW x \in Byte, NEW y \in Byte, \A k \in 0 .. 7 : IsSet(x, k) <=> IsSet(y, k)
  PROVE  x = y
<1>1. x % 16 = y % 16
  <2>1. \A k \in 0 .. 3 : k \in 0 .. 7
    OBVIOUS
  <2>2. \A k \in 0 .. 3 : IsSet(x % 16, k) <=> IsSet(y % 16, k)
    BY <2>1, ByteOfNibbles
  <2> QED BY <2>2, ByteOfNibbles, NibbleIsBits
<1>2. x \div 16 = y \div 16
  <2>1. \A k \in 0 .. 3 : k + 4 \in 0 .. 7
    OBVIOUS
  <2>2. \A k \in 0 .. 3 : IsSet(x \div 16, k) <=> IsSet(y \div 16, k)
    BY <2>1, ByteOfNibbles
  <2> QED BY <2>2, ByteOfNibbles, NibbleIsBits
<1> QED BY <1>1, <1>2, ByteOfNibbles

(* Exclusive or, bit by bit.                                                *)
LEMMA XorBits ==
  ASSUME NEW x \in Byte, NEW y \in Byte, NEW k \in 0 .. 7
  PROVE  IsSet(Xor(x, y), k) <=> ~(IsSet(x, k) <=> IsSet(y, k))
<1> DEFINE hi == Nibble(x \div 16, y \div 16)
           lo == Nibble(x % 16, y % 16)
<1>1. Xor(x, y) = 16 * hi + lo
  BY DEF Xor, Nibble
<1>2. hi \in 0 .. 15 /\ lo \in 0 .. 15
  BY ByteOfNibbles, NibbleFacts
<1>3. ASSUME NEW j \in 0 .. 3
      PROVE  /\ IsSet(hi, j) <=> ~(IsSet(x \div 16, j) <=> IsSet(y \div 16, j))
             /\ IsSet(lo, j) <=> ~(IsSet(x % 16, j) <=> IsSet(y % 16, j))
  BY ByteOfNibbles, NibbleBits
<1> HIDE DEF hi, lo
<1>4. Xor(x, y) \in Byte
  BY XorFacts
<1>5. Xor(x, y) \div 16 = hi /\ Xor(x, y) % 16 = lo
  BY <1>1, <1>2
<1>6. CASE k \in 0 .. 3
  <2>1. IsSet(Xor(x, y), k) <=> IsSet(lo, k)
    BY <1>4, <1>5, <1>6, ByteOfNibbles
  <2>2. (IsSet(x, k) <=> IsSet(x % 16, k)) /\ (IsSet(y, k) <=> IsSet(y % 16, k))
    BY <1>6, ByteOfNibbles
  <2> QED BY <1>3, <1>6, <2>1, <2>2
<1>7. CASE k \in 4 .. 7
  <2>1. PICK j \in 0 .. 3 : k = j + 4
    <3>1. k - 4 \in 0 .. 3 /\ k = (k - 4) + 4
      BY <1>7
    <3> QED BY <3>1
  <2>2. IsSet(Xor(x, y), k) <=> IsSet(hi, j)
    BY <1>4, <1>5, <2>1, ByteOfNibbles
  <2>3. (IsSet(x, k) <=> IsSet(x \div 16, j)) /\ (IsSet(y, k) <=> IsSet(y \div 16, j))
    BY <2>1, ByteOfNibbles
  <2> QED BY <1>3, <2>2, <2>3
<1> QED BY <1>6, <1>7

(* Two ways of writing a byte that agree in every bit.                      *)
LEMMA XorAlgebra ==
  ASSUME NEW x \in Byte, NEW y \in Byte, NEW z \in Byte
  PROVE  /\ Xor(x, y) \in Byte
         /\ Xor(x, y) = Xor(y, x)
         /\ Xor(Xor(x, y), z) = Xor(x, Xor(y, z))
         /\ Xor(x, x) = 0 /\ Xor(x, 0) = x /\ Xor(0, x) = x
<1>1. /\ Xor(x, y) \in Byte /\ Xor(y, x) \in Byte /\ Xor(y, z) \in Byte /\ Xor(Xor(x, y), z) \in Byte
      /\ Xor(x, Xor(y, z)) \in Byte /\ Xor(x, x) \in Byte /\ 0 \in Byte /\ Xor(x, 0) \in Byte /\ Xor(0, x) \in Byte
  <2>1. 0 \in Byte
    BY DEF Byte
  <2> QED BY <2>1, XorFacts
<1>2. Xor(x, y) = Xor(y, x)
  <2>1. \A k \in 0 .. 7 : IsSet(Xor(x, y), k) <=> IsSet(Xor(y, x), k)
    BY XorBits
  <2> QED BY <1>1, <2>1, ByteIsBits
<1>3. Xor(Xor(x, y), z) = Xor(x, Xor(y, z))
  <2>1. ASSUME NEW k \in 0 .. 7  PROVE IsSet(Xor(Xor(x, y), z), k) <=> IsSet(Xor(x, Xor(y, z)), k)
    <3>1. IsSet(Xor(Xor(x, y), z), k) <=> ~(IsSet(Xor(x, y), k) <=> IsSet(z, k))
      BY <1>1, XorBits
    <3>2. IsSet(Xor(x, Xor(y, z)), k) <=> ~(IsSet(x, k) <=> IsSet(Xor(y, z), k))
      BY <1>1, XorBits
    <3> QED BY <3>1, <3>2, XorBits
  <2> QED BY <1>1, <2>1, ByteIsBits
<1>4. \A k \in 0 .. 7 : ~IsSet(0, k)
  <2>1. /\ ~IsSet(0, 0) /\ ~IsSet(0, 1) /\ ~IsSet(0, 2) /\ ~IsSet(0, 3)
        /\ ~IsSet(0, 4) /\ ~IsSet(0, 5) /\ ~IsSet(0, 6) /\ ~IsSet(0, 7)
    BY EachBit
  <2> QED BY <2>1, EightBits
<1>5. Xor(x, x) = 0
  <2>1. \A k \in 0 .. 7 : IsSet(Xor(x, x), k) <=> IsSet(0, k)
    BY <1>4, XorBits
  <2> QED BY <1>1, <2>1, ByteIsBits
<1>6. Xor(x, 0) = x
  <2>1. \A k \in 0 .. 7 : IsSet(Xor(x, 0), k) <=> IsSet(x, k)
    BY <1>1, <1>4, XorBits
  <2> QED BY <1>1, <2>1, ByteIsBits
<1>7. Xor(0, x) = x
  <2>1. \A k \in 0 .. 7 : IsSet(Xor(0, x), k) <=> IsSet(x, k)
    BY <1>1, <1>4, XorBits
  <2> QED BY <1>1, <2>1, ByteIsBits
<1> QED BY <1>1, <1>2, <1>3, <1>5, <1>6, <1>7

(* Doubling, rotating and multiplying, bit by bit.                          *)
LEMMA ShiftedBits ==
  ASSUME NEW x \in Byte
  PROVE  /\ (2 * x) % 256 \in Byte
         /\ ~IsSet((2 * x) % 256, 0)
         /\ IsSet((2 * x) % 256, 1) <=> IsSet(x, 0)
         /\ IsSet((2 * x) % 256, 2) <=> IsSet(x, 1)
         /\ IsSet((2 * x) % 256, 3) <=> IsSet(x, 2)
         /\ IsSet((2 * x) % 256, 4) <=> IsSet(x, 3)
         /\ IsSet((2 * x) % 256, 5) <=> IsSet(x, 4)
         /\ IsSet((2 * x) % 256, 6) <=> IsSet(x, 5)
         /\ IsSet((2 * x) % 256, 7) <=> IsSet(x, 6)
         /\ IsSet(x, 7) <=> x >= 128
<1>1. x \in 0 .. 255
  BY DEF Byte
<1> DEFINE y == (2 * x) % 256
<1>2. y \in Byte /\ y \in Int /\ x \in Int
  BY <1>1 DEF Byte
<1>3. /\ y % 2 = 0 /\ (y \div 2) % 2 = x % 2 /\ (y \div 4) % 2 = (x \div 2) % 2
      /\ (y \div 8) % 2 = (x \div 4) % 2 /\ (y \div 16) % 2 = (x \div 8) % 2
  BY <1>1
<1>4. /\ (y \div 32) % 2 = (x \div 16) % 2 /\ (y \div 64) % 2 = (x \div 32) % 2
      /\ (y \div 128) % 2 = (x \div 64) % 2
  BY <1>1
<1>5. (x \div 128) % 2 = 1 <=> x >= 128
  BY <1>1
<1> HIDE DEF y
<1>6. /\ ~IsSet(y, 0)
      /\ IsSet(y, 1) <=> IsSet(x, 0)
  BY <1>2, <1>3, EachBit
<1>7. /\ IsSet(y, 2) <=> IsSet(x, 1)
      /\ IsSet(y, 3) <=> IsSet(x, 2)
      /\ IsSet(y, 4) <=> IsSet(x, 3)
  BY <1>2, <1>3, EachBit
<1>8. /\ IsSet(y, 5) <=> IsSet(x, 4)
      /\ IsSet(y, 6) <=> IsSet(x, 5)
      /\ IsSet(y, 7) <=> IsSet(x, 6)
      /\ IsSet(x, 7) <=> x >= 128
  BY <1>2, <1>4, <1>5, EachBit
<1> QED BY <1>2, <1>6, <1>7, <1>8 DEF y

(* The bits of the constants 27 and 99.                                     *)
LEMMA ConstantBits ==
  /\ 0 \in Byte /\ 27 \in Byte /\ 99 \in Byte
  /\ \A k \in 0 .. 7 : ~IsSet(0, k)
  /\ \A k \in 0 .. 7 : IsSet(27, k) <=> k \in {0, 1, 3, 4}
  /\ \A k \in 0 .. 7 : IsSet(99, k) <=> k \in {0, 1, 5, 6}
<1>1. /\ ~IsSet(0, 0) /\ ~IsSet(0, 1) /\ ~IsSet(0, 2) /\ ~IsSet(0, 3)
      /\ ~IsSet(0, 4) /\ ~IsSet(0, 5) /\ ~IsSet(0, 6) /\ ~IsSet(0, 7)
  BY EachBit
<1>2. /\ IsSet(27, 0) /\ IsSet(27, 1) /\ ~IsSet(27, 2) /\ IsSet(27, 3)
      /\ IsSet(27, 4) /\ ~IsSet(27, 5) /\ ~IsSet(27, 6) /\ ~IsSet(27, 7)
  BY EachBit
<1>3. /\ IsSet(99, 0) /\ IsSet(99, 1) /\ ~IsSet(99, 2) /\ ~IsSet(99, 3)
      /\ ~IsSet(99, 4) /\ IsSet(99, 5) /\ IsSet(99, 6) /\ ~IsSet(99, 7)
  BY EachBit
<1>4. 0 \in Byte /\ 27 \in Byte /\ 99 \in Byte
  BY DEF Byte
<1> QED BY <1>1, <1>2, <1>3, <1>4, EightBits

(* Doubling in the field (XTIME), bit by bit.                               *)
LEMMA XTimeBits ==
  ASSUME NEW x \in Byte
  PROVE  /\ XTIME(x) \in Byte
         /\ IsSet(XTIME(x), 0) <=> IsSet(x, 7)
         /\ IsSet(XTIME(x), 1) <=> ~(IsSet(x, 0) <=> IsSet(x, 7))
         /\ IsSet(XTIME(x), 2) <=> IsSet(x, 1)
         /\ IsSet(XTIME(x), 3) <=> ~(IsSet(x, 2) <=> IsSet(x, 7))
         /\ IsSet(XTIME(x), 4) <=> ~(IsSet(x, 3) <=> IsSet(x, 7))
         /\ IsSet(XTIME(x), 5) <=> IsSet(x, 4)
         /\ IsSet(XTIME(x), 6) <=> IsSet(x, 5)
         /\ IsSet(XTIME(x), 7) <=> IsSet(x, 6)
<1> DEFINE y == (2 * x) % 256
           z == IF x >= 128 THEN 27 ELSE 0
<1>1. y \in Byte /\ z \in Byte
  BY ShiftedBits, ConstantBits
<1>2. \A k \in 0 .. 7 : IsSet(z, k) <=> IsSet(x, 7) /\ k \in {0, 1, 3, 4}
  BY ShiftedBits, ConstantBits
<1>3. XTIME(x) = Xor(y, z)
  BY DEF XTIME
<1>4. /\ ~IsSet(y, 0)
      /\ IsSet(y, 1) <=> IsSet(x, 0)
      /\ IsSet(y, 2) <=> IsSet(x, 1)
      /\ IsSet(y, 3) <=> IsSet(x, 2)
      /\ IsSet(y, 4) <=> IsSet(x, 3)
      /\ IsSet(y, 5) <=> IsSet(x, 4)
      /\ IsSet(y, 6) <=> IsSet(x, 5)
      /\ IsSet(y, 7) <=> IsSet(x, 6)
  BY ShiftedBits
<1> HIDE DEF y, z
<1>5. /\ XTIME(x) \in Byte
      /\ \A k \in 0 .. 7 : IsSet(XTIME(x), k) <=> ~(IsSet(y, k) <=> IsSet(z, k))
  <2>1. Xor(y, z) \in Byte
    BY <1>1, XorFacts
  <2>2. \A k \in 0 .. 7 : IsSet(Xor(y, z), k) <=> ~(IsSet(y, k) <=> IsSet(z, k))
    BY <1>1, XorBits
  <2> QED BY <1>3, <2>1, <2>2
<1>6. /\ 0 \in 0 .. 7 /\ 1 \in 0 .. 7 /\ 2 \in 0 .. 7 /\ 3 \in 0 .. 7
      /\ 4 \in 0 .. 7 /\ 5 \in 0 .. 7 /\ 6 \in 0 .. 7 /\ 7 \in 0 .. 7
  OBVIOUS
<1> QED BY <1>2, <1>4, <1>5, <1>6

(* Rotating a byte, bit by bit.                                             *)
LEMMA RotBits ==
  ASSUME NEW x \in Byte
  PROVE  /\ RotBit(x) \in Byte
         /\ IsSet(RotBit(x), 0) <=> IsSet(x, 7)
         /\ IsSet(RotBit(x), 1) <=> IsSet(x, 0)
         /\ IsSet(RotBit(x), 2) <=> IsSet(x, 1)
         /\ IsSet(RotBit(x), 3) <=> IsSet(x, 2)
         /\ IsSet(RotBit(x), 4) <=> IsSet(x, 3)
         /\ IsSet(RotBit(x), 5) <=> IsSet(x, 4)
         /\ IsSet(RotBit(x), 6) <=> IsSet(x, 5)
         /\ IsSet(RotBit(x), 7) <=> IsSet(x, 6)
<1>1. x \in 0 .. 255
  BY DEF Byte
<1> DEFINE y == ((2 * x) % 256) + x \div 128
<1>2. y \in Byte /\ y \in Int /\ x \in Int
  BY <1>1 DEF Byte
<1>3. y \div 2 = x % 128 /\ y % 2 = x \div 128 /\ (x \div 128) % 2 = x \div 128
  BY <1>1
<1>4. /\ (x % 128) % 2 = x % 2 /\ ((x % 128) \div 2) % 2 = (x \div 2) % 2
      /\ ((x % 128) \div 4) % 2 = (x \div 4) % 2 /\ ((x % 128) \div 8) % 2 = (x \div 8) % 2
      /\ ((x % 128) \div 16) % 2 = (x \div 16) % 2
  BY <1>1
<1>5. /\ ((x % 128) \div 32) % 2 = (x \div 32) % 2 /\ ((x % 128) \div 64) % 2 = (x \div 64) % 2
  BY <1>1
<1> HIDE DEF y
<1>9. /\ y \div 4 = (y \div 2) \div 2 /\ y \div 8 = (y \div 2) \div 4 /\ y \div 16 = (y \div 2) \div 8
      /\ y \div 32 = (y \div 2) \div 16 /\ y \div 64 = (y \div 2) \div 32 /\ y \div 128 = (y \div 2) \div 64
  BY <1>2
<1>6. /\ IsSet(y, 0) <=> IsSet(x, 7)
      /\ IsSet(y, 1) <=> IsSet(x, 0)
      /\ IsSet(y, 2) <=> IsSet(x, 1)
      /\ IsSet(y, 3) <=> IsSet(x, 2)
  BY <1>2, <1>3, <1>4, <1>9, EachBit
<1>7. /\ IsSet(y, 4) <=> IsSet(x, 3)
      /\ IsSet(y, 5) <=> IsSet(x, 4)
      /\ IsSet(y, 6) <=> IsSet(x, 5)
      /\ IsSet(y, 7) <=> IsSet(x, 6)
  BY <1>2, <1>3, <1>4, <1>5, <1>9, EachBit
<1> QED BY <1>2, <1>6, <1>7 DEF y, RotBit

(* Doubling respects sums, and is what the standard calls doubling.         *)
LEMMA XTimeSum ==
  ASSUME NEW x \in Byte, NEW y \in Byte
  PROVE  XTIME(Xor(x, y)) = Xor(XTIME(x), XTIME(y))
<1>1. Xor(x, y) \in Byte /\ XTIME(x) \in Byte /\ XTIME(y) \in Byte
  BY XorFacts, XTimeBits
<1>2. XTIME(Xor(x, y)) \in Byte /\ Xor(XTIME(x), XTIME(y)) \in Byte
  BY <1>1, XorFacts, XTimeBits
<1>3. \A k \in 0 .. 7 : IsSet(Xor(x, y), k) <=> ~(IsSet(x, k) <=> IsSet(y, k))
  BY XorBits
<1>4. \A k \in 0 .. 7 : IsSet(Xor(XTIME(x), XTIME(y)), k) <=> ~(IsSet(XTIME(x), k) <=> IsSet(XTIME(y), k))
  BY <1>1, XorBits
<1>5. /\ 0 \in 0 .. 7 /\ 1 \in 0 .. 7 /\ 2 \in 0 .. 7 /\ 3 \in 0 .. 7
      /\ 4 \in 0 .. 7 /\ 5 \in 0 .. 7 /\ 6 \in 0 .. 7 /\ 7 \in 0 .. 7
  OBVIOUS
<1>6. \A k \in 0 .. 7 : IsSet(XTIME(Xor(x, y)), k) <=> IsSet(Xor(XTIME(x), XTIME(y)), k)
  BY <1>1, <1>3, <1>4, <1>5, XTimeBits, EightBits
<1> QED BY <1>2, <1>6, ByteIsBits

(* Double of Fips197 is XTIME.                                              *)
LEMMA DoubleIs ==
  ASSUME NEW x \in Byte
  PROVE  Double(x) = XTIME(x)
<1>1. x \in 0 .. 255
  BY DEF Byte
<1>2. CASE x < 128
  <2>1. XTIME(x) = Xor((2 * x) % 256, 0) /\ (2 * x) % 256 = 2 * x
    BY <1>1, <1>2 DEF XTIME
  <2>2. 2 * x \in Byte
    BY <1>1, <1>2 DEF Byte
  <2> QED BY <1>2, <2>1, <2>2, XorAlgebra DEF Double
<1>3. CASE x >= 128
  <2>1. (2 * x) % 256 = 2 * x - 256 /\ ~(x < 128)
    BY <1>1, <1>3
  <2> QED BY <1>3, <2>1 DEF XTIME, Double
<1> QED BY <1>1, <1>2, <1>3

-----------------------------------------------------------------------------
(* The powers of 3, which generates the field without its zero.             *)

(* Multiplying by the generator, nibble by nibble: what it makes of the     *)
(* high nibble depends on the upper bit of the low one, and the other way   *)
(* round.                                                                   *)
High3 == <<<<0, 1>>, <<3, 2>>, <<6, 7>>, <<5, 4>>, <<12, 13>>, <<15, 14>>, <<10, 11>>, <<9, 8>>, <<9, 8>>, <<10, 11>>, <<15, 14>>, <<12, 13>>, <<5, 4>>, <<6, 7>>, <<3, 2>>, <<0, 1>>>>
Low3  == <<<<0, 11>>, <<3, 8>>, <<6, 13>>, <<5, 14>>, <<12, 7>>, <<15, 4>>, <<10, 1>>, <<9, 2>>, <<8, 3>>, <<11, 0>>, <<14, 5>>, <<13, 6>>, <<4, 15>>, <<7, 12>>, <<2, 9>>, <<1, 10>>>>
(* The high nibble of a tripled byte, by its table.                         *)
LEMMA HighTripled ==
  ASSUME NEW h \in 0 .. 15, NEW c \in 0 .. 1
  PROVE  Nibble(h, Nibble((2 * h + c) % 16, IF h >= 8 THEN 1 ELSE 0)) = High3[h + 1][c + 1]
<1>1. c = 0 \/ c = 1
  OBVIOUS
<1>2. CASE h \in {0, 1}
  <2>1. /\ Nibble(0, Nibble(0, 0)) = 0
        /\ Nibble(0, Nibble(1, 0)) = 1
        /\ Nibble(1, Nibble(2, 0)) = 3
        /\ Nibble(1, Nibble(3, 0)) = 2
    BY DEF Nibble, XorNibble
  <2> QED BY <1>1, <1>2, <2>1 DEF High3
<1>3. CASE h \in {2, 3}
  <2>1. /\ Nibble(2, Nibble(4, 0)) = 6
        /\ Nibble(2, Nibble(5, 0)) = 7
        /\ Nibble(3, Nibble(6, 0)) = 5
        /\ Nibble(3, Nibble(7, 0)) = 4
    BY DEF Nibble, XorNibble
  <2> QED BY <1>1, <1>3, <2>1 DEF High3
<1>4. CASE h \in {4, 5}
  <2>1. /\ Nibble(4, Nibble(8, 0)) = 12
        /\ Nibble(4, Nibble(9, 0)) = 13
        /\ Nibble(5, Nibble(10, 0)) = 15
        /\ Nibble(5, Nibble(11, 0)) = 14
    BY DEF Nibble, XorNibble
  <2> QED BY <1>1, <1>4, <2>1 DEF High3
<1>5. CASE h \in {6, 7}
  <2>1. /\ Nibble(6, Nibble(12, 0)) = 10
        /\ Nibble(6, Nibble(13, 0)) = 11
        /\ Nibble(7, Nibble(14, 0)) = 9
        /\ Nibble(7, Nibble(15, 0)) = 8
    BY DEF Nibble, XorNibble
  <2> QED BY <1>1, <1>5, <2>1 DEF High3
<1>6. CASE h \in {8, 9}
  <2>1. /\ Nibble(8, Nibble(0, 1)) = 9
        /\ Nibble(8, Nibble(1, 1)) = 8
        /\ Nibble(9, Nibble(2, 1)) = 10
        /\ Nibble(9, Nibble(3, 1)) = 11
    BY DEF Nibble, XorNibble
  <2> QED BY <1>1, <1>6, <2>1 DEF High3
<1>7. CASE h \in {10, 11}
  <2>1. /\ Nibble(10, Nibble(4, 1)) = 15
        /\ Nibble(10, Nibble(5, 1)) = 14
        /\ Nibble(11, Nibble(6, 1)) = 12
        /\ Nibble(11, Nibble(7, 1)) = 13
    BY DEF Nibble, XorNibble
  <2> QED BY <1>1, <1>7, <2>1 DEF High3
<1>8. CASE h \in {12, 13}
  <2>1. /\ Nibble(12, Nibble(8, 1)) = 5
        /\ Nibble(12, Nibble(9, 1)) = 4
        /\ Nibble(13, Nibble(10, 1)) = 6
        /\ Nibble(13, Nibble(11, 1)) = 7
    BY DEF Nibble, XorNibble
  <2> QED BY <1>1, <1>8, <2>1 DEF High3
<1>9. CASE h \in {14, 15}
  <2>1. /\ Nibble(14, Nibble(12, 1)) = 3
        /\ Nibble(14, Nibble(13, 1)) = 2
        /\ Nibble(15, Nibble(14, 1)) = 0
        /\ Nibble(15, Nibble(15, 1)) = 1
    BY DEF Nibble, XorNibble
  <2> QED BY <1>1, <1>9, <2>1 DEF High3
<1> QED BY <1>2, <1>3, <1>4, <1>5, <1>6, <1>7, <1>8, <1>9

(* The low nibble of a tripled byte, by its table.                          *)
LEMMA LowTripled ==
  ASSUME NEW l \in 0 .. 15, NEW c \in 0 .. 1
  PROVE  Nibble(l, Nibble((2 * l) % 16, IF c = 1 THEN 11 ELSE 0)) = Low3[l + 1][c + 1]
<1>1. c = 0 \/ c = 1
  OBVIOUS
<1>2. CASE l \in {0, 1}
  <2>1. /\ Nibble(0, Nibble(0, 0)) = 0
        /\ Nibble(0, Nibble(0, 11)) = 11
        /\ Nibble(1, Nibble(2, 0)) = 3
        /\ Nibble(1, Nibble(2, 11)) = 8
    BY DEF Nibble, XorNibble
  <2> QED BY <1>1, <1>2, <2>1 DEF Low3
<1>3. CASE l \in {2, 3}
  <2>1. /\ Nibble(2, Nibble(4, 0)) = 6
        /\ Nibble(2, Nibble(4, 11)) = 13
        /\ Nibble(3, Nibble(6, 0)) = 5
        /\ Nibble(3, Nibble(6, 11)) = 14
    BY DEF Nibble, XorNibble
  <2> QED BY <1>1, <1>3, <2>1 DEF Low3
<1>4. CASE l \in {4, 5}
  <2>1. /\ Nibble(4, Nibble(8, 0)) = 12
        /\ Nibble(4, Nibble(8, 11)) = 7
        /\ Nibble(5, Nibble(10, 0)) = 15
        /\ Nibble(5, Nibble(10, 11)) = 4
    BY DEF Nibble, XorNibble
  <2> QED BY <1>1, <1>4, <2>1 DEF Low3
<1>5. CASE l \in {6, 7}
  <2>1. /\ Nibble(6, Nibble(12, 0)) = 10
        /\ Nibble(6, Nibble(12, 11)) = 1
        /\ Nibble(7, Nibble(14, 0)) = 9
        /\ Nibble(7, Nibble(14, 11)) = 2
    BY DEF Nibble, XorNibble
  <2> QED BY <1>1, <1>5, <2>1 DEF Low3
<1>6. CASE l \in {8, 9}
  <2>1. /\ Nibble(8, Nibble(0, 0)) = 8
        /\ Nibble(8, Nibble(0, 11)) = 3
        /\ Nibble(9, Nibble(2, 0)) = 11
        /\ Nibble(9, Nibble(2, 11)) = 0
    BY DEF Nibble, XorNibble
  <2> QED BY <1>1, <1>6, <2>1 DEF Low3
<1>7. CASE l \in {10, 11}
  <2>1. /\ Nibble(10, Nibble(4, 0)) = 14
        /\ Nibble(10, Nibble(4, 11)) = 5
        /\ Nibble(11, Nibble(6, 0)) = 13
        /\ Nibble(11, Nibble(6, 11)) = 6
    BY DEF Nibble, XorNibble
  <2> QED BY <1>1, <1>7, <2>1 DEF Low3
<1>8. CASE l \in {12, 13}
  <2>1. /\ Nibble(12, Nibble(8, 0)) = 4
        /\ Nibble(12, Nibble(8, 11)) = 15
        /\ Nibble(13, Nibble(10, 0)) = 7
        /\ Nibble(13, Nibble(10, 11)) = 12
    BY DEF Nibble, XorNibble
  <2> QED BY <1>1, <1>8, <2>1 DEF Low3
<1>9. CASE l \in {14, 15}
  <2>1. /\ Nibble(14, Nibble(12, 0)) = 2
        /\ Nibble(14, Nibble(12, 11)) = 9
        /\ Nibble(15, Nibble(14, 0)) = 1
        /\ Nibble(15, Nibble(14, 11)) = 10
    BY DEF Nibble, XorNibble
  <2> QED BY <1>1, <1>9, <2>1 DEF Low3
<1> QED BY <1>2, <1>3, <1>4, <1>5, <1>6, <1>7, <1>8, <1>9

(* A tripled byte is made of the two.                                       *)
LEMMA TripledNibbles ==
  ASSUME NEW x \in Byte
  PROVE  Times3(x) = 16 * High3[(x \div 16) + 1][((x % 16) \div 8) + 1] + Low3[(x % 16) + 1][(x \div 128) + 1]
<1> DEFINE h == x \div 16
           l == x % 16
           g == (2 * h + l \div 8) % 16
           m == (2 * l) % 16
           c == x \div 128
<1>1. x \in 0 .. 255
  BY DEF Byte
<1>2. h \in 0 .. 15 /\ l \in 0 .. 15
  BY <1>1
<1>3. (2 * x) % 256 = 16 * g + m /\ g \in 0 .. 15 /\ m \in 0 .. 15
  BY <1>1
<1>4. h \div 8 = c /\ (x >= 128 <=> h >= 8)
  BY <1>1
<1>5. 27 \div 16 = 1 /\ 27 % 16 = 11 /\ 0 \div 16 = 0 /\ 0 % 16 = 0
  OBVIOUS
<1>6. ((2 * x) % 256) \div 16 = g /\ ((2 * x) % 256) % 16 = m
  BY <1>3
<1> HIDE DEF h, l, g, m, c
<1>7. XTIME(x) = 16 * Nibble(g, IF h >= 8 THEN 1 ELSE 0) + Nibble(m, IF h >= 8 THEN 11 ELSE 0)
  BY <1>4, <1>5, <1>6 DEF XTIME, Xor, Nibble
<1> DEFINE u == Nibble(g, IF h >= 8 THEN 1 ELSE 0)
           v == Nibble(m, IF h >= 8 THEN 11 ELSE 0)
<1>8. u \in 0 .. 15 /\ v \in 0 .. 15
  <2>1. \A k \in {0, 1, 11} : k \in 0 .. 15
    OBVIOUS
  <2>2. \A a, b \in 0 .. 15 : Nibble(a, b) \in 0 .. 15
    BY NibbleFacts
  <2> QED BY <1>3, <2>1, <2>2
<1> HIDE DEF u, v
<1>9. XTIME(x) \div 16 = u /\ XTIME(x) % 16 = v
  BY <1>7, <1>8 DEF u, v
<1>10. Times3(x) = 16 * Nibble(h, u) + Nibble(l, v)
  BY <1>9 DEF Times3, Xor, Nibble, h, l
<1>11. Nibble(h, u) = High3[h + 1][(l \div 8) + 1]
  <2>1. l \div 8 \in 0 .. 1
    BY <1>2
  <2> QED BY <1>2, <2>1, HighTripled DEF u, g
<1>12. Nibble(l, v) = Low3[l + 1][c + 1]
  <2>1. c \in 0 .. 1 /\ (h >= 8 <=> c = 1)
    BY <1>2, <1>4
  <2> QED BY <1>2, <2>1, LowTripled DEF v, m
<1> QED BY <1>10, <1>11, <1>12 DEF h, l, c

(* Exponents, and the bytes that have a logarithm.                          *)
Exponent == Byte \ {0}

(* Byte and 0 .. 255 are the same set.                                      *)
LEMMA BytesAre ==
  /\ \A x \in Byte : x \in Int /\ 0 <= x /\ x <= 255
  /\ \A x \in Int : 0 <= x /\ x <= 255 => x \in Byte
  BY DEF Byte
(* So are Exponent and 1 .. 255.                                            *)
LEMMA ExponentsAre ==
  /\ \A x \in Exponent : x \in Int /\ 1 <= x /\ x <= 255 /\ x \in Byte
  /\ \A x \in Int : 1 <= x /\ x <= 255 => x \in Exponent
  BY BytesAre DEF Exponent

(* What is true of 0 and handed on from number to number is true up to 255. *)
LEMMA HandedOnBytes ==
  ASSUME NEW S, 0 \in S, \A i \in Int : 0 <= i /\ i < 255 /\ i \in S => i + 1 \in S
  PROVE  Byte \subseteq S
<1>1. \A i \in 0 .. 15 : 16 * i \in S => 16 * i .. 16 * i + 15 \subseteq S /\ (i < 15 => 16 * (i + 1) \in S)
  <2>1. SUFFICES ASSUME NEW i \in 0 .. 15, 16 * i \in S
                 PROVE  16 * i .. 16 * i + 15 \subseteq S /\ (i < 15 => 16 * (i + 1) \in S)
    OBVIOUS
  <2>2. /\ 16 * i + 1 \in S /\ 16 * i + 2 \in S /\ 16 * i + 3 \in S /\ 16 * i + 4 \in S
    BY <2>1
  <2>3. /\ 16 * i + 5 \in S /\ 16 * i + 6 \in S /\ 16 * i + 7 \in S /\ 16 * i + 8 \in S
    BY <2>1, <2>2
  <2>4. /\ 16 * i + 9 \in S /\ 16 * i + 10 \in S /\ 16 * i + 11 \in S /\ 16 * i + 12 \in S
    BY <2>1, <2>3
  <2>5. /\ 16 * i + 13 \in S /\ 16 * i + 14 \in S /\ 16 * i + 15 \in S
    BY <2>1, <2>4
  <2>6. i < 15 => 16 * (i + 1) \in S
    <3>1. i < 15 => 0 <= 16 * i + 15 /\ 16 * i + 15 < 255 /\ (16 * i + 15) + 1 = 16 * (i + 1)
      OBVIOUS
    <3> QED BY <2>5, <3>1
  <2>7. \A m \in 16 * i .. 16 * i + 15 : \E k \in 0 .. 15 : m = 16 * i + k
    <3>1. \A m \in 16 * i .. 16 * i + 15 : m - 16 * i \in 0 .. 15 /\ m = 16 * i + (m - 16 * i)
      OBVIOUS
    <3> QED BY <3>1
  <2>8. \A k \in 0 .. 15 : 16 * i + k \in S
    BY <2>1, <2>2, <2>3, <2>4, <2>5
  <2> QED BY <2>6, <2>7, <2>8
<1>2. 16 * 0 = 0
  OBVIOUS
<1>3. \A i \in 0 .. 15 : 16 * i \in S
  <2> DEFINE R == {i \in 0 .. 16 : i <= 15 => 16 * i \in S}
  <2>1. 0 \in R
    BY <1>2
  <2>2. \A k \in Index : k \in R => k + 1 \in R
    BY <1>1 DEF Index
  <2> HIDE DEF R
  <2>3. 0 .. 16 \subseteq R
    BY <2>1, <2>2, HandedOn
  <2> QED BY <2>3 DEF R
<1>4. \A m \in Byte : \E i \in 0 .. 15 : m \in 16 * i .. 16 * i + 15
  <2>1. \A m \in Byte : m \div 16 \in 0 .. 15 /\ m \in 16 * (m \div 16) .. 16 * (m \div 16) + 15
    BY BytesAre
  <2> QED BY <2>1
<1> QED BY <1>1, <1>3, <1>4

(* The powers of the generator.  They return to 1 at 255 and not before.    *)
Powers3(p) == p[0] = 1 /\ \A i \in Int : 0 <= i /\ i < 255 => p[i + 1] = Times3(p[i])

(* Multiplying by 3 reaches 1 after 255 steps and not before.               *)
LEMMA OrderOfThree ==
  ASSUME NEW p, Powers3(p)
  PROVE  p[255] = 1 /\ \A i \in Int : 0 < i /\ i < 255 => p[i] # 1
<1>1. \A x \in Int : 0 <= x /\ x <= 255 =>
        Times3(x) = 16 * High3[(x \div 16) + 1][((x % 16) \div 8) + 1] + Low3[(x % 16) + 1][(x \div 128) + 1]
  BY TripledNibbles, BytesAre
<1>2. p[16] = 95 /\ \A i \in 1 .. 16 : p[i] # 1
  <2>1. p[0] = 1
    BY DEF Powers3
  <2>2. \A i \in 0 .. 15 : p[i + 1] = Times3(p[i])
    BY DEF Powers3
  <2>3. /\ p[1] = Times3(p[0]) /\ p[2] = Times3(p[1]) /\ p[3] = Times3(p[2])
        /\ p[4] = Times3(p[3]) /\ p[5] = Times3(p[4]) /\ p[6] = Times3(p[5])
        /\ p[7] = Times3(p[6]) /\ p[8] = Times3(p[7]) /\ p[9] = Times3(p[8])
        /\ p[10] = Times3(p[9]) /\ p[11] = Times3(p[10]) /\ p[12] = Times3(p[11])
        /\ p[13] = Times3(p[12]) /\ p[14] = Times3(p[13]) /\ p[15] = Times3(p[14])
        /\ p[16] = Times3(p[15])
    BY <2>2
  <2>4. /\ Times3(1) = 3 /\ Times3(3) = 5 /\ Times3(5) = 15 /\ Times3(15) = 17
        /\ Times3(17) = 51 /\ Times3(51) = 85 /\ Times3(85) = 255 /\ Times3(255) = 26
    BY <1>1, SMTT(60) DEF High3, Low3
  <2>5. /\ Times3(26) = 46 /\ Times3(46) = 114 /\ Times3(114) = 150 /\ Times3(150) = 161
        /\ Times3(161) = 248 /\ Times3(248) = 19 /\ Times3(19) = 53 /\ Times3(53) = 95
    BY <1>1, SMTT(60) DEF High3, Low3
  <2>6. /\ p[1] = 3 /\ p[2] = 5 /\ p[3] = 15 /\ p[4] = 17 /\ p[5] = 51 /\ p[6] = 85
        /\ p[7] = 255 /\ p[8] = 26 /\ p[9] = 46 /\ p[10] = 114 /\ p[11] = 150 /\ p[12] = 161
        /\ p[13] = 248 /\ p[14] = 19 /\ p[15] = 53 /\ p[16] = 95
    BY <2>1, <2>3, <2>4, <2>5
  <2> QED BY <2>6
<1>3. p[32] = 229 /\ \A i \in 17 .. 32 : p[i] # 1
  <2>1. p[16] = 95
    BY <1>2
  <2>2. \A i \in 16 .. 31 : p[i + 1] = Times3(p[i])
    BY DEF Powers3
  <2>3. /\ p[17] = Times3(p[16]) /\ p[18] = Times3(p[17]) /\ p[19] = Times3(p[18])
        /\ p[20] = Times3(p[19]) /\ p[21] = Times3(p[20]) /\ p[22] = Times3(p[21])
        /\ p[23] = Times3(p[22]) /\ p[24] = Times3(p[23]) /\ p[25] = Times3(p[24])
        /\ p[26] = Times3(p[25]) /\ p[27] = Times3(p[26]) /\ p[28] = Times3(p[27])
        /\ p[29] = Times3(p[28]) /\ p[30] = Times3(p[29]) /\ p[31] = Times3(p[30])
        /\ p[32] = Times3(p[31])
    BY <2>2
  <2>4. /\ Times3(95) = 225 /\ Times3(225) = 56 /\ Times3(56) = 72 /\ Times3(72) = 216
        /\ Times3(216) = 115 /\ Times3(115) = 149 /\ Times3(149) = 164 /\ Times3(164) = 247
    BY <1>1, SMTT(60) DEF High3, Low3
  <2>5. /\ Times3(247) = 2 /\ Times3(2) = 6 /\ Times3(6) = 10 /\ Times3(10) = 30
        /\ Times3(30) = 34 /\ Times3(34) = 102 /\ Times3(102) = 170 /\ Times3(170) = 229
    BY <1>1, SMTT(60) DEF High3, Low3
  <2>6. /\ p[17] = 225 /\ p[18] = 56 /\ p[19] = 72 /\ p[20] = 216 /\ p[21] = 115 /\ p[22] = 149
        /\ p[23] = 164 /\ p[24] = 247 /\ p[25] = 2 /\ p[26] = 6 /\ p[27] = 10 /\ p[28] = 30
        /\ p[29] = 34 /\ p[30] = 102 /\ p[31] = 170 /\ p[32] = 229
    BY <2>1, <2>3, <2>4, <2>5
  <2> QED BY <2>6
<1>4. p[48] = 83 /\ \A i \in 33 .. 48 : p[i] # 1
  <2>1. p[32] = 229
    BY <1>3
  <2>2. \A i \in 32 .. 47 : p[i + 1] = Times3(p[i])
    BY DEF Powers3
  <2>3. /\ p[33] = Times3(p[32]) /\ p[34] = Times3(p[33]) /\ p[35] = Times3(p[34])
        /\ p[36] = Times3(p[35]) /\ p[37] = Times3(p[36]) /\ p[38] = Times3(p[37])
        /\ p[39] = Times3(p[38]) /\ p[40] = Times3(p[39]) /\ p[41] = Times3(p[40])
        /\ p[42] = Times3(p[41]) /\ p[43] = Times3(p[42]) /\ p[44] = Times3(p[43])
        /\ p[45] = Times3(p[44]) /\ p[46] = Times3(p[45]) /\ p[47] = Times3(p[46])
        /\ p[48] = Times3(p[47])
    BY <2>2
  <2>4. /\ Times3(229) = 52 /\ Times3(52) = 92 /\ Times3(92) = 228 /\ Times3(228) = 55
        /\ Times3(55) = 89 /\ Times3(89) = 235 /\ Times3(235) = 38 /\ Times3(38) = 106
    BY <1>1, SMTT(60) DEF High3, Low3
  <2>5. /\ Times3(106) = 190 /\ Times3(190) = 217 /\ Times3(217) = 112 /\ Times3(112) = 144
        /\ Times3(144) = 171 /\ Times3(171) = 230 /\ Times3(230) = 49 /\ Times3(49) = 83
    BY <1>1, SMTT(60) DEF High3, Low3
  <2>6. /\ p[33] = 52 /\ p[34] = 92 /\ p[35] = 228 /\ p[36] = 55 /\ p[37] = 89 /\ p[38] = 235
        /\ p[39] = 38 /\ p[40] = 106 /\ p[41] = 190 /\ p[42] = 217 /\ p[43] = 112 /\ p[44] = 144
        /\ p[45] = 171 /\ p[46] = 230 /\ p[47] = 49 /\ p[48] = 83
    BY <2>1, <2>3, <2>4, <2>5
  <2> QED BY <2>6
<1>5. p[64] = 76 /\ \A i \in 49 .. 64 : p[i] # 1
  <2>1. p[48] = 83
    BY <1>4
  <2>2. \A i \in 48 .. 63 : p[i + 1] = Times3(p[i])
    BY DEF Powers3
  <2>3. /\ p[49] = Times3(p[48]) /\ p[50] = Times3(p[49]) /\ p[51] = Times3(p[50])
        /\ p[52] = Times3(p[51]) /\ p[53] = Times3(p[52]) /\ p[54] = Times3(p[53])
        /\ p[55] = Times3(p[54]) /\ p[56] = Times3(p[55]) /\ p[57] = Times3(p[56])
        /\ p[58] = Times3(p[57]) /\ p[59] = Times3(p[58]) /\ p[60] = Times3(p[59])
        /\ p[61] = Times3(p[60]) /\ p[62] = Times3(p[61]) /\ p[63] = Times3(p[62])
        /\ p[64] = Times3(p[63])
    BY <2>2
  <2>4. /\ Times3(83) = 245 /\ Times3(245) = 4 /\ Times3(4) = 12 /\ Times3(12) = 20
        /\ Times3(20) = 60 /\ Times3(60) = 68 /\ Times3(68) = 204 /\ Times3(204) = 79
    BY <1>1, SMTT(60) DEF High3, Low3
  <2>5. /\ Times3(79) = 209 /\ Times3(209) = 104 /\ Times3(104) = 184 /\ Times3(184) = 211
        /\ Times3(211) = 110 /\ Times3(110) = 178 /\ Times3(178) = 205 /\ Times3(205) = 76
    BY <1>1, SMTT(60) DEF High3, Low3
  <2>6. /\ p[49] = 245 /\ p[50] = 4 /\ p[51] = 12 /\ p[52] = 20 /\ p[53] = 60 /\ p[54] = 68
        /\ p[55] = 204 /\ p[56] = 79 /\ p[57] = 209 /\ p[58] = 104 /\ p[59] = 184 /\ p[60] = 211
        /\ p[61] = 110 /\ p[62] = 178 /\ p[63] = 205 /\ p[64] = 76
    BY <2>1, <2>3, <2>4, <2>5
  <2> QED BY <2>6
<1>6. p[80] = 131 /\ \A i \in 65 .. 80 : p[i] # 1
  <2>1. p[64] = 76
    BY <1>5
  <2>2. \A i \in 64 .. 79 : p[i + 1] = Times3(p[i])
    BY DEF Powers3
  <2>3. /\ p[65] = Times3(p[64]) /\ p[66] = Times3(p[65]) /\ p[67] = Times3(p[66])
        /\ p[68] = Times3(p[67]) /\ p[69] = Times3(p[68]) /\ p[70] = Times3(p[69])
        /\ p[71] = Times3(p[70]) /\ p[72] = Times3(p[71]) /\ p[73] = Times3(p[72])
        /\ p[74] = Times3(p[73]) /\ p[75] = Times3(p[74]) /\ p[76] = Times3(p[75])
        /\ p[77] = Times3(p[76]) /\ p[78] = Times3(p[77]) /\ p[79] = Times3(p[78])
        /\ p[80] = Times3(p[79])
    BY <2>2
  <2>4. /\ Times3(76) = 212 /\ Times3(212) = 103 /\ Times3(103) = 169 /\ Times3(169) = 224
        /\ Times3(224) = 59 /\ Times3(59) = 77 /\ Times3(77) = 215 /\ Times3(215) = 98
    BY <1>1, SMTT(60) DEF High3, Low3
  <2>5. /\ Times3(98) = 166 /\ Times3(166) = 241 /\ Times3(241) = 8 /\ Times3(8) = 24
        /\ Times3(24) = 40 /\ Times3(40) = 120 /\ Times3(120) = 136 /\ Times3(136) = 131
    BY <1>1, SMTT(60) DEF High3, Low3
  <2>6. /\ p[65] = 212 /\ p[66] = 103 /\ p[67] = 169 /\ p[68] = 224 /\ p[69] = 59 /\ p[70] = 77
        /\ p[71] = 215 /\ p[72] = 98 /\ p[73] = 166 /\ p[74] = 241 /\ p[75] = 8 /\ p[76] = 24
        /\ p[77] = 40 /\ p[78] = 120 /\ p[79] = 136 /\ p[80] = 131
    BY <2>1, <2>3, <2>4, <2>5
  <2> QED BY <2>6
<1>7. p[96] = 181 /\ \A i \in 81 .. 96 : p[i] # 1
  <2>1. p[80] = 131
    BY <1>6
  <2>2. \A i \in 80 .. 95 : p[i + 1] = Times3(p[i])
    BY DEF Powers3
  <2>3. /\ p[81] = Times3(p[80]) /\ p[82] = Times3(p[81]) /\ p[83] = Times3(p[82])
        /\ p[84] = Times3(p[83]) /\ p[85] = Times3(p[84]) /\ p[86] = Times3(p[85])
        /\ p[87] = Times3(p[86]) /\ p[88] = Times3(p[87]) /\ p[89] = Times3(p[88])
        /\ p[90] = Times3(p[89]) /\ p[91] = Times3(p[90]) /\ p[92] = Times3(p[91])
        /\ p[93] = Times3(p[92]) /\ p[94] = Times3(p[93]) /\ p[95] = Times3(p[94])
        /\ p[96] = Times3(p[95])
    BY <2>2
  <2>4. /\ Times3(131) = 158 /\ Times3(158) = 185 /\ Times3(185) = 208 /\ Times3(208) = 107
        /\ Times3(107) = 189 /\ Times3(189) = 220 /\ Times3(220) = 127 /\ Times3(127) = 129
    BY <1>1, SMTT(60) DEF High3, Low3
  <2>5. /\ Times3(129) = 152 /\ Times3(152) = 179 /\ Times3(179) = 206 /\ Times3(206) = 73
        /\ Times3(73) = 219 /\ Times3(219) = 118 /\ Times3(118) = 154 /\ Times3(154) = 181
    BY <1>1, SMTT(60) DEF High3, Low3
  <2>6. /\ p[81] = 158 /\ p[82] = 185 /\ p[83] = 208 /\ p[84] = 107 /\ p[85] = 189 /\ p[86] = 220
        /\ p[87] = 127 /\ p[88] = 129 /\ p[89] = 152 /\ p[90] = 179 /\ p[91] = 206 /\ p[92] = 73
        /\ p[93] = 219 /\ p[94] = 118 /\ p[95] = 154 /\ p[96] = 181
    BY <2>1, <2>3, <2>4, <2>5
  <2> QED BY <2>6
<1>8. p[112] = 254 /\ \A i \in 97 .. 112 : p[i] # 1
  <2>1. p[96] = 181
    BY <1>7
  <2>2. \A i \in 96 .. 111 : p[i + 1] = Times3(p[i])
    BY DEF Powers3
  <2>3. /\ p[97] = Times3(p[96]) /\ p[98] = Times3(p[97]) /\ p[99] = Times3(p[98])
        /\ p[100] = Times3(p[99]) /\ p[101] = Times3(p[100]) /\ p[102] = Times3(p[101])
        /\ p[103] = Times3(p[102]) /\ p[104] = Times3(p[103]) /\ p[105] = Times3(p[104])
        /\ p[106] = Times3(p[105]) /\ p[107] = Times3(p[106]) /\ p[108] = Times3(p[107])
        /\ p[109] = Times3(p[108]) /\ p[110] = Times3(p[109]) /\ p[111] = Times3(p[110])
        /\ p[112] = Times3(p[111])
    BY <2>2
  <2>4. /\ Times3(181) = 196 /\ Times3(196) = 87 /\ Times3(87) = 249 /\ Times3(249) = 16
        /\ Times3(16) = 48 /\ Times3(48) = 80 /\ Times3(80) = 240 /\ Times3(240) = 11
    BY <1>1, SMTT(60) DEF High3, Low3
  <2>5. /\ Times3(11) = 29 /\ Times3(29) = 39 /\ Times3(39) = 105 /\ Times3(105) = 187
        /\ Times3(187) = 214 /\ Times3(214) = 97 /\ Times3(97) = 163 /\ Times3(163) = 254
    BY <1>1, SMTT(60) DEF High3, Low3
  <2>6. /\ p[97] = 196 /\ p[98] = 87 /\ p[99] = 249 /\ p[100] = 16 /\ p[101] = 48 /\ p[102] = 80
        /\ p[103] = 240 /\ p[104] = 11 /\ p[105] = 29 /\ p[106] = 39 /\ p[107] = 105 /\ p[108] = 187
        /\ p[109] = 214 /\ p[110] = 97 /\ p[111] = 163 /\ p[112] = 254
    BY <2>1, <2>3, <2>4, <2>5
  <2> QED BY <2>6
<1>9. p[128] = 251 /\ \A i \in 113 .. 128 : p[i] # 1
  <2>1. p[112] = 254
    BY <1>8
  <2>2. \A i \in 112 .. 127 : p[i + 1] = Times3(p[i])
    BY DEF Powers3
  <2>3. /\ p[113] = Times3(p[112]) /\ p[114] = Times3(p[113]) /\ p[115] = Times3(p[114])
        /\ p[116] = Times3(p[115]) /\ p[117] = Times3(p[116]) /\ p[118] = Times3(p[117])
        /\ p[119] = Times3(p[118]) /\ p[120] = Times3(p[119]) /\ p[121] = Times3(p[120])
        /\ p[122] = Times3(p[121]) /\ p[123] = Times3(p[122]) /\ p[124] = Times3(p[123])
        /\ p[125] = Times3(p[124]) /\ p[126] = Times3(p[125]) /\ p[127] = Times3(p[126])
        /\ p[128] = Times3(p[127])
    BY <2>2
  <2>4. /\ Times3(254) = 25 /\ Times3(25) = 43 /\ Times3(43) = 125 /\ Times3(125) = 135
        /\ Times3(135) = 146 /\ Times3(146) = 173 /\ Times3(173) = 236 /\ Times3(236) = 47
    BY <1>1, SMTT(60) DEF High3, Low3
  <2>5. /\ Times3(47) = 113 /\ Times3(113) = 147 /\ Times3(147) = 174 /\ Times3(174) = 233
        /\ Times3(233) = 32 /\ Times3(32) = 96 /\ Times3(96) = 160 /\ Times3(160) = 251
    BY <1>1, SMTT(60) DEF High3, Low3
  <2>6. /\ p[113] = 25 /\ p[114] = 43 /\ p[115] = 125 /\ p[116] = 135 /\ p[117] = 146 /\ p[118] = 173
        /\ p[119] = 236 /\ p[120] = 47 /\ p[121] = 113 /\ p[122] = 147 /\ p[123] = 174 /\ p[124] = 233
        /\ p[125] = 32 /\ p[126] = 96 /\ p[127] = 160 /\ p[128] = 251
    BY <2>1, <2>3, <2>4, <2>5
  <2> QED BY <2>6
<1>10. p[144] = 195 /\ \A i \in 129 .. 144 : p[i] # 1
  <2>1. p[128] = 251
    BY <1>9
  <2>2. \A i \in 128 .. 143 : p[i + 1] = Times3(p[i])
    BY DEF Powers3
  <2>3. /\ p[129] = Times3(p[128]) /\ p[130] = Times3(p[129]) /\ p[131] = Times3(p[130])
        /\ p[132] = Times3(p[131]) /\ p[133] = Times3(p[132]) /\ p[134] = Times3(p[133])
        /\ p[135] = Times3(p[134]) /\ p[136] = Times3(p[135]) /\ p[137] = Times3(p[136])
        /\ p[138] = Times3(p[137]) /\ p[139] = Times3(p[138]) /\ p[140] = Times3(p[139])
        /\ p[141] = Times3(p[140]) /\ p[142] = Times3(p[141]) /\ p[143] = Times3(p[142])
        /\ p[144] = Times3(p[143])
    BY <2>2
  <2>4. /\ Times3(251) = 22 /\ Times3(22) = 58 /\ Times3(58) = 78 /\ Times3(78) = 210
        /\ Times3(210) = 109 /\ Times3(109) = 183 /\ Times3(183) = 194 /\ Times3(194) = 93
    BY <1>1, SMTT(60) DEF High3, Low3
  <2>5. /\ Times3(93) = 231 /\ Times3(231) = 50 /\ Times3(50) = 86 /\ Times3(86) = 250
        /\ Times3(250) = 21 /\ Times3(21) = 63 /\ Times3(63) = 65 /\ Times3(65) = 195
    BY <1>1, SMTT(60) DEF High3, Low3
  <2>6. /\ p[129] = 22 /\ p[130] = 58 /\ p[131] = 78 /\ p[132] = 210 /\ p[133] = 109 /\ p[134] = 183
        /\ p[135] = 194 /\ p[136] = 93 /\ p[137] = 231 /\ p[138] = 50 /\ p[139] = 86 /\ p[140] = 250
        /\ p[141] = 21 /\ p[142] = 63 /\ p[143] = 65 /\ p[144] = 195
    BY <2>1, <2>3, <2>4, <2>5
  <2> QED BY <2>6
<1>11. p[160] = 159 /\ \A i \in 145 .. 160 : p[i] # 1
  <2>1. p[144] = 195
    BY <1>10
  <2>2. \A i \in 144 .. 159 : p[i + 1] = Times3(p[i])
    BY DEF Powers3
  <2>3. /\ p[145] = Times3(p[144]) /\ p[146] = Times3(p[145]) /\ p[147] = Times3(p[146])
        /\ p[148] = Times3(p[147]) /\ p[149] = Times3(p[148]) /\ p[150] = Times3(p[149])
        /\ p[151] = Times3(p[150]) /\ p[152] = Times3(p[151]) /\ p[153] = Times3(p[152])
        /\ p[154] = Times3(p[153]) /\ p[155] = Times3(p[154]) /\ p[156] = Times3(p[155])
        /\ p[157] = Times3(p[156]) /\ p[158] = Times3(p[157]) /\ p[159] = Times3(p[158])
        /\ p[160] = Times3(p[159])
    BY <2>2
  <2>4. /\ Times3(195) = 94 /\ Times3(94) = 226 /\ Times3(226) = 61 /\ Times3(61) = 71
        /\ Times3(71) = 201 /\ Times3(201) = 64 /\ Times3(64) = 192 /\ Times3(192) = 91
    BY <1>1, SMTT(60) DEF High3, Low3
  <2>5. /\ Times3(91) = 237 /\ Times3(237) = 44 /\ Times3(44) = 116 /\ Times3(116) = 156
        /\ Times3(156) = 191 /\ Times3(191) = 218 /\ Times3(218) = 117 /\ Times3(117) = 159
    BY <1>1, SMTT(60) DEF High3, Low3
  <2>6. /\ p[145] = 94 /\ p[146] = 226 /\ p[147] = 61 /\ p[148] = 71 /\ p[149] = 201 /\ p[150] = 64
        /\ p[151] = 192 /\ p[152] = 91 /\ p[153] = 237 /\ p[154] = 44 /\ p[155] = 116 /\ p[156] = 156
        /\ p[157] = 191 /\ p[158] = 218 /\ p[159] = 117 /\ p[160] = 159
    BY <2>1, <2>3, <2>4, <2>5
  <2> QED BY <2>6
<1>12. p[176] = 155 /\ \A i \in 161 .. 176 : p[i] # 1
  <2>1. p[160] = 159
    BY <1>11
  <2>2. \A i \in 160 .. 175 : p[i + 1] = Times3(p[i])
    BY DEF Powers3
  <2>3. /\ p[161] = Times3(p[160]) /\ p[162] = Times3(p[161]) /\ p[163] = Times3(p[162])
        /\ p[164] = Times3(p[163]) /\ p[165] = Times3(p[164]) /\ p[166] = Times3(p[165])
        /\ p[167] = Times3(p[166]) /\ p[168] = Times3(p[167]) /\ p[169] = Times3(p[168])
        /\ p[170] = Times3(p[169]) /\ p[171] = Times3(p[170]) /\ p[172] = Times3(p[171])
        /\ p[173] = Times3(p[172]) /\ p[174] = Times3(p[173]) /\ p[175] = Times3(p[174])
        /\ p[176] = Times3(p[175])
    BY <2>2
  <2>4. /\ Times3(159) = 186 /\ Times3(186) = 213 /\ Times3(213) = 100 /\ Times3(100) = 172
        /\ Times3(172) = 239 /\ Times3(239) = 42 /\ Times3(42) = 126 /\ Times3(126) = 130
    BY <1>1, SMTT(60) DEF High3, Low3
  <2>5. /\ Times3(130) = 157 /\ Times3(157) = 188 /\ Times3(188) = 223 /\ Times3(223) = 122
        /\ Times3(122) = 142 /\ Times3(142) = 137 /\ Times3(137) = 128 /\ Times3(128) = 155
    BY <1>1, SMTT(60) DEF High3, Low3
  <2>6. /\ p[161] = 186 /\ p[162] = 213 /\ p[163] = 100 /\ p[164] = 172 /\ p[165] = 239 /\ p[166] = 42
        /\ p[167] = 126 /\ p[168] = 130 /\ p[169] = 157 /\ p[170] = 188 /\ p[171] = 223 /\ p[172] = 122
        /\ p[173] = 142 /\ p[174] = 137 /\ p[175] = 128 /\ p[176] = 155
    BY <2>1, <2>3, <2>4, <2>5
  <2> QED BY <2>6
<1>13. p[192] = 252 /\ \A i \in 177 .. 192 : p[i] # 1
  <2>1. p[176] = 155
    BY <1>12
  <2>2. \A i \in 176 .. 191 : p[i + 1] = Times3(p[i])
    BY DEF Powers3
  <2>3. /\ p[177] = Times3(p[176]) /\ p[178] = Times3(p[177]) /\ p[179] = Times3(p[178])
        /\ p[180] = Times3(p[179]) /\ p[181] = Times3(p[180]) /\ p[182] = Times3(p[181])
        /\ p[183] = Times3(p[182]) /\ p[184] = Times3(p[183]) /\ p[185] = Times3(p[184])
        /\ p[186] = Times3(p[185]) /\ p[187] = Times3(p[186]) /\ p[188] = Times3(p[187])
        /\ p[189] = Times3(p[188]) /\ p[190] = Times3(p[189]) /\ p[191] = Times3(p[190])
        /\ p[192] = Times3(p[191])
    BY <2>2
  <2>4. /\ Times3(155) = 182 /\ Times3(182) = 193 /\ Times3(193) = 88 /\ Times3(88) = 232
        /\ Times3(232) = 35 /\ Times3(35) = 101 /\ Times3(101) = 175 /\ Times3(175) = 234
    BY <1>1, SMTT(60) DEF High3, Low3
  <2>5. /\ Times3(234) = 37 /\ Times3(37) = 111 /\ Times3(111) = 177 /\ Times3(177) = 200
        /\ Times3(200) = 67 /\ Times3(67) = 197 /\ Times3(197) = 84 /\ Times3(84) = 252
    BY <1>1, SMTT(60) DEF High3, Low3
  <2>6. /\ p[177] = 182 /\ p[178] = 193 /\ p[179] = 88 /\ p[180] = 232 /\ p[181] = 35 /\ p[182] = 101
        /\ p[183] = 175 /\ p[184] = 234 /\ p[185] = 37 /\ p[186] = 111 /\ p[187] = 177 /\ p[188] = 200
        /\ p[189] = 67 /\ p[190] = 197 /\ p[191] = 84 /\ p[192] = 252
    BY <2>1, <2>3, <2>4, <2>5
  <2> QED BY <2>6
<1>14. p[208] = 69 /\ \A i \in 193 .. 208 : p[i] # 1
  <2>1. p[192] = 252
    BY <1>13
  <2>2. \A i \in 192 .. 207 : p[i + 1] = Times3(p[i])
    BY DEF Powers3
  <2>3. /\ p[193] = Times3(p[192]) /\ p[194] = Times3(p[193]) /\ p[195] = Times3(p[194])
        /\ p[196] = Times3(p[195]) /\ p[197] = Times3(p[196]) /\ p[198] = Times3(p[197])
        /\ p[199] = Times3(p[198]) /\ p[200] = Times3(p[199]) /\ p[201] = Times3(p[200])
        /\ p[202] = Times3(p[201]) /\ p[203] = Times3(p[202]) /\ p[204] = Times3(p[203])
        /\ p[205] = Times3(p[204]) /\ p[206] = Times3(p[205]) /\ p[207] = Times3(p[206])
        /\ p[208] = Times3(p[207])
    BY <2>2
  <2>4. /\ Times3(252) = 31 /\ Times3(31) = 33 /\ Times3(33) = 99 /\ Times3(99) = 165
        /\ Times3(165) = 244 /\ Times3(244) = 7 /\ Times3(7) = 9 /\ Times3(9) = 27
    BY <1>1, SMTT(60) DEF High3, Low3
  <2>5. /\ Times3(27) = 45 /\ Times3(45) = 119 /\ Times3(119) = 153 /\ Times3(153) = 176
        /\ Times3(176) = 203 /\ Times3(203) = 70 /\ Times3(70) = 202 /\ Times3(202) = 69
    BY <1>1, SMTT(60) DEF High3, Low3
  <2>6. /\ p[193] = 31 /\ p[194] = 33 /\ p[195] = 99 /\ p[196] = 165 /\ p[197] = 244 /\ p[198] = 7
        /\ p[199] = 9 /\ p[200] = 27 /\ p[201] = 45 /\ p[202] = 119 /\ p[203] = 153 /\ p[204] = 176
        /\ p[205] = 203 /\ p[206] = 70 /\ p[207] = 202 /\ p[208] = 69
    BY <2>1, <2>3, <2>4, <2>5
  <2> QED BY <2>6
<1>15. p[224] = 18 /\ \A i \in 209 .. 224 : p[i] # 1
  <2>1. p[208] = 69
    BY <1>14
  <2>2. \A i \in 208 .. 223 : p[i + 1] = Times3(p[i])
    BY DEF Powers3
  <2>3. /\ p[209] = Times3(p[208]) /\ p[210] = Times3(p[209]) /\ p[211] = Times3(p[210])
        /\ p[212] = Times3(p[211]) /\ p[213] = Times3(p[212]) /\ p[214] = Times3(p[213])
        /\ p[215] = Times3(p[214]) /\ p[216] = Times3(p[215]) /\ p[217] = Times3(p[216])
        /\ p[218] = Times3(p[217]) /\ p[219] = Times3(p[218]) /\ p[220] = Times3(p[219])
        /\ p[221] = Times3(p[220]) /\ p[222] = Times3(p[221]) /\ p[223] = Times3(p[222])
        /\ p[224] = Times3(p[223])
    BY <2>2
  <2>4. /\ Times3(69) = 207 /\ Times3(207) = 74 /\ Times3(74) = 222 /\ Times3(222) = 121
        /\ Times3(121) = 139 /\ Times3(139) = 134 /\ Times3(134) = 145 /\ Times3(145) = 168
    BY <1>1, SMTT(60) DEF High3, Low3
  <2>5. /\ Times3(168) = 227 /\ Times3(227) = 62 /\ Times3(62) = 66 /\ Times3(66) = 198
        /\ Times3(198) = 81 /\ Times3(81) = 243 /\ Times3(243) = 14 /\ Times3(14) = 18
    BY <1>1, SMTT(60) DEF High3, Low3
  <2>6. /\ p[209] = 207 /\ p[210] = 74 /\ p[211] = 222 /\ p[212] = 121 /\ p[213] = 139 /\ p[214] = 134
        /\ p[215] = 145 /\ p[216] = 168 /\ p[217] = 227 /\ p[218] = 62 /\ p[219] = 66 /\ p[220] = 198
        /\ p[221] = 81 /\ p[222] = 243 /\ p[223] = 14 /\ p[224] = 18
    BY <2>1, <2>3, <2>4, <2>5
  <2> QED BY <2>6
<1>16. p[240] = 57 /\ \A i \in 225 .. 240 : p[i] # 1
  <2>1. p[224] = 18
    BY <1>15
  <2>2. \A i \in 224 .. 239 : p[i + 1] = Times3(p[i])
    BY DEF Powers3
  <2>3. /\ p[225] = Times3(p[224]) /\ p[226] = Times3(p[225]) /\ p[227] = Times3(p[226])
        /\ p[228] = Times3(p[227]) /\ p[229] = Times3(p[228]) /\ p[230] = Times3(p[229])
        /\ p[231] = Times3(p[230]) /\ p[232] = Times3(p[231]) /\ p[233] = Times3(p[232])
        /\ p[234] = Times3(p[233]) /\ p[235] = Times3(p[234]) /\ p[236] = Times3(p[235])
        /\ p[237] = Times3(p[236]) /\ p[238] = Times3(p[237]) /\ p[239] = Times3(p[238])
        /\ p[240] = Times3(p[239])
    BY <2>2
  <2>4. /\ Times3(18) = 54 /\ Times3(54) = 90 /\ Times3(90) = 238 /\ Times3(238) = 41
        /\ Times3(41) = 123 /\ Times3(123) = 141 /\ Times3(141) = 140 /\ Times3(140) = 143
    BY <1>1, SMTT(60) DEF High3, Low3
  <2>5. /\ Times3(143) = 138 /\ Times3(138) = 133 /\ Times3(133) = 148 /\ Times3(148) = 167
        /\ Times3(167) = 242 /\ Times3(242) = 13 /\ Times3(13) = 23 /\ Times3(23) = 57
    BY <1>1, SMTT(60) DEF High3, Low3
  <2>6. /\ p[225] = 54 /\ p[226] = 90 /\ p[227] = 238 /\ p[228] = 41 /\ p[229] = 123 /\ p[230] = 141
        /\ p[231] = 140 /\ p[232] = 143 /\ p[233] = 138 /\ p[234] = 133 /\ p[235] = 148 /\ p[236] = 167
        /\ p[237] = 242 /\ p[238] = 13 /\ p[239] = 23 /\ p[240] = 57
    BY <2>1, <2>3, <2>4, <2>5
  <2> QED BY <2>6
<1>17. p[255] = 1 /\ \A i \in 241 .. 254 : p[i] # 1
  <2>1. p[240] = 57
    BY <1>16
  <2>2. \A i \in 240 .. 254 : p[i + 1] = Times3(p[i])
    BY DEF Powers3
  <2>3. /\ p[241] = Times3(p[240]) /\ p[242] = Times3(p[241]) /\ p[243] = Times3(p[242])
        /\ p[244] = Times3(p[243]) /\ p[245] = Times3(p[244]) /\ p[246] = Times3(p[245])
        /\ p[247] = Times3(p[246]) /\ p[248] = Times3(p[247]) /\ p[249] = Times3(p[248])
        /\ p[250] = Times3(p[249]) /\ p[251] = Times3(p[250]) /\ p[252] = Times3(p[251])
        /\ p[253] = Times3(p[252]) /\ p[254] = Times3(p[253]) /\ p[255] = Times3(p[254])
    BY <2>2
  <2>4. /\ Times3(57) = 75 /\ Times3(75) = 221 /\ Times3(221) = 124 /\ Times3(124) = 132
        /\ Times3(132) = 151 /\ Times3(151) = 162 /\ Times3(162) = 253 /\ Times3(253) = 28
    BY <1>1, SMTT(60) DEF High3, Low3
  <2>5. /\ Times3(28) = 36 /\ Times3(36) = 108 /\ Times3(108) = 180 /\ Times3(180) = 199
        /\ Times3(199) = 82 /\ Times3(82) = 246 /\ Times3(246) = 1
    BY <1>1, SMTT(60) DEF High3, Low3
  <2>6. /\ p[241] = 75 /\ p[242] = 221 /\ p[243] = 124 /\ p[244] = 132 /\ p[245] = 151 /\ p[246] = 162
        /\ p[247] = 253 /\ p[248] = 28 /\ p[249] = 36 /\ p[250] = 108 /\ p[251] = 180 /\ p[252] = 199
        /\ p[253] = 82 /\ p[254] = 246 /\ p[255] = 1
    BY <2>1, <2>3, <2>4, <2>5
  <2> QED BY <2>6
<1> QED BY <1>2, <1>3, <1>4, <1>5, <1>6, <1>7, <1>8, <1>9, <1>10, <1>11, <1>12, <1>13, <1>14, <1>15, <1>16, <1>17

(* Tripling, bit by bit.                                                    *)
LEMMA TripledBits ==
  ASSUME NEW x \in Byte
  PROVE  /\ Times3(x) \in Byte
         /\ \A k \in 0 .. 7 : IsSet(Times3(x), k) <=> ~(IsSet(x, k) <=> IsSet(XTIME(x), k))
<1>1. XTIME(x) \in Byte
  BY XTimeBits
<1> QED BY <1>1, XorFacts, XorBits DEF Times3

(* Tripling loses nothing and keeps zero apart.                             *)
LEMMA TripledFacts ==
  ASSUME NEW x \in Byte, NEW y \in Byte
  PROVE  /\ Times3(Xor(x, y)) = Xor(Times3(x), Times3(y))
         /\ XTIME(Times3(x)) = Times3(XTIME(x))
         /\ Times3(x) = Times3(y) => x = y
         /\ Times3(0) = 0
<1>1. /\ Xor(x, y) \in Byte /\ XTIME(x) \in Byte /\ XTIME(y) \in Byte /\ Times3(x) \in Byte /\ Times3(y) \in Byte
      /\ XTIME(XTIME(x)) \in Byte
  BY XorFacts, XTimeBits, TripledBits
<1>2. Times3(Xor(x, y)) = Xor(Times3(x), Times3(y))
  <2>1. Times3(Xor(x, y)) = Xor(Xor(x, y), Xor(XTIME(x), XTIME(y)))
    BY XTimeSum DEF Times3
  <2>2. Times3(Xor(x, y)) \in Byte /\ Xor(Times3(x), Times3(y)) \in Byte /\ Xor(XTIME(x), XTIME(y)) \in Byte
    BY <1>1, XorFacts, TripledBits
  <2>3. ASSUME NEW k \in 0 .. 7
        PROVE  IsSet(Times3(Xor(x, y)), k) <=> IsSet(Xor(Times3(x), Times3(y)), k)
    <3>1. IsSet(Xor(Times3(x), Times3(y)), k) <=> ~(IsSet(Times3(x), k) <=> IsSet(Times3(y), k))
      BY <1>1, XorBits
    <3>2. /\ IsSet(Times3(x), k) <=> ~(IsSet(x, k) <=> IsSet(XTIME(x), k))
          /\ IsSet(Times3(y), k) <=> ~(IsSet(y, k) <=> IsSet(XTIME(y), k))
      BY TripledBits
    <3>3. IsSet(Times3(Xor(x, y)), k) <=> ~(IsSet(Xor(x, y), k) <=> IsSet(Xor(XTIME(x), XTIME(y)), k))
      BY <1>1, <2>1, <2>2, XorBits
    <3>4. /\ IsSet(Xor(x, y), k) <=> ~(IsSet(x, k) <=> IsSet(y, k))
          /\ IsSet(Xor(XTIME(x), XTIME(y)), k) <=> ~(IsSet(XTIME(x), k) <=> IsSet(XTIME(y), k))
      BY <1>1, XorBits
    <3> QED BY <3>1, <3>2, <3>3, <3>4
  <2> QED BY <2>2, <2>3, ByteIsBits
<1>3. XTIME(Times3(x)) = Times3(XTIME(x))
  BY <1>1, XTimeSum DEF Times3
<1>4. ASSUME Times3(x) = Times3(y)  PROVE x = y
  <2>1. \A k \in 0 .. 7 : ~(IsSet(x, k) <=> IsSet(XTIME(x), k)) <=> ~(IsSet(y, k) <=> IsSet(XTIME(y), k))
    BY <1>4, TripledBits
  <2>2. /\ 0 \in 0 .. 7 /\ 1 \in 0 .. 7 /\ 2 \in 0 .. 7 /\ 3 \in 0 .. 7
        /\ 4 \in 0 .. 7 /\ 5 \in 0 .. 7 /\ 6 \in 0 .. 7 /\ 7 \in 0 .. 7
    OBVIOUS
  <2>3. /\ IsSet(x, 0) <=> IsSet(y, 0)
        /\ IsSet(x, 1) <=> IsSet(y, 1)
        /\ IsSet(x, 2) <=> IsSet(y, 2)
        /\ IsSet(x, 3) <=> IsSet(y, 3)
        /\ IsSet(x, 4) <=> IsSet(y, 4)
        /\ IsSet(x, 5) <=> IsSet(y, 5)
        /\ IsSet(x, 6) <=> IsSet(y, 6)
        /\ IsSet(x, 7) <=> IsSet(y, 7)
    BY <2>1, <2>2, XTimeBits
  <2> QED BY <2>3, EightBits, ByteIsBits
<1>5. Times3(0) = 0
  <2>1. 0 \in Byte
    BY DEF Byte
  <2>2. XTIME(0) = 0
    BY <2>1, XorAlgebra DEF XTIME
  <2> QED BY <2>1, <2>2, XorAlgebra DEF Times3
<1> QED BY <1>2, <1>3, <1>4, <1>5

(* The powers are bytes, and none is zero.                                  *)
LEMMA PowersAreBytes ==
  ASSUME NEW p, Powers3(p)
  PROVE  \A i \in Byte : p[i] \in Exponent /\ p[i] \in Byte
<1> DEFINE S == {i \in Byte : p[i] \in Exponent}
<1>1. 0 \in Byte /\ 1 \in Byte /\ 1 # 0
  BY BytesAre
<1>2. 0 \in S
  BY <1>1 DEF Powers3, Exponent
<1>3. ASSUME NEW i \in Int, 0 <= i, i < 255, i \in S  PROVE i + 1 \in S
  <2>1. p[i] \in Byte /\ p[i] # 0
    BY <1>3 DEF Exponent
  <2>2. Times3(p[i]) \in Byte /\ Times3(p[i]) # 0
    BY <1>1, <2>1, TripledBits, TripledFacts
  <2>3. p[i + 1] \in Exponent
    BY <1>3, <2>2 DEF Powers3, Exponent
  <2>4. i + 1 \in Byte
    BY <1>3, BytesAre
  <2> QED BY <2>3, <2>4
<1> HIDE DEF S
<1>4. Byte \subseteq S
  BY <1>2, <1>3, HandedOnBytes
<1> QED BY <1>4 DEF S, Exponent

(* The first 255 powers differ.                                             *)
LEMMA PowersDiffer ==
  ASSUME NEW p, Powers3(p), NEW i \in Exponent, NEW j \in Exponent, i < j
  PROVE  p[i] # p[j]
<1> SUFFICES ASSUME p[i] = p[j]  PROVE FALSE
  OBVIOUS
<1> DEFINE S == {k \in Byte : k <= i => p[i - k] = p[j - k]}
<1>1. i \in Int /\ j \in Int /\ 1 <= i /\ j <= 255 /\ i \in Byte
  BY ExponentsAre, BytesAre
<1>2. 0 \in S
  BY <1>1, BytesAre
<1>3. ASSUME NEW k \in Int, 0 <= k, k < 255, k \in S  PROVE k + 1 \in S
  <2>1. k + 1 \in Byte
    BY <1>3, BytesAre
  <2>2. CASE k + 1 > i
    BY <1>1, <1>3, <2>1, <2>2
  <2>3. CASE k + 1 <= i
    <3> DEFINE a == i - (k + 1)
               b == j - (k + 1)
    <3>1. p[i - k] = p[j - k]
      BY <1>1, <1>3, <2>3
    <3>2. /\ a \in Int /\ 0 <= a /\ a < 255 /\ i - k = a + 1
          /\ b \in Int /\ 0 <= b /\ b < 255 /\ j - k = b + 1
      BY <1>1, <1>3, <2>3
    <3> HIDE DEF a, b
    <3>3. p[i - k] = Times3(p[a]) /\ p[j - k] = Times3(p[b])
      BY <3>2 DEF Powers3
    <3>4. p[a] \in Byte /\ p[b] \in Byte
      BY <3>2, BytesAre, PowersAreBytes
    <3>5. p[a] = p[b]
      <4>1. \A x, y \in Byte : Times3(x) = Times3(y) => x = y
        BY TripledFacts
      <4> QED BY <3>1, <3>3, <3>4, <4>1, Zenon
    <3> QED BY <2>1, <3>5 DEF a, b
  <2> QED BY <1>1, <1>3, <2>2, <2>3
<1> HIDE DEF S
<1>4. i \in S
  BY <1>1, <1>2, <1>3, HandedOnBytes
<1>5. p[i - i] = p[j - i]
  BY <1>1, <1>4 DEF S
<1>6. i - i = 0 /\ j - i \in Int /\ 0 < j - i /\ j - i < 255
  BY <1>1
<1> QED BY <1>5, <1>6, OrderOfThree DEF Powers3

(* Every byte but zero is one of them.                                      *)
LEMMA PowersAreAll ==
  ASSUME NEW p, Powers3(p), NEW x \in Exponent
  PROVE  \E i \in Exponent : p[i] = x
<1> DEFINE f == [i \in Exponent |-> p[i]]
<1>1. f \in [Exponent -> Exponent]
  BY PowersAreBytes DEF Exponent
<1>2. \A i, j \in Exponent : p[i] = p[j] => i = j
  <2>1. \A i, j \in Exponent : i < j \/ j < i \/ i = j
    BY ExponentsAre
  <2> QED BY <2>1, PowersDiffer
<1>3. f \in Injection(Exponent, Exponent)
  <2>1. IsInjective(f)
    BY <1>2 DEF IsInjective
  <2> HIDE DEF f
  <2> QED BY <1>1, <2>1 DEF Injection
<1>4. IsFiniteSet(Exponent)
  <2>1. IsFiniteSet(Byte)
    <3>1. 0 \in Int /\ 255 \in Int
      OBVIOUS
    <3> QED BY <3>1, FS_Interval, Zenon DEF Byte
  <2> QED BY <2>1, FS_Subset DEF Exponent
<1> HIDE DEF f
<1>5. f \in Surjection(Exponent, Exponent)
  BY <1>3, <1>4, FS_Injection
<1>6. \E i \in Exponent : f[i] = x
  BY <1>5 DEF Surjection
<1> QED BY <1>6 DEF f

-----------------------------------------------------------------------------
(* The tables.                                                              *)
LEMMA FourTimes ==
  ASSUME NEW x
  PROVE  /\ Times81(x) = Times3(Times3(Times3(Times3(x))))
         /\ NextRow(x) = Times81(Times81(Times81(Times81(x))))
<1>1. \A e : (CHOOSE y \in {Times3(z) : z \in {e}} : TRUE) = Times3(e)
  OBVIOUS
<1>2. \A e : (CHOOSE y \in {Times81(z) : z \in {e}} : TRUE) = Times81(e)
  OBVIOUS
<1>3. Times81(x) = Times3(Times3(Times3(Times3(x))))
  BY <1>1 DEF Times81, Four, With
<1>4. NextRow(x) = Times81(Times81(Times81(Times81(x))))
  BY <1>2 DEF NextRow, Four, With
<1> QED BY <1>3, <1>4

(* A recursion over at most fifteen steps has a solution: its values, one   *)
(* after the other.  G says how a value is made of the number of the step   *)
(* and the value before.                                                    *)
Keeps(G, D)       == \A j \in 1 .. 15 : \A x \in D : G[j][x] \in D
Steps(f, G, D, a) == f \in [0 .. 15 -> D] /\ f[0] = a /\ \A j \in 1 .. 15 : f[j] = G[j][f[j - 1]]
(* The solution exists.                                                     *)
LEMMA Iterates ==
  ASSUME NEW D, NEW a \in D, NEW G, Keeps(G, D)
  PROVE  \E f : Steps(f, G, D, a)
<1> DEFINE v1 == G[1][a]
           v2 == G[2][v1]
           v3 == G[3][v2]
           v4 == G[4][v3]
           v5 == G[5][v4]
           v6 == G[6][v5]
           v7 == G[7][v6]
           v8 == G[8][v7]
           v9 == G[9][v8]
           v10 == G[10][v9]
           v11 == G[11][v10]
           v12 == G[12][v11]
           v13 == G[13][v12]
           v14 == G[14][v13]
           v15 == G[15][v14]
           t == <<a, v1, v2, v3, v4, v5, v6, v7, v8, v9, v10, v11, v12, v13, v14, v15>>
           r == [j \in 0 .. 15 |-> t[j + 1]]
<1>2. /\ v1 = G[1][a]
      /\ v2 = G[2][v1]
      /\ v3 = G[3][v2]
      /\ v4 = G[4][v3]
      /\ v5 = G[5][v4]
      /\ v6 = G[6][v5]
      /\ v7 = G[7][v6]
      /\ v8 = G[8][v7]
      /\ v9 = G[9][v8]
      /\ v10 = G[10][v9]
      /\ v11 = G[11][v10]
      /\ v12 = G[12][v11]
      /\ v13 = G[13][v12]
      /\ v14 = G[14][v13]
      /\ v15 = G[15][v14]
  OBVIOUS
<1> HIDE DEF v1, v2, v3, v4, v5, v6, v7, v8, v9, v10, v11, v12, v13, v14, v15
<1>9. \A j \in 1 .. 15 : \A x \in D : G[j][x] \in D
  BY DEF Keeps
<1>10. /\ \A x \in D : G[1][x] \in D
       /\ \A x \in D : G[2][x] \in D
       /\ \A x \in D : G[3][x] \in D
       /\ \A x \in D : G[4][x] \in D
       /\ \A x \in D : G[5][x] \in D
       /\ \A x \in D : G[6][x] \in D
       /\ \A x \in D : G[7][x] \in D
       /\ \A x \in D : G[8][x] \in D
       /\ \A x \in D : G[9][x] \in D
       /\ \A x \in D : G[10][x] \in D
       /\ \A x \in D : G[11][x] \in D
       /\ \A x \in D : G[12][x] \in D
       /\ \A x \in D : G[13][x] \in D
       /\ \A x \in D : G[14][x] \in D
       /\ \A x \in D : G[15][x] \in D
  BY <1>9
<1>1. /\ v1 \in D
      /\ v2 \in D
      /\ v3 \in D
      /\ v4 \in D
      /\ v5 \in D
      /\ v6 \in D
      /\ v7 \in D
      /\ v8 \in D
      /\ v9 \in D
      /\ v10 \in D
      /\ v11 \in D
      /\ v12 \in D
      /\ v13 \in D
      /\ v14 \in D
      /\ v15 \in D
  <2>1. v1 \in D
    <3>1. v1 = G[1][a] /\ \A x \in D : G[1][x] \in D
      BY <1>2, <1>10
    <3> QED BY <3>1
  <2>2. v2 \in D
    <3>1. v2 = G[2][v1] /\ \A x \in D : G[2][x] \in D
      BY <1>2, <1>10
    <3> QED BY <2>1, <3>1
  <2>3. v3 \in D
    <3>1. v3 = G[3][v2] /\ \A x \in D : G[3][x] \in D
      BY <1>2, <1>10
    <3> QED BY <2>2, <3>1
  <2>4. v4 \in D
    <3>1. v4 = G[4][v3] /\ \A x \in D : G[4][x] \in D
      BY <1>2, <1>10
    <3> QED BY <2>3, <3>1
  <2>5. v5 \in D
    <3>1. v5 = G[5][v4] /\ \A x \in D : G[5][x] \in D
      BY <1>2, <1>10
    <3> QED BY <2>4, <3>1
  <2>6. v6 \in D
    <3>1. v6 = G[6][v5] /\ \A x \in D : G[6][x] \in D
      BY <1>2, <1>10
    <3> QED BY <2>5, <3>1
  <2>7. v7 \in D
    <3>1. v7 = G[7][v6] /\ \A x \in D : G[7][x] \in D
      BY <1>2, <1>10
    <3> QED BY <2>6, <3>1
  <2>8. v8 \in D
    <3>1. v8 = G[8][v7] /\ \A x \in D : G[8][x] \in D
      BY <1>2, <1>10
    <3> QED BY <2>7, <3>1
  <2>9. v9 \in D
    <3>1. v9 = G[9][v8] /\ \A x \in D : G[9][x] \in D
      BY <1>2, <1>10
    <3> QED BY <2>8, <3>1
  <2>10. v10 \in D
    <3>1. v10 = G[10][v9] /\ \A x \in D : G[10][x] \in D
      BY <1>2, <1>10
    <3> QED BY <2>9, <3>1
  <2>11. v11 \in D
    <3>1. v11 = G[11][v10] /\ \A x \in D : G[11][x] \in D
      BY <1>2, <1>10
    <3> QED BY <2>10, <3>1
  <2>12. v12 \in D
    <3>1. v12 = G[12][v11] /\ \A x \in D : G[12][x] \in D
      BY <1>2, <1>10
    <3> QED BY <2>11, <3>1
  <2>13. v13 \in D
    <3>1. v13 = G[13][v12] /\ \A x \in D : G[13][x] \in D
      BY <1>2, <1>10
    <3> QED BY <2>12, <3>1
  <2>14. v14 \in D
    <3>1. v14 = G[14][v13] /\ \A x \in D : G[14][x] \in D
      BY <1>2, <1>10
    <3> QED BY <2>13, <3>1
  <2>15. v15 \in D
    <3>1. v15 = G[15][v14] /\ \A x \in D : G[15][x] \in D
      BY <1>2, <1>10
    <3> QED BY <2>14, <3>1
  <2> QED BY <2>1, <2>2, <2>3, <2>4, <2>5, <2>6, <2>7, <2>8, <2>9, <2>10, <2>11, <2>12, <2>13, <2>14, <2>15
<1>3. /\ r[0] = a
      /\ r[1] = v1
      /\ r[2] = v2
      /\ r[3] = v3
      /\ r[4] = v4
      /\ r[5] = v5
      /\ r[6] = v6
      /\ r[7] = v7
      /\ r[8] = v8
      /\ r[9] = v9
      /\ r[10] = v10
      /\ r[11] = v11
      /\ r[12] = v12
      /\ r[13] = v13
      /\ r[14] = v14
      /\ r[15] = v15
  OBVIOUS
<1> HIDE DEF r, t
<1>4. \A j \in 0 .. 15 : r[j] \in D
  BY <1>1, <1>3
<1>5. r \in [0 .. 15 -> D]
  BY <1>4 DEF r
<1>6. \A j \in 1 .. 15 : r[j] = G[j][r[j - 1]]
  <2>1. /\ 1 - 1 = 0 /\ 2 - 1 = 1 /\ 3 - 1 = 2 /\ 4 - 1 = 3 /\ 5 - 1 = 4 /\ 6 - 1 = 5 /\ 7 - 1 = 6
        /\ 8 - 1 = 7 /\ 9 - 1 = 8 /\ 10 - 1 = 9 /\ 11 - 1 = 10 /\ 12 - 1 = 11 /\ 13 - 1 = 12 /\ 14 - 1 = 13
        /\ 15 - 1 = 14
    OBVIOUS
  <2>2. \A j \in 1 .. 15 : \/ j = 1 \/ j = 2 \/ j = 3 \/ j = 4 \/ j = 5 \/ j = 6 \/ j = 7 \/ j = 8
                          \/ j = 9 \/ j = 10 \/ j = 11 \/ j = 12 \/ j = 13 \/ j = 14 \/ j = 15
    OBVIOUS
  <2>3. /\ r[1] = G[1][r[0]]
        /\ r[2] = G[2][r[1]]
        /\ r[3] = G[3][r[2]]
        /\ r[4] = G[4][r[3]]
        /\ r[5] = G[5][r[4]]
        /\ r[6] = G[6][r[5]]
        /\ r[7] = G[7][r[6]]
        /\ r[8] = G[8][r[7]]
        /\ r[9] = G[9][r[8]]
        /\ r[10] = G[10][r[9]]
        /\ r[11] = G[11][r[10]]
        /\ r[12] = G[12][r[11]]
        /\ r[13] = G[13][r[12]]
        /\ r[14] = G[14][r[13]]
        /\ r[15] = G[15][r[14]]
    BY <1>2, <1>3, Zenon
  <2>4. SUFFICES ASSUME NEW j \in 1 .. 15  PROVE r[j] = G[j][r[j - 1]]
    OBVIOUS
  <2>c1. CASE j = 1
    BY <2>1, <2>3, <2>c1, Zenon
  <2>c2. CASE j = 2
    BY <2>1, <2>3, <2>c2, Zenon
  <2>c3. CASE j = 3
    BY <2>1, <2>3, <2>c3, Zenon
  <2>c4. CASE j = 4
    BY <2>1, <2>3, <2>c4, Zenon
  <2>c5. CASE j = 5
    BY <2>1, <2>3, <2>c5, Zenon
  <2>c6. CASE j = 6
    BY <2>1, <2>3, <2>c6, Zenon
  <2>c7. CASE j = 7
    BY <2>1, <2>3, <2>c7, Zenon
  <2>c8. CASE j = 8
    BY <2>1, <2>3, <2>c8, Zenon
  <2>c9. CASE j = 9
    BY <2>1, <2>3, <2>c9, Zenon
  <2>c10. CASE j = 10
    BY <2>1, <2>3, <2>c10, Zenon
  <2>c11. CASE j = 11
    BY <2>1, <2>3, <2>c11, Zenon
  <2>c12. CASE j = 12
    BY <2>1, <2>3, <2>c12, Zenon
  <2>c13. CASE j = 13
    BY <2>1, <2>3, <2>c13, Zenon
  <2>c14. CASE j = 14
    BY <2>1, <2>3, <2>c14, Zenon
  <2>c15. CASE j = 15
    BY <2>1, <2>3, <2>c15, Zenon
  <2> QED BY <2>2, <2>4, <2>c1, <2>c2, <2>c3, <2>c4, <2>c5, <2>c6, <2>c7, <2>c8, <2>c9, <2>c10, <2>c11, <2>c12, <2>c13, <2>c14, <2>c15
<1> QED BY <1>3, <1>5, <1>6 DEF Steps

(* The rows of the table of powers.                                         *)
LEMMA RowsOfPowTable ==
  \E row \in [Index -> Byte] :
    /\ row = CHOOSE f : f = [j \in Index |-> IF j = 0 THEN 1 ELSE NextRow(f[j - 1])]
    /\ row[0] = 1
    /\ \A j \in 1 .. 15 : row[j] = NextRow(row[j - 1])
<1> DEFINE G == [j \in 1 .. 15 |-> [x \in Byte |-> NextRow(x)]]
           Eq(f) == f = [j \in Index |-> IF j = 0 THEN 1 ELSE NextRow(f[j - 1])]
           row == CHOOSE f : Eq(f)
<1>1. \A x \in Byte : NextRow(x) \in Byte
  <2>1. \A x \in Byte : Times3(x) \in Byte
    BY TripledBits
  <2>2. \A x \in Byte : Times81(x) \in Byte
    BY <2>1, FourTimes
  <2> QED BY <2>2, FourTimes
<1>2. 1 \in Byte
  BY BytesAre
<1>3. PICK r \in [0 .. 15 -> Byte] : r[0] = 1 /\ \A j \in 1 .. 15 : r[j] = G[j][r[j - 1]]
  <2>1. \A j \in 1 .. 15 : \A x \in Byte : G[j][x] \in Byte
    BY <1>1
  <2>2. Keeps(G, Byte)
    BY <2>1 DEF Keeps
  <2> HIDE DEF G
  <2>3. \E f : Steps(f, G, Byte, 1)
    BY <1>2, <2>2, Iterates
  <2> QED BY <2>3 DEF Steps
<1>4. \A j \in 1 .. 15 : r[j] = NextRow(r[j - 1])
  BY <1>3
<1>5. r = [j \in Index |-> IF j = 0 THEN 1 ELSE NextRow(r[j - 1])]
  BY <1>3, <1>4 DEF Index
<1>6. row = [j \in Index |-> IF j = 0 THEN 1 ELSE NextRow(row[j - 1])]
  <2>1. Eq(r)
    BY <1>5
  <2>2. Eq(CHOOSE f : Eq(f))
    <3> HIDE DEF Eq
    <3> QED BY <2>1
  <2> QED BY <2>2
<1> HIDE DEF row
<1>7. row[0] = 1 /\ \A j \in 1 .. 15 : row[j] = NextRow(row[j - 1])
  <2>1. 0 \in Index /\ \A j \in 1 .. 15 : j \in Index /\ j # 0
    BY DEF Index
  <2> QED BY <1>6, <2>1
<1>8. row \in [Index -> Byte]
  <2> DEFINE S == {j \in Byte : j <= 15 => row[j] \in Byte}
  <2>1. 0 \in S
    BY <1>2, <1>7, BytesAre
  <2>2. ASSUME NEW j \in Int, 0 <= j, j < 255, j \in S  PROVE j + 1 \in S
    <3>1. j + 1 \in Byte
      BY <2>2, BytesAre
    <3>2. ASSUME j + 1 <= 15  PROVE row[j + 1] \in Byte
      <4>1. row[j] \in Byte /\ j + 1 \in 1 .. 15 /\ (j + 1) - 1 = j
        BY <2>2, <3>2
      <4> QED BY <1>1, <1>7, <4>1
    <3> QED BY <3>1, <3>2
  <2> HIDE DEF S
  <2>3. Byte \subseteq S
    BY <2>1, <2>2, HandedOnBytes
  <2>4. \A j \in Index : j \in Byte /\ j <= 15
    BY DEF Index, Byte
  <2>5. \A j \in Index : row[j] \in Byte
    BY <2>3, <2>4 DEF S
  <2>6. row = [j \in Index |-> row[j]]
    BY <1>6
  <2> QED BY <2>5, <2>6
<1> QED BY <1>7, <1>8 DEF row

(* PowTable holds the powers of 3 (aes.c:372-378).                          *)
LEMMA PowTableIsPowers == Powers3(PowTable)
<1>0. 1 \in 1 .. 15
  OBVIOUS
<1> DEFINE row == CHOOSE f : f = [j \in Index |-> IF j = 0 THEN 1 ELSE NextRow(f[j - 1])]
           Eq(f) == f = [i \in Byte |-> IF i % 16 = 0 THEN row[i \div 16] ELSE Times3(f[i - 1])]
           power == CHOOSE f : Eq(f)
           G == [j \in 1 .. 15 |-> [x \in Byte |-> Times3(x)]]
           Q == [h \in Index |-> CHOOSE q : Steps(q, G, Byte, row[h])]
           p == [i \in Byte |-> Q[i \div 16][i % 16]]
<1>1. /\ row \in [Index -> Byte]
      /\ row[0] = 1
      /\ \A j \in 1 .. 15 : row[j] = NextRow(row[j - 1])
  BY RowsOfPowTable, Zenon
<1>2. PowTable = power
  BY DEF PowTable, Table
<1> HIDE DEF row
<1>3. \A i \in Byte : /\ i \in Int /\ 0 <= i /\ i <= 255
                      /\ i \div 16 \in Index /\ i % 16 \in Index
                      /\ i % 16 # 0 => /\ i - 1 \in Byte /\ i % 16 \in 1 .. 15
                                       /\ (i - 1) \div 16 = i \div 16 /\ (i - 1) % 16 = (i % 16) - 1
  BY BytesAre DEF Index
<1>4. \A h \in Index : Steps(Q[h], G, Byte, row[h])
  <2>1. Keeps(G, Byte)
    <3>1. \A x \in Byte : Times3(x) \in Byte
      BY TripledBits
    <3> QED BY <3>1 DEF Keeps
  <2> HIDE DEF G
  <2>2. SUFFICES ASSUME NEW h \in Index  PROVE Steps(Q[h], G, Byte, row[h])
    OBVIOUS
  <2>3. row[h] \in Byte
    BY <1>1
  <2>4. \E q : Steps(q, G, Byte, row[h])
    BY <2>1, <2>3, Iterates
  <2>5. Steps(CHOOSE q : Steps(q, G, Byte, row[h]), G, Byte, row[h])
    BY <2>4, Zenon
  <2> QED BY <2>5
<1>5. \A h \in Index : Q[h][0] = row[h] /\ \A j \in 1 .. 15 : Q[h][j] = Times3(Q[h][j - 1])
  <2>1. SUFFICES \A h \in Index, j \in 1 .. 15 : Q[h][0] = row[h] /\ Q[h][j] = Times3(Q[h][j - 1])
    <3> HIDE DEF Q
    <3> QED BY <1>0, Zenon
  <2> SUFFICES ASSUME NEW h \in Index, NEW j \in 1 .. 15
               PROVE  Q[h][0] = row[h] /\ Q[h][j] = Times3(Q[h][j - 1])
    OBVIOUS
  <2>2. Steps(Q[h], G, Byte, row[h])
    BY <1>4
  <2> HIDE DEF Q
  <2>3. Q[h] \in [0 .. 15 -> Byte] /\ Q[h][0] = row[h] /\ Q[h][j] = G[j][Q[h][j - 1]]
    BY <2>2 DEF Steps
  <2>4. j - 1 \in 0 .. 15
    OBVIOUS
  <2>5. Q[h][j - 1] \in Byte
    BY <2>3, <2>4
  <2> QED BY <2>3, <2>5
<1> HIDE DEF Q, G
<1>6. Eq(power)
  <2>1. ASSUME NEW i \in Byte
        PROVE  p[i] = IF i % 16 = 0 THEN row[i \div 16] ELSE Times3(p[i - 1])
    <3>1. CASE i % 16 = 0
      BY <1>3, <1>5, <3>1
    <3>2. CASE i % 16 # 0
      BY <1>3, <1>5, <3>2
    <3> QED BY <3>1, <3>2
  <2>2. Eq(p)
    <3>1. p = [i \in Byte |-> p[i]]
      OBVIOUS
    <3> HIDE DEF p
    <3> QED BY <2>1, <3>1
  <2> HIDE DEF Eq
  <2> QED BY <2>2, Zenon
<1>7. \A i \in Byte : power[i] = IF i % 16 = 0 THEN row[i \div 16] ELSE Times3(power[i - 1])
  BY <1>6
<1> HIDE DEF power, p
<1>8. power[0] = 1
  <2>1. 0 \in Byte /\ 0 % 16 = 0 /\ 0 \div 16 = 0
    BY BytesAre
  <2> QED BY <1>1, <1>7, <2>1
<1>9. ASSUME NEW i \in Int, 0 <= i, i < 255  PROVE power[i + 1] = Times3(power[i])
  <2>1. i + 1 \in Byte /\ (i + 1) - 1 = i
    BY <1>9, BytesAre
  <2>2. CASE (i + 1) % 16 # 0
    BY <1>7, <2>1, <2>2
  <2>3. CASE (i + 1) % 16 = 0
    <3> DEFINE h == i \div 16
               b == 16 * h
    <3>1. h \in Int /\ 0 <= h /\ h < 15 /\ i = b + 15 /\ (i + 1) \div 16 = h + 1
      <4>1. h \in Int /\ 0 <= h /\ i = 16 * h + (i % 16) /\ i % 16 \in 0 .. 15
        BY <1>9
      <4>2. i % 16 = 15
        BY <1>9, <2>3, <4>1
      <4> HIDE DEF h
      <4>3. i = b + 15 /\ h < 15
        BY <1>9, <4>1, <4>2
      <4>4. i + 1 = 16 * (h + 1)
        BY <4>1, <4>3
      <4> QED BY <4>1, <4>3, <4>4
    <3>2. ASSUME NEW k \in Int, 0 <= k, k <= 15
          PROVE  b + k \in Byte /\ (b + k) \div 16 = h /\ (b + k) % 16 = k
      BY <3>1, <3>2, BytesAre
    <3>3. h + 1 \in 1 .. 15 /\ (h + 1) - 1 = h
      BY <3>1
    <3>4. power[i + 1] = NextRow(row[h])
      BY <1>1, <1>7, <2>1, <2>3, <3>1, <3>3
    <3>5. b + 0 = b /\ power[b] = row[h]
      <4>1. b + 0 \in Byte /\ (b + 0) \div 16 = h /\ (b + 0) % 16 = 0 /\ b + 0 = b
        BY <3>1, <3>2
      <4> HIDE DEF h, b
      <4> QED BY <1>7, <4>1
    <3>6. ASSUME NEW k \in Int, 0 <= k, k < 15
          PROVE  power[b + (k + 1)] = Times3(power[b + k])
      <4> HIDE DEF h, b
      <4>1. b + (k + 1) \in Byte /\ (b + (k + 1)) % 16 = k + 1
        BY <3>2, <3>6
      <4>2. b \in Int
        BY <3>1 DEF b
      <4>3. (b + (k + 1)) - 1 = b + k /\ k + 1 # 0
        BY <3>6, <4>2
      <4> QED BY <1>7, <4>1, <4>3
    <3> HIDE DEF h, b
    <3>7. /\ power[b + 1] = Times3(power[b])
          /\ power[b + 2] = Times3(power[b + 1])
          /\ power[b + 3] = Times3(power[b + 2])
          /\ power[b + 4] = Times3(power[b + 3])
          /\ power[b + 5] = Times3(power[b + 4])
          /\ power[b + 6] = Times3(power[b + 5])
          /\ power[b + 7] = Times3(power[b + 6])
          /\ power[b + 8] = Times3(power[b + 7])
          /\ power[b + 9] = Times3(power[b + 8])
          /\ power[b + 10] = Times3(power[b + 9])
          /\ power[b + 11] = Times3(power[b + 10])
          /\ power[b + 12] = Times3(power[b + 11])
          /\ power[b + 13] = Times3(power[b + 12])
          /\ power[b + 14] = Times3(power[b + 13])
          /\ power[b + 15] = Times3(power[b + 14])
      BY <3>5, <3>6
    <3>8. /\ power[b + 4] = Times81(row[h])
          /\ power[b + 8] = Times81(power[b + 4])
          /\ power[b + 12] = Times81(power[b + 8])
          /\ Times3(power[b + 15]) = Times81(power[b + 12])
      <4>1. \A x : Times81(x) = Times3(Times3(Times3(Times3(x))))
        BY FourTimes
      <4>2. power[b + 4] = Times81(row[h])
        BY <3>5, <3>7, <4>1
      <4>3. power[b + 8] = Times81(power[b + 4])
        BY <3>7, <4>1
      <4>4. power[b + 12] = Times81(power[b + 8])
        BY <3>7, <4>1
      <4>5. Times3(power[b + 15]) = Times81(power[b + 12])
        BY <3>7, <4>1
      <4> QED BY <4>2, <4>3, <4>4, <4>5
    <3>9. Times3(power[b + 15]) = NextRow(row[h])
      <4>1. \A x : NextRow(x) = Times81(Times81(Times81(Times81(x))))
        BY FourTimes
      <4> QED BY <3>8, <4>1, Zenon
    <3> QED BY <3>1, <3>4, <3>9
  <2> QED BY <2>2, <2>3
<1> QED BY <1>2, <1>8, <1>9 DEF Powers3

(* The tables that aes_gen_tables returns, by name.                         *)
Pw == PowTable
Lg == LogTable(Pw)
Sb == FSbTable(Pw, Lg)
Rb == RSbTable(Sb)
(* Unfolding aes_gen_tables.                                                *)
LEMMA TablesAre == aes_gen_tables = TablesOf(Pw, Lg, Sb, Rb)
<1>1. ASSUME NEW p, NEW l, NEW s
      PROVE  With(RSbTable(s), LAMBDA rsb : TablesOf(p, l, s, rsb)) = TablesOf(p, l, s, RSbTable(s))
  BY DEF With
<1>2. ASSUME NEW p, NEW l
      PROVE  With(FSbTable(p, l), LAMBDA fsb : With(RSbTable(fsb), LAMBDA rsb : TablesOf(p, l, fsb, rsb)))
               = With(RSbTable(FSbTable(p, l)), LAMBDA rsb : TablesOf(p, l, FSbTable(p, l), rsb))
  BY DEF With
<1>3. ASSUME NEW p
      PROVE  With(LogTable(p), LAMBDA log : With(FSbTable(p, log), LAMBDA fsb :
                 With(RSbTable(fsb), LAMBDA rsb : TablesOf(p, log, fsb, rsb))))
               = With(FSbTable(p, LogTable(p)), LAMBDA fsb :
                   With(RSbTable(fsb), LAMBDA rsb : TablesOf(p, LogTable(p), fsb, rsb)))
  BY DEF With
<1> QED BY <1>1, <1>2, <1>3 DEF aes_gen_tables, With, Pw, Lg, Sb, Rb

(* Logarithms.                                                              *)
LEMMA Logarithms ==
  /\ Powers3(Pw)
  /\ \A x \in Exponent : Lg[x] \in Exponent /\ Pw[Lg[x]] = x
  /\ \A i \in Exponent : Pw[i] \in Exponent /\ Lg[Pw[i]] = i
<1>1. Powers3(Pw)
  BY PowTableIsPowers DEF Pw
<1> DEFINE E == 1 .. 255
<1>2. Exponent = E
  BY ExponentsAre
<1>3. Lg = [x \in Exponent |-> CHOOSE i \in Exponent : Pw[i] = x]
  <2>1. \A f : (CHOOSE t \in {f} : t = t) = f
    OBVIOUS
  <2>2. LogTable(Pw) = [x \in E |-> CHOOSE i \in E : Pw[i] = x]
    BY <2>1, Zenon DEF LogTable, Table
  <2> HIDE DEF E
  <2> QED BY <1>2, <2>2 DEF Lg
<1>4. \A x \in Exponent : Lg[x] \in Exponent /\ Pw[Lg[x]] = x
  <2>1. SUFFICES ASSUME NEW x \in Exponent  PROVE Lg[x] \in Exponent /\ Pw[Lg[x]] = x
    OBVIOUS
  <2>2. \E i \in Exponent : Pw[i] = x
    BY <1>1, PowersAreAll
  <2>3. Lg[x] = CHOOSE i \in Exponent : Pw[i] = x
    BY <1>3
  <2> QED BY <2>2, <2>3
<1>5. ASSUME NEW i \in Exponent  PROVE Pw[i] \in Exponent /\ Lg[Pw[i]] = i
  <2>1. Pw[i] \in Exponent
    BY <1>1, PowersAreBytes, ExponentsAre
  <2>2. Lg[Pw[i]] \in Exponent /\ Pw[Lg[Pw[i]]] = Pw[i]
    BY <1>4, <2>1
  <2>3. Lg[Pw[i]] < i \/ i < Lg[Pw[i]] \/ i = Lg[Pw[i]]
    BY <2>2, ExponentsAre
  <2> QED BY <1>1, <2>1, <2>2, <2>3, PowersDiffer
<1> QED BY <1>1, <1>4, <1>5

(* The powers come round after 255.                                         *)
LEMMA PowersComeRound ==
  \A e \in Int : 0 <= e => Pw[e % 255] \in Exponent /\ Pw[(e + 1) % 255] = Times3(Pw[e % 255])
<1> SUFFICES ASSUME NEW e \in Int, 0 <= e
             PROVE  Pw[e % 255] \in Exponent /\ Pw[(e + 1) % 255] = Times3(Pw[e % 255])
  OBVIOUS
<1>1. e % 255 \in Int /\ 0 <= e % 255 /\ e % 255 < 255
  OBVIOUS
<1>2. e % 255 < 254 => (e + 1) % 255 = (e % 255) + 1
  OBVIOUS
<1>3. e % 255 = 254 => (e + 1) % 255 = 0 /\ (e % 255) + 1 = 255
  OBVIOUS
<1>4. Powers3(Pw)
  BY Logarithms
<1>5. Pw[(e % 255) + 1] = Times3(Pw[e % 255])
  BY <1>1, <1>4 DEF Powers3
<1>6. Pw[0] = 1 /\ Pw[255] = 1
  BY <1>4, OrderOfThree DEF Powers3
<1>7. Pw[e % 255] \in Exponent
  BY <1>1, <1>4, PowersAreBytes, BytesAre
<1>8. CASE e % 255 < 254
  BY <1>2, <1>5, <1>7, <1>8
<1>9. CASE e % 255 = 254
  BY <1>3, <1>5, <1>6, <1>7, <1>9
<1> QED BY <1>1, <1>8, <1>9

(* MUL of the code: it takes 0 to 0, 1 to its first factor and commutes     *)
(* with the generator.                                                      *)
LEMMA ProductsAre ==
  ASSUME NEW a \in Exponent
  PROVE  /\ MUL(Pw, Lg, a, 0) = 0
         /\ MUL(Pw, Lg, a, 1) = a
         /\ \A y \in Exponent : MUL(Pw, Lg, a, y) \in Exponent
         /\ \A i \in Int : 0 <= i /\ i < 255 => MUL(Pw, Lg, a, Pw[i + 1]) = Times3(MUL(Pw, Lg, a, Pw[i]))
<1>1. Lg[a] \in Int /\ 1 <= Lg[a] /\ Lg[a] <= 255 /\ Pw[Lg[a]] = a
  BY Logarithms, ExponentsAre
<1>2. MUL(Pw, Lg, a, 0) = 0
  BY DEF MUL
<1>3. Pw[0] = 1 /\ Pw[255] = 1
  BY Logarithms, OrderOfThree DEF Powers3
<1>4. ASSUME NEW i \in Exponent  PROVE MUL(Pw, Lg, a, Pw[i]) = Pw[(Lg[a] + i) % 255]
  <2>1. Pw[i] # 0 /\ Lg[Pw[i]] = i
    BY Logarithms DEF Exponent
  <2> QED BY <2>1, Zenon DEF MUL
<1>5. 255 \in Exponent
  BY ExponentsAre
<1>6. (Lg[a] + 255) % 255 = Lg[a] % 255
  BY <1>1
<1>7. Pw[Lg[a] % 255] = a
  <2>1. CASE Lg[a] = 255
    <3>1. 255 % 255 = 0
      OBVIOUS
    <3> QED BY <1>1, <1>3, <2>1, <3>1
  <2>2. CASE Lg[a] < 255
    <3>1. Lg[a] % 255 = Lg[a]
      BY <1>1, <2>2
    <3> QED BY <1>1, <3>1
  <2> QED BY <1>1, <2>1, <2>2
<1>8. MUL(Pw, Lg, a, 1) = a
  BY <1>3, <1>4, <1>5, <1>6, <1>7
<1>9. ASSUME NEW y \in Exponent  PROVE MUL(Pw, Lg, a, y) \in Exponent
  <2>1. Lg[y] \in Exponent /\ Pw[Lg[y]] = y
    BY Logarithms
  <2>2. Lg[a] + Lg[y] \in Int /\ 0 <= Lg[a] + Lg[y]
    BY <1>1, <2>1, ExponentsAre
  <2>3. MUL(Pw, Lg, a, y) = Pw[(Lg[a] + Lg[y]) % 255]
    BY <1>4, <2>1
  <2> QED BY <2>2, <2>3, PowersComeRound
<1>10. ASSUME NEW i \in Int, 0 <= i, i < 255
       PROVE  MUL(Pw, Lg, a, Pw[i + 1]) = Times3(MUL(Pw, Lg, a, Pw[i]))
  <2>1. i + 1 \in Exponent
    BY <1>10, ExponentsAre
  <2>2. MUL(Pw, Lg, a, Pw[i + 1]) = Pw[(Lg[a] + (i + 1)) % 255]
    BY <1>4, <2>1
  <2>3. MUL(Pw, Lg, a, Pw[i]) = Pw[(Lg[a] + i) % 255]
    <3>1. CASE i = 0
      <4>1. Lg[a] + i = Lg[a]
        BY <1>1, <3>1
      <4> QED BY <1>3, <1>7, <1>8, <3>1, <4>1
    <3>2. CASE i # 0
      <4>1. i \in Exponent
        BY <1>10, <3>2, ExponentsAre
      <4> QED BY <1>4, <4>1
    <3> QED BY <3>1, <3>2
  <2>4. Lg[a] + i \in Int /\ 0 <= Lg[a] + i /\ Lg[a] + (i + 1) = (Lg[a] + i) + 1
    BY <1>1, <1>10
  <2> QED BY <2>2, <2>3, <2>4, PowersComeRound
<1> QED BY <1>2, <1>8, <1>9, <1>10

-----------------------------------------------------------------------------
(* Multiplying by way of the logarithms.                                    *)

(* A product is known once it is known to commute with the generator.       *)
LEMMA ProductIs ==
  ASSUME NEW a \in Exponent, NEW F, F[0] = 0, F[1] = a,
         \A y \in Byte : F[Times3(y)] = Times3(F[y])
  PROVE  \A y \in Byte : MUL(Pw, Lg, a, y) = F[y]
<1> DEFINE S == {i \in Byte : MUL(Pw, Lg, a, Pw[i]) = F[Pw[i]]}
<1>1. Powers3(Pw)
  BY Logarithms
<1>2. 0 \in S
  BY <1>1, BytesAre, ProductsAre DEF Powers3
<1>3. ASSUME NEW i \in Int, 0 <= i, i < 255, i \in S  PROVE i + 1 \in S
  <2>1. i + 1 \in Byte /\ i \in Byte
    BY <1>3, BytesAre
  <2>2. MUL(Pw, Lg, a, Pw[i + 1]) = Times3(MUL(Pw, Lg, a, Pw[i]))
    BY <1>3, ProductsAre
  <2>3. Pw[i + 1] = Times3(Pw[i]) /\ Pw[i] \in Byte
    BY <1>1, <1>3, <2>1, PowersAreBytes DEF Powers3
  <2>4. MUL(Pw, Lg, a, Pw[i]) = F[Pw[i]]
    BY <1>3
  <2>5. F[Times3(Pw[i])] = Times3(F[Pw[i]])
    BY <2>3
  <2>6. MUL(Pw, Lg, a, Pw[i + 1]) = F[Pw[i + 1]]
    BY <2>2, <2>3, <2>4, <2>5
  <2> QED BY <2>1, <2>6
<1> HIDE DEF S
<1>4. Byte \subseteq S
  BY <1>2, <1>3, HandedOnBytes
<1>5. ASSUME NEW y \in Byte, y # 0  PROVE MUL(Pw, Lg, a, y) = F[y]
  <2>1. y \in Exponent
    BY <1>5 DEF Exponent
  <2>2. Lg[y] \in Byte /\ Pw[Lg[y]] = y
    BY <2>1, Logarithms, ExponentsAre
  <2> QED BY <1>4, <2>2 DEF S
<1>6. MUL(Pw, Lg, a, 0) = F[0]
  BY ProductsAre
<1> QED BY <1>5, <1>6

(* The products that InvMixColumns takes, as sums of doubled bytes.         *)
X2(x) == XTIME(XTIME(x))
X3(x) == XTIME(X2(x))
Inv14(x) == Xor(Xor(X3(x), X2(x)), XTIME(x))
Inv9(x)  == Xor(X3(x), x)
Inv13(x) == Xor(Xor(X3(x), X2(x)), x)
Inv11(x) == Xor(Xor(X3(x), XTIME(x)), x)

(* Multiples of a byte are bytes.                                           *)
LEMMA InvBytes ==
  ASSUME NEW x \in Byte
  PROVE  /\ XTIME(x) \in Byte /\ X2(x) \in Byte /\ X3(x) \in Byte
         /\ Inv14(x) \in Byte /\ Inv9(x) \in Byte /\ Inv13(x) \in Byte /\ Inv11(x) \in Byte
<1>1. XTIME(x) \in Byte /\ X2(x) \in Byte /\ X3(x) \in Byte
  BY XTimeBits DEF X2, X3
<1> QED BY <1>1, XorFacts DEF Inv14, Inv9, Inv13, Inv11

(* The four factors of InvMixColumns, times one.                            *)
LEMMA InvOfOne ==
  /\ Inv14(0) = 0 /\ Inv9(0) = 0 /\ Inv13(0) = 0 /\ Inv11(0) = 0
  /\ Inv14(1) = 14 /\ Inv9(1) = 9 /\ Inv13(1) = 13 /\ Inv11(1) = 11
<1>1. Xor(0, 0) = 0 /\ Xor(2, 0) = 2 /\ Xor(4, 0) = 4 /\ Xor(8, 0) = 8
  <2>1. 0 \in Byte /\ 2 \in Byte /\ 4 \in Byte /\ 8 \in Byte
    BY BytesAre
  <2> QED BY <2>1, XorAlgebra
<1>2. XTIME(0) = 0 /\ XTIME(1) = 2 /\ XTIME(2) = 4 /\ XTIME(4) = 8
  BY <1>1 DEF XTIME
<1>3. /\ Nibble(0, 0) = 0 /\ Nibble(8, 4) = 12 /\ Nibble(12, 2) = 14 /\ Nibble(8, 1) = 9
      /\ Nibble(12, 1) = 13 /\ Nibble(8, 2) = 10 /\ Nibble(10, 1) = 11
  BY DEF Nibble, XorNibble
<1>4. \A x, y \in Byte : x < 16 /\ y < 16 => Xor(x, y) = 16 * Nibble(0, 0) + Nibble(x, y)
  <2>1. \A x \in Byte : x < 16 => x \div 16 = 0 /\ x % 16 = x
    BY BytesAre
  <2> QED BY <2>1 DEF Xor, Nibble
<1>5. /\ 8 \in Byte /\ 4 \in Byte /\ 12 \in Byte /\ 2 \in Byte /\ 1 \in Byte /\ 10 \in Byte
  BY BytesAre
<1>6. /\ Xor(8, 4) = 12 /\ Xor(12, 2) = 14 /\ Xor(8, 1) = 9
      /\ Xor(12, 1) = 13 /\ Xor(8, 2) = 10 /\ Xor(10, 1) = 11
  BY <1>3, <1>4, <1>5
<1> QED BY <1>1, <1>2, <1>6, Zenon DEF Inv14, Inv9, Inv13, Inv11, X2, X3

(* The four multiples commute with the generator.                           *)
LEMMA InvTripled ==
  ASSUME NEW x \in Byte
  PROVE  /\ Inv14(Times3(x)) = Times3(Inv14(x)) /\ Inv9(Times3(x)) = Times3(Inv9(x))
         /\ Inv13(Times3(x)) = Times3(Inv13(x)) /\ Inv11(Times3(x)) = Times3(Inv11(x))
<1>1. XTIME(x) \in Byte /\ X2(x) \in Byte /\ X3(x) \in Byte /\ Times3(x) \in Byte
  BY InvBytes, TripledBits
<1>2. /\ XTIME(Times3(x)) = Times3(XTIME(x))
      /\ X2(Times3(x)) = Times3(X2(x))
      /\ X3(Times3(x)) = Times3(X3(x))
  <2>1. \A y \in Byte : XTIME(Times3(y)) = Times3(XTIME(y))
    BY TripledFacts
  <2> QED BY <1>1, <2>1 DEF X2, X3
<1>3. \A y, z \in Byte : Times3(Xor(y, z)) = Xor(Times3(y), Times3(z))
  BY TripledFacts
<1>4. ASSUME NEW y \in Byte, NEW z \in Byte, NEW u \in Byte
      PROVE  Times3(Xor(Xor(y, z), u)) = Xor(Xor(Times3(y), Times3(z)), Times3(u))
  <2>1. Xor(y, z) \in Byte
    BY XorFacts
  <2> QED BY <1>3, <2>1
<1>5. Inv14(Times3(x)) = Times3(Inv14(x))
  BY <1>1, <1>2, <1>4 DEF Inv14
<1>6. Inv9(Times3(x)) = Times3(Inv9(x))
  BY <1>1, <1>2, <1>3 DEF Inv9
<1>7. Inv13(Times3(x)) = Times3(Inv13(x))
  BY <1>1, <1>2, <1>4 DEF Inv13
<1>8. Inv11(Times3(x)) = Times3(Inv11(x))
  BY <1>1, <1>2, <1>4 DEF Inv11
<1> QED BY <1>5, <1>6, <1>7, <1>8

(* MUL of the factors 9, 11, 13 and 14 by doubling and adding.              *)
LEMMA InvProducts ==
  ASSUME NEW x \in Byte
  PROVE  /\ MUL(Pw, Lg, 14, x) = Inv14(x) /\ MUL(Pw, Lg, 9, x) = Inv9(x)
         /\ MUL(Pw, Lg, 13, x) = Inv13(x) /\ MUL(Pw, Lg, 11, x) = Inv11(x)
<1>1. /\ \A y \in Byte : Times3(y) \in Byte
      /\ 0 \in Byte /\ 1 \in Byte
      /\ 14 \in Exponent /\ 9 \in Exponent /\ 13 \in Exponent /\ 11 \in Exponent
  BY TripledBits, BytesAre, ExponentsAre
<1>2. MUL(Pw, Lg, 14, x) = Inv14(x)
  <2> DEFINE F == [y \in Byte |-> Inv14(y)]
  <2>1. F[0] = 0 /\ F[1] = 14 /\ \A y \in Byte : F[Times3(y)] = Times3(F[y])
    BY <1>1, InvOfOne, InvTripled
  <2>2. F[x] = Inv14(x)
    OBVIOUS
  <2> HIDE DEF F
  <2> QED BY <1>1, <2>1, <2>2, ProductIs
<1>3. MUL(Pw, Lg, 9, x) = Inv9(x)
  <2> DEFINE F == [y \in Byte |-> Inv9(y)]
  <2>1. F[0] = 0 /\ F[1] = 9 /\ \A y \in Byte : F[Times3(y)] = Times3(F[y])
    BY <1>1, InvOfOne, InvTripled
  <2>2. F[x] = Inv9(x)
    OBVIOUS
  <2> HIDE DEF F
  <2> QED BY <1>1, <2>1, <2>2, ProductIs
<1>4. MUL(Pw, Lg, 13, x) = Inv13(x)
  <2> DEFINE F == [y \in Byte |-> Inv13(y)]
  <2>1. F[0] = 0 /\ F[1] = 13 /\ \A y \in Byte : F[Times3(y)] = Times3(F[y])
    BY <1>1, InvOfOne, InvTripled
  <2>2. F[x] = Inv13(x)
    OBVIOUS
  <2> HIDE DEF F
  <2> QED BY <1>1, <2>1, <2>2, ProductIs
<1>5. MUL(Pw, Lg, 11, x) = Inv11(x)
  <2> DEFINE F == [y \in Byte |-> Inv11(y)]
  <2>1. F[0] = 0 /\ F[1] = 11 /\ \A y \in Byte : F[Times3(y)] = Times3(F[y])
    BY <1>1, InvOfOne, InvTripled
  <2>2. F[x] = Inv11(x)
    OBVIOUS
  <2> HIDE DEF F
  <2> QED BY <1>1, <2>1, <2>2, ProductIs
<1> QED BY <1>2, <1>3, <1>4, <1>5

(* Doubling twice and thrice is linear.                                     *)
LEMMA XTimesSum ==
  ASSUME NEW x \in Byte, NEW y \in Byte
  PROVE  /\ X2(Xor(x, y)) = Xor(X2(x), X2(y))
         /\ X3(Xor(x, y)) = Xor(X3(x), X3(y))
<1>1. XTIME(x) \in Byte /\ X2(x) \in Byte /\ XTIME(y) \in Byte /\ X2(y) \in Byte
  BY InvBytes
<1>2. X2(Xor(x, y)) = Xor(X2(x), X2(y))
  BY <1>1, XTimeSum DEF X2
<1>3. X3(Xor(x, y)) = Xor(X3(x), X3(y))
  BY <1>1, <1>2, XTimeSum DEF X3
<1> QED BY <1>2, <1>3

(* Sums of six, in another order.                                           *)
LEMMA SumOfSums ==
  ASSUME NEW a \in Byte, NEW b \in Byte, NEW c \in Byte, NEW d \in Byte
  PROVE  /\ Xor(Xor(a, b), Xor(c, d)) = Xor(Xor(a, c), Xor(b, d))
         /\ Xor(Xor(a, b), Xor(c, d)) \in Byte
<1>1. Xor(a, b) \in Byte /\ Xor(c, d) \in Byte /\ Xor(a, c) \in Byte /\ Xor(b, d) \in Byte
  BY XorFacts
<1>2. Xor(Xor(a, b), Xor(c, d)) \in Byte /\ Xor(Xor(a, c), Xor(b, d)) \in Byte
  BY <1>1, XorFacts
<1>3. ASSUME NEW k \in 0 .. 7
      PROVE  IsSet(Xor(Xor(a, b), Xor(c, d)), k) <=> IsSet(Xor(Xor(a, c), Xor(b, d)), k)
  <2>1. /\ IsSet(Xor(a, b), k) <=> ~(IsSet(a, k) <=> IsSet(b, k))
        /\ IsSet(Xor(c, d), k) <=> ~(IsSet(c, k) <=> IsSet(d, k))
        /\ IsSet(Xor(a, c), k) <=> ~(IsSet(a, k) <=> IsSet(c, k))
        /\ IsSet(Xor(b, d), k) <=> ~(IsSet(b, k) <=> IsSet(d, k))
    BY XorBits
  <2>2. /\ IsSet(Xor(Xor(a, b), Xor(c, d)), k) <=> ~(IsSet(Xor(a, b), k) <=> IsSet(Xor(c, d), k))
        /\ IsSet(Xor(Xor(a, c), Xor(b, d)), k) <=> ~(IsSet(Xor(a, c), k) <=> IsSet(Xor(b, d), k))
    BY <1>1, XorBits
  <2> QED BY <2>1, <2>2
<1> QED BY <1>2, <1>3, ByteIsBits

(* So are the four multiples.                                               *)
LEMMA InvSum ==
  ASSUME NEW x \in Byte, NEW y \in Byte
  PROVE  /\ Inv14(Xor(x, y)) = Xor(Inv14(x), Inv14(y)) /\ Inv9(Xor(x, y)) = Xor(Inv9(x), Inv9(y))
         /\ Inv13(Xor(x, y)) = Xor(Inv13(x), Inv13(y)) /\ Inv11(Xor(x, y)) = Xor(Inv11(x), Inv11(y))
<1>1. /\ XTIME(x) \in Byte /\ X2(x) \in Byte /\ X3(x) \in Byte
      /\ XTIME(y) \in Byte /\ X2(y) \in Byte /\ X3(y) \in Byte
  BY InvBytes
<1>2. /\ XTIME(Xor(x, y)) = Xor(XTIME(x), XTIME(y))
      /\ X2(Xor(x, y)) = Xor(X2(x), X2(y))
      /\ X3(Xor(x, y)) = Xor(X3(x), X3(y))
  BY XTimeSum, XTimesSum
<1>3. ASSUME NEW a \in Byte, NEW b \in Byte, NEW c \in Byte, NEW d \in Byte
      PROVE  Xor(Xor(a, b), Xor(c, d)) = Xor(Xor(a, c), Xor(b, d))
  BY SumOfSums
<1>4. /\ Xor(X3(x), X2(x)) \in Byte /\ Xor(X3(y), X2(y)) \in Byte
      /\ Xor(X3(x), XTIME(x)) \in Byte /\ Xor(X3(y), XTIME(y)) \in Byte
  BY <1>1, XorFacts
<1>5. Inv9(Xor(x, y)) = Xor(Inv9(x), Inv9(y))
  BY <1>1, <1>2, <1>3 DEF Inv9
<1>6. /\ Xor(X3(Xor(x, y)), X2(Xor(x, y))) = Xor(Xor(X3(x), X2(x)), Xor(X3(y), X2(y)))
      /\ Xor(X3(Xor(x, y)), XTIME(Xor(x, y))) = Xor(Xor(X3(x), XTIME(x)), Xor(X3(y), XTIME(y)))
  BY <1>1, <1>2, <1>3
<1>7. Inv14(Xor(x, y)) = Xor(Inv14(x), Inv14(y))
  BY <1>1, <1>2, <1>3, <1>4, <1>6 DEF Inv14
<1>8. Inv13(Xor(x, y)) = Xor(Inv13(x), Inv13(y))
  BY <1>1, <1>2, <1>3, <1>4, <1>6 DEF Inv13
<1>9. Inv11(Xor(x, y)) = Xor(Inv11(x), Inv11(y))
  BY <1>1, <1>2, <1>3, <1>4, <1>6 DEF Inv11
<1> QED BY <1>5, <1>7, <1>8, <1>9

(* The four multiples, bit by bit.                                          *)
LEMMA InvBits ==
  ASSUME NEW x \in Byte, NEW k \in 0 .. 7
  PROVE  /\ IsSet(Inv14(x), k) <=> ~(~(IsSet(X3(x), k) <=> IsSet(X2(x), k)) <=> IsSet(XTIME(x), k))
         /\ IsSet(Inv9(x), k) <=> ~(IsSet(X3(x), k) <=> IsSet(x, k))
         /\ IsSet(Inv13(x), k) <=> ~(~(IsSet(X3(x), k) <=> IsSet(X2(x), k)) <=> IsSet(x, k))
         /\ IsSet(Inv11(x), k) <=> ~(~(IsSet(X3(x), k) <=> IsSet(XTIME(x), k)) <=> IsSet(x, k))
<1>1. XTIME(x) \in Byte /\ X2(x) \in Byte /\ X3(x) \in Byte
  BY InvBytes
<1>2. Xor(X3(x), X2(x)) \in Byte /\ Xor(X3(x), XTIME(x)) \in Byte
  BY <1>1, XorFacts
<1> QED BY <1>1, <1>2, XorBits DEF Inv14, Inv9, Inv13, Inv11

(* What MixColumns makes of one byte, InvMixColumns gathers again.  a is    *)
(* the byte, d its double and t three times it.                             *)
LEMMA InvOfForth ==
  ASSUME NEW x \in Byte, NEW d, d = XTIME(x), NEW t, t = Xor(d, x)
  PROVE  /\ Xor(Xor(Inv14(d), Inv11(x)), Xor(Inv13(x), Inv9(t))) = x
         /\ Xor(Xor(Inv9(d), Inv14(x)), Xor(Inv11(x), Inv13(t))) = 0
         /\ Xor(Xor(Inv13(d), Inv9(x)), Xor(Inv14(x), Inv11(t))) = 0
         /\ Xor(Xor(Inv11(d), Inv13(x)), Xor(Inv9(x), Inv14(t))) = 0
         /\ Xor(Xor(Inv14(t), Inv11(d)), Xor(Inv13(x), Inv9(x))) = 0
         /\ Xor(Xor(Inv9(t), Inv14(d)), Xor(Inv11(x), Inv13(x))) = x
         /\ Xor(Xor(Inv13(t), Inv9(d)), Xor(Inv14(x), Inv11(x))) = 0
         /\ Xor(Xor(Inv11(t), Inv13(d)), Xor(Inv9(x), Inv14(x))) = 0
         /\ Xor(Xor(Inv14(x), Inv11(t)), Xor(Inv13(d), Inv9(x))) = 0
         /\ Xor(Xor(Inv9(x), Inv14(t)), Xor(Inv11(d), Inv13(x))) = 0
         /\ Xor(Xor(Inv13(x), Inv9(t)), Xor(Inv14(d), Inv11(x))) = x
         /\ Xor(Xor(Inv11(x), Inv13(t)), Xor(Inv9(d), Inv14(x))) = 0
         /\ Xor(Xor(Inv14(x), Inv11(x)), Xor(Inv13(t), Inv9(d))) = 0
         /\ Xor(Xor(Inv9(x), Inv14(x)), Xor(Inv11(t), Inv13(d))) = 0
         /\ Xor(Xor(Inv13(x), Inv9(x)), Xor(Inv14(t), Inv11(d))) = 0
         /\ Xor(Xor(Inv11(x), Inv13(x)), Xor(Inv9(t), Inv14(d))) = x
<1> DEFINE p0(k) == IsSet(x, k)
           p1(k) == IsSet(XTIME(x), k)
           p2(k) == IsSet(X2(x), k)
           p3(k) == IsSet(X3(x), k)
           p4(k) == IsSet(XTIME(X3(x)), k)
<1>1. d \in Byte /\ t \in Byte /\ 0 \in Byte
  BY InvBytes, XorFacts, BytesAre
<1>2. /\ Inv14(x) \in Byte /\ Inv9(x) \in Byte /\ Inv13(x) \in Byte /\ Inv11(x) \in Byte
      /\ Inv14(d) \in Byte /\ Inv9(d) \in Byte /\ Inv13(d) \in Byte /\ Inv11(d) \in Byte
      /\ Inv14(t) \in Byte /\ Inv9(t) \in Byte /\ Inv13(t) \in Byte /\ Inv11(t) \in Byte
  BY <1>1, InvBytes
<1>3. XTIME(d) = X2(x) /\ X2(d) = X3(x) /\ X3(d) = XTIME(X3(x))
  BY DEF X2, X3
<1>4. ASSUME NEW k \in 0 .. 7
      PROVE            /\ IsSet(Inv14(x), k) <=> ~(~(p3(k) <=> p2(k)) <=> p1(k))
                       /\ IsSet(Inv9(x), k) <=> ~(p3(k) <=> p0(k))
                       /\ IsSet(Inv13(x), k) <=> ~(~(p3(k) <=> p2(k)) <=> p0(k))
                       /\ IsSet(Inv11(x), k) <=> ~(~(p3(k) <=> p1(k)) <=> p0(k))
  BY InvBits
<1>5. ASSUME NEW k \in 0 .. 7
      PROVE            /\ IsSet(Inv14(d), k) <=> ~(~(p4(k) <=> p3(k)) <=> p2(k))
                       /\ IsSet(Inv9(d), k) <=> ~(p4(k) <=> p1(k))
                       /\ IsSet(Inv13(d), k) <=> ~(~(p4(k) <=> p3(k)) <=> p1(k))
                       /\ IsSet(Inv11(d), k) <=> ~(~(p4(k) <=> p2(k)) <=> p1(k))
  BY <1>1, <1>3, InvBits
<1>6. ASSUME NEW k \in 0 .. 7
      PROVE            /\ IsSet(Inv14(t), k) <=> ~(IsSet(Inv14(d), k) <=> IsSet(Inv14(x), k))
                       /\ IsSet(Inv9(t), k) <=> ~(IsSet(Inv9(d), k) <=> IsSet(Inv9(x), k))
                       /\ IsSet(Inv13(t), k) <=> ~(IsSet(Inv13(d), k) <=> IsSet(Inv13(x), k))
                       /\ IsSet(Inv11(t), k) <=> ~(IsSet(Inv11(d), k) <=> IsSet(Inv11(x), k))
  <2>1. /\ Inv14(t) = Xor(Inv14(d), Inv14(x)) /\ Inv9(t) = Xor(Inv9(d), Inv9(x))
        /\ Inv13(t) = Xor(Inv13(d), Inv13(x)) /\ Inv11(t) = Xor(Inv11(d), Inv11(x))
    BY <1>1, InvSum
  <2> QED BY <1>2, <2>1, XorBits
<1> HIDE DEF p0, p1, p2, p3, p4
<1>7. ASSUME NEW a \in Byte, NEW b \in Byte, NEW c \in Byte, NEW e \in Byte
      PROVE  /\ Xor(Xor(a, b), Xor(c, e)) \in Byte
             /\ \A k \in 0 .. 7 : IsSet(Xor(Xor(a, b), Xor(c, e)), k)
                  <=> ~(~(IsSet(a, k) <=> IsSet(b, k)) <=> ~(IsSet(c, k) <=> IsSet(e, k)))
  <2>1. Xor(a, b) \in Byte /\ Xor(c, e) \in Byte
    BY XorFacts
  <2>2. ASSUME NEW k \in 0 .. 7
        PROVE  IsSet(Xor(Xor(a, b), Xor(c, e)), k)
                 <=> ~(~(IsSet(a, k) <=> IsSet(b, k)) <=> ~(IsSet(c, k) <=> IsSet(e, k)))
    BY <2>1, XorBits
  <2> QED BY <2>1, <2>2, XorFacts
<1>8. \A k \in 0 .. 7 : (IsSet(x, k) <=> p0(k)) /\ ~IsSet(0, k)
  BY ConstantBits DEF p0
<1>9. ASSUME NEW k \in 0 .. 7
      PROVE  /\ (IsSet(x, k) <=> p0(k)) /\ ~IsSet(0, k)
             /\ IsSet(Inv14(x), k) <=> ~(~(p3(k) <=> p2(k)) <=> p1(k))
             /\ IsSet(Inv14(d), k) <=> ~(~(p4(k) <=> p3(k)) <=> p2(k))
             /\ IsSet(Inv14(t), k) <=> ~(p4(k) <=> p1(k))
             /\ IsSet(Inv9(x), k) <=> ~(p3(k) <=> p0(k))
             /\ IsSet(Inv9(d), k) <=> ~(p4(k) <=> p1(k))
             /\ IsSet(Inv9(t), k) <=> ~(~(~(p4(k) <=> p3(k)) <=> p1(k)) <=> p0(k))
             /\ IsSet(Inv13(x), k) <=> ~(~(p3(k) <=> p2(k)) <=> p0(k))
             /\ IsSet(Inv13(d), k) <=> ~(~(p4(k) <=> p3(k)) <=> p1(k))
             /\ IsSet(Inv13(t), k) <=> ~(~(~(p4(k) <=> p2(k)) <=> p1(k)) <=> p0(k))
             /\ IsSet(Inv11(x), k) <=> ~(~(p3(k) <=> p1(k)) <=> p0(k))
             /\ IsSet(Inv11(d), k) <=> ~(~(p4(k) <=> p2(k)) <=> p1(k))
             /\ IsSet(Inv11(t), k) <=> ~(~(~(p4(k) <=> p3(k)) <=> p2(k)) <=> p0(k))
  <2>1. (IsSet(x, k) <=> p0(k)) /\ ~IsSet(0, k)
    BY <1>8, <1>9
  <2>2. /\ IsSet(Inv14(x), k) <=> ~(~(p3(k) <=> p2(k)) <=> p1(k))
        /\ IsSet(Inv9(x), k) <=> ~(p3(k) <=> p0(k))
        /\ IsSet(Inv13(x), k) <=> ~(~(p3(k) <=> p2(k)) <=> p0(k))
        /\ IsSet(Inv11(x), k) <=> ~(~(p3(k) <=> p1(k)) <=> p0(k))
    BY <1>4, <1>9
  <2>3. /\ IsSet(Inv14(d), k) <=> ~(~(p4(k) <=> p3(k)) <=> p2(k))
        /\ IsSet(Inv9(d), k) <=> ~(p4(k) <=> p1(k))
        /\ IsSet(Inv13(d), k) <=> ~(~(p4(k) <=> p3(k)) <=> p1(k))
        /\ IsSet(Inv11(d), k) <=> ~(~(p4(k) <=> p2(k)) <=> p1(k))
    BY <1>5, <1>9
  <2>4. /\ IsSet(Inv14(t), k) <=> ~(IsSet(Inv14(d), k) <=> IsSet(Inv14(x), k))
        /\ IsSet(Inv9(t), k) <=> ~(IsSet(Inv9(d), k) <=> IsSet(Inv9(x), k))
        /\ IsSet(Inv13(t), k) <=> ~(IsSet(Inv13(d), k) <=> IsSet(Inv13(x), k))
        /\ IsSet(Inv11(t), k) <=> ~(IsSet(Inv11(d), k) <=> IsSet(Inv11(x), k))
    BY <1>6, <1>9
  <2> QED BY <2>1, <2>2, <2>3, <2>4
<1>10. Xor(Xor(Inv14(d), Inv11(x)), Xor(Inv13(x), Inv9(t))) = x
  <2> DEFINE s == Xor(Xor(Inv14(d), Inv11(x)), Xor(Inv13(x), Inv9(t)))
  <2>1. s \in Byte /\ \A k \in 0 .. 7 : IsSet(s, k)
          <=> ~(~(IsSet(Inv14(d), k) <=> IsSet(Inv11(x), k)) <=> ~(IsSet(Inv13(x), k) <=> IsSet(Inv9(t), k)))
    BY <1>2, <1>7
  <2> HIDE DEF s
  <2>2. ASSUME NEW k \in 0 .. 7  PROVE IsSet(s, k) <=> IsSet(x, k)
    BY <1>9, <2>1, <2>2
  <2>3. s = x
    BY <1>1, <2>1, <2>2, ByteIsBits
  <2> QED BY <2>3 DEF s
<1>11. Xor(Xor(Inv9(d), Inv14(x)), Xor(Inv11(x), Inv13(t))) = 0
  <2> DEFINE s == Xor(Xor(Inv9(d), Inv14(x)), Xor(Inv11(x), Inv13(t)))
  <2>1. s \in Byte /\ \A k \in 0 .. 7 : IsSet(s, k)
          <=> ~(~(IsSet(Inv9(d), k) <=> IsSet(Inv14(x), k)) <=> ~(IsSet(Inv11(x), k) <=> IsSet(Inv13(t), k)))
    BY <1>2, <1>7
  <2> HIDE DEF s
  <2>2. ASSUME NEW k \in 0 .. 7  PROVE IsSet(s, k) <=> IsSet(0, k)
    BY <1>9, <2>1, <2>2
  <2>3. s = 0
    BY <1>1, <2>1, <2>2, ByteIsBits
  <2> QED BY <2>3 DEF s
<1>12. Xor(Xor(Inv13(d), Inv9(x)), Xor(Inv14(x), Inv11(t))) = 0
  <2> DEFINE s == Xor(Xor(Inv13(d), Inv9(x)), Xor(Inv14(x), Inv11(t)))
  <2>1. s \in Byte /\ \A k \in 0 .. 7 : IsSet(s, k)
          <=> ~(~(IsSet(Inv13(d), k) <=> IsSet(Inv9(x), k)) <=> ~(IsSet(Inv14(x), k) <=> IsSet(Inv11(t), k)))
    BY <1>2, <1>7
  <2> HIDE DEF s
  <2>2. ASSUME NEW k \in 0 .. 7  PROVE IsSet(s, k) <=> IsSet(0, k)
    BY <1>9, <2>1, <2>2
  <2>3. s = 0
    BY <1>1, <2>1, <2>2, ByteIsBits
  <2> QED BY <2>3 DEF s
<1>13. Xor(Xor(Inv11(d), Inv13(x)), Xor(Inv9(x), Inv14(t))) = 0
  <2> DEFINE s == Xor(Xor(Inv11(d), Inv13(x)), Xor(Inv9(x), Inv14(t)))
  <2>1. s \in Byte /\ \A k \in 0 .. 7 : IsSet(s, k)
          <=> ~(~(IsSet(Inv11(d), k) <=> IsSet(Inv13(x), k)) <=> ~(IsSet(Inv9(x), k) <=> IsSet(Inv14(t), k)))
    BY <1>2, <1>7
  <2> HIDE DEF s
  <2>2. ASSUME NEW k \in 0 .. 7  PROVE IsSet(s, k) <=> IsSet(0, k)
    BY <1>9, <2>1, <2>2
  <2>3. s = 0
    BY <1>1, <2>1, <2>2, ByteIsBits
  <2> QED BY <2>3 DEF s
<1>14. Xor(Xor(Inv14(t), Inv11(d)), Xor(Inv13(x), Inv9(x))) = 0
  <2> DEFINE s == Xor(Xor(Inv14(t), Inv11(d)), Xor(Inv13(x), Inv9(x)))
  <2>1. s \in Byte /\ \A k \in 0 .. 7 : IsSet(s, k)
          <=> ~(~(IsSet(Inv14(t), k) <=> IsSet(Inv11(d), k)) <=> ~(IsSet(Inv13(x), k) <=> IsSet(Inv9(x), k)))
    BY <1>2, <1>7
  <2> HIDE DEF s
  <2>2. ASSUME NEW k \in 0 .. 7  PROVE IsSet(s, k) <=> IsSet(0, k)
    BY <1>9, <2>1, <2>2
  <2>3. s = 0
    BY <1>1, <2>1, <2>2, ByteIsBits
  <2> QED BY <2>3 DEF s
<1>15. Xor(Xor(Inv9(t), Inv14(d)), Xor(Inv11(x), Inv13(x))) = x
  <2> DEFINE s == Xor(Xor(Inv9(t), Inv14(d)), Xor(Inv11(x), Inv13(x)))
  <2>1. s \in Byte /\ \A k \in 0 .. 7 : IsSet(s, k)
          <=> ~(~(IsSet(Inv9(t), k) <=> IsSet(Inv14(d), k)) <=> ~(IsSet(Inv11(x), k) <=> IsSet(Inv13(x), k)))
    BY <1>2, <1>7
  <2> HIDE DEF s
  <2>2. ASSUME NEW k \in 0 .. 7  PROVE IsSet(s, k) <=> IsSet(x, k)
    BY <1>9, <2>1, <2>2
  <2>3. s = x
    BY <1>1, <2>1, <2>2, ByteIsBits
  <2> QED BY <2>3 DEF s
<1>16. Xor(Xor(Inv13(t), Inv9(d)), Xor(Inv14(x), Inv11(x))) = 0
  <2> DEFINE s == Xor(Xor(Inv13(t), Inv9(d)), Xor(Inv14(x), Inv11(x)))
  <2>1. s \in Byte /\ \A k \in 0 .. 7 : IsSet(s, k)
          <=> ~(~(IsSet(Inv13(t), k) <=> IsSet(Inv9(d), k)) <=> ~(IsSet(Inv14(x), k) <=> IsSet(Inv11(x), k)))
    BY <1>2, <1>7
  <2> HIDE DEF s
  <2>2. ASSUME NEW k \in 0 .. 7  PROVE IsSet(s, k) <=> IsSet(0, k)
    BY <1>9, <2>1, <2>2
  <2>3. s = 0
    BY <1>1, <2>1, <2>2, ByteIsBits
  <2> QED BY <2>3 DEF s
<1>17. Xor(Xor(Inv11(t), Inv13(d)), Xor(Inv9(x), Inv14(x))) = 0
  <2> DEFINE s == Xor(Xor(Inv11(t), Inv13(d)), Xor(Inv9(x), Inv14(x)))
  <2>1. s \in Byte /\ \A k \in 0 .. 7 : IsSet(s, k)
          <=> ~(~(IsSet(Inv11(t), k) <=> IsSet(Inv13(d), k)) <=> ~(IsSet(Inv9(x), k) <=> IsSet(Inv14(x), k)))
    BY <1>2, <1>7
  <2> HIDE DEF s
  <2>2. ASSUME NEW k \in 0 .. 7  PROVE IsSet(s, k) <=> IsSet(0, k)
    BY <1>9, <2>1, <2>2
  <2>3. s = 0
    BY <1>1, <2>1, <2>2, ByteIsBits
  <2> QED BY <2>3 DEF s
<1>18. Xor(Xor(Inv14(x), Inv11(t)), Xor(Inv13(d), Inv9(x))) = 0
  <2> DEFINE s == Xor(Xor(Inv14(x), Inv11(t)), Xor(Inv13(d), Inv9(x)))
  <2>1. s \in Byte /\ \A k \in 0 .. 7 : IsSet(s, k)
          <=> ~(~(IsSet(Inv14(x), k) <=> IsSet(Inv11(t), k)) <=> ~(IsSet(Inv13(d), k) <=> IsSet(Inv9(x), k)))
    BY <1>2, <1>7
  <2> HIDE DEF s
  <2>2. ASSUME NEW k \in 0 .. 7  PROVE IsSet(s, k) <=> IsSet(0, k)
    BY <1>9, <2>1, <2>2
  <2>3. s = 0
    BY <1>1, <2>1, <2>2, ByteIsBits
  <2> QED BY <2>3 DEF s
<1>19. Xor(Xor(Inv9(x), Inv14(t)), Xor(Inv11(d), Inv13(x))) = 0
  <2> DEFINE s == Xor(Xor(Inv9(x), Inv14(t)), Xor(Inv11(d), Inv13(x)))
  <2>1. s \in Byte /\ \A k \in 0 .. 7 : IsSet(s, k)
          <=> ~(~(IsSet(Inv9(x), k) <=> IsSet(Inv14(t), k)) <=> ~(IsSet(Inv11(d), k) <=> IsSet(Inv13(x), k)))
    BY <1>2, <1>7
  <2> HIDE DEF s
  <2>2. ASSUME NEW k \in 0 .. 7  PROVE IsSet(s, k) <=> IsSet(0, k)
    BY <1>9, <2>1, <2>2
  <2>3. s = 0
    BY <1>1, <2>1, <2>2, ByteIsBits
  <2> QED BY <2>3 DEF s
<1>20. Xor(Xor(Inv13(x), Inv9(t)), Xor(Inv14(d), Inv11(x))) = x
  <2> DEFINE s == Xor(Xor(Inv13(x), Inv9(t)), Xor(Inv14(d), Inv11(x)))
  <2>1. s \in Byte /\ \A k \in 0 .. 7 : IsSet(s, k)
          <=> ~(~(IsSet(Inv13(x), k) <=> IsSet(Inv9(t), k)) <=> ~(IsSet(Inv14(d), k) <=> IsSet(Inv11(x), k)))
    BY <1>2, <1>7
  <2> HIDE DEF s
  <2>2. ASSUME NEW k \in 0 .. 7  PROVE IsSet(s, k) <=> IsSet(x, k)
    BY <1>9, <2>1, <2>2
  <2>3. s = x
    BY <1>1, <2>1, <2>2, ByteIsBits
  <2> QED BY <2>3 DEF s
<1>21. Xor(Xor(Inv11(x), Inv13(t)), Xor(Inv9(d), Inv14(x))) = 0
  <2> DEFINE s == Xor(Xor(Inv11(x), Inv13(t)), Xor(Inv9(d), Inv14(x)))
  <2>1. s \in Byte /\ \A k \in 0 .. 7 : IsSet(s, k)
          <=> ~(~(IsSet(Inv11(x), k) <=> IsSet(Inv13(t), k)) <=> ~(IsSet(Inv9(d), k) <=> IsSet(Inv14(x), k)))
    BY <1>2, <1>7
  <2> HIDE DEF s
  <2>2. ASSUME NEW k \in 0 .. 7  PROVE IsSet(s, k) <=> IsSet(0, k)
    BY <1>9, <2>1, <2>2
  <2>3. s = 0
    BY <1>1, <2>1, <2>2, ByteIsBits
  <2> QED BY <2>3 DEF s
<1>22. Xor(Xor(Inv14(x), Inv11(x)), Xor(Inv13(t), Inv9(d))) = 0
  <2> DEFINE s == Xor(Xor(Inv14(x), Inv11(x)), Xor(Inv13(t), Inv9(d)))
  <2>1. s \in Byte /\ \A k \in 0 .. 7 : IsSet(s, k)
          <=> ~(~(IsSet(Inv14(x), k) <=> IsSet(Inv11(x), k)) <=> ~(IsSet(Inv13(t), k) <=> IsSet(Inv9(d), k)))
    BY <1>2, <1>7
  <2> HIDE DEF s
  <2>2. ASSUME NEW k \in 0 .. 7  PROVE IsSet(s, k) <=> IsSet(0, k)
    BY <1>9, <2>1, <2>2
  <2>3. s = 0
    BY <1>1, <2>1, <2>2, ByteIsBits
  <2> QED BY <2>3 DEF s
<1>23. Xor(Xor(Inv9(x), Inv14(x)), Xor(Inv11(t), Inv13(d))) = 0
  <2> DEFINE s == Xor(Xor(Inv9(x), Inv14(x)), Xor(Inv11(t), Inv13(d)))
  <2>1. s \in Byte /\ \A k \in 0 .. 7 : IsSet(s, k)
          <=> ~(~(IsSet(Inv9(x), k) <=> IsSet(Inv14(x), k)) <=> ~(IsSet(Inv11(t), k) <=> IsSet(Inv13(d), k)))
    BY <1>2, <1>7
  <2> HIDE DEF s
  <2>2. ASSUME NEW k \in 0 .. 7  PROVE IsSet(s, k) <=> IsSet(0, k)
    BY <1>9, <2>1, <2>2
  <2>3. s = 0
    BY <1>1, <2>1, <2>2, ByteIsBits
  <2> QED BY <2>3 DEF s
<1>24. Xor(Xor(Inv13(x), Inv9(x)), Xor(Inv14(t), Inv11(d))) = 0
  <2> DEFINE s == Xor(Xor(Inv13(x), Inv9(x)), Xor(Inv14(t), Inv11(d)))
  <2>1. s \in Byte /\ \A k \in 0 .. 7 : IsSet(s, k)
          <=> ~(~(IsSet(Inv13(x), k) <=> IsSet(Inv9(x), k)) <=> ~(IsSet(Inv14(t), k) <=> IsSet(Inv11(d), k)))
    BY <1>2, <1>7
  <2> HIDE DEF s
  <2>2. ASSUME NEW k \in 0 .. 7  PROVE IsSet(s, k) <=> IsSet(0, k)
    BY <1>9, <2>1, <2>2
  <2>3. s = 0
    BY <1>1, <2>1, <2>2, ByteIsBits
  <2> QED BY <2>3 DEF s
<1>25. Xor(Xor(Inv11(x), Inv13(x)), Xor(Inv9(t), Inv14(d))) = x
  <2> DEFINE s == Xor(Xor(Inv11(x), Inv13(x)), Xor(Inv9(t), Inv14(d)))
  <2>1. s \in Byte /\ \A k \in 0 .. 7 : IsSet(s, k)
          <=> ~(~(IsSet(Inv11(x), k) <=> IsSet(Inv13(x), k)) <=> ~(IsSet(Inv9(t), k) <=> IsSet(Inv14(d), k)))
    BY <1>2, <1>7
  <2> HIDE DEF s
  <2>2. ASSUME NEW k \in 0 .. 7  PROVE IsSet(s, k) <=> IsSet(x, k)
    BY <1>9, <2>1, <2>2
  <2>3. s = x
    BY <1>1, <2>1, <2>2, ByteIsBits
  <2> QED BY <2>3 DEF s
<1> QED BY <1>10, <1>11, <1>12, <1>13, <1>14, <1>15, <1>16, <1>17, <1>18, <1>19, <1>20, <1>21, <1>22, <1>23, <1>24, <1>25

-----------------------------------------------------------------------------
(* Words, and the mixing of columns both ways.                              *)

(* A word is its four bytes.                                                *)
LEMMA WordsAre ==
  /\ \A a, b, c, d \in Byte : <<a, b, c, d>> \in Word
  /\ \A v \in Word : v[1] \in Byte /\ v[2] \in Byte /\ v[3] \in Byte /\ v[4] \in Byte
  /\ \A v \in Word : v = <<v[1], v[2], v[3], v[4]>>
<1>1. \A v \in Word : v = <<v[1], v[2], v[3], v[4]>>
  BY DEF Word
<1>2. \A v \in Word : v[1] \in Byte /\ v[2] \in Byte /\ v[3] \in Byte /\ v[4] \in Byte
  BY DEF Word
<1>3. \A a, b, c, d \in Byte : <<a, b, c, d>> \in Word
  BY DEF Word
<1> QED BY <1>1, <1>2, <1>3

(* Exclusive or of words.                                                   *)
LEMMA XorWordIs ==
  ASSUME NEW v \in Word, NEW w \in Word
  PROVE  /\ XorWord(v, w) \in Word
         /\ XorWord(v, w) = <<Xor(v[1], w[1]), Xor(v[2], w[2]), Xor(v[3], w[3]), Xor(v[4], w[4])>>
         /\ XorWord(v, w)[1] = Xor(v[1], w[1]) /\ XorWord(v, w)[2] = Xor(v[2], w[2])
         /\ XorWord(v, w)[3] = Xor(v[3], w[3]) /\ XorWord(v, w)[4] = Xor(v[4], w[4])
<1>1. XorWord(v, w) = [k \in 1 .. 4 |-> Xor(v[k], w[k])]
  BY TableIs DEF XorWord
<1>2. XorWord(v, w) \in Word
  BY XorWordFacts
<1>3. /\ XorWord(v, w)[1] = Xor(v[1], w[1]) /\ XorWord(v, w)[2] = Xor(v[2], w[2])
      /\ XorWord(v, w)[3] = Xor(v[3], w[3]) /\ XorWord(v, w)[4] = Xor(v[4], w[4])
  BY <1>1
<1> QED BY <1>2, <1>3, WordsAre, Zenon

(* MixColumns and its inverse on one column, as the tables have them.       *)
MixWord(a) == XorWord(XorWord(Forth(a[1])[1], Forth(a[2])[2]), XorWord(Forth(a[3])[3], Forth(a[4])[4]))
Unmix(m)   == XorWord(XorWord(Back(Pw, Lg, m[1])[1], Back(Pw, Lg, m[2])[2]),
                      XorWord(Back(Pw, Lg, m[3])[3], Back(Pw, Lg, m[4])[4]))

(* An entry of FT0 to FT3, byte by byte.                                    *)
LEMMA ForthIs ==
  ASSUME NEW x \in Byte
  PROVE  /\ Forth(x)[1] = <<XTIME(x), x, x, Xor(XTIME(x), x)>>
         /\ Forth(x)[2] = <<Xor(XTIME(x), x), XTIME(x), x, x>>
         /\ Forth(x)[3] = <<x, Xor(XTIME(x), x), XTIME(x), x>>
         /\ Forth(x)[4] = <<x, x, Xor(XTIME(x), x), XTIME(x)>>
         /\ \A k \in 1 .. 4 : Forth(x)[k] \in Word
<1>1. XTIME(x) \in Byte /\ Xor(XTIME(x), x) \in Byte
  BY XTimeBits, XorFacts
<1>2. /\ Forth(x)[1] = <<XTIME(x), x, x, Xor(XTIME(x), x)>>
      /\ Forth(x)[2] = <<Xor(XTIME(x), x), XTIME(x), x, x>>
      /\ Forth(x)[3] = <<x, Xor(XTIME(x), x), XTIME(x), x>>
      /\ Forth(x)[4] = <<x, x, Xor(XTIME(x), x), XTIME(x)>>
  BY DEF Forth, Rotations, ROTL8
<1>3. \A k \in 1 .. 4 : k = 1 \/ k = 2 \/ k = 3 \/ k = 4
  OBVIOUS
<1>4. Forth(x)[1] \in Word /\ Forth(x)[2] \in Word /\ Forth(x)[3] \in Word /\ Forth(x)[4] \in Word
  BY <1>1, <1>2, WordsAre
<1> QED BY <1>2, <1>3, <1>4

(* An entry of RT0 to RT3, byte by byte.                                    *)
LEMMA BackIs ==
  ASSUME NEW x \in Byte
  PROVE  /\ Back(Pw, Lg, x)[1] = <<Inv14(x), Inv9(x), Inv13(x), Inv11(x)>>
         /\ Back(Pw, Lg, x)[2] = <<Inv11(x), Inv14(x), Inv9(x), Inv13(x)>>
         /\ Back(Pw, Lg, x)[3] = <<Inv13(x), Inv11(x), Inv14(x), Inv9(x)>>
         /\ Back(Pw, Lg, x)[4] = <<Inv9(x), Inv13(x), Inv11(x), Inv14(x)>>
         /\ \A k \in 1 .. 4 : Back(Pw, Lg, x)[k] \in Word
<1>1. Inv14(x) \in Byte /\ Inv9(x) \in Byte /\ Inv13(x) \in Byte /\ Inv11(x) \in Byte
  BY InvBytes
<1>2. Back(Pw, Lg, x) = Rotations(<<Inv14(x), Inv9(x), Inv13(x), Inv11(x)>>)
  BY InvProducts DEF Back
<1>3. /\ Back(Pw, Lg, x)[1] = <<Inv14(x), Inv9(x), Inv13(x), Inv11(x)>>
      /\ Back(Pw, Lg, x)[2] = <<Inv11(x), Inv14(x), Inv9(x), Inv13(x)>>
      /\ Back(Pw, Lg, x)[3] = <<Inv13(x), Inv11(x), Inv14(x), Inv9(x)>>
      /\ Back(Pw, Lg, x)[4] = <<Inv9(x), Inv13(x), Inv11(x), Inv14(x)>>
  BY <1>2 DEF Rotations, ROTL8
<1>4. \A k \in 1 .. 4 : k = 1 \/ k = 2 \/ k = 3 \/ k = 4
  OBVIOUS
<1>5. /\ Back(Pw, Lg, x)[1] \in Word /\ Back(Pw, Lg, x)[2] \in Word
      /\ Back(Pw, Lg, x)[3] \in Word /\ Back(Pw, Lg, x)[4] \in Word
  BY <1>1, <1>3, WordsAre
<1> QED BY <1>3, <1>4, <1>5

(* A column through InvMixColumns, byte by byte.                            *)
LEMMA UnmixIs ==
  ASSUME NEW m \in Word
  PROVE  /\ Unmix(m) \in Word
         /\ Unmix(m)[1] = Xor(Xor(Inv14(m[1]), Inv11(m[2])), Xor(Inv13(m[3]), Inv9(m[4])))
         /\ Unmix(m)[2] = Xor(Xor(Inv9(m[1]), Inv14(m[2])), Xor(Inv11(m[3]), Inv13(m[4])))
         /\ Unmix(m)[3] = Xor(Xor(Inv13(m[1]), Inv9(m[2])), Xor(Inv14(m[3]), Inv11(m[4])))
         /\ Unmix(m)[4] = Xor(Xor(Inv11(m[1]), Inv13(m[2])), Xor(Inv9(m[3]), Inv14(m[4])))
<1>1. m[1] \in Byte /\ m[2] \in Byte /\ m[3] \in Byte /\ m[4] \in Byte
  BY WordsAre
<1>2. \A k \in 1 .. 4 : k \in {1, 2, 3, 4}
  OBVIOUS
<1> DEFINE w1 == Back(Pw, Lg, m[1])[1]
           w2 == Back(Pw, Lg, m[2])[2]
           w3 == Back(Pw, Lg, m[3])[3]
           w4 == Back(Pw, Lg, m[4])[4]
<1>3. w1 \in Word /\ w2 \in Word /\ w3 \in Word /\ w4 \in Word
  BY <1>1, BackIs
<1>4. w1[1] = Inv14(m[1]) /\ w1[2] = Inv9(m[1]) /\ w1[3] = Inv13(m[1]) /\ w1[4] = Inv11(m[1])
  <2>1. w1 = <<Inv14(m[1]), Inv9(m[1]), Inv13(m[1]), Inv11(m[1])>>
    BY <1>1, BackIs
  <2> QED BY <2>1
<1>5. w2[1] = Inv11(m[2]) /\ w2[2] = Inv14(m[2]) /\ w2[3] = Inv9(m[2]) /\ w2[4] = Inv13(m[2])
  <2>1. w2 = <<Inv11(m[2]), Inv14(m[2]), Inv9(m[2]), Inv13(m[2])>>
    BY <1>1, BackIs
  <2> QED BY <2>1
<1>6. w3[1] = Inv13(m[3]) /\ w3[2] = Inv11(m[3]) /\ w3[3] = Inv14(m[3]) /\ w3[4] = Inv9(m[3])
  <2>1. w3 = <<Inv13(m[3]), Inv11(m[3]), Inv14(m[3]), Inv9(m[3])>>
    BY <1>1, BackIs
  <2> QED BY <2>1
<1>7. w4[1] = Inv9(m[4]) /\ w4[2] = Inv13(m[4]) /\ w4[3] = Inv11(m[4]) /\ w4[4] = Inv14(m[4])
  <2>1. w4 = <<Inv9(m[4]), Inv13(m[4]), Inv11(m[4]), Inv14(m[4])>>
    BY <1>1, BackIs
  <2> QED BY <2>1
<1>8. Unmix(m) = XorWord(XorWord(w1, w2), XorWord(w3, w4))
  BY DEF Unmix
<1> HIDE DEF w1, w2, w3, w4
<1>9. XorWord(w1, w2) \in Word /\ XorWord(w3, w4) \in Word
  BY <1>3, XorWordIs
<1>10. Unmix(m) \in Word
  BY <1>8, <1>9, XorWordIs
<1>11. Unmix(m)[1] = Xor(Xor(Inv14(m[1]), Inv11(m[2])), Xor(Inv13(m[3]), Inv9(m[4])))
  <2>1. Unmix(m)[1] = Xor(XorWord(w1, w2)[1], XorWord(w3, w4)[1])
    BY <1>8, <1>9, XorWordIs
  <2>2. XorWord(w1, w2)[1] = Xor(w1[1], w2[1]) /\ XorWord(w3, w4)[1] = Xor(w3[1], w4[1])
    BY <1>3, XorWordIs
  <2> QED BY <1>4, <1>5, <1>6, <1>7, <2>1, <2>2
<1>12. Unmix(m)[2] = Xor(Xor(Inv9(m[1]), Inv14(m[2])), Xor(Inv11(m[3]), Inv13(m[4])))
  <2>1. Unmix(m)[2] = Xor(XorWord(w1, w2)[2], XorWord(w3, w4)[2])
    BY <1>8, <1>9, XorWordIs
  <2>2. XorWord(w1, w2)[2] = Xor(w1[2], w2[2]) /\ XorWord(w3, w4)[2] = Xor(w3[2], w4[2])
    BY <1>3, XorWordIs
  <2> QED BY <1>4, <1>5, <1>6, <1>7, <2>1, <2>2
<1>13. Unmix(m)[3] = Xor(Xor(Inv13(m[1]), Inv9(m[2])), Xor(Inv14(m[3]), Inv11(m[4])))
  <2>1. Unmix(m)[3] = Xor(XorWord(w1, w2)[3], XorWord(w3, w4)[3])
    BY <1>8, <1>9, XorWordIs
  <2>2. XorWord(w1, w2)[3] = Xor(w1[3], w2[3]) /\ XorWord(w3, w4)[3] = Xor(w3[3], w4[3])
    BY <1>3, XorWordIs
  <2> QED BY <1>4, <1>5, <1>6, <1>7, <2>1, <2>2
<1>14. Unmix(m)[4] = Xor(Xor(Inv11(m[1]), Inv13(m[2])), Xor(Inv9(m[3]), Inv14(m[4])))
  <2>1. Unmix(m)[4] = Xor(XorWord(w1, w2)[4], XorWord(w3, w4)[4])
    BY <1>8, <1>9, XorWordIs
  <2>2. XorWord(w1, w2)[4] = Xor(w1[4], w2[4]) /\ XorWord(w3, w4)[4] = Xor(w3[4], w4[4])
    BY <1>3, XorWordIs
  <2> QED BY <1>4, <1>5, <1>6, <1>7, <2>1, <2>2
<1> QED BY <1>10, <1>11, <1>12, <1>13, <1>14

(* InvMixColumns is linear.                                                 *)
LEMMA UnmixSum ==
  ASSUME NEW v \in Word, NEW w \in Word
  PROVE  Unmix(XorWord(v, w)) = XorWord(Unmix(v), Unmix(w))
<1>1. /\ v[1] \in Byte /\ v[2] \in Byte /\ v[3] \in Byte /\ v[4] \in Byte
      /\ w[1] \in Byte /\ w[2] \in Byte /\ w[3] \in Byte /\ w[4] \in Byte
  BY WordsAre
<1>2. XorWord(v, w) \in Word /\ Unmix(v) \in Word /\ Unmix(w) \in Word
  BY XorWordIs, UnmixIs
<1>3. Unmix(XorWord(v, w)) \in Word /\ XorWord(Unmix(v), Unmix(w)) \in Word
  BY <1>2, XorWordIs, UnmixIs
<1>5. Unmix(XorWord(v, w))[1] = XorWord(Unmix(v), Unmix(w))[1]
  <2>1. Unmix(XorWord(v, w))[1] = Xor(Xor(Xor(Inv14(v[1]), Inv14(w[1])), Xor(Inv11(v[2]), Inv11(w[2]))),
                                          Xor(Xor(Inv13(v[3]), Inv13(w[3])), Xor(Inv9(v[4]), Inv9(w[4]))))
    <3>1. /\ XorWord(v, w)[1] = Xor(v[1], w[1])
          /\ XorWord(v, w)[2] = Xor(v[2], w[2])
          /\ XorWord(v, w)[3] = Xor(v[3], w[3])
          /\ XorWord(v, w)[4] = Xor(v[4], w[4])
      BY XorWordIs
    <3>2. /\ Inv14(Xor(v[1], w[1])) = Xor(Inv14(v[1]), Inv14(w[1]))
          /\ Inv11(Xor(v[2], w[2])) = Xor(Inv11(v[2]), Inv11(w[2]))
          /\ Inv13(Xor(v[3], w[3])) = Xor(Inv13(v[3]), Inv13(w[3]))
          /\ Inv9(Xor(v[4], w[4])) = Xor(Inv9(v[4]), Inv9(w[4]))
      BY <1>1, InvSum
    <3>3. Unmix(XorWord(v, w))[1] = Xor(Xor(Inv14(XorWord(v, w)[1]), Inv11(XorWord(v, w)[2])), Xor(Inv13(XorWord(v, w)[3]), Inv9(XorWord(v, w)[4])))
      BY <1>2, UnmixIs
    <3> QED BY <3>1, <3>2, <3>3
  <2>2. XorWord(Unmix(v), Unmix(w))[1] = Xor(Xor(Xor(Inv14(v[1]), Inv11(v[2])), Xor(Inv13(v[3]), Inv9(v[4]))),
           Xor(Xor(Inv14(w[1]), Inv11(w[2])), Xor(Inv13(w[3]), Inv9(w[4]))))
    <3>1. XorWord(Unmix(v), Unmix(w))[1] = Xor(Unmix(v)[1], Unmix(w)[1])
      BY <1>2, XorWordIs
    <3> QED BY <3>1, UnmixIs
  <2>3. /\ Inv14(v[1]) \in Byte /\ Inv14(w[1]) \in Byte
        /\ Inv11(v[2]) \in Byte /\ Inv11(w[2]) \in Byte
        /\ Inv13(v[3]) \in Byte /\ Inv13(w[3]) \in Byte
        /\ Inv9(v[4]) \in Byte /\ Inv9(w[4]) \in Byte
    BY <1>1, InvBytes
  <2>4. Xor(Xor(Xor(Inv14(v[1]), Inv14(w[1])), Xor(Inv11(v[2]), Inv11(w[2]))), Xor(Xor(Inv13(v[3]), Inv13(w[3])), Xor(Inv9(v[4]), Inv9(w[4]))))
          = Xor(Xor(Xor(Inv14(v[1]), Inv11(v[2])), Xor(Inv13(v[3]), Inv9(v[4]))),
                Xor(Xor(Inv14(w[1]), Inv11(w[2])), Xor(Inv13(w[3]), Inv9(w[4]))))
    <3>1. /\ Xor(Xor(Inv14(v[1]), Inv14(w[1])), Xor(Inv11(v[2]), Inv11(w[2])))
             = Xor(Xor(Inv14(v[1]), Inv11(v[2])), Xor(Inv14(w[1]), Inv11(w[2])))
          /\ Xor(Xor(Inv13(v[3]), Inv13(w[3])), Xor(Inv9(v[4]), Inv9(w[4])))
             = Xor(Xor(Inv13(v[3]), Inv9(v[4])), Xor(Inv13(w[3]), Inv9(w[4])))
      BY <2>3, SumOfSums
    <3>2. /\ Xor(Inv14(v[1]), Inv11(v[2])) \in Byte /\ Xor(Inv14(w[1]), Inv11(w[2])) \in Byte
          /\ Xor(Inv13(v[3]), Inv9(v[4])) \in Byte /\ Xor(Inv13(w[3]), Inv9(w[4])) \in Byte
      BY <2>3, XorFacts
    <3>3. Xor(Xor(Xor(Inv14(v[1]), Inv11(v[2])), Xor(Inv14(w[1]), Inv11(w[2]))),
              Xor(Xor(Inv13(v[3]), Inv9(v[4])), Xor(Inv13(w[3]), Inv9(w[4]))))
            = Xor(Xor(Xor(Inv14(v[1]), Inv11(v[2])), Xor(Inv13(v[3]), Inv9(v[4]))),
                  Xor(Xor(Inv14(w[1]), Inv11(w[2])), Xor(Inv13(w[3]), Inv9(w[4]))))
      BY <3>2, SumOfSums
    <3> QED BY <3>1, <3>3
  <2> QED BY <2>1, <2>2, <2>4
<1>6. Unmix(XorWord(v, w))[2] = XorWord(Unmix(v), Unmix(w))[2]
  <2>1. Unmix(XorWord(v, w))[2] = Xor(Xor(Xor(Inv9(v[1]), Inv9(w[1])), Xor(Inv14(v[2]), Inv14(w[2]))),
                                          Xor(Xor(Inv11(v[3]), Inv11(w[3])), Xor(Inv13(v[4]), Inv13(w[4]))))
    <3>1. /\ XorWord(v, w)[1] = Xor(v[1], w[1])
          /\ XorWord(v, w)[2] = Xor(v[2], w[2])
          /\ XorWord(v, w)[3] = Xor(v[3], w[3])
          /\ XorWord(v, w)[4] = Xor(v[4], w[4])
      BY XorWordIs
    <3>2. /\ Inv9(Xor(v[1], w[1])) = Xor(Inv9(v[1]), Inv9(w[1]))
          /\ Inv14(Xor(v[2], w[2])) = Xor(Inv14(v[2]), Inv14(w[2]))
          /\ Inv11(Xor(v[3], w[3])) = Xor(Inv11(v[3]), Inv11(w[3]))
          /\ Inv13(Xor(v[4], w[4])) = Xor(Inv13(v[4]), Inv13(w[4]))
      BY <1>1, InvSum
    <3>3. Unmix(XorWord(v, w))[2] = Xor(Xor(Inv9(XorWord(v, w)[1]), Inv14(XorWord(v, w)[2])), Xor(Inv11(XorWord(v, w)[3]), Inv13(XorWord(v, w)[4])))
      BY <1>2, UnmixIs
    <3> QED BY <3>1, <3>2, <3>3
  <2>2. XorWord(Unmix(v), Unmix(w))[2] = Xor(Xor(Xor(Inv9(v[1]), Inv14(v[2])), Xor(Inv11(v[3]), Inv13(v[4]))),
           Xor(Xor(Inv9(w[1]), Inv14(w[2])), Xor(Inv11(w[3]), Inv13(w[4]))))
    <3>1. XorWord(Unmix(v), Unmix(w))[2] = Xor(Unmix(v)[2], Unmix(w)[2])
      BY <1>2, XorWordIs
    <3> QED BY <3>1, UnmixIs
  <2>3. /\ Inv9(v[1]) \in Byte /\ Inv9(w[1]) \in Byte
        /\ Inv14(v[2]) \in Byte /\ Inv14(w[2]) \in Byte
        /\ Inv11(v[3]) \in Byte /\ Inv11(w[3]) \in Byte
        /\ Inv13(v[4]) \in Byte /\ Inv13(w[4]) \in Byte
    BY <1>1, InvBytes
  <2>4. Xor(Xor(Xor(Inv9(v[1]), Inv9(w[1])), Xor(Inv14(v[2]), Inv14(w[2]))), Xor(Xor(Inv11(v[3]), Inv11(w[3])), Xor(Inv13(v[4]), Inv13(w[4]))))
          = Xor(Xor(Xor(Inv9(v[1]), Inv14(v[2])), Xor(Inv11(v[3]), Inv13(v[4]))),
                Xor(Xor(Inv9(w[1]), Inv14(w[2])), Xor(Inv11(w[3]), Inv13(w[4]))))
    <3>1. /\ Xor(Xor(Inv9(v[1]), Inv9(w[1])), Xor(Inv14(v[2]), Inv14(w[2])))
             = Xor(Xor(Inv9(v[1]), Inv14(v[2])), Xor(Inv9(w[1]), Inv14(w[2])))
          /\ Xor(Xor(Inv11(v[3]), Inv11(w[3])), Xor(Inv13(v[4]), Inv13(w[4])))
             = Xor(Xor(Inv11(v[3]), Inv13(v[4])), Xor(Inv11(w[3]), Inv13(w[4])))
      BY <2>3, SumOfSums
    <3>2. /\ Xor(Inv9(v[1]), Inv14(v[2])) \in Byte /\ Xor(Inv9(w[1]), Inv14(w[2])) \in Byte
          /\ Xor(Inv11(v[3]), Inv13(v[4])) \in Byte /\ Xor(Inv11(w[3]), Inv13(w[4])) \in Byte
      BY <2>3, XorFacts
    <3>3. Xor(Xor(Xor(Inv9(v[1]), Inv14(v[2])), Xor(Inv9(w[1]), Inv14(w[2]))),
              Xor(Xor(Inv11(v[3]), Inv13(v[4])), Xor(Inv11(w[3]), Inv13(w[4]))))
            = Xor(Xor(Xor(Inv9(v[1]), Inv14(v[2])), Xor(Inv11(v[3]), Inv13(v[4]))),
                  Xor(Xor(Inv9(w[1]), Inv14(w[2])), Xor(Inv11(w[3]), Inv13(w[4]))))
      BY <3>2, SumOfSums
    <3> QED BY <3>1, <3>3
  <2> QED BY <2>1, <2>2, <2>4
<1>7. Unmix(XorWord(v, w))[3] = XorWord(Unmix(v), Unmix(w))[3]
  <2>1. Unmix(XorWord(v, w))[3] = Xor(Xor(Xor(Inv13(v[1]), Inv13(w[1])), Xor(Inv9(v[2]), Inv9(w[2]))),
                                          Xor(Xor(Inv14(v[3]), Inv14(w[3])), Xor(Inv11(v[4]), Inv11(w[4]))))
    <3>1. /\ XorWord(v, w)[1] = Xor(v[1], w[1])
          /\ XorWord(v, w)[2] = Xor(v[2], w[2])
          /\ XorWord(v, w)[3] = Xor(v[3], w[3])
          /\ XorWord(v, w)[4] = Xor(v[4], w[4])
      BY XorWordIs
    <3>2. /\ Inv13(Xor(v[1], w[1])) = Xor(Inv13(v[1]), Inv13(w[1]))
          /\ Inv9(Xor(v[2], w[2])) = Xor(Inv9(v[2]), Inv9(w[2]))
          /\ Inv14(Xor(v[3], w[3])) = Xor(Inv14(v[3]), Inv14(w[3]))
          /\ Inv11(Xor(v[4], w[4])) = Xor(Inv11(v[4]), Inv11(w[4]))
      BY <1>1, InvSum
    <3>3. Unmix(XorWord(v, w))[3] = Xor(Xor(Inv13(XorWord(v, w)[1]), Inv9(XorWord(v, w)[2])), Xor(Inv14(XorWord(v, w)[3]), Inv11(XorWord(v, w)[4])))
      BY <1>2, UnmixIs
    <3> QED BY <3>1, <3>2, <3>3
  <2>2. XorWord(Unmix(v), Unmix(w))[3] = Xor(Xor(Xor(Inv13(v[1]), Inv9(v[2])), Xor(Inv14(v[3]), Inv11(v[4]))),
           Xor(Xor(Inv13(w[1]), Inv9(w[2])), Xor(Inv14(w[3]), Inv11(w[4]))))
    <3>1. XorWord(Unmix(v), Unmix(w))[3] = Xor(Unmix(v)[3], Unmix(w)[3])
      BY <1>2, XorWordIs
    <3> QED BY <3>1, UnmixIs
  <2>3. /\ Inv13(v[1]) \in Byte /\ Inv13(w[1]) \in Byte
        /\ Inv9(v[2]) \in Byte /\ Inv9(w[2]) \in Byte
        /\ Inv14(v[3]) \in Byte /\ Inv14(w[3]) \in Byte
        /\ Inv11(v[4]) \in Byte /\ Inv11(w[4]) \in Byte
    BY <1>1, InvBytes
  <2>4. Xor(Xor(Xor(Inv13(v[1]), Inv13(w[1])), Xor(Inv9(v[2]), Inv9(w[2]))), Xor(Xor(Inv14(v[3]), Inv14(w[3])), Xor(Inv11(v[4]), Inv11(w[4]))))
          = Xor(Xor(Xor(Inv13(v[1]), Inv9(v[2])), Xor(Inv14(v[3]), Inv11(v[4]))),
                Xor(Xor(Inv13(w[1]), Inv9(w[2])), Xor(Inv14(w[3]), Inv11(w[4]))))
    <3>1. /\ Xor(Xor(Inv13(v[1]), Inv13(w[1])), Xor(Inv9(v[2]), Inv9(w[2])))
             = Xor(Xor(Inv13(v[1]), Inv9(v[2])), Xor(Inv13(w[1]), Inv9(w[2])))
          /\ Xor(Xor(Inv14(v[3]), Inv14(w[3])), Xor(Inv11(v[4]), Inv11(w[4])))
             = Xor(Xor(Inv14(v[3]), Inv11(v[4])), Xor(Inv14(w[3]), Inv11(w[4])))
      BY <2>3, SumOfSums
    <3>2. /\ Xor(Inv13(v[1]), Inv9(v[2])) \in Byte /\ Xor(Inv13(w[1]), Inv9(w[2])) \in Byte
          /\ Xor(Inv14(v[3]), Inv11(v[4])) \in Byte /\ Xor(Inv14(w[3]), Inv11(w[4])) \in Byte
      BY <2>3, XorFacts
    <3>3. Xor(Xor(Xor(Inv13(v[1]), Inv9(v[2])), Xor(Inv13(w[1]), Inv9(w[2]))),
              Xor(Xor(Inv14(v[3]), Inv11(v[4])), Xor(Inv14(w[3]), Inv11(w[4]))))
            = Xor(Xor(Xor(Inv13(v[1]), Inv9(v[2])), Xor(Inv14(v[3]), Inv11(v[4]))),
                  Xor(Xor(Inv13(w[1]), Inv9(w[2])), Xor(Inv14(w[3]), Inv11(w[4]))))
      BY <3>2, SumOfSums
    <3> QED BY <3>1, <3>3
  <2> QED BY <2>1, <2>2, <2>4
<1>8. Unmix(XorWord(v, w))[4] = XorWord(Unmix(v), Unmix(w))[4]
  <2>1. Unmix(XorWord(v, w))[4] = Xor(Xor(Xor(Inv11(v[1]), Inv11(w[1])), Xor(Inv13(v[2]), Inv13(w[2]))),
                                          Xor(Xor(Inv9(v[3]), Inv9(w[3])), Xor(Inv14(v[4]), Inv14(w[4]))))
    <3>1. /\ XorWord(v, w)[1] = Xor(v[1], w[1])
          /\ XorWord(v, w)[2] = Xor(v[2], w[2])
          /\ XorWord(v, w)[3] = Xor(v[3], w[3])
          /\ XorWord(v, w)[4] = Xor(v[4], w[4])
      BY XorWordIs
    <3>2. /\ Inv11(Xor(v[1], w[1])) = Xor(Inv11(v[1]), Inv11(w[1]))
          /\ Inv13(Xor(v[2], w[2])) = Xor(Inv13(v[2]), Inv13(w[2]))
          /\ Inv9(Xor(v[3], w[3])) = Xor(Inv9(v[3]), Inv9(w[3]))
          /\ Inv14(Xor(v[4], w[4])) = Xor(Inv14(v[4]), Inv14(w[4]))
      BY <1>1, InvSum
    <3>3. Unmix(XorWord(v, w))[4] = Xor(Xor(Inv11(XorWord(v, w)[1]), Inv13(XorWord(v, w)[2])), Xor(Inv9(XorWord(v, w)[3]), Inv14(XorWord(v, w)[4])))
      BY <1>2, UnmixIs
    <3> QED BY <3>1, <3>2, <3>3
  <2>2. XorWord(Unmix(v), Unmix(w))[4] = Xor(Xor(Xor(Inv11(v[1]), Inv13(v[2])), Xor(Inv9(v[3]), Inv14(v[4]))),
           Xor(Xor(Inv11(w[1]), Inv13(w[2])), Xor(Inv9(w[3]), Inv14(w[4]))))
    <3>1. XorWord(Unmix(v), Unmix(w))[4] = Xor(Unmix(v)[4], Unmix(w)[4])
      BY <1>2, XorWordIs
    <3> QED BY <3>1, UnmixIs
  <2>3. /\ Inv11(v[1]) \in Byte /\ Inv11(w[1]) \in Byte
        /\ Inv13(v[2]) \in Byte /\ Inv13(w[2]) \in Byte
        /\ Inv9(v[3]) \in Byte /\ Inv9(w[3]) \in Byte
        /\ Inv14(v[4]) \in Byte /\ Inv14(w[4]) \in Byte
    BY <1>1, InvBytes
  <2>4. Xor(Xor(Xor(Inv11(v[1]), Inv11(w[1])), Xor(Inv13(v[2]), Inv13(w[2]))), Xor(Xor(Inv9(v[3]), Inv9(w[3])), Xor(Inv14(v[4]), Inv14(w[4]))))
          = Xor(Xor(Xor(Inv11(v[1]), Inv13(v[2])), Xor(Inv9(v[3]), Inv14(v[4]))),
                Xor(Xor(Inv11(w[1]), Inv13(w[2])), Xor(Inv9(w[3]), Inv14(w[4]))))
    <3>1. /\ Xor(Xor(Inv11(v[1]), Inv11(w[1])), Xor(Inv13(v[2]), Inv13(w[2])))
             = Xor(Xor(Inv11(v[1]), Inv13(v[2])), Xor(Inv11(w[1]), Inv13(w[2])))
          /\ Xor(Xor(Inv9(v[3]), Inv9(w[3])), Xor(Inv14(v[4]), Inv14(w[4])))
             = Xor(Xor(Inv9(v[3]), Inv14(v[4])), Xor(Inv9(w[3]), Inv14(w[4])))
      BY <2>3, SumOfSums
    <3>2. /\ Xor(Inv11(v[1]), Inv13(v[2])) \in Byte /\ Xor(Inv11(w[1]), Inv13(w[2])) \in Byte
          /\ Xor(Inv9(v[3]), Inv14(v[4])) \in Byte /\ Xor(Inv9(w[3]), Inv14(w[4])) \in Byte
      BY <2>3, XorFacts
    <3>3. Xor(Xor(Xor(Inv11(v[1]), Inv13(v[2])), Xor(Inv11(w[1]), Inv13(w[2]))),
              Xor(Xor(Inv9(v[3]), Inv14(v[4])), Xor(Inv9(w[3]), Inv14(w[4]))))
            = Xor(Xor(Xor(Inv11(v[1]), Inv13(v[2])), Xor(Inv9(v[3]), Inv14(v[4]))),
                  Xor(Xor(Inv11(w[1]), Inv13(w[2])), Xor(Inv9(w[3]), Inv14(w[4]))))
      BY <3>2, SumOfSums
    <3> QED BY <3>1, <3>3
  <2> QED BY <2>1, <2>2, <2>4
<1> QED BY <1>3, <1>5, <1>6, <1>7, <1>8, WordsAre, Zenon

(* InvMixColumns undoes what an entry of FT0 holds.                         *)
LEMMA UnmixForth ==
  ASSUME NEW x \in Byte
  PROVE  /\ Unmix(Forth(x)[1]) = <<x, 0, 0, 0>>
         /\ Unmix(Forth(x)[2]) = <<0, x, 0, 0>>
         /\ Unmix(Forth(x)[3]) = <<0, 0, x, 0>>
         /\ Unmix(Forth(x)[4]) = <<0, 0, 0, x>>
<1> DEFINE d == XTIME(x)
           t == Xor(d, x)
<1>1. d = XTIME(x) /\ t = Xor(d, x)
  OBVIOUS
<1>2. /\ Forth(x)[1] = <<d, x, x, t>> /\ Forth(x)[2] = <<t, d, x, x>>
      /\ Forth(x)[3] = <<x, t, d, x>> /\ Forth(x)[4] = <<x, x, t, d>>
      /\ Forth(x)[1] \in Word /\ Forth(x)[2] \in Word /\ Forth(x)[3] \in Word /\ Forth(x)[4] \in Word
  BY ForthIs
<1> HIDE DEF d, t
<1>3. Unmix(Forth(x)[1]) = <<x, 0, 0, 0>>
  <2> DEFINE w == Forth(x)[1]
  <2>1. w \in Word /\ w[1] = d /\ w[2] = x /\ w[3] = x /\ w[4] = t
    BY <1>2
  <2> HIDE DEF w
  <2>2. /\ Xor(Xor(Inv14(d), Inv11(x)), Xor(Inv13(x), Inv9(t))) = x
        /\ Xor(Xor(Inv9(d), Inv14(x)), Xor(Inv11(x), Inv13(t))) = 0
        /\ Xor(Xor(Inv13(d), Inv9(x)), Xor(Inv14(x), Inv11(t))) = 0
        /\ Xor(Xor(Inv11(d), Inv13(x)), Xor(Inv9(x), Inv14(t))) = 0
    BY <1>1, InvOfForth
  <2>3. Unmix(w)[1] = x /\ Unmix(w)[2] = 0 /\ Unmix(w)[3] = 0 /\ Unmix(w)[4] = 0
    BY <2>1, <2>2, UnmixIs
  <2>4. Unmix(w) \in Word
    BY <2>1, UnmixIs
  <2>5. Unmix(w) = <<x, 0, 0, 0>>
    BY <2>3, <2>4, WordsAre, Zenon
  <2> QED BY <2>5 DEF w
<1>4. Unmix(Forth(x)[2]) = <<0, x, 0, 0>>
  <2> DEFINE w == Forth(x)[2]
  <2>1. w \in Word /\ w[1] = t /\ w[2] = d /\ w[3] = x /\ w[4] = x
    BY <1>2
  <2> HIDE DEF w
  <2>2. /\ Xor(Xor(Inv14(t), Inv11(d)), Xor(Inv13(x), Inv9(x))) = 0
        /\ Xor(Xor(Inv9(t), Inv14(d)), Xor(Inv11(x), Inv13(x))) = x
        /\ Xor(Xor(Inv13(t), Inv9(d)), Xor(Inv14(x), Inv11(x))) = 0
        /\ Xor(Xor(Inv11(t), Inv13(d)), Xor(Inv9(x), Inv14(x))) = 0
    BY <1>1, InvOfForth
  <2>3. Unmix(w)[1] = 0 /\ Unmix(w)[2] = x /\ Unmix(w)[3] = 0 /\ Unmix(w)[4] = 0
    BY <2>1, <2>2, UnmixIs
  <2>4. Unmix(w) \in Word
    BY <2>1, UnmixIs
  <2>5. Unmix(w) = <<0, x, 0, 0>>
    BY <2>3, <2>4, WordsAre, Zenon
  <2> QED BY <2>5 DEF w
<1>5. Unmix(Forth(x)[3]) = <<0, 0, x, 0>>
  <2> DEFINE w == Forth(x)[3]
  <2>1. w \in Word /\ w[1] = x /\ w[2] = t /\ w[3] = d /\ w[4] = x
    BY <1>2
  <2> HIDE DEF w
  <2>2. /\ Xor(Xor(Inv14(x), Inv11(t)), Xor(Inv13(d), Inv9(x))) = 0
        /\ Xor(Xor(Inv9(x), Inv14(t)), Xor(Inv11(d), Inv13(x))) = 0
        /\ Xor(Xor(Inv13(x), Inv9(t)), Xor(Inv14(d), Inv11(x))) = x
        /\ Xor(Xor(Inv11(x), Inv13(t)), Xor(Inv9(d), Inv14(x))) = 0
    BY <1>1, InvOfForth
  <2>3. Unmix(w)[1] = 0 /\ Unmix(w)[2] = 0 /\ Unmix(w)[3] = x /\ Unmix(w)[4] = 0
    BY <2>1, <2>2, UnmixIs
  <2>4. Unmix(w) \in Word
    BY <2>1, UnmixIs
  <2>5. Unmix(w) = <<0, 0, x, 0>>
    BY <2>3, <2>4, WordsAre, Zenon
  <2> QED BY <2>5 DEF w
<1>6. Unmix(Forth(x)[4]) = <<0, 0, 0, x>>
  <2> DEFINE w == Forth(x)[4]
  <2>1. w \in Word /\ w[1] = x /\ w[2] = x /\ w[3] = t /\ w[4] = d
    BY <1>2
  <2> HIDE DEF w
  <2>2. /\ Xor(Xor(Inv14(x), Inv11(x)), Xor(Inv13(t), Inv9(d))) = 0
        /\ Xor(Xor(Inv9(x), Inv14(x)), Xor(Inv11(t), Inv13(d))) = 0
        /\ Xor(Xor(Inv13(x), Inv9(x)), Xor(Inv14(t), Inv11(d))) = 0
        /\ Xor(Xor(Inv11(x), Inv13(x)), Xor(Inv9(t), Inv14(d))) = x
    BY <1>1, InvOfForth
  <2>3. Unmix(w)[1] = 0 /\ Unmix(w)[2] = 0 /\ Unmix(w)[3] = 0 /\ Unmix(w)[4] = x
    BY <2>1, <2>2, UnmixIs
  <2>4. Unmix(w) \in Word
    BY <2>1, UnmixIs
  <2>5. Unmix(w) = <<0, 0, 0, x>>
    BY <2>3, <2>4, WordsAre, Zenon
  <2> QED BY <2>5 DEF w
<1> QED BY <1>3, <1>4, <1>5, <1>6

(* InvMixColumns undoes MixColumns.                                         *)
LEMMA UnmixMix ==
  ASSUME NEW a \in Word
  PROVE  MixWord(a) \in Word /\ Unmix(MixWord(a)) = a
<1> DEFINE w1 == Forth(a[1])[1]
           w2 == Forth(a[2])[2]
           w3 == Forth(a[3])[3]
           w4 == Forth(a[4])[4]
<1>1. a[1] \in Byte /\ a[2] \in Byte /\ a[3] \in Byte /\ a[4] \in Byte /\ 0 \in Byte
  BY WordsAre, BytesAre
<1>2. w1 \in Word /\ w2 \in Word /\ w3 \in Word /\ w4 \in Word
  BY <1>1, ForthIs
<1>3. /\ Unmix(w1) = <<a[1], 0, 0, 0>> /\ Unmix(w2) = <<0, a[2], 0, 0>>
      /\ Unmix(w3) = <<0, 0, a[3], 0>> /\ Unmix(w4) = <<0, 0, 0, a[4]>>
  BY <1>1, UnmixForth
<1>4. MixWord(a) = XorWord(XorWord(w1, w2), XorWord(w3, w4))
  BY DEF MixWord
<1> HIDE DEF w1, w2, w3, w4
<1>5. XorWord(w1, w2) \in Word /\ XorWord(w3, w4) \in Word
  BY <1>2, XorWordIs
<1>6. Unmix(MixWord(a)) = XorWord(XorWord(Unmix(w1), Unmix(w2)), XorWord(Unmix(w3), Unmix(w4)))
  <2>1. Unmix(MixWord(a)) = XorWord(Unmix(XorWord(w1, w2)), Unmix(XorWord(w3, w4)))
    BY <1>4, <1>5, UnmixSum
  <2>2. /\ Unmix(XorWord(w1, w2)) = XorWord(Unmix(w1), Unmix(w2))
        /\ Unmix(XorWord(w3, w4)) = XorWord(Unmix(w3), Unmix(w4))
    BY <1>2, UnmixSum
  <2> QED BY <2>1, <2>2
<1> DEFINE u1 == <<a[1], 0, 0, 0>>
           u2 == <<0, a[2], 0, 0>>
           u3 == <<0, 0, a[3], 0>>
           u4 == <<0, 0, 0, a[4]>>
<1>7. /\ Xor(a[1], 0) = a[1] /\ Xor(0, a[2]) = a[2] /\ Xor(a[2], 0) = a[2]
      /\ Xor(a[3], 0) = a[3] /\ Xor(0, a[3]) = a[3] /\ Xor(0, a[4]) = a[4] /\ Xor(0, 0) = 0
  BY <1>1, XorAlgebra
<1>8. /\ u1 \in Word /\ u1[1] = a[1] /\ u1[2] = 0 /\ u1[3] = 0 /\ u1[4] = 0
      /\ u2 \in Word /\ u2[1] = 0 /\ u2[2] = a[2] /\ u2[3] = 0 /\ u2[4] = 0
      /\ u3 \in Word /\ u3[1] = 0 /\ u3[2] = 0 /\ u3[3] = a[3] /\ u3[4] = 0
      /\ u4 \in Word /\ u4[1] = 0 /\ u4[2] = 0 /\ u4[3] = 0 /\ u4[4] = a[4]
  BY <1>1, WordsAre
<1>9. XorWord(XorWord(u1, u2), XorWord(u3, u4)) = a
  <2> HIDE DEF u1, u2, u3, u4
  <2> DEFINE x == XorWord(u1, u2)
             y == XorWord(u3, u4)
  <2>1. x \in Word /\ x[1] = a[1] /\ x[2] = a[2] /\ x[3] = 0 /\ x[4] = 0
    <3>1. x \in Word /\ x[1] = Xor(u1[1], u2[1]) /\ x[2] = Xor(u1[2], u2[2])
                     /\ x[3] = Xor(u1[3], u2[3]) /\ x[4] = Xor(u1[4], u2[4])
      BY <1>8, XorWordIs
    <3> QED BY <1>7, <1>8, <3>1
  <2>2. y \in Word /\ y[1] = 0 /\ y[2] = 0 /\ y[3] = a[3] /\ y[4] = a[4]
    <3>1. y \in Word /\ y[1] = Xor(u3[1], u4[1]) /\ y[2] = Xor(u3[2], u4[2])
                     /\ y[3] = Xor(u3[3], u4[3]) /\ y[4] = Xor(u3[4], u4[4])
      BY <1>8, XorWordIs
    <3> QED BY <1>7, <1>8, <3>1
  <2> HIDE DEF x, y
  <2>3. XorWord(x, y) = <<Xor(x[1], y[1]), Xor(x[2], y[2]), Xor(x[3], y[3]), Xor(x[4], y[4])>>
    BY <2>1, <2>2, XorWordIs
  <2>4. Xor(x[1], y[1]) = a[1] /\ Xor(x[2], y[2]) = a[2] /\ Xor(x[3], y[3]) = a[3] /\ Xor(x[4], y[4]) = a[4]
    BY <1>7, <2>1, <2>2
  <2>5. a = <<a[1], a[2], a[3], a[4]>>
    BY WordsAre
  <2>6. XorWord(x, y) = a
    BY <2>3, <2>4, <2>5
  <2> QED BY <2>6 DEF x, y
<1>10. MixWord(a) \in Word
  BY <1>4, <1>5, XorWordIs
<1> QED BY <1>3, <1>6, <1>9, <1>10

-----------------------------------------------------------------------------
(* The affine part of the substitution loses nothing.                       *)
Affine(x) == Sum5(x, RotBit(x))
(* Its bits.                                                                *)
LEMMA AffineBits ==
  ASSUME NEW x \in Byte
  PROVE  /\ Affine(x) \in Byte
         /\ IsSet(Affine(x), 0) <=> ~(~(IsSet(x, 0) <=> IsSet(x, 7)) <=> ~(~(IsSet(x, 6) <=> IsSet(x, 5)) <=> IsSet(x, 4)))
         /\ IsSet(Affine(x), 1) <=> ~(~(IsSet(x, 1) <=> IsSet(x, 0)) <=> ~(~(IsSet(x, 7) <=> IsSet(x, 6)) <=> IsSet(x, 5)))
         /\ IsSet(Affine(x), 2) <=> ~(~(IsSet(x, 2) <=> IsSet(x, 1)) <=> ~(~(IsSet(x, 0) <=> IsSet(x, 7)) <=> IsSet(x, 6)))
         /\ IsSet(Affine(x), 3) <=> ~(~(IsSet(x, 3) <=> IsSet(x, 2)) <=> ~(~(IsSet(x, 1) <=> IsSet(x, 0)) <=> IsSet(x, 7)))
         /\ IsSet(Affine(x), 4) <=> ~(~(IsSet(x, 4) <=> IsSet(x, 3)) <=> ~(~(IsSet(x, 2) <=> IsSet(x, 1)) <=> IsSet(x, 0)))
         /\ IsSet(Affine(x), 5) <=> ~(~(IsSet(x, 5) <=> IsSet(x, 4)) <=> ~(~(IsSet(x, 3) <=> IsSet(x, 2)) <=> IsSet(x, 1)))
         /\ IsSet(Affine(x), 6) <=> ~(~(IsSet(x, 6) <=> IsSet(x, 5)) <=> ~(~(IsSet(x, 4) <=> IsSet(x, 3)) <=> IsSet(x, 2)))
         /\ IsSet(Affine(x), 7) <=> ~(~(IsSet(x, 7) <=> IsSet(x, 6)) <=> ~(~(IsSet(x, 5) <=> IsSet(x, 4)) <=> IsSet(x, 3)))
<1> DEFINE r1 == RotBit(x)
           r2 == RotBit(r1)
           r3 == RotBit(r2)
           r4 == RotBit(r3)
<1>1. r1 \in Byte /\ r2 \in Byte /\ r3 \in Byte /\ r4 \in Byte
  BY RotBits
<1>2. Affine(x) = Xor(Xor(x, r1), Xor(Xor(r2, r3), r4))
  BY DEF Affine, Sum5
<1>3. /\ IsSet(r1, 0) <=> IsSet(x, 7)
      /\ IsSet(r1, 1) <=> IsSet(x, 0)
      /\ IsSet(r1, 2) <=> IsSet(x, 1)
      /\ IsSet(r1, 3) <=> IsSet(x, 2)
      /\ IsSet(r1, 4) <=> IsSet(x, 3)
      /\ IsSet(r1, 5) <=> IsSet(x, 4)
      /\ IsSet(r1, 6) <=> IsSet(x, 5)
      /\ IsSet(r1, 7) <=> IsSet(x, 6)
  BY RotBits
<1>4. /\ IsSet(r2, 0) <=> IsSet(x, 6)
      /\ IsSet(r2, 1) <=> IsSet(x, 7)
      /\ IsSet(r2, 2) <=> IsSet(x, 0)
      /\ IsSet(r2, 3) <=> IsSet(x, 1)
      /\ IsSet(r2, 4) <=> IsSet(x, 2)
      /\ IsSet(r2, 5) <=> IsSet(x, 3)
      /\ IsSet(r2, 6) <=> IsSet(x, 4)
      /\ IsSet(r2, 7) <=> IsSet(x, 5)
  <2>1. /\ IsSet(r2, 0) <=> IsSet(r1, 7)
        /\ IsSet(r2, 1) <=> IsSet(r1, 0)
        /\ IsSet(r2, 2) <=> IsSet(r1, 1)
        /\ IsSet(r2, 3) <=> IsSet(r1, 2)
        /\ IsSet(r2, 4) <=> IsSet(r1, 3)
        /\ IsSet(r2, 5) <=> IsSet(r1, 4)
        /\ IsSet(r2, 6) <=> IsSet(r1, 5)
        /\ IsSet(r2, 7) <=> IsSet(r1, 6)
    BY <1>1, RotBits
  <2> QED BY <1>3, <2>1
<1>5. /\ IsSet(r3, 0) <=> IsSet(x, 5)
      /\ IsSet(r3, 1) <=> IsSet(x, 6)
      /\ IsSet(r3, 2) <=> IsSet(x, 7)
      /\ IsSet(r3, 3) <=> IsSet(x, 0)
      /\ IsSet(r3, 4) <=> IsSet(x, 1)
      /\ IsSet(r3, 5) <=> IsSet(x, 2)
      /\ IsSet(r3, 6) <=> IsSet(x, 3)
      /\ IsSet(r3, 7) <=> IsSet(x, 4)
  <2>1. /\ IsSet(r3, 0) <=> IsSet(r2, 7)
        /\ IsSet(r3, 1) <=> IsSet(r2, 0)
        /\ IsSet(r3, 2) <=> IsSet(r2, 1)
        /\ IsSet(r3, 3) <=> IsSet(r2, 2)
        /\ IsSet(r3, 4) <=> IsSet(r2, 3)
        /\ IsSet(r3, 5) <=> IsSet(r2, 4)
        /\ IsSet(r3, 6) <=> IsSet(r2, 5)
        /\ IsSet(r3, 7) <=> IsSet(r2, 6)
    BY <1>1, RotBits
  <2> QED BY <1>4, <2>1
<1>6. /\ IsSet(r4, 0) <=> IsSet(x, 4)
      /\ IsSet(r4, 1) <=> IsSet(x, 5)
      /\ IsSet(r4, 2) <=> IsSet(x, 6)
      /\ IsSet(r4, 3) <=> IsSet(x, 7)
      /\ IsSet(r4, 4) <=> IsSet(x, 0)
      /\ IsSet(r4, 5) <=> IsSet(x, 1)
      /\ IsSet(r4, 6) <=> IsSet(x, 2)
      /\ IsSet(r4, 7) <=> IsSet(x, 3)
  <2>1. /\ IsSet(r4, 0) <=> IsSet(r3, 7)
        /\ IsSet(r4, 1) <=> IsSet(r3, 0)
        /\ IsSet(r4, 2) <=> IsSet(r3, 1)
        /\ IsSet(r4, 3) <=> IsSet(r3, 2)
        /\ IsSet(r4, 4) <=> IsSet(r3, 3)
        /\ IsSet(r4, 5) <=> IsSet(r3, 4)
        /\ IsSet(r4, 6) <=> IsSet(r3, 5)
        /\ IsSet(r4, 7) <=> IsSet(r3, 6)
    BY <1>1, RotBits
  <2> QED BY <1>5, <2>1
<1> HIDE DEF r1, r2, r3, r4
<1>7. Xor(x, r1) \in Byte /\ Xor(r2, r3) \in Byte /\ Xor(Xor(r2, r3), r4) \in Byte
  BY <1>1, XorFacts
<1>8. Affine(x) \in Byte
  BY <1>2, <1>7, XorFacts
<1>9. ASSUME NEW k \in 0 .. 7
      PROVE  IsSet(Affine(x), k) <=> ~(~(IsSet(x, k) <=> IsSet(r1, k)) <=> ~(~(IsSet(r2, k) <=> IsSet(r3, k)) <=> IsSet(r4, k)))
  <2>1. IsSet(Affine(x), k) <=> ~(IsSet(Xor(x, r1), k) <=> IsSet(Xor(Xor(r2, r3), r4), k))
    BY <1>2, <1>7, XorBits
  <2>2. IsSet(Xor(Xor(r2, r3), r4), k) <=> ~(IsSet(Xor(r2, r3), k) <=> IsSet(r4, k))
    BY <1>1, <1>7, XorBits
  <2>3. IsSet(Xor(x, r1), k) <=> ~(IsSet(x, k) <=> IsSet(r1, k))
    BY <1>1, XorBits
  <2>4. IsSet(Xor(r2, r3), k) <=> ~(IsSet(r2, k) <=> IsSet(r3, k))
    BY <1>1, XorBits
  <2> QED BY <2>1, <2>2, <2>3, <2>4
<1>10. /\ 0 \in 0 .. 7 /\ 1 \in 0 .. 7 /\ 2 \in 0 .. 7 /\ 3 \in 0 .. 7
       /\ 4 \in 0 .. 7 /\ 5 \in 0 .. 7 /\ 6 \in 0 .. 7 /\ 7 \in 0 .. 7
  OBVIOUS
<1>11. IsSet(Affine(x), 0) <=> ~(~(IsSet(x, 0) <=> IsSet(x, 7)) <=> ~(~(IsSet(x, 6) <=> IsSet(x, 5)) <=> IsSet(x, 4)))
  BY <1>3, <1>4, <1>5, <1>6, <1>9, <1>10
<1>12. IsSet(Affine(x), 1) <=> ~(~(IsSet(x, 1) <=> IsSet(x, 0)) <=> ~(~(IsSet(x, 7) <=> IsSet(x, 6)) <=> IsSet(x, 5)))
  BY <1>3, <1>4, <1>5, <1>6, <1>9, <1>10
<1>13. IsSet(Affine(x), 2) <=> ~(~(IsSet(x, 2) <=> IsSet(x, 1)) <=> ~(~(IsSet(x, 0) <=> IsSet(x, 7)) <=> IsSet(x, 6)))
  BY <1>3, <1>4, <1>5, <1>6, <1>9, <1>10
<1>14. IsSet(Affine(x), 3) <=> ~(~(IsSet(x, 3) <=> IsSet(x, 2)) <=> ~(~(IsSet(x, 1) <=> IsSet(x, 0)) <=> IsSet(x, 7)))
  BY <1>3, <1>4, <1>5, <1>6, <1>9, <1>10
<1>15. IsSet(Affine(x), 4) <=> ~(~(IsSet(x, 4) <=> IsSet(x, 3)) <=> ~(~(IsSet(x, 2) <=> IsSet(x, 1)) <=> IsSet(x, 0)))
  BY <1>3, <1>4, <1>5, <1>6, <1>9, <1>10
<1>16. IsSet(Affine(x), 5) <=> ~(~(IsSet(x, 5) <=> IsSet(x, 4)) <=> ~(~(IsSet(x, 3) <=> IsSet(x, 2)) <=> IsSet(x, 1)))
  BY <1>3, <1>4, <1>5, <1>6, <1>9, <1>10
<1>17. IsSet(Affine(x), 6) <=> ~(~(IsSet(x, 6) <=> IsSet(x, 5)) <=> ~(~(IsSet(x, 4) <=> IsSet(x, 3)) <=> IsSet(x, 2)))
  BY <1>3, <1>4, <1>5, <1>6, <1>9, <1>10
<1>18. IsSet(Affine(x), 7) <=> ~(~(IsSet(x, 7) <=> IsSet(x, 6)) <=> ~(~(IsSet(x, 5) <=> IsSet(x, 4)) <=> IsSet(x, 3)))
  BY <1>3, <1>4, <1>5, <1>6, <1>9, <1>10
<1> QED BY <1>8, <1>11, <1>12, <1>13, <1>14, <1>15, <1>16, <1>17, <1>18

(* Different bytes stay different.                                          *)
LEMMA AffineDiffers ==
  ASSUME NEW x \in Byte, NEW y \in Byte, Affine(x) = Affine(y)
  PROVE  x = y
<1>1. ~(~(IsSet(x, 0) <=> IsSet(x, 7)) <=> ~(~(IsSet(x, 6) <=> IsSet(x, 5)) <=> IsSet(x, 4)))
        <=> ~(~(IsSet(y, 0) <=> IsSet(y, 7)) <=> ~(~(IsSet(y, 6) <=> IsSet(y, 5)) <=> IsSet(y, 4)))
  BY AffineBits
<1>2. ~(~(IsSet(x, 1) <=> IsSet(x, 0)) <=> ~(~(IsSet(x, 7) <=> IsSet(x, 6)) <=> IsSet(x, 5)))
        <=> ~(~(IsSet(y, 1) <=> IsSet(y, 0)) <=> ~(~(IsSet(y, 7) <=> IsSet(y, 6)) <=> IsSet(y, 5)))
  BY AffineBits
<1>3. ~(~(IsSet(x, 2) <=> IsSet(x, 1)) <=> ~(~(IsSet(x, 0) <=> IsSet(x, 7)) <=> IsSet(x, 6)))
        <=> ~(~(IsSet(y, 2) <=> IsSet(y, 1)) <=> ~(~(IsSet(y, 0) <=> IsSet(y, 7)) <=> IsSet(y, 6)))
  BY AffineBits
<1>4. ~(~(IsSet(x, 3) <=> IsSet(x, 2)) <=> ~(~(IsSet(x, 1) <=> IsSet(x, 0)) <=> IsSet(x, 7)))
        <=> ~(~(IsSet(y, 3) <=> IsSet(y, 2)) <=> ~(~(IsSet(y, 1) <=> IsSet(y, 0)) <=> IsSet(y, 7)))
  BY AffineBits
<1>5. ~(~(IsSet(x, 4) <=> IsSet(x, 3)) <=> ~(~(IsSet(x, 2) <=> IsSet(x, 1)) <=> IsSet(x, 0)))
        <=> ~(~(IsSet(y, 4) <=> IsSet(y, 3)) <=> ~(~(IsSet(y, 2) <=> IsSet(y, 1)) <=> IsSet(y, 0)))
  BY AffineBits
<1>6. ~(~(IsSet(x, 5) <=> IsSet(x, 4)) <=> ~(~(IsSet(x, 3) <=> IsSet(x, 2)) <=> IsSet(x, 1)))
        <=> ~(~(IsSet(y, 5) <=> IsSet(y, 4)) <=> ~(~(IsSet(y, 3) <=> IsSet(y, 2)) <=> IsSet(y, 1)))
  BY AffineBits
<1>7. ~(~(IsSet(x, 6) <=> IsSet(x, 5)) <=> ~(~(IsSet(x, 4) <=> IsSet(x, 3)) <=> IsSet(x, 2)))
        <=> ~(~(IsSet(y, 6) <=> IsSet(y, 5)) <=> ~(~(IsSet(y, 4) <=> IsSet(y, 3)) <=> IsSet(y, 2)))
  BY AffineBits
<1>8. ~(~(IsSet(x, 7) <=> IsSet(x, 6)) <=> ~(~(IsSet(x, 5) <=> IsSet(x, 4)) <=> IsSet(x, 3)))
        <=> ~(~(IsSet(y, 7) <=> IsSet(y, 6)) <=> ~(~(IsSet(y, 5) <=> IsSet(y, 4)) <=> IsSet(y, 3)))
  BY AffineBits
<1>9. /\ IsSet(x, 0) <=> IsSet(y, 0)
      /\ IsSet(x, 1) <=> IsSet(y, 1)
      /\ IsSet(x, 2) <=> IsSet(y, 2)
      /\ IsSet(x, 3) <=> IsSet(y, 3)
      /\ IsSet(x, 4) <=> IsSet(y, 4)
      /\ IsSet(x, 5) <=> IsSet(y, 5)
      /\ IsSet(x, 6) <=> IsSet(y, 6)
      /\ IsSet(x, 7) <=> IsSet(y, 7)
  BY <1>1, <1>2, <1>3, <1>4, <1>5, <1>6, <1>7, <1>8
<1> QED BY <1>9, EightBits, ByteIsBits

(* Zero stays zero before 99 is added.                                      *)
LEMMA AffineOfZero == Affine(0) = 0
<1>1. 0 \in Byte
  BY BytesAre
<1>2. /\ 0 \in 0 .. 7 /\ 1 \in 0 .. 7 /\ 2 \in 0 .. 7 /\ 3 \in 0 .. 7
      /\ 4 \in 0 .. 7 /\ 5 \in 0 .. 7 /\ 6 \in 0 .. 7 /\ 7 \in 0 .. 7
  OBVIOUS
<1>3. /\ ~IsSet(0, 0) /\ ~IsSet(0, 1) /\ ~IsSet(0, 2) /\ ~IsSet(0, 3)
      /\ ~IsSet(0, 4) /\ ~IsSet(0, 5) /\ ~IsSet(0, 6) /\ ~IsSet(0, 7)
  BY <1>2, ConstantBits
<1>4. /\ ~IsSet(Affine(0), 0) /\ ~IsSet(Affine(0), 1) /\ ~IsSet(Affine(0), 2) /\ ~IsSet(Affine(0), 3)
      /\ ~IsSet(Affine(0), 4) /\ ~IsSet(Affine(0), 5) /\ ~IsSet(Affine(0), 6) /\ ~IsSet(Affine(0), 7)
  BY <1>1, <1>3, AffineBits
<1>5. Affine(0) \in Byte
  BY <1>1, AffineBits
<1>6. \A k \in 0 .. 7 : IsSet(Affine(0), k) <=> IsSet(0, k)
  BY <1>3, <1>4, EightBits
<1> QED BY <1>1, <1>5, <1>6, ByteIsBits

(* The loop of aes_gen_tables computes it (aes.c:394-408).                  *)
LEMMA SubstitutedIs ==
  /\ \A x \in Byte : Substituted(x) = Xor(Affine(x), 99) /\ Substituted(x) \in Byte
  /\ \A x, y \in Byte : Substituted(x) = Substituted(y) => x = y
<1>1. 99 \in Byte /\ 0 \in Byte
  BY BytesAre
<1>2. Xor(0, 99) = 99
  BY <1>1, XorAlgebra
<1>3. ASSUME NEW x \in Byte  PROVE Substituted(x) = Xor(Affine(x), 99) /\ Substituted(x) \in Byte
  <2>1. Affine(x) \in Byte
    BY AffineBits
  <2>2. Substituted(x) = Xor(Affine(x), 99)
    BY <1>2, AffineOfZero DEF Substituted, Affine
  <2> QED BY <1>1, <2>1, <2>2, XorFacts
<1>4. ASSUME NEW x \in Byte, NEW y \in Byte, Substituted(x) = Substituted(y)  PROVE x = y
  <2>1. Affine(x) \in Byte /\ Affine(y) \in Byte
    BY AffineBits
  <2>2. Xor(Affine(x), 99) = Xor(Affine(y), 99)
    BY <1>3, <1>4
  <2>3. ASSUME NEW z \in Byte  PROVE Xor(Xor(z, 99), 99) = z
    <3>1. Xor(Xor(z, 99), 99) = Xor(z, Xor(99, 99)) /\ Xor(99, 99) = 0 /\ Xor(z, 0) = z
      BY <1>1, XorAlgebra
    <3> QED BY <3>1
  <2>4. Affine(x) = Affine(y)
    BY <2>1, <2>2, <2>3
  <2> QED BY <2>4, AffineDiffers
<1> QED BY <1>3, <1>4

(* The inverse in the field, by logarithms.                                 *)
Inverse3(i) == IF i = 0 THEN 0 ELSE Pw[255 - Lg[i]]
(* Different bytes have different inverses.                                 *)
LEMMA InverseDiffers ==
  /\ \A i \in Byte : Inverse3(i) \in Byte
  /\ \A i, j \in Byte : Inverse3(i) = Inverse3(j) => i = j
<1>1. Pw[0] = 1 /\ Pw[255] = 1
  BY Logarithms, OrderOfThree DEF Powers3
<1> DEFINE e(i) == IF Lg[i] = 255 THEN 255 ELSE 255 - Lg[i]
<1>2. \A i \in Byte : i # 0 => i \in Exponent
  BY DEF Exponent
<1>3. ASSUME NEW i \in Exponent  PROVE e(i) \in Exponent /\ Inverse3(i) = Pw[e(i)] /\ Lg[i] = IF e(i) = 255 THEN 255 ELSE 255 - e(i)
  <2>1. Lg[i] \in Int /\ 1 <= Lg[i] /\ Lg[i] <= 255 /\ i # 0
    BY Logarithms, ExponentsAre
  <2>2. e(i) \in Exponent
    BY <2>1, ExponentsAre
  <2>3. Lg[i] = IF e(i) = 255 THEN 255 ELSE 255 - e(i)
    BY <2>1
  <2>4. Inverse3(i) = Pw[e(i)]
    <3>1. CASE Lg[i] = 255
      <4>1. 255 - Lg[i] = 0 /\ e(i) = 255
        BY <3>1
      <4> HIDE DEF e
      <4> QED BY <1>1, <2>1, <4>1 DEF Inverse3
    <3>2. CASE Lg[i] # 255
      BY <2>1, <3>2 DEF Inverse3
    <3> QED BY <3>1, <3>2
  <2> QED BY <2>2, <2>3, <2>4
<1> HIDE DEF e
<1>4. \A i \in Exponent : Inverse3(i) \in Exponent
  BY <1>3, Logarithms
<1>5. ASSUME NEW i \in Exponent, NEW j \in Exponent, Inverse3(i) = Inverse3(j)  PROVE i = j
  <2>1. Pw[e(i)] = Pw[e(j)] /\ e(i) \in Exponent /\ e(j) \in Exponent
    BY <1>3, <1>5
  <2>2. e(i) = e(j)
    BY <2>1, Logarithms
  <2>3. Lg[i] = Lg[j]
    BY <1>3, <2>2
  <2> QED BY <2>3, Logarithms
<1>6. Inverse3(0) = 0 /\ 0 \notin Exponent /\ 0 \in Byte
  BY BytesAre DEF Inverse3, Exponent
<1>7. ASSUME NEW i \in Byte  PROVE Inverse3(i) \in Byte
  BY <1>2, <1>4, <1>6, ExponentsAre
<1>8. ASSUME NEW i \in Byte, NEW j \in Byte, Inverse3(i) = Inverse3(j)  PROVE i = j
  BY <1>2, <1>4, <1>5, <1>6, <1>8
<1> QED BY <1>7, <1>8

(* FSb is a substitution: bytes to bytes, different to different.           *)
LEMMA SbIs ==
  /\ Sb \in [Byte -> Byte]
  /\ \A i \in Byte : Sb[i] = Substituted(Inverse3(i))
  /\ \A i \in Byte : Rb[Sb[i]] = i
<1>1. Sb = [i \in Byte |-> Substituted(Inverse3(i))]
  BY TableIs DEF Sb, FSbTable, Inverse3
<1>2. Sb \in [Byte -> Byte]
  BY <1>1, InverseDiffers, SubstitutedIs
<1>3. \A i, j \in Byte : Sb[i] = Sb[j] => i = j
  BY <1>1, InverseDiffers, SubstitutedIs
<1>4. Rb = [x \in Byte |-> CHOOSE i \in Byte : Sb[i] = x]
  BY TableIs DEF Rb, RSbTable
<1>5. ASSUME NEW i \in Byte  PROVE Rb[Sb[i]] = i
  <2>1. Sb[i] \in Byte
    BY <1>2
  <2>2. Rb[Sb[i]] = CHOOSE j \in Byte : Sb[j] = Sb[i]
    BY <1>4, <2>1
  <2>3. (CHOOSE j \in Byte : Sb[j] = Sb[i]) \in Byte /\ Sb[CHOOSE j \in Byte : Sb[j] = Sb[i]] = Sb[i]
    OBVIOUS
  <2> QED BY <1>3, <2>2, <2>3
<1>6. \A i \in Byte : Sb[i] = Substituted(Inverse3(i))
  BY <1>1
<1> QED BY <1>2, <1>5, <1>6

(* What a round looks up in the tables.                                     *)
Tb == TablesOf(Pw, Lg, Sb, Rb)
(* What the later proofs use of the tables.                                 *)
LEMMA TableFacts ==
  /\ aes_gen_tables = Tb
  /\ Tb.FSb = Sb /\ Tb.RSb = Rb /\ Tb.RCON = RconTable
  /\ \A i \in Byte : Tb.FT[i] = Forth(Sb[i])
  /\ \A i \in Byte : Tb.RT[Sb[i]] = Back(Pw, Lg, i)
<1>1. aes_gen_tables = Tb
  BY TablesAre DEF Tb
<1>2. /\ Tb.FSb = Sb /\ Tb.RSb = Rb /\ Tb.RCON = RconTable
      /\ Tb.FT = [i \in Byte |-> Forth(Sb[i])]
      /\ Tb.RT = [i \in Byte |-> Back(Pw, Lg, Rb[i])]
  BY TableIs DEF Tb, TablesOf
<1>3. ASSUME NEW i \in Byte  PROVE Tb.FT[i] = Forth(Sb[i])
  BY <1>2
<1>4. ASSUME NEW i \in Byte  PROVE Tb.RT[Sb[i]] = Back(Pw, Lg, i)
  <2>1. Sb[i] \in Byte /\ Rb[Sb[i]] = i
    BY SbIs
  <2> QED BY <1>2, <2>1
<1> QED BY <1>1, <1>2, <1>3, <1>4

-----------------------------------------------------------------------------
(* A round by tables, forth and back.                                       *)

(* The inverse substitution yields bytes.                                   *)
LEMMA RbBytes == \A x \in Byte : Rb[x] \in Byte
<1>1. \A i, j \in Byte : Sb[i] = Sb[j] => i = j
  BY SbIs
<1>2. Sb \in Injection(Byte, Byte)
  <2>1. IsInjective(Sb)
    <3>1. DOMAIN Sb = Byte
      BY SbIs
    <3> QED BY <1>1, <3>1 DEF IsInjective
  <2> QED BY <2>1, SbIs DEF Injection
<1>3. IsFiniteSet(Byte)
  <2>1. 0 \in Int /\ 255 \in Int
    OBVIOUS
  <2> QED BY <2>1, FS_Interval, Zenon DEF Byte
<1>4. Sb \in Surjection(Byte, Byte)
  BY <1>2, <1>3, FS_Injection
<1>5. \A x \in Byte : \E i \in Byte : Sb[i] = x
  BY <1>4 DEF Surjection
<1>6. Rb = [x \in Byte |-> CHOOSE i \in Byte : Sb[i] = x]
  BY TableIs DEF Rb, RSbTable
<1> QED BY <1>5, <1>6

-----------------------------------------------------------------------------
(* A state is four columns.                                                 *)
Columns == [1 .. 4 -> Word]
WordPlaces  == 1 .. 4

(* A state is four columns of four bytes.                                   *)
LEMMA ColumnsAre ==
  /\ \A x \in Columns : \A j, k \in WordPlaces : x[j] \in Word /\ x[j][k] \in Byte
  /\ \A x, y \in Columns : (\A j, k \in WordPlaces : x[j][k] = y[j][k]) => x = y
<1>1. \A x \in Columns : \A j, k \in WordPlaces : x[j] \in Word /\ x[j][k] \in Byte
  BY DEF Columns, WordPlaces, Word
<1>2. ASSUME NEW x \in Columns, NEW y \in Columns, \A j, k \in WordPlaces : x[j][k] = y[j][k]  PROVE x = y
  <2>1. ASSUME NEW j \in WordPlaces  PROVE x[j] = y[j]
    <3>1. x[j] \in [WordPlaces -> Byte] /\ y[j] \in [WordPlaces -> Byte]
      BY DEF Columns, WordPlaces, Word
    <3> QED BY <1>2, <3>1
  <2>2. x \in [WordPlaces -> Word] /\ y \in [WordPlaces -> Word]
    BY DEF Columns, WordPlaces
  <2> QED BY <2>1, <2>2
<1> QED BY <1>1, <1>2

(* Adding a round key, byte by byte.                                        *)
LEMMA XorWordsIs ==
  ASSUME NEW x \in Columns, NEW y \in Columns
  PROVE  /\ XorWords(x, y) \in Columns
         /\ \A j \in WordPlaces : XorWords(x, y)[j] = XorWord(x[j], y[j])
         /\ \A j, k \in WordPlaces : XorWords(x, y)[j][k] = Xor(x[j][k], y[j][k])
<1>1. XorWords(x, y) = [j \in WordPlaces |-> XorWord(x[j], y[j])]
  BY TableIs DEF XorWords, WordPlaces
<1>2. ASSUME NEW j \in WordPlaces  PROVE XorWord(x[j], y[j]) \in Word
  BY ColumnsAre, XorWordIs
<1>3. XorWords(x, y) \in Columns
  BY <1>1, <1>2 DEF Columns, WordPlaces
<1>4. ASSUME NEW j \in WordPlaces, NEW k \in WordPlaces  PROVE XorWords(x, y)[j][k] = Xor(x[j][k], y[j][k])
  <2>1. XorWord(x[j], y[j]) = [i \in WordPlaces |-> Xor(x[j][i], y[j][i])]
    BY TableIs DEF XorWord, WordPlaces
  <2> QED BY <1>1, <2>1
<1> QED BY <1>1, <1>3, <1>4

(* Adding the same twice changes nothing.                                   *)
LEMMA AddedTwice ==
  ASSUME NEW x \in Columns, NEW y \in Columns
  PROVE  XorWords(x, XorWords(x, y)) = y
<1>1. XorWords(x, y) \in Columns /\ XorWords(x, XorWords(x, y)) \in Columns
  BY XorWordsIs
<1>2. ASSUME NEW j \in WordPlaces, NEW k \in WordPlaces  PROVE XorWords(x, XorWords(x, y))[j][k] = y[j][k]
  <2>1. XorWords(x, XorWords(x, y))[j][k] = Xor(x[j][k], Xor(x[j][k], y[j][k]))
    BY <1>1, XorWordsIs
  <2>2. x[j][k] \in Byte /\ y[j][k] \in Byte
    BY ColumnsAre
  <2>3. /\ Xor(Xor(x[j][k], x[j][k]), y[j][k]) = Xor(x[j][k], Xor(x[j][k], y[j][k]))
        /\ Xor(x[j][k], x[j][k]) = 0 /\ Xor(0, y[j][k]) = y[j][k]
    BY <2>2, XorAlgebra
  <2> QED BY <2>1, <2>3
<1> QED BY <1>1, <1>2, ColumnsAre

(* GetWords and PutWords of a block are inverse.                            *)
LEMMA BlocksAreColumns ==
  /\ \A b \in Block : Words(b) \in Columns /\ PutWords(Words(b)) = b
  /\ \A x \in Columns : PutWords(x) \in Block /\ Words(PutWords(x)) = x
<1>1. ASSUME NEW b \in Block  PROVE Words(b) \in Columns /\ PutWords(Words(b)) = b
  <2>1. \A i \in Index : b[i] \in Byte
    BY DEF Block
  <2>2. WordOf(b, 0) \in Word /\ WordOf(b, 4) \in Word /\ WordOf(b, 8) \in Word /\ WordOf(b, 12) \in Word
    <3>1. ASSUME NEW a, a \in Index, a + 1 \in Index, a + 2 \in Index, a + 3 \in Index
          PROVE  WordOf(b, a) \in Word
      BY <2>1, <3>1, WordsAre DEF WordOf
    <3>2. \A i \in 0 .. 15 : i \in Index
      BY DEF Index
    <3> QED BY <3>1, <3>2
  <2>3. Words(b) \in Columns
    <3>1. \A k \in 1 .. 4 : k = 1 \/ k = 2 \/ k = 3 \/ k = 4
      OBVIOUS
    <3> DEFINE x == Words(b)
    <3>2. x = <<WordOf(b, 0), WordOf(b, 4), WordOf(b, 8), WordOf(b, 12)>>
      BY DEF Words
    <3>3. x = [k \in 1 .. 4 |-> x[k]]
      BY <3>2
    <3>4. x[1] \in Word /\ x[2] \in Word /\ x[3] \in Word /\ x[4] \in Word
      BY <2>2, <3>2
    <3> HIDE DEF x
    <3>5. x \in [1 .. 4 -> Word]
      BY <3>1, <3>3, <3>4
    <3> QED BY <3>5 DEF x, Columns
  <2>4. \A i \in Index : Words(b)[(i \div 4) + 1][(i % 4) + 1] = b[i]
    <3> SUFFICES ASSUME NEW i \in Index  PROVE Words(b)[(i \div 4) + 1][(i % 4) + 1] = b[i]
      OBVIOUS
    <3>1. CASE i \in {0, 1, 2, 3}
      BY <3>1 DEF Words, WordOf
    <3>2. CASE i \in {4, 5, 6, 7}
      BY <3>2 DEF Words, WordOf
    <3>3. CASE i \in {8, 9, 10, 11}
      BY <3>3 DEF Words, WordOf
    <3>4. CASE i \in {12, 13, 14, 15}
      BY <3>4 DEF Words, WordOf
    <3> QED BY <3>1, <3>2, <3>3, <3>4 DEF Index
  <2>5. PutWords(Words(b)) = [i \in Index |-> Words(b)[(i \div 4) + 1][(i % 4) + 1]]
    BY TableIs DEF PutWords
  <2>6. b = [i \in Index |-> b[i]]
    BY DEF Block
  <2> QED BY <2>3, <2>4, <2>5, <2>6
<1>2. ASSUME NEW x \in Columns  PROVE PutWords(x) \in Block /\ Words(PutWords(x)) = x
  <2>1. PutWords(x) = [i \in Index |-> x[(i \div 4) + 1][(i % 4) + 1]]
    BY TableIs DEF PutWords
  <2>2. \A i \in Index : (i \div 4) + 1 \in WordPlaces /\ (i % 4) + 1 \in WordPlaces
    BY DEF Index, WordPlaces
  <2>3. PutWords(x) \in Block
    BY <2>1, <2>2, ColumnsAre DEF Block
  <2>4. Words(PutWords(x)) \in Columns
    BY <1>1, <2>3
  <2>5. ASSUME NEW j \in WordPlaces, NEW k \in WordPlaces  PROVE Words(PutWords(x))[j][k] = x[j][k]
    <3> DEFINE i == 4 * (j - 1) + (k - 1)
    <3>1. i \in Index /\ (i \div 4) + 1 = j /\ (i % 4) + 1 = k
      BY DEF Index, WordPlaces
    <3> HIDE DEF i
    <3>2. PutWords(x)[i] = x[j][k]
      BY <2>1, <3>1
    <3>3. PutWords(Words(PutWords(x))) = PutWords(x)
      BY <1>1, <2>3
    <3>4. PutWords(Words(PutWords(x)))[i] = Words(PutWords(x))[j][k]
      <4>1. PutWords(Words(PutWords(x))) = [h \in Index |-> Words(PutWords(x))[(h \div 4) + 1][(h % 4) + 1]]
        BY TableIs DEF PutWords
      <4> QED BY <3>1, <4>1
    <3> QED BY <3>2, <3>3, <3>4
  <2> QED BY <2>3, <2>4, <2>5, ColumnsAre
<1> QED BY <1>1, <1>2

(* Every byte that a round reads is one.                                    *)
LEMMA SourceIs ==
  ASSUME NEW y \in Columns, NEW mode \in {"encrypt", "decrypt"}
  PROVE  \A j, k \in WordPlaces : Source(y, mode, j, k) \in Byte
<1>1. \A j, k \in WordPlaces : ((j - k + 4) % 4) + 1 \in WordPlaces /\ ((j + k - 2) % 4) + 1 \in WordPlaces
  BY DEF WordPlaces
<1> QED BY <1>1, ColumnsAre DEF Source

(* The last round as a whole: every byte substituted and moved.             *)
LEMMA LastRoundIs ==
  ASSUME NEW y \in Columns, NEW mode \in {"encrypt", "decrypt"}
  PROVE  /\ LastRound(Tb, mode, y) \in Columns
         /\ \A j, k \in WordPlaces : LastRound(Tb, mode, y)[j][k] =
               IF mode = "decrypt" THEN Rb[Source(y, mode, j, k)] ELSE Sb[Source(y, mode, j, k)]
<1> DEFINE S == IF mode = "decrypt" THEN Rb ELSE Sb
<1>1. LastRound(Tb, mode, y) = [j \in WordPlaces |-> [k \in WordPlaces |-> S[Source(y, mode, j, k)]]]
  BY TableIs, TableFacts DEF LastRound, WordPlaces
<1>2. \A j, k \in WordPlaces : S[Source(y, mode, j, k)] \in Byte
  <2>1. \A b \in Byte : S[b] \in Byte
    BY SbIs, RbBytes
  <2> HIDE DEF S
  <2> QED BY <2>1, SourceIs
<1> HIDE DEF S
<1>3. LastRound(Tb, mode, y) \in Columns
  BY <1>1, <1>2 DEF Columns, Word, WordPlaces
<1>4. \A j, k \in WordPlaces : LastRound(Tb, mode, y)[j][k] = S[Source(y, mode, j, k)]
  BY <1>1
<1> QED BY <1>3, <1>4 DEF S

(* The inverse moves and substitutions undo those of the encryption.        *)
LEMMA MovedBack ==
  ASSUME NEW y \in Columns
  PROVE  \A j, k \in WordPlaces : Source(LastRound(Tb, "encrypt", y), "decrypt", j, k) = Sb[y[j][k]]
<1> SUFFICES ASSUME NEW j \in WordPlaces, NEW k \in WordPlaces
             PROVE  Source(LastRound(Tb, "encrypt", y), "decrypt", j, k) = Sb[y[j][k]]
  OBVIOUS
<1> DEFINE i == ((j - k + 4) % 4) + 1
<1>1. i \in WordPlaces /\ ((i + k - 2) % 4) + 1 = j
  BY DEF WordPlaces
<1>2. Source(LastRound(Tb, "encrypt", y), "decrypt", j, k) = LastRound(Tb, "encrypt", y)[i][k]
  BY DEF Source
<1> HIDE DEF i
<1>3. LastRound(Tb, "encrypt", y)[i][k] = Sb[Source(y, "encrypt", i, k)]
  BY <1>1, LastRoundIs
<1>4. Source(y, "encrypt", i, k) = y[j][k]
  BY <1>1 DEF Source
<1> QED BY <1>2, <1>3, <1>4

(* The last round back undoes the last round forth.                         *)
LEMMA LastUndone ==
  ASSUME NEW y \in Columns
  PROVE  LastRound(Tb, "decrypt", LastRound(Tb, "encrypt", y)) = y
<1> DEFINE z == LastRound(Tb, "encrypt", y)
<1>1. z \in Columns
  BY LastRoundIs
<1>2. \A j, k \in WordPlaces : Source(z, "decrypt", j, k) = Sb[y[j][k]]
  BY MovedBack
<1> HIDE DEF z
<1>3. LastRound(Tb, "decrypt", z) \in Columns
  BY <1>1, LastRoundIs
<1>4. \A j, k \in WordPlaces : LastRound(Tb, "decrypt", z)[j][k] = Rb[Source(z, "decrypt", j, k)]
  BY <1>1, LastRoundIs
<1>5. \A j, k \in WordPlaces : LastRound(Tb, "decrypt", z)[j][k] = y[j][k]
  BY <1>2, <1>4, SbIs, ColumnsAre
<1>6. LastRound(Tb, "decrypt", z) = y
  BY <1>3, <1>5, ColumnsAre
<1> QED BY <1>6 DEF z

(* A round forth through the tables: substituted, moved and mixed.          *)
LEMMA ForthRound ==
  ASSUME NEW y \in Columns
  PROVE  /\ TableRound(Tb, "encrypt", y) \in Columns
         /\ \A j \in WordPlaces : TableRound(Tb, "encrypt", y)[j] = MixWord(LastRound(Tb, "encrypt", y)[j])
<1> DEFINE z == LastRound(Tb, "encrypt", y)
           Part(j, k) == Tb.FT[Source(y, "encrypt", j, k)][k]
<1>1. z \in Columns /\ \A j, k \in WordPlaces : z[j][k] = Sb[Source(y, "encrypt", j, k)]
  BY LastRoundIs
<1>2. \A j, k \in WordPlaces : Part(j, k) = Forth(z[j][k])[k]
  BY <1>1, SourceIs, TableFacts
<1>3. TableRound(Tb, "encrypt", y)
        = [j \in WordPlaces |-> XorWord(XorWord(Part(j, 1), Part(j, 2)), XorWord(Part(j, 3), Part(j, 4)))]
  BY TableIs DEF TableRound, WordPlaces
<1> HIDE DEF z, Part
<1>4. 1 \in WordPlaces /\ 2 \in WordPlaces /\ 3 \in WordPlaces /\ 4 \in WordPlaces
  BY DEF WordPlaces
<1>5. \A j \in WordPlaces : TableRound(Tb, "encrypt", y)[j] = MixWord(z[j])
  BY <1>2, <1>3, <1>4 DEF MixWord
<1>6. \A j \in WordPlaces : MixWord(z[j]) \in Word
  BY <1>1, ColumnsAre, UnmixMix
<1>7. TableRound(Tb, "encrypt", y) \in Columns
  BY <1>3, <1>5, <1>6 DEF Columns, WordPlaces
<1> QED BY <1>5, <1>7 DEF z

(* A round back through the tables, likewise.                               *)
LEMMA BackRound ==
  ASSUME NEW z \in Columns
  PROVE  TableRound(Tb, "decrypt", z) \in Columns
<1> DEFINE Part(j, k) == Tb.RT[Source(z, "decrypt", j, k)][k]
<1>1. TableRound(Tb, "decrypt", z)
        = [j \in WordPlaces |-> XorWord(XorWord(Part(j, 1), Part(j, 2)), XorWord(Part(j, 3), Part(j, 4)))]
  BY TableIs DEF TableRound, WordPlaces
<1>2. \A j, k \in WordPlaces : Part(j, k) \in Word
  <2>1. \A b \in Byte : Tb.RT[b] = Back(Pw, Lg, Rb[b])
    BY TableIs DEF Tb, TablesOf
  <2>2. \A b \in Byte : \A k \in WordPlaces : Tb.RT[b][k] \in Word
    BY <2>1, RbBytes, BackIs DEF WordPlaces
  <2> QED BY <2>2, SourceIs
<1> HIDE DEF Part
<1>3. 1 \in WordPlaces /\ 2 \in WordPlaces /\ 3 \in WordPlaces /\ 4 \in WordPlaces
  BY DEF WordPlaces
<1>4. ASSUME NEW j \in WordPlaces
      PROVE  XorWord(XorWord(Part(j, 1), Part(j, 2)), XorWord(Part(j, 3), Part(j, 4))) \in Word
  <2>1. XorWord(Part(j, 1), Part(j, 2)) \in Word /\ XorWord(Part(j, 3), Part(j, 4)) \in Word
    BY <1>2, <1>3, XorWordIs
  <2> QED BY <2>1, XorWordIs
<1> QED BY <1>1, <1>4 DEF Columns, WordPlaces

(* The inverse of MixColumns on all four columns.                           *)
UnmixAll(y) == [j \in WordPlaces |-> Unmix(y[j])]

(* A round back takes the mixing out of a round forth.                      *)
LEMMA BackUndoesForth ==
  ASSUME NEW y \in Columns
  PROVE  /\ TableRound(Tb, "decrypt", LastRound(Tb, "encrypt", y)) = UnmixAll(y)
         /\ UnmixAll(TableRound(Tb, "encrypt", y)) = LastRound(Tb, "encrypt", y)
         /\ UnmixAll(y) \in Columns
<1> DEFINE z == LastRound(Tb, "encrypt", y)
           Part(j, k) == Tb.RT[Source(z, "decrypt", j, k)][k]
<1>1. TableRound(Tb, "decrypt", z)
        = [j \in WordPlaces |-> XorWord(XorWord(Part(j, 1), Part(j, 2)), XorWord(Part(j, 3), Part(j, 4)))]
  BY TableIs DEF TableRound, WordPlaces
<1>2. ASSUME NEW j \in WordPlaces, NEW k \in WordPlaces  PROVE Part(j, k) = Back(Pw, Lg, y[j][k])[k]
  <2>1. Source(z, "decrypt", j, k) = Sb[y[j][k]] /\ y[j][k] \in Byte
    BY MovedBack, ColumnsAre
  <2> QED BY <2>1, TableFacts
<1>3. 1 \in WordPlaces /\ 2 \in WordPlaces /\ 3 \in WordPlaces /\ 4 \in WordPlaces
  BY DEF WordPlaces
<1>4. z \in Columns
  BY LastRoundIs
<1>5. \A j \in WordPlaces : TableRound(Tb, "encrypt", y)[j] = MixWord(z[j])
  BY ForthRound
<1> HIDE DEF z, Part
<1>6. ASSUME NEW j \in WordPlaces
      PROVE  XorWord(XorWord(Part(j, 1), Part(j, 2)), XorWord(Part(j, 3), Part(j, 4))) = Unmix(y[j])
  BY <1>2, <1>3 DEF Unmix
<1>7. TableRound(Tb, "decrypt", z) = UnmixAll(y)
  BY <1>1, <1>6 DEF UnmixAll
<1>8. UnmixAll(TableRound(Tb, "encrypt", y)) = z
  <2>1. \A j \in WordPlaces : Unmix(MixWord(z[j])) = z[j]
    BY <1>4, ColumnsAre, UnmixMix
  <2>2. \A j \in WordPlaces : Unmix(TableRound(Tb, "encrypt", y)[j]) = z[j]
    BY <1>5, <2>1
  <2>3. z = [j \in WordPlaces |-> z[j]]
    BY <1>4 DEF Columns, WordPlaces
  <2> QED BY <2>2, <2>3 DEF UnmixAll
<1>9. UnmixAll(y) \in Columns
  <2>1. \A j \in WordPlaces : Unmix(y[j]) \in Word
    BY ColumnsAre, UnmixIs
  <2> QED BY <2>1 DEF UnmixAll, Columns, WordPlaces
<1> QED BY <1>7, <1>8, <1>9 DEF z

(* InvMixColumns of a whole state is linear.                                *)
LEMMA UnmixAllSum ==
  ASSUME NEW x \in Columns, NEW y \in Columns
  PROVE  UnmixAll(XorWords(x, y)) = XorWords(UnmixAll(x), UnmixAll(y))
<1>1. UnmixAll(x) \in Columns /\ UnmixAll(y) \in Columns
  BY BackUndoesForth
<1>2. ASSUME NEW j \in WordPlaces
      PROVE  Unmix(XorWords(x, y)[j]) = XorWord(UnmixAll(x)[j], UnmixAll(y)[j])
  <2>1. XorWords(x, y)[j] = XorWord(x[j], y[j]) /\ x[j] \in Word /\ y[j] \in Word
    BY XorWordsIs, ColumnsAre
  <2>2. UnmixAll(x)[j] = Unmix(x[j]) /\ UnmixAll(y)[j] = Unmix(y[j])
    BY DEF UnmixAll
  <2> QED BY <2>1, <2>2, UnmixSum
<1>3. XorWords(UnmixAll(x), UnmixAll(y)) = [j \in WordPlaces |-> XorWord(UnmixAll(x)[j], UnmixAll(y)[j])]
  BY TableIs DEF XorWords, WordPlaces
<1>4. UnmixAll(XorWords(x, y)) = [j \in WordPlaces |-> Unmix(XorWords(x, y)[j])]
  BY DEF UnmixAll
<1> QED BY <1>2, <1>3, <1>4

-----------------------------------------------------------------------------
(* aes_crypt_ecb.                                                           *)

(* A context whose keys are those of a key of 128, 192 or 256 bits.         *)
IsAesContext(c) == c.nr \in {10, 12, 14} /\ \A r \in 0 .. c.nr : RoundKey(c, r) \in Columns

(* Every round yields a state.                                              *)
LEMMA RoundIs ==
  ASSUME NEW c, IsAesContext(c), NEW mode \in {"encrypt", "decrypt"},
         NEW r \in 0 .. c.nr, NEW y \in Columns
  PROVE  RoundOf(Tb, c, mode, r, y) \in Columns
<1>1. TableRound(Tb, mode, y) \in Columns
  BY ForthRound, BackRound
<1>2. RoundKey(c, r) \in Columns
  BY DEF IsAesContext
<1> QED BY <1>1, <1>2, XorWordsIs DEF RoundOf

(* The states of the rounds, one after the other.                           *)
Trace(x, c, mode, input) ==
  /\ \A r \in 0 .. (c.nr - 1) : x[r] \in Columns
  /\ x[0] = XorWords(RoundKey(c, 0), Words(input))
  /\ \A r \in 1 .. (c.nr - 1) : x[r] = RoundOf(Tb, c, mode, r, x[r - 1])

Unrolled(x, c, mode, input) ==
  x = [r \in 0 .. (c.nr - 1) |-> IF r = 0 THEN XorWords(RoundKey(c, 0), Words(input))
                                 ELSE RoundOf(Tb, c, mode, r, x[r - 1])]

(* The recursion of AfterRounds has one solution at most.                   *)
LEMMA TraceOf ==
  ASSUME NEW c, IsAesContext(c), NEW mode \in {"encrypt", "decrypt"}, NEW input \in Block,
         NEW x, Unrolled(x, c, mode, input)
  PROVE  Trace(x, c, mode, input)
<1> DEFINE S == {r \in Byte : r < c.nr => x[r] \in Columns}
           a == XorWords(RoundKey(c, 0), Words(input))
<1>1. c.nr \in {10, 12, 14} /\ \A r \in 0 .. c.nr : RoundKey(c, r) \in Columns
  BY DEF IsAesContext
<1>2. a \in Columns
  BY <1>1, BlocksAreColumns, XorWordsIs
<1>3. x[0] = a /\ \A r \in 1 .. (c.nr - 1) : x[r] = RoundOf(Tb, c, mode, r, x[r - 1])
  <2>1. 0 \in 0 .. (c.nr - 1) /\ \A r \in 1 .. (c.nr - 1) : r \in 0 .. (c.nr - 1) /\ r # 0
    BY <1>1
  <2> HIDE DEF a
  <2>2. x = [r \in 0 .. (c.nr - 1) |-> IF r = 0 THEN a ELSE RoundOf(Tb, c, mode, r, x[r - 1])]
    BY DEF Unrolled, a
  <2> QED BY <2>1, <2>2
<1> HIDE DEF a
<1>4. 0 \in S
  BY <1>2, <1>3, BytesAre
<1>5. ASSUME NEW i \in Int, 0 <= i, i < 255, i \in S  PROVE i + 1 \in S
  <2>1. i + 1 \in Byte
    BY <1>5, BytesAre
  <2>2. ASSUME i + 1 < c.nr  PROVE x[i + 1] \in Columns
    <3>1. i + 1 \in 1 .. (c.nr - 1) /\ i + 1 \in 0 .. c.nr /\ (i + 1) - 1 = i /\ i < c.nr
      BY <1>1, <1>5, <2>2
    <3>2. x[i] \in Columns /\ x[i + 1] = RoundOf(Tb, c, mode, i + 1, x[i])
      BY <1>3, <1>5, <3>1
    <3> QED BY <3>1, <3>2, RoundIs
  <2> QED BY <2>1, <2>2
<1> HIDE DEF S
<1>6. Byte \subseteq S
  BY <1>4, <1>5, HandedOnBytes
<1>7. \A r \in 0 .. (c.nr - 1) : x[r] \in Columns
  <2>1. \A r \in 0 .. (c.nr - 1) : r \in Int /\ 0 <= r /\ r <= 255 /\ r < c.nr
    BY <1>1
  <2>2. \A r \in 0 .. (c.nr - 1) : r \in S
    BY <1>6, <2>1, BytesAre
  <2> QED BY <2>1, <2>2 DEF S
<1> QED BY <1>3, <1>7 DEF Trace, a

(* And it has one.                                                          *)
LEMMA TraceExists ==
  ASSUME NEW c, IsAesContext(c), NEW mode \in {"encrypt", "decrypt"}, NEW input \in Block
  PROVE  \E x : Unrolled(x, c, mode, input)
<1> DEFINE G == [j \in 1 .. 15 |-> [y \in Columns |-> IF j < c.nr THEN RoundOf(Tb, c, mode, j, y) ELSE y]]
           a == XorWords(RoundKey(c, 0), Words(input))
<1>1. c.nr \in {10, 12, 14} /\ \A r \in 0 .. c.nr : RoundKey(c, r) \in Columns
  BY DEF IsAesContext
<1>2. a \in Columns
  BY <1>1, BlocksAreColumns, XorWordsIs
<1>3. Keeps(G, Columns)
  <2>1. ASSUME NEW j \in 1 .. 15, NEW y \in Columns  PROVE G[j][y] \in Columns
    <3>1. G[j][y] = IF j < c.nr THEN RoundOf(Tb, c, mode, j, y) ELSE y
      OBVIOUS
    <3>2. j < c.nr => j \in 0 .. c.nr
      BY <1>1
    <3> HIDE DEF G
    <3> QED BY <3>1, <3>2, RoundIs
  <2> HIDE DEF G
  <2> QED BY <2>1 DEF Keeps
<1>4. \A j \in 1 .. 15 : \A y \in Columns : j < c.nr => G[j][y] = RoundOf(Tb, c, mode, j, y)
  OBVIOUS
<1> HIDE DEF G, a
<1>5. PICK f : Steps(f, G, Columns, a)
  BY <1>2, <1>3, Iterates
<1>6. /\ f \in [0 .. 15 -> Columns] /\ f[0] = a
      /\ \A j \in 1 .. 15 : f[j] = G[j][f[j - 1]]
  BY <1>5 DEF Steps
<1> DEFINE x == [r \in 0 .. (c.nr - 1) |-> f[r]]
<1>7. \A r \in 0 .. (c.nr - 1) : r \in 0 .. 15 /\ x[r] = f[r] /\ x[r] \in Columns
  BY <1>1, <1>6
<1>8. 0 \in 0 .. (c.nr - 1) /\ x[0] = a
  BY <1>1, <1>6
<1>9. ASSUME NEW r \in 1 .. (c.nr - 1)  PROVE x[r] = RoundOf(Tb, c, mode, r, x[r - 1])
  <2>1. r \in 1 .. 15 /\ r < c.nr /\ r - 1 \in 0 .. (c.nr - 1) /\ r \in 0 .. (c.nr - 1)
    BY <1>1
  <2>2. x[r] = f[r] /\ x[r - 1] = f[r - 1] /\ f[r - 1] \in Columns
    BY <1>7, <2>1
  <2> QED BY <1>4, <1>6, <2>1, <2>2
<1>10. x = [r \in 0 .. (c.nr - 1) |-> IF r = 0 THEN a ELSE RoundOf(Tb, c, mode, r, x[r - 1])]
  <2>1. ASSUME NEW r \in 0 .. (c.nr - 1)
        PROVE  x[r] = IF r = 0 THEN a ELSE RoundOf(Tb, c, mode, r, x[r - 1])
    <3>1. r = 0 \/ r \in 1 .. (c.nr - 1)
      BY <1>1
    <3> HIDE DEF x
    <3> QED BY <1>8, <1>9, <3>1
  <2>2. x = [r \in 0 .. (c.nr - 1) |-> x[r]]
    OBVIOUS
  <2> HIDE DEF x
  <2> QED BY <2>1, <2>2
<1> HIDE DEF x
<1> QED BY <1>10 DEF Unrolled, a

(* aes_crypt_ecb by its states, round after round.                          *)
LEMMA CryptIs ==
  ASSUME NEW c, IsAesContext(c), NEW mode \in {"encrypt", "decrypt"}, NEW input \in Block
  PROVE  \E x : /\ Trace(x, c, mode, input)
                /\ aes_crypt_ecb(c, mode, input)
                     = PutWords(XorWords(RoundKey(c, c.nr), LastRound(Tb, mode, x[c.nr - 1])))
<1> DEFINE Eq(f) == f = [r \in 0 .. TableRounds(c) |->
                           IF r = 0 THEN XorWords(RoundKey(c, 0), Words(input))
                           ELSE CHOOSE y \in {RoundOf(Tb, c, mode, r, z) : z \in {f[r - 1]}} : TRUE]
           x == CHOOSE f : Eq(f)
<1>1. \A r, e : (CHOOSE y \in {RoundOf(Tb, c, mode, r, z) : z \in {e}} : TRUE) = RoundOf(Tb, c, mode, r, e)
  OBVIOUS
<1>2. TableRounds(c) = c.nr - 1 /\ TableRounds(c) + 1 = c.nr
  BY DEF TableRounds, IsAesContext
<1>3. \A f : Eq(f) <=> Unrolled(f, c, mode, input)
  BY <1>1, <1>2 DEF Unrolled
<1>4. AfterRounds(Tb, c, mode, input) = x[TableRounds(c)]
  BY DEF AfterRounds, With
<1> HIDE DEF Eq
<1>5. \E f : Eq(f)
  BY <1>3, TraceExists
<1>6. Eq(x)
  BY <1>5
<1>7. Trace(x, c, mode, input)
  BY <1>3, <1>6, TraceOf
<1> HIDE DEF x
<1>8. AfterRounds(Tb, c, mode, input) = x[c.nr - 1]
  BY <1>2, <1>4
<1>9. aes_crypt_ecb(c, mode, input) = Crypted(Tb, c, mode, AfterRounds(Tb, c, mode, input))
  <2>1. ASSUME NEW T
        PROVE  With(AfterRounds(T, c, mode, input), LAMBDA y : Crypted(T, c, mode, y))
                 = Crypted(T, c, mode, AfterRounds(T, c, mode, input))
    BY DEF With
  <2>2. aes_crypt_ecb(c, mode, input)
          = With(AfterRounds(Tb, c, mode, input), LAMBDA y : Crypted(Tb, c, mode, y))
    BY TableFacts DEF aes_crypt_ecb, With
  <2> QED BY <2>1, <2>2
<1>10. Crypted(Tb, c, mode, x[c.nr - 1])
         = PutWords(XorWords(RoundKey(c, c.nr), LastRound(Tb, mode, x[c.nr - 1])))
  BY <1>2 DEF Crypted
<1> QED BY <1>7, <1>8, <1>9, <1>10

(* The context d holds the keys of c for the way back.                      *)
InverseKeys(d, c) ==
  /\ d.nr = c.nr
  /\ RoundKey(d, 0) = RoundKey(c, c.nr) /\ RoundKey(d, c.nr) = RoundKey(c, 0)
  /\ \A r \in 1 .. (c.nr - 1) : RoundKey(d, r) = UnmixAll(RoundKey(c, c.nr - r))

(* Such a context is one that aes_crypt_ecb can work with.                  *)
LEMMA InverseIsContext ==
  ASSUME NEW c, NEW d, IsAesContext(c), InverseKeys(d, c)
  PROVE  IsAesContext(d)
<1>1. c.nr \in {10, 12, 14} /\ d.nr = c.nr /\ \A r \in 0 .. c.nr : RoundKey(c, r) \in Columns
  BY DEF IsAesContext, InverseKeys
<1>2. ASSUME NEW r \in 0 .. c.nr  PROVE RoundKey(d, r) \in Columns
  <2>1. CASE r = 0 \/ r = c.nr
    <3>1. 0 \in 0 .. c.nr /\ c.nr \in 0 .. c.nr
      BY <1>1
    <3> QED BY <1>1, <2>1, <3>1 DEF InverseKeys
  <2>2. CASE r # 0 /\ r # c.nr
    <3>1. r \in 1 .. (c.nr - 1) /\ c.nr - r \in 0 .. c.nr
      BY <1>1, <2>2
    <3>2. UnmixAll(RoundKey(c, c.nr - r)) \in Columns
      BY <1>1, <3>1, BackUndoesForth
    <3> QED BY <3>1, <3>2 DEF InverseKeys
  <2> QED BY <2>1, <2>2
<1> QED BY <1>1, <1>2 DEF IsAesContext

(* aes_crypt_ecb makes blocks of blocks.                                    *)
LEMMA Enciphered16 ==
  ASSUME NEW c, IsAesContext(c), NEW b \in Block, NEW mode \in {"encrypt", "decrypt"}
  PROVE  aes_crypt_ecb(c, mode, b) \in Block
<1>1. PICK x : /\ Trace(x, c, mode, b)
               /\ aes_crypt_ecb(c, mode, b)
                    = PutWords(XorWords(RoundKey(c, c.nr), LastRound(Tb, mode, x[c.nr - 1])))
  BY CryptIs
<1>2. c.nr \in 0 .. c.nr /\ c.nr - 1 \in 0 .. (c.nr - 1) /\ RoundKey(c, c.nr) \in Columns
  BY DEF IsAesContext
<1>3. x[c.nr - 1] \in Columns
  BY <1>1, <1>2 DEF Trace
<1>4. XorWords(RoundKey(c, c.nr), LastRound(Tb, mode, x[c.nr - 1])) \in Columns
  BY <1>2, <1>3, LastRoundIs, XorWordsIs
<1> QED BY <1>1, <1>4, BlocksAreColumns

(* What was encrypted is decrypted.  Before round r the decryption holds    *)
(* the encryption's state after round nr - 1 - r, substituted and moved.    *)
LEMMA Deciphers ==
  ASSUME NEW c, NEW d, IsAesContext(c), InverseKeys(d, c), NEW b \in Block
  PROVE  aes_crypt_ecb(d, "decrypt", aes_crypt_ecb(c, "encrypt", b)) = b
<1> DEFINE e == aes_crypt_ecb(c, "encrypt", b)
<1>1. c.nr \in {10, 12, 14} /\ d.nr = c.nr /\ \A r \in 0 .. c.nr : RoundKey(c, r) \in Columns
  BY DEF IsAesContext, InverseKeys
<1>2. IsAesContext(d) /\ e \in Block
  BY InverseIsContext, Enciphered16
<1>3. PICK x : /\ Trace(x, c, "encrypt", b)
               /\ e = PutWords(XorWords(RoundKey(c, c.nr), LastRound(Tb, "encrypt", x[c.nr - 1])))
  BY CryptIs
<1> HIDE DEF e
<1>4. PICK y : /\ Trace(y, d, "decrypt", e)
               /\ aes_crypt_ecb(d, "decrypt", e)
                    = PutWords(XorWords(RoundKey(d, d.nr), LastRound(Tb, "decrypt", y[d.nr - 1])))
  BY <1>2, CryptIs
<1> DEFINE m == c.nr - 1
           S == {r \in Byte : r <= m => y[r] = LastRound(Tb, "encrypt", x[m - r])}
<1>5. /\ m \in Int /\ 0 < m /\ m < 255 /\ m + 1 = c.nr /\ d.nr - 1 = m
      /\ 0 \in 0 .. m /\ m \in 0 .. m
      /\ \A r \in 0 .. m : x[r] \in Columns
      /\ \A r \in 0 .. m : y[r] \in Columns
  BY <1>1, <1>3, <1>4 DEF Trace
<1>6. /\ x[0] = XorWords(RoundKey(c, 0), Words(b))
      /\ \A r \in 1 .. m : x[r] = RoundOf(Tb, c, "encrypt", r, x[r - 1])
      /\ y[0] = XorWords(RoundKey(d, 0), Words(e))
      /\ \A r \in 1 .. m : y[r] = RoundOf(Tb, d, "decrypt", r, y[r - 1])
  BY <1>1, <1>3, <1>4 DEF Trace
<1> HIDE DEF m
<1>7. RoundKey(c, 0) \in Columns /\ RoundKey(c, c.nr) \in Columns
  BY <1>1
<1>8. y[0] = LastRound(Tb, "encrypt", x[m])
  <2>1. LastRound(Tb, "encrypt", x[m]) \in Columns
    BY <1>5, LastRoundIs
  <2>2. Words(e) = XorWords(RoundKey(c, c.nr), LastRound(Tb, "encrypt", x[m]))
    BY <1>3, <1>7, <2>1, BlocksAreColumns, XorWordsIs DEF m
  <2>3. RoundKey(d, 0) = RoundKey(c, c.nr)
    BY DEF InverseKeys
  <2> QED BY <1>6, <1>7, <2>1, <2>2, <2>3, AddedTwice
<1>9. 0 \in S
  <2>1. m - 0 = m
    BY <1>5
  <2> QED BY <1>8, <2>1, BytesAre
<1>10. ASSUME NEW i \in Int, 0 <= i, i < 255, i \in S  PROVE i + 1 \in S
  <2>1. i + 1 \in Byte
    BY <1>10, BytesAre
  <2>2. ASSUME i + 1 <= m  PROVE y[i + 1] = LastRound(Tb, "encrypt", x[m - (i + 1)])
    <3> DEFINE q == m - i
    <3>1. /\ q \in 1 .. m /\ q - 1 = m - (i + 1) /\ q - 1 \in 0 .. m /\ q \in 0 .. m
          /\ i + 1 \in 1 .. m /\ (i + 1) - 1 = i /\ i \in 0 .. m
          /\ i + 1 \in 1 .. (c.nr - 1) /\ c.nr - (i + 1) = q /\ q \in 0 .. c.nr
      BY <1>1, <1>5, <1>10, <2>2
    <3>2. y[i] = LastRound(Tb, "encrypt", x[q])
      BY <1>10, <2>2, <3>1
    <3> HIDE DEF q
    <3>3. x[q] \in Columns /\ x[q - 1] \in Columns /\ RoundKey(c, q) \in Columns
      BY <1>1, <1>5, <3>1
    <3>4. x[q] = XorWords(RoundKey(c, q), TableRound(Tb, "encrypt", x[q - 1]))
      BY <1>6, <3>1 DEF RoundOf
    <3>5. RoundKey(d, i + 1) = UnmixAll(RoundKey(c, q))
      BY <3>1 DEF InverseKeys
    <3>6. y[i + 1] = XorWords(UnmixAll(RoundKey(c, q)), TableRound(Tb, "decrypt", y[i]))
      BY <1>6, <3>1, <3>5 DEF RoundOf
    <3>7. TableRound(Tb, "decrypt", y[i]) = UnmixAll(x[q])
      BY <3>2, <3>3, BackUndoesForth
    <3>8. UnmixAll(x[q]) = XorWords(UnmixAll(RoundKey(c, q)), UnmixAll(TableRound(Tb, "encrypt", x[q - 1])))
      <4>1. TableRound(Tb, "encrypt", x[q - 1]) \in Columns
        BY <3>3, ForthRound
      <4> QED BY <3>3, <3>4, <4>1, UnmixAllSum
    <3>9. UnmixAll(TableRound(Tb, "encrypt", x[q - 1])) = LastRound(Tb, "encrypt", x[q - 1])
      BY <3>3, BackUndoesForth
    <3>10. UnmixAll(RoundKey(c, q)) \in Columns /\ LastRound(Tb, "encrypt", x[q - 1]) \in Columns
      BY <3>3, BackUndoesForth, LastRoundIs
    <3>11. y[i + 1] = LastRound(Tb, "encrypt", x[q - 1])
      BY <3>6, <3>7, <3>8, <3>9, <3>10, AddedTwice
    <3> QED BY <3>1, <3>11
  <2> QED BY <2>1, <2>2
<1> HIDE DEF S
<1>11. m \in S
  BY <1>5, <1>9, <1>10, HandedOnBytes, BytesAre
<1>12. y[m] = LastRound(Tb, "encrypt", x[0])
  <2>1. m - m = 0
    BY <1>5
  <2> QED BY <1>5, <1>11, <2>1 DEF S
<1>13. LastRound(Tb, "decrypt", y[m]) = x[0]
  BY <1>5, <1>12, LastUndone
<1>14. aes_crypt_ecb(d, "decrypt", e) = PutWords(XorWords(RoundKey(c, 0), x[0]))
  <2>1. RoundKey(d, d.nr) = RoundKey(c, 0)
    BY <1>1 DEF InverseKeys
  <2> QED BY <1>4, <1>5, <1>13, <2>1
<1>15. XorWords(RoundKey(c, 0), x[0]) = Words(b)
  BY <1>6, <1>7, BlocksAreColumns, AddedTwice
<1>16. aes_crypt_ecb(d, "decrypt", e) = b
  BY <1>14, <1>15, BlocksAreColumns
<1> QED BY <1>16 DEF e

-----------------------------------------------------------------------------
(* The key schedules.                                                       *)

(* The round constants.                                                     *)
LEMMA RconIs ==
  /\ RconTable[0] = 1
  /\ \A i \in 1 .. 9 : RconTable[i] = XTIME(RconTable[i - 1])
  /\ \A i \in 0 .. 9 : RconTable[i] \in Byte
<1> DEFINE Eq(f) == f = [i \in 0 .. 9 |-> IF i = 0 THEN 1 ELSE XTIME(f[i - 1])]
           rcon == CHOOSE f : Eq(f)
           G == [j \in 1 .. 15 |-> [x \in Byte |-> XTIME(x)]]
<1>1. RconTable = rcon
  BY TableIs DEF RconTable
<1>2. \A x \in Byte : XTIME(x) \in Byte
  BY XTimeBits
<1>3. Keeps(G, Byte)
  BY <1>2 DEF Keeps
<1>4. \A j \in 1 .. 15 : \A x \in Byte : G[j][x] = XTIME(x)
  OBVIOUS
<1> HIDE DEF G
<1>5. 1 \in Byte
  BY BytesAre
<1>6. PICK f : Steps(f, G, Byte, 1)
  BY <1>3, <1>5, Iterates
<1>7. f \in [0 .. 15 -> Byte] /\ f[0] = 1 /\ \A j \in 1 .. 15 : f[j] = G[j][f[j - 1]]
  BY <1>6 DEF Steps
<1> DEFINE g == [i \in 0 .. 9 |-> f[i]]
<1>8. Eq(g)
  <2>1. ASSUME NEW i \in 0 .. 9  PROVE g[i] = IF i = 0 THEN 1 ELSE XTIME(g[i - 1])
    <3>1. CASE i = 0
      BY <1>7, <3>1
    <3>2. CASE i # 0
      <4>1. i \in 1 .. 15 /\ i - 1 \in 0 .. 9 /\ i - 1 \in 0 .. 15
        BY <3>2
      <4>2. f[i - 1] \in Byte /\ f[i] = G[i][f[i - 1]]
        BY <1>7, <4>1
      <4>3. f[i] = XTIME(f[i - 1])
        BY <1>4, <4>1, <4>2
      <4> QED BY <3>2, <4>1, <4>3
    <3> QED BY <3>1, <3>2
  <2>2. g = [i \in 0 .. 9 |-> g[i]]
    OBVIOUS
  <2> HIDE DEF g
  <2> QED BY <2>1, <2>2
<1>9. Eq(rcon)
  <2> HIDE DEF Eq, g
  <2> QED BY <1>8
<1> HIDE DEF rcon
<1>10. rcon[0] = 1 /\ \A i \in 1 .. 9 : rcon[i] = XTIME(rcon[i - 1])
  <2>1. 0 \in 0 .. 9 /\ \A i \in 1 .. 9 : i \in 0 .. 9 /\ i # 0
    OBVIOUS
  <2> QED BY <1>9, <2>1
<1>11. \A i \in 0 .. 9 : rcon[i] \in Byte
  <2>1. rcon[0] \in Byte
    BY <1>5, <1>10
  <2>2. \A i \in 1 .. 9 : rcon[i - 1] \in Byte => rcon[i] \in Byte
    BY <1>2, <1>10
  <2>3. rcon[1] \in Byte /\ rcon[2] \in Byte /\ rcon[3] \in Byte
    BY <2>1, <2>2
  <2>4. rcon[4] \in Byte /\ rcon[5] \in Byte /\ rcon[6] \in Byte
    BY <2>2, <2>3
  <2>5. rcon[7] \in Byte /\ rcon[8] \in Byte /\ rcon[9] \in Byte
    BY <2>2, <2>4
  <2>6. \A i \in 0 .. 9 : i = 0 \/ i = 1 \/ i = 2 \/ i = 3 \/ i = 4 \/ i = 5 \/ i = 6 \/ i = 7 \/ i = 8 \/ i = 9
    OBVIOUS
  <2> QED BY <2>1, <2>3, <2>4, <2>5, <2>6
<1> QED BY <1>1, <1>10, <1>11

(* One loop of the key schedule.                                            *)
Temp(nk, i, v) ==
  IF i % nk = 0 THEN XorWord(RconWord(Tb, (i \div nk) - 1), SubNext(Tb, v))
  ELSE IF nk = 8 /\ i % nk = 4 THEN SubWord(Tb, v) ELSE v

(* Substituting the bytes of a word.                                        *)
LEMMA SubWordIs ==
  ASSUME NEW v \in Word
  PROVE  /\ SubWord(Tb, v) \in Word
         /\ SubNext(Tb, v) \in Word
         /\ \A i \in 0 .. 9 : RconWord(Tb, i) \in Word
<1>1. \A k \in WordPlaces : v[k] \in Byte /\ (k % 4) + 1 \in WordPlaces
  BY DEF Word, WordPlaces
<1>2. SubWord(Tb, v) = [k \in WordPlaces |-> Sb[v[k]]] /\ SubNext(Tb, v) = [k \in WordPlaces |-> Sb[v[(k % 4) + 1]]]
  BY TableIs, TableFacts DEF SubWord, SubNext, WordPlaces
<1>3. SubWord(Tb, v) \in Word /\ SubNext(Tb, v) \in Word
  BY <1>1, <1>2, SbIs DEF Word, WordPlaces
<1>4. ASSUME NEW i \in 0 .. 9  PROVE RconWord(Tb, i) \in Word
  <2>1. RconWord(Tb, i) = <<RconTable[i], 0, 0, 0>>
    BY TableFacts DEF RconWord
  <2>2. RconTable[i] \in Byte /\ 0 \in Byte
    BY RconIs, BytesAre
  <2> HIDE DEF RconTable
  <2> QED BY <2>1, <2>2, WordsAre
<1> QED BY <1>3, <1>4

KeyWords == {4, 6, 8}
(* The words that one round of the expansion adds.                          *)
LEMMA NextWordsIs ==
  ASSUME NEW nk \in KeyWords, NEW g \in [1 .. nk -> Word], NEW i \in 0 .. 9
  PROVE  \E v \in [1 .. nk -> Word] :
           /\ NextWords(Tb, g, i) = v
           /\ v[1] = XorWord(g[1], XorWord(RconWord(Tb, i), SubNext(Tb, g[nk])))
           /\ \A j \in 2 .. nk : v[j] = XorWord(g[j], IF nk = 8 /\ j = 5 THEN SubWord(Tb, v[j - 1]) ELSE v[j - 1])
<1>1. nk = 4 \/ nk = 6 \/ nk = 8
  BY DEF KeyWords
<1>2. Len(g) = nk /\ 1 \in 1 .. nk /\ nk \in 1 .. nk
  BY <1>1
<1> DEFINE first == XorWord(g[1], XorWord(RconWord(Tb, i), SubNext(Tb, g[nk])))
           Link(j, v) == XorWord(g[j], IF nk = 8 /\ j = 5 THEN SubWord(Tb, v) ELSE v)
           Eq(f) == f = [j \in 1 .. Len(g) |->
                           XorWord(g[j], IF j = 1 THEN XorWord(RconWord(Tb, i), SubNext(Tb, g[Len(g)]))
                                         ELSE IF Len(g) = 8 /\ j = 5 THEN SubWord(Tb, f[4])
                                         ELSE f[j - 1])]
           w == CHOOSE f : Eq(f)
           G == [j \in 1 .. 15 |-> [v \in Word |-> IF j < nk THEN Link(j + 1, v) ELSE v]]
<1>3. NextWords(Tb, g, i) = [j \in 1 .. nk |-> w[j]]
  BY <1>2, TableIs DEF NextWords
<1>4. first \in Word
  BY <1>2, SubWordIs, XorWordIs
<1>5. ASSUME NEW j \in 1 .. nk, NEW v \in Word  PROVE Link(j, v) \in Word
  BY SubWordIs, XorWordIs
<1>6. Keeps(G, Word)
  <2>1. ASSUME NEW j \in 1 .. 15, NEW v \in Word  PROVE G[j][v] \in Word
    <3>1. G[j][v] = IF j < nk THEN Link(j + 1, v) ELSE v
      OBVIOUS
    <3>2. j < nk => j + 1 \in 1 .. nk
      BY <1>1
    <3> HIDE DEF G, Link
    <3> QED BY <1>5, <3>1, <3>2
  <2> HIDE DEF G
  <2> QED BY <2>1 DEF Keeps
<1>7. \A j \in 1 .. 15 : \A v \in Word : j < nk => G[j][v] = Link(j + 1, v)
  OBVIOUS
<1> HIDE DEF G, first
<1>8. PICK f : Steps(f, G, Word, first)
  BY <1>4, <1>6, Iterates
<1>9. f \in [0 .. 15 -> Word] /\ f[0] = first /\ \A j \in 1 .. 15 : f[j] = G[j][f[j - 1]]
  BY <1>8 DEF Steps
<1> HIDE DEF Link
<1> DEFINE h == [j \in 1 .. nk |-> f[j - 1]]
<1>10. h[1] = first /\ \A j \in 2 .. nk : h[j] = Link(j, h[j - 1]) /\ h[j] = f[j - 1]
  <2>1. h[1] = first
    <3>1. 1 - 1 = 0
      OBVIOUS
    <3> QED BY <1>2, <1>9, <3>1
  <2>2. ASSUME NEW j \in 2 .. nk  PROVE h[j] = Link(j, h[j - 1]) /\ h[j] = f[j - 1]
    <3>1. j \in 1 .. nk /\ j - 1 \in 1 .. nk /\ j - 1 \in 1 .. 15 /\ j - 1 < nk /\ (j - 1) + 1 = j /\ (j - 1) - 1 \in 0 .. 15
      BY <1>1
    <3>2. h[j] = f[j - 1] /\ h[j - 1] = f[(j - 1) - 1]
      BY <3>1
    <3> HIDE DEF h
    <3>3. f[j - 1] = G[j - 1][f[(j - 1) - 1]] /\ f[(j - 1) - 1] \in Word
      BY <1>9, <3>1
    <3>4. f[j - 1] = Link((j - 1) + 1, f[(j - 1) - 1])
      BY <1>7, <3>1, <3>3
    <3> QED BY <3>1, <3>2, <3>4
  <2> QED BY <2>1, <2>2
<1>11. Eq(h)
  <2>1. ASSUME NEW j \in 1 .. nk
        PROVE  h[j] = XorWord(g[j], IF j = 1 THEN XorWord(RconWord(Tb, i), SubNext(Tb, g[nk]))
                                    ELSE IF nk = 8 /\ j = 5 THEN SubWord(Tb, h[4]) ELSE h[j - 1])
    <3> HIDE DEF h
    <3>1. CASE j = 1
      BY <1>10, <3>1 DEF first
    <3>2. CASE j # 1
      <4>1. j \in 2 .. nk /\ (j = 5 => j - 1 = 4)
        BY <3>2
      <4> QED BY <1>10, <3>2, <4>1 DEF Link
    <3> QED BY <3>1, <3>2
  <2>2. h = [j \in 1 .. nk |-> h[j]]
    OBVIOUS
  <2> HIDE DEF h
  <2> QED BY <1>2, <2>1, <2>2
<1>12. Eq(w)
  <2> HIDE DEF Eq, h
  <2> QED BY <1>11
<1> HIDE DEF w, h
<1>13. /\ w[1] = first /\ w = [j \in 1 .. nk |-> w[j]]
       /\ \A j \in 2 .. nk : w[j] = Link(j, w[j - 1])
  <2>1. ASSUME NEW j \in 1 .. nk
        PROVE  w[j] = XorWord(g[j], IF j = 1 THEN XorWord(RconWord(Tb, i), SubNext(Tb, g[nk]))
                                    ELSE IF nk = 8 /\ j = 5 THEN SubWord(Tb, w[4]) ELSE w[j - 1])
    BY <1>2, <1>12
  <2>2. w = [j \in 1 .. nk |-> w[j]]
    BY <1>2, <1>12
  <2>3. w[1] = first
    BY <1>2, <2>1 DEF first
  <2>4. ASSUME NEW j \in 2 .. nk  PROVE w[j] = Link(j, w[j - 1])
    <3>1. j \in 1 .. nk /\ j # 1 /\ (j = 5 => j - 1 = 4)
      BY <1>1
    <3> QED BY <2>1, <3>1 DEF Link
  <2> QED BY <2>2, <2>3, <2>4
<1> HIDE DEF Eq
<1>14. \A j \in 1 .. nk : w[j] \in Word
  <2> DEFINE S == {j \in Byte : j < nk => w[j + 1] \in Word}
  <2>1. 0 \in S
    <3>1. 0 + 1 = 1
      OBVIOUS
    <3> QED BY <1>4, <1>13, <3>1, BytesAre
  <2>2. ASSUME NEW j \in Int, 0 <= j, j < 255, j \in S  PROVE j + 1 \in S
    <3>1. j + 1 \in Byte
      BY <2>2, BytesAre
    <3>2. ASSUME j + 1 < nk  PROVE w[(j + 1) + 1] \in Word
      <4>1. (j + 1) + 1 \in 2 .. nk /\ (j + 1) + 1 \in 1 .. nk /\ ((j + 1) + 1) - 1 = j + 1 /\ j < nk
        BY <1>1, <2>2, <3>2
      <4>2. w[j + 1] \in Word /\ w[(j + 1) + 1] = Link((j + 1) + 1, w[j + 1])
        BY <1>13, <2>2, <4>1
      <4> QED BY <1>5, <4>1, <4>2
    <3> QED BY <3>1, <3>2
  <2> HIDE DEF S
  <2>3. Byte \subseteq S
    BY <2>1, <2>2, HandedOnBytes
  <2>4. SUFFICES ASSUME NEW j \in 1 .. nk  PROVE w[j] \in Word
    OBVIOUS
  <2>5. j - 1 \in Byte /\ j - 1 < nk /\ (j - 1) + 1 = j
    BY <1>1, BytesAre
  <2> QED BY <2>3, <2>5 DEF S
<1>15. w \in [1 .. nk -> Word]
  BY <1>13, <1>14
<1>16. NextWords(Tb, g, i) = w
  BY <1>3, <1>13
<1> QED BY <1>13, <1>15, <1>16 DEF first, Link

(* A key as far as it is expanded: the words of the key itself, then every  *)
(* word from the one nk before it and the last.                             *)
Expansion(v, keyOf, nk, len) ==
  /\ v \in Seq(Word) /\ Len(v) = len
  /\ \A i \in 0 .. (len - 1) :
       v[i + 1] = IF i < nk THEN WordOf(keyOf, 4 * i) ELSE XorWord(v[i + 1 - nk], Temp(nk, i, v[i]))

(* One round of the expansion adds nk words and keeps the rest.             *)
LEMMA LengthenedIs ==
  ASSUME NEW nk \in KeyWords, NEW i \in 1 .. 10, NEW w \in Seq(Word), Len(w) = nk * i
  PROVE  LET v == Lengthened(Tb, nk, w, i)
         IN  /\ v \in Seq(Word) /\ Len(v) = nk * i + nk
             /\ \A m \in 1 .. (nk * i) : v[m] = w[m]
             /\ \A m \in (nk * i) .. (nk * i + nk - 1) : v[m + 1] = XorWord(v[m + 1 - nk], Temp(nk, m, v[m]))
<1> DEFINE len == nk * i
           g == SubSeq(w, Len(w) - nk + 1, Len(w))
           v == Lengthened(Tb, nk, w, i)
<1>1. nk \in {4, 6, 8} /\ nk \in Int /\ i \in Int
  BY DEF KeyWords
<1>2. len \in Int /\ nk <= len
  BY <1>1
<1>3. \A j \in 1 .. nk : (len + (j - 1)) % nk = j - 1 /\ (len + (j - 1)) \div nk = i
  BY <1>1
<1> HIDE DEF len
<1>4. Len(w) = len
  BY DEF len
<1>5. g \in [1 .. nk -> Word] /\ \A j \in 1 .. nk : g[j] = w[len - nk + j]
  <2>1. \A j \in 1 .. len : w[j] \in Word
    BY <1>2, <1>4
  <2>2. /\ SubSeq(w, Len(w) - nk + 1, Len(w)) = [j \in 1 .. nk |-> w[len - nk + j]]
    <3>1. len - (len - nk + 1) + 1 = nk
      BY <1>1, <1>2
    <3>3. SubSeq(w, len - nk + 1, len) = [j \in 1 .. (1 + len - (len - nk + 1)) |-> w[j + (len - nk + 1) - 1]]
      BY <1>1, <1>2
    <3>4. 1 + len - (len - nk + 1) = nk /\ \A j \in 1 .. nk : j + (len - nk + 1) - 1 = len - nk + j
      BY <1>1, <1>2
    <3> QED BY <1>4, <3>3, <3>4
  <2>3. \A j \in 1 .. nk : len - nk + j \in 1 .. len
    BY <1>1, <1>2
  <2> QED BY <2>1, <2>2, <2>3
<1>6. v = w \o NextWords(Tb, g, i - 1)
  BY DEF Lengthened
<1> HIDE DEF g, v
<1>7. i - 1 \in 0 .. 9
  OBVIOUS
<1>8. PICK u \in [1 .. nk -> Word] :
           /\ NextWords(Tb, g, i - 1) = u
           /\ u[1] = XorWord(g[1], XorWord(RconWord(Tb, i - 1), SubNext(Tb, g[nk])))
           /\ \A j \in 2 .. nk : u[j] = XorWord(g[j], IF nk = 8 /\ j = 5 THEN SubWord(Tb, u[j - 1]) ELSE u[j - 1])
  BY <1>5, <1>7, NextWordsIs
<1>9. u \in Seq(Word) /\ Len(u) = nk
  BY <1>1
<1>10. /\ v \in Seq(Word) /\ Len(v) = len + nk
       /\ \A m \in 1 .. len : v[m] = w[m]
       /\ \A j \in 1 .. nk : v[len + j] = u[j]
  <2>1. v = w \o u
    BY <1>6, <1>8
  <2>2. \A m \in 1 .. Len(w) : (w \o u)[m] = w[m]
    BY <1>9
  <2>3. \A j \in 1 .. Len(u) : (w \o u)[Len(w) + j] = u[j]
    BY <1>9
  <2>4. w \o u \in Seq(Word) /\ Len(w \o u) = Len(w) + Len(u)
    BY <1>9
  <2> QED BY <1>4, <1>9, <2>1, <2>2, <2>3, <2>4
<1>11. ASSUME NEW j \in 1 .. nk
       PROVE  v[len + j] = XorWord(v[len + j - nk], Temp(nk, len + (j - 1), v[len + (j - 1)]))
  <2>1. len + j - nk \in 1 .. len /\ len + j - nk = len - nk + j
    BY <1>1, <1>2
  <2>2. v[len + j - nk] = g[j] /\ v[len + j] = u[j]
    BY <1>5, <1>10, <2>1
  <2>3. (len + (j - 1)) % nk = j - 1 /\ (len + (j - 1)) \div nk = i
    BY <1>3
  <2>4. CASE j = 1
    <3>1. len + (j - 1) = len /\ len \in 1 .. len /\ len - nk + nk = len /\ nk \in 1 .. nk
      BY <1>1, <1>2, <2>4
    <3>2. v[len + (j - 1)] = g[nk]
      BY <1>5, <1>10, <3>1
    <3>3. Temp(nk, len + (j - 1), g[nk]) = XorWord(RconWord(Tb, i - 1), SubNext(Tb, g[nk]))
      BY <2>3, <2>4 DEF Temp
    <3> QED BY <1>8, <2>2, <2>4, <3>2, <3>3
  <2>5. CASE j # 1
    <3>1. j \in 2 .. nk /\ j - 1 \in 1 .. nk /\ j - 1 # 0 /\ (j = 5 <=> j - 1 = 4)
      BY <1>1, <2>5
    <3>2. v[len + (j - 1)] = u[j - 1]
      BY <1>10, <3>1
    <3>3. Temp(nk, len + (j - 1), u[j - 1]) = IF nk = 8 /\ j = 5 THEN SubWord(Tb, u[j - 1]) ELSE u[j - 1]
      BY <2>3, <3>1 DEF Temp
    <3>4. u[j] = XorWord(g[j], IF nk = 8 /\ j = 5 THEN SubWord(Tb, u[j - 1]) ELSE u[j - 1])
      BY <1>8, <3>1
    <3> QED BY <2>2, <3>2, <3>3, <3>4
  <2> QED BY <2>4, <2>5
<1>12. ASSUME NEW m \in len .. (len + nk - 1)  PROVE v[m + 1] = XorWord(v[m + 1 - nk], Temp(nk, m, v[m]))
  <2> DEFINE j == m + 1 - len
  <2>1. j \in 1 .. nk /\ len + j = m + 1 /\ len + (j - 1) = m
    BY <1>1, <1>2
  <2> HIDE DEF j
  <2>2. v[len + j] = XorWord(v[len + j - nk], Temp(nk, len + (j - 1), v[len + (j - 1)]))
    BY <1>11, <2>1
  <2>3. len + j - nk = m + 1 - nk
    BY <1>1, <1>2, <2>1
  <2> QED BY <2>1, <2>2, <2>3
<1> QED BY <1>10, <1>12 DEF v, len

(* And keeps it an expansion.                                               *)
LEMMA Expanded ==
  ASSUME NEW nk \in KeyWords, NEW i \in 1 .. 10, NEW keyOf, NEW w, Expansion(w, keyOf, nk, nk * i)
  PROVE  Expansion(Lengthened(Tb, nk, w, i), keyOf, nk, nk * (i + 1))
<1> DEFINE len == nk * i
           v == Lengthened(Tb, nk, w, i)
<1>1. nk \in {4, 6, 8} /\ nk \in Int /\ i \in Int
  BY DEF KeyWords
<1>2. len \in Int /\ nk <= len /\ nk * (i + 1) = len + nk
  BY <1>1
<1>3. /\ w \in Seq(Word) /\ Len(w) = len
      /\ \A m \in 0 .. (len - 1) :
           w[m + 1] = IF m < nk THEN WordOf(keyOf, 4 * m) ELSE XorWord(w[m + 1 - nk], Temp(nk, m, w[m]))
  BY DEF Expansion
<1>4. /\ v \in Seq(Word) /\ Len(v) = len + nk
      /\ \A m \in 1 .. len : v[m] = w[m]
      /\ \A m \in len .. (len + nk - 1) : v[m + 1] = XorWord(v[m + 1 - nk], Temp(nk, m, v[m]))
  <2>1. LET u == Lengthened(Tb, nk, w, i)
        IN  /\ u \in Seq(Word) /\ Len(u) = nk * i + nk
            /\ \A m \in 1 .. (nk * i) : u[m] = w[m]
            /\ \A m \in (nk * i) .. (nk * i + nk - 1) : u[m + 1] = XorWord(u[m + 1 - nk], Temp(nk, m, u[m]))
    BY <1>3, LengthenedIs
  <2> QED BY <2>1
<1> HIDE DEF len, v
<1>5. ASSUME NEW m \in 0 .. (len + nk - 1)
      PROVE  v[m + 1] = IF m < nk THEN WordOf(keyOf, 4 * m) ELSE XorWord(v[m + 1 - nk], Temp(nk, m, v[m]))
  <2>1. CASE m < len /\ m < nk
    <3>1. m \in 0 .. (len - 1) /\ m + 1 \in 1 .. len
      BY <1>1, <1>2, <2>1
    <3> QED BY <1>3, <1>4, <2>1, <3>1
  <2>2. CASE m < len /\ ~(m < nk)
    <3>1. m \in 0 .. (len - 1) /\ m + 1 \in 1 .. len /\ m + 1 - nk \in 1 .. len /\ m \in 1 .. len
      BY <1>1, <1>2, <2>2
    <3>2. v[m + 1] = w[m + 1] /\ v[m + 1 - nk] = w[m + 1 - nk] /\ v[m] = w[m]
      BY <1>4, <3>1
    <3>3. w[m + 1] = XorWord(w[m + 1 - nk], Temp(nk, m, w[m]))
      BY <1>3, <2>2, <3>1
    <3> QED BY <2>2, <3>2, <3>3
  <2>3. CASE ~(m < len)
    <3>1. m \in len .. (len + nk - 1) /\ ~(m < nk)
      BY <1>1, <1>2, <2>3
    <3> QED BY <1>4, <3>1
  <2> QED BY <2>1, <2>2, <2>3
<1>6. Expansion(v, keyOf, nk, len + nk)
  <2> DEFINE last == len + nk
  <2>0. len + nk - 1 = last - 1
    BY <1>1, <1>2
  <2>1. \A m \in 0 .. (last - 1) :
          v[m + 1] = IF m < nk THEN WordOf(keyOf, 4 * m) ELSE XorWord(v[m + 1 - nk], Temp(nk, m, v[m]))
    BY <1>5, <2>0, Zenon
  <2>2. v \in Seq(Word) /\ Len(v) = last
    BY <1>4
  <2> HIDE DEF last
  <2>3. Expansion(v, keyOf, nk, last)
    BY <2>1, <2>2, Zenon DEF Expansion
  <2> QED BY <2>3 DEF last
<1> QED BY <1>2, <1>6 DEF v, len

(* The words of the key are an expansion already.                           *)
LEMMA KeyItself ==
  ASSUME NEW keyOf \in [0 .. 31 -> Byte], NEW nk \in KeyWords
  PROVE  Expansion(Table([j \in 1 .. nk |-> WordOf(keyOf, 4 * (j - 1))]), keyOf, nk, nk)
<1> DEFINE v == [j \in 1 .. nk |-> WordOf(keyOf, 4 * (j - 1))]
<1>1. nk \in {4, 6, 8} /\ nk \in Int
  BY DEF KeyWords
<1>2. Table(v) = v
  BY TableIs
<1>3. ASSUME NEW j \in 1 .. nk  PROVE WordOf(keyOf, 4 * (j - 1)) \in Word
  <2>1. /\ 4 * (j - 1) \in 0 .. 31 /\ 4 * (j - 1) + 1 \in 0 .. 31
        /\ 4 * (j - 1) + 2 \in 0 .. 31 /\ 4 * (j - 1) + 3 \in 0 .. 31
    BY <1>1
  <2> QED BY <2>1, WordsAre DEF WordOf
<1>4. \A i \in 0 .. (nk - 1) : i + 1 \in 1 .. nk /\ i < nk /\ 4 * ((i + 1) - 1) = 4 * i
  BY <1>1
<1>5. v \in Seq(Word) /\ Len(v) = nk
  BY <1>1, <1>3
<1>6. \A i \in 0 .. (nk - 1) : v[i + 1] = WordOf(keyOf, 4 * i)
  <2>1. \A j \in 1 .. nk : v[j] = WordOf(keyOf, 4 * (j - 1))
    OBVIOUS
  <2> HIDE DEF v
  <2> QED BY <1>4, <2>1
<1> HIDE DEF v
<1>7. Expansion(v, keyOf, nk, nk)
  BY <1>4, <1>5, <1>6 DEF Expansion
<1>8. Table(v) = Table([j \in 1 .. nk |-> WordOf(keyOf, 4 * (j - 1))])
  BY DEF v
<1> QED BY <1>2, <1>7, <1>8

(* aes_setkey_enc lengthens the words of the key loop by loop.              *)
LEMMA ExpandedKeyIs ==
  ASSUME NEW keyOf \in [0 .. 31 -> Byte], NEW nk \in KeyWords, NEW loops \in 1 .. 10
  PROVE  Expansion(ExpandedKey(Tb, keyOf, nk, loops), keyOf, nk, nk * (loops + 1))
<1> DEFINE a == Table([j \in 1 .. nk |-> WordOf(keyOf, 4 * (j - 1))])
           D == Seq(Word)
           G == [j \in 1 .. 15 |-> [x \in D |-> IF j <= 10 /\ Len(x) = nk * j THEN Lengthened(Tb, nk, x, j) ELSE x]]
           Eq(f) == f = [i \in 0 .. loops |->
                           IF i = 0 THEN Table([j \in 1 .. nk |-> WordOf(keyOf, 4 * (j - 1))])
                           ELSE CHOOSE y \in {Lengthened(Tb, nk, z, i) : z \in {f[i - 1]}} : TRUE]
           rk == CHOOSE f : Eq(f)
<1>1. ExpandedKey(Tb, keyOf, nk, loops) = rk[loops]
  BY DEF ExpandedKey, With
<1>2. \A i, e : (CHOOSE y \in {Lengthened(Tb, nk, z, i) : z \in {e}} : TRUE) = Lengthened(Tb, nk, e, i)
  OBVIOUS
<1>3. \A f : Eq(f) <=> f = [i \in 0 .. loops |-> IF i = 0 THEN a ELSE Lengthened(Tb, nk, f[i - 1], i)]
  BY <1>2
<1>4. a \in D /\ Expansion(a, keyOf, nk, nk)
  BY KeyItself DEF Expansion
<1>5. nk \in Int /\ loops \in Int
  BY DEF KeyWords
<1>6. \A j \in 1 .. 15 : \A x \in D :
        G[j][x] = IF j <= 10 /\ Len(x) = nk * j THEN Lengthened(Tb, nk, x, j) ELSE x
  OBVIOUS
<1> HIDE DEF Eq, G, a
<1>7. Keeps(G, D)
  <2>1. ASSUME NEW j \in 1 .. 15, NEW x \in D  PROVE G[j][x] \in D
    <3>1. CASE j <= 10 /\ Len(x) = nk * j
      <4>0. j <= 10
        BY <3>1, Zenon
      <4>1. j \in 1 .. 10
        <5> HIDE DEF D
        <5> QED BY <4>0
      <4>2. Lengthened(Tb, nk, x, j) \in Seq(Word)
        BY <3>1, <4>1, LengthenedIs
      <4> QED BY <1>6, <3>1, <4>2
    <3>2. CASE ~(j <= 10 /\ Len(x) = nk * j)
      BY <1>6, <3>2
    <3> QED BY <3>1, <3>2
  <2> HIDE DEF D
  <2> QED BY <2>1 DEF Keeps
<1> HIDE DEF D
<1>8. PICK h : Steps(h, G, D, a)
  BY <1>4, <1>7, Iterates
<1>9. h \in [0 .. 15 -> D] /\ h[0] = a /\ \A j \in 1 .. 15 : h[j] = G[j][h[j - 1]]
  BY <1>8 DEF Steps
<1>10. \A i \in 0 .. 10 : Expansion(h[i], keyOf, nk, nk * (i + 1)) /\ (i # 0 => h[i] = Lengthened(Tb, nk, h[i - 1], i))
  <2> DEFINE P(i) == Expansion(h[i], keyOf, nk, nk * (i + 1)) /\ (i # 0 => h[i] = Lengthened(Tb, nk, h[i - 1], i))
             S == {i \in Byte : i <= 10 => P(i)}
  <2>1. P(0)
    <3>1. nk * (0 + 1) = nk
      BY <1>5
    <3> QED BY <1>4, <1>9, <3>1
  <2>2. ASSUME NEW i \in 0 .. 9, P(i)  PROVE P(i + 1)
    <3>1. i + 1 \in 1 .. 10 /\ i + 1 \in 1 .. 15 /\ i \in 0 .. 15 /\ (i + 1) - 1 = i /\ i + 1 <= 10 /\ i + 1 # 0
      OBVIOUS
    <3>2. h[i] \in D /\ Len(h[i]) = nk * (i + 1)
      BY <1>9, <2>2, <3>1 DEF Expansion
    <3>3. h[i + 1] = Lengthened(Tb, nk, h[i], i + 1)
      <4>1. h[i + 1] = G[i + 1][h[i]]
        BY <1>9, <3>1
      <4>2. G[i + 1][h[i]] = Lengthened(Tb, nk, h[i], i + 1)
        BY <1>6, <3>1, <3>2, Zenon
      <4> QED BY <4>1, <4>2
    <3>4. Expansion(Lengthened(Tb, nk, h[i], i + 1), keyOf, nk, nk * ((i + 1) + 1))
      BY <2>2, <3>1, Expanded
    <3> QED BY <3>1, <3>3, <3>4
  <2> HIDE DEF P
  <2>3. 0 \in S
    BY <2>1, BytesAre
  <2>4. ASSUME NEW i \in Int, 0 <= i, i < 255, i \in S  PROVE i + 1 \in S
    <3>1. i + 1 \in Byte
      BY <2>4, BytesAre
    <3>2. ASSUME i + 1 <= 10  PROVE P(i + 1)
      <4>1. i \in 0 .. 9 /\ i <= 10
        BY <2>4, <3>2
      <4> QED BY <2>2, <2>4, <4>1
    <3> QED BY <3>1, <3>2
  <2>5. Byte \subseteq S
    <3> HIDE DEF S
    <3> QED BY <2>3, <2>4, HandedOnBytes
  <2>6. \A i \in 0 .. 10 : i \in S /\ i <= 10
    <3>1. \A i \in 0 .. 10 : i \in Byte /\ i <= 10
      BY BytesAre
    <3> QED BY <2>5, <3>1
  <2>7. \A i \in 0 .. 10 : P(i)
    BY <2>6
  <2> QED BY <2>7 DEF P
<1> DEFINE x == [i \in 0 .. loops |-> h[i]]
<1>11. Eq(x)
  <2>1. ASSUME NEW i \in 0 .. loops
        PROVE  x[i] = IF i = 0 THEN a ELSE Lengthened(Tb, nk, x[i - 1], i)
    <3>1. i \in 0 .. 10 /\ (i # 0 => i - 1 \in 0 .. loops)
      BY <1>5
    <3> QED BY <1>9, <1>10, <3>1
  <2>2. x = [i \in 0 .. loops |-> x[i]]
    OBVIOUS
  <2> HIDE DEF x
  <2>3. x = [i \in 0 .. loops |-> IF i = 0 THEN a ELSE Lengthened(Tb, nk, x[i - 1], i)]
    BY <2>1, <2>2
  <2> QED BY <1>3, <2>3
<1>12. Eq(rk)
  <2> HIDE DEF x
  <2> QED BY <1>11
<1> HIDE DEF rk
<1>13. rk[0] = a /\ \A i \in 1 .. loops : rk[i] = Lengthened(Tb, nk, rk[i - 1], i)
  <2>1. 0 \in 0 .. loops /\ \A i \in 1 .. loops : i \in 0 .. loops /\ i # 0
    BY <1>5
  <2> QED BY <1>3, <1>12, <2>1
<1>14. Expansion(rk[loops], keyOf, nk, nk * (loops + 1))
  <2> DEFINE P(i) == Expansion(rk[i], keyOf, nk, nk * (i + 1))
             S == {i \in Byte : i <= loops => P(i)}
  <2>1. P(0)
    <3>1. nk * (0 + 1) = nk
      BY <1>5
    <3> QED BY <1>4, <1>13, <3>1
  <2>2. ASSUME NEW i \in Int, 0 <= i, i + 1 <= loops, P(i)  PROVE P(i + 1)
    <3>1. i + 1 \in 1 .. 10 /\ i + 1 \in 1 .. loops /\ (i + 1) - 1 = i
      BY <1>5, <2>2
    <3>2. rk[i + 1] = Lengthened(Tb, nk, rk[i], i + 1)
      BY <1>13, <3>1
    <3>4. Expansion(Lengthened(Tb, nk, rk[i], i + 1), keyOf, nk, nk * ((i + 1) + 1))
      BY <2>2, <3>1, Expanded
    <3> QED BY <3>2, <3>4
  <2> HIDE DEF P
  <2>3. 0 \in S
    BY <2>1, BytesAre
  <2>4. ASSUME NEW i \in Int, 0 <= i, i < 255, i \in S  PROVE i + 1 \in S
    <3>1. i + 1 \in Byte
      BY <2>4, BytesAre
    <3>2. ASSUME i + 1 <= loops  PROVE P(i + 1)
      <4>1. i <= loops
        BY <1>5, <2>4, <3>2
      <4> QED BY <2>2, <2>4, <3>2, <4>1
    <3> QED BY <3>1, <3>2
  <2>5. Byte \subseteq S
    <3> HIDE DEF S
    <3> QED BY <2>3, <2>4, HandedOnBytes
  <2>6. loops \in Byte
    BY <1>5, BytesAre
  <2>7. P(loops)
    BY <1>5, <2>5, <2>6
  <2> QED BY <2>7 DEF P
<1> QED BY <1>1, <1>14

(* Key sizes, words, rounds and rounds of the expansion.                    *)
LEMMA SizesAre ==
  ASSUME NEW bits \in KeySizes
  PROVE  /\ bits \div 32 \in KeyWords /\ Loops(bits) \in 1 .. 10
         /\ Rounds(bits) \in {10, 12, 14} /\ Rounds(bits) = bits \div 32 + 6
         /\ 4 * (Rounds(bits) + 1) <= (bits \div 32) * (Loops(bits) + 1)
<1>1. CASE bits = 128
  <2>1. Rounds(bits) = 10 /\ Loops(bits) = 10 /\ bits \div 32 = 4
    BY <1>1 DEF Rounds, Loops
  <2> QED BY <2>1 DEF KeyWords
<1>2. CASE bits = 192
  <2>1. Rounds(bits) = 12 /\ Loops(bits) = 8 /\ bits \div 32 = 6
    BY <1>2 DEF Rounds, Loops
  <2> QED BY <2>1 DEF KeyWords
<1>3. CASE bits = 256
  <2>1. Rounds(bits) = 14 /\ Loops(bits) = 7 /\ bits \div 32 = 8
    BY <1>3 DEF Rounds, Loops
  <2> QED BY <2>1 DEF KeyWords
<1> QED BY <1>1, <1>2, <1>3 DEF KeySizes

(* Word j of round key r, of q + 1 round keys, among len words.             *)
Quarter(q, len, r, j) ==
  /\ 4 * r + j \in 1 .. 4 * (q + 1) /\ 4 * r + j \in 1 .. len
  /\ ((4 * r + j) - 1) \div 4 = r /\ ((4 * r + j) - 1) % 4 = j - 1
  /\ 4 * (q - r) + (j - 1) + 1 = 4 * (q - r) + j
RoundKeyFits(q, len, r) == r \in Nat /\ q - r \in 0 .. q /\ 4 * r + 4 <= 4 * (q + 1) /\ 4 * r + 4 <= len
(* Where the words of a round key stand.                                    *)
LEMMA Quarters ==
  ASSUME NEW q \in Nat, NEW len \in Nat, 4 * (q + 1) <= len
  PROVE  /\ 0 \in 0 .. q /\ q \in 0 .. q /\ q - 0 = q /\ q - q = 0
         /\ \A r \in 1 .. (q - 1) : r \in 0 .. q /\ r \notin {0, q}
         /\ \A r \in 0 .. q : RoundKeyFits(q, len, r)
         /\ \A r \in 0 .. q : \A j \in 1 .. 4 : Quarter(q, len, r, j)
         /\ \A k \in 1 .. 4 * (q + 1) : \E r \in 0 .. q : \E j \in 1 .. 4 : 4 * r + j = k
<1>1. /\ 0 \in 0 .. q /\ q \in 0 .. q /\ q - 0 = q /\ q - q = 0
      /\ \A r \in 1 .. (q - 1) : r \in 0 .. q /\ r \notin {0, q}
  OBVIOUS
<1>2. \A r \in 0 .. q : RoundKeyFits(q, len, r)
  BY DEF RoundKeyFits
<1>3. ASSUME NEW r \in 0 .. q, NEW j \in 1 .. 4  PROVE Quarter(q, len, r, j)
  <2>1. 4 * r + j \in 1 .. 4 * (q + 1) /\ 4 * r + j \in 1 .. len
    OBVIOUS
  <2>2. ((4 * r + j) - 1) \div 4 = r /\ ((4 * r + j) - 1) % 4 = j - 1
    OBVIOUS
  <2>3. 4 * (q - r) + (j - 1) + 1 = 4 * (q - r) + j
    OBVIOUS
  <2> QED BY <2>1, <2>2, <2>3 DEF Quarter
<1>4. ASSUME NEW k \in 1 .. 4 * (q + 1)  PROVE \E r \in 0 .. q : \E j \in 1 .. 4 : 4 * r + j = k
  <2> DEFINE r == (k - 1) \div 4
             j == ((k - 1) % 4) + 1
  <2>1. r \in 0 .. q /\ j \in 1 .. 4 /\ 4 * r + j = k
    OBVIOUS
  <2> QED BY <2>1
<1> QED BY <1>1, <1>2, <1>3, <1>4

(* A round key is four words.                                               *)
LEMMA RoundKeyIs ==
  ASSUME NEW c, c.rk \in Seq(Word), NEW r \in Nat, 4 * r + 4 <= Len(c.rk)
  PROVE  RoundKey(c, r) = [j \in 1 .. 4 |-> c.rk[4 * r + j]] /\ RoundKey(c, r) \in Columns
<1> DEFINE w == c.rk
           from == 4 * r
<1>1. from \in Nat /\ from + 4 <= Len(w) /\ w \in Seq(Word) /\ Len(w) \in Nat
  OBVIOUS
<1>2. RoundKey(c, r) = SubSeq(w, from + 1, from + 4)
  BY DEF RoundKey
<1> HIDE DEF w, from
<1>3. SubSeq(w, from + 1, from + 4) = [j \in 1 .. 4 |-> w[from + j]]
  <2>1. SubSeq(w, from + 1, from + 4) = [j \in 1 .. (1 + (from + 4) - (from + 1)) |-> w[j + (from + 1) - 1]]
    BY <1>1
  <2>2. 1 + (from + 4) - (from + 1) = 4 /\ \A j \in 1 .. 4 : j + (from + 1) - 1 = from + j
    BY <1>1
  <2> QED BY <2>1, <2>2
<1>4. \A j \in 1 .. 4 : w[from + j] \in Word
  <2>1. \A j \in 1 .. 4 : from + j \in 1 .. Len(w)
    BY <1>1
  <2> QED BY <1>1, <2>1
<1>5. [j \in 1 .. 4 |-> w[from + j]] \in Columns
  BY <1>4 DEF Columns
<1> QED BY <1>2, <1>3, <1>5 DEF w, from

(* aes_setkey_enc returns a context with all its round keys.                *)
LEMMA EncryptionKey ==
  ASSUME NEW keyOf \in [0 .. 31 -> Byte], NEW bits \in KeySizes
  PROVE  LET c == aes_setkey_enc(keyOf, bits)
         IN  /\ c = [nr |-> Rounds(bits), rk |-> c.rk]
             /\ Expansion(c.rk, keyOf, bits \div 32, (bits \div 32) * (Loops(bits) + 1))
             /\ IsAesContext(c) /\ c.nr = Rounds(bits) /\ c.rk \in Seq(Word) /\ 4 * (c.nr + 1) <= Len(c.rk)
<1> DEFINE c == aes_setkey_enc(keyOf, bits)
           nk == bits \div 32
           rk == ExpandedKey(Tb, keyOf, nk, Loops(bits))
<1>1. c = [nr |-> Rounds(bits), rk |-> rk]
  BY TableFacts DEF aes_setkey_enc, With
<1>2. nk \in KeyWords /\ Loops(bits) \in 1 .. 10
  BY SizesAre
<1>3. Expansion(rk, keyOf, nk, nk * (Loops(bits) + 1))
  BY <1>2, ExpandedKeyIs
<1> HIDE DEF rk, c
<1>4. rk \in Seq(Word) /\ Len(rk) = nk * (Loops(bits) + 1)
  BY <1>3 DEF Expansion
<1>5. c.nr = Rounds(bits) /\ c.rk = rk
  BY <1>1
<1>6. 4 * (c.nr + 1) <= Len(c.rk) /\ c.nr \in {10, 12, 14}
  BY <1>4, <1>5, SizesAre
<1>7. ASSUME NEW r \in 0 .. c.nr  PROVE RoundKey(c, r) \in Columns
  <2>0. Len(c.rk) \in Nat /\ c.nr \in Nat
    <3>1. \A v \in Seq(Word) : Len(v) \in Nat
      OBVIOUS
    <3>2. \A q \in {10, 12, 14} : q \in Nat
      OBVIOUS
    <3> QED BY <1>4, <1>5, <1>6, <3>1, <3>2, Zenon
  <2>1. r \in Nat /\ 4 * r + 4 <= Len(c.rk)
    BY <1>6, <2>0, Quarters DEF RoundKeyFits
  <2>2. c.rk \in Seq(Word)
    BY <1>4, <1>5
  <2> QED BY <2>1, <2>2, RoundKeyIs
<1>8. IsAesContext(c)
  BY <1>6, <1>7 DEF IsAesContext
<1>9. c = [nr |-> Rounds(bits), rk |-> c.rk]
  BY <1>1, <1>5
<1> QED BY <1>3, <1>4, <1>5, <1>6, <1>8, <1>9 DEF c

(* A round key on the way back: unmixed by way of the tables.               *)
LEMMA ReverseWordIs ==
  ASSUME NEW w \in Word
  PROVE  ReverseWord(Tb, w) = Unmix(w)
<1>1. w[1] \in Byte /\ w[2] \in Byte /\ w[3] \in Byte /\ w[4] \in Byte
  BY WordsAre
<1>2. \A k : w[k] \in Byte => Tb.RT[Tb.FSb[w[k]]] = Back(Pw, Lg, w[k])
  BY TableFacts
<1>3. /\ Tb.RT[Tb.FSb[w[1]]] = Back(Pw, Lg, w[1]) /\ Tb.RT[Tb.FSb[w[2]]] = Back(Pw, Lg, w[2])
      /\ Tb.RT[Tb.FSb[w[3]]] = Back(Pw, Lg, w[3]) /\ Tb.RT[Tb.FSb[w[4]]] = Back(Pw, Lg, w[4])
  BY <1>1, <1>2
<1> QED BY <1>3 DEF ReverseWord, Unmix

(* aes_setkey_dec turns the keys of aes_setkey_enc round.                   *)
LEMMA DecryptionKey ==
  ASSUME NEW keyOf \in [0 .. 31 -> Byte], NEW bits \in KeySizes
  PROVE  InverseKeys(aes_setkey_dec(keyOf, bits), aes_setkey_enc(keyOf, bits))
<1> DEFINE c == aes_setkey_enc(keyOf, bits)
           d == aes_setkey_dec(keyOf, bits)
           nr == c.nr
           SK(r, j) == c.rk[4 * (nr - r) + j + 1]
           RK(r, j) == IF r \in {0, nr} THEN SK(r, j) ELSE ReverseWord(Tb, SK(r, j))
           w == [k \in 1 .. 4 * (nr + 1) |-> RK((k - 1) \div 4, (k - 1) % 4)]
<1>1. IsAesContext(c) /\ c.rk \in Seq(Word) /\ 4 * (nr + 1) <= Len(c.rk) /\ nr \in {10, 12, 14}
  BY EncryptionKey DEF IsAesContext
<1>2. d = [nr |-> nr, rk |-> w]
  <2>1. ASSUME NEW T
        PROVE  With(aes_setkey_enc(keyOf, bits), LAMBDA cty : ReverseKeys(T, cty)) = ReverseKeys(T, c)
    BY DEF With
  <2>2. d = With(aes_setkey_enc(keyOf, bits), LAMBDA cty : ReverseKeys(Tb, cty))
    BY TableFacts DEF aes_setkey_dec, With
  <2>3. ReverseKeys(Tb, c) = [nr |-> nr, rk |-> w]
    BY TableIs DEF ReverseKeys
  <2> QED BY <2>1, <2>2, <2>3
<1> HIDE DEF c, d
<1>3. nr \in Nat /\ nr = c.nr /\ Len(c.rk) \in Nat
  <2>1. c.rk \in Seq(Word) /\ c.nr \in {10, 12, 14}
    BY <1>1, Zenon
  <2>2. Len(c.rk) \in Nat
    <3>1. \A v \in Seq(Word) : Len(v) \in Nat
      OBVIOUS
    <3> QED BY <2>1, <3>1, Zenon
  <2>3. c.nr \in Nat
    <3>1. \A q \in {10, 12, 14} : q \in Nat
      OBVIOUS
    <3> QED BY <2>1, <3>1, Zenon
  <2> QED BY <2>2, <2>3, Zenon
<1> HIDE DEF nr
<1>4. /\ 0 \in 0 .. nr /\ nr \in 0 .. nr /\ nr - 0 = nr /\ nr - nr = 0
      /\ \A r \in 1 .. (nr - 1) : r \in 0 .. nr /\ r \notin {0, nr}
      /\ \A r \in 0 .. nr : RoundKeyFits(nr, Len(c.rk), r)
      /\ \A r \in 0 .. nr : \A j \in 1 .. 4 : Quarter(nr, Len(c.rk), r, j)
      /\ \A k \in 1 .. 4 * (nr + 1) : \E r \in 0 .. nr : \E j \in 1 .. 4 : 4 * r + j = k
  BY <1>1, <1>3, Quarters
<1>5. ASSUME NEW r \in 0 .. nr, NEW j \in 1 .. 4
      PROVE  /\ w[4 * r + j] = IF r \in {0, nr} THEN RoundKey(c, nr - r)[j]
                               ELSE Unmix(RoundKey(c, nr - r)[j])
             /\ RoundKey(c, nr - r)[j] \in Word
  <2>0. Quarter(nr, Len(c.rk), r, j) /\ RoundKeyFits(nr, Len(c.rk), r)
    BY <1>4
  <2> DEFINE q == nr - r
  <2>1. q \in 0 .. nr /\ 4 * q + (j - 1) + 1 = 4 * q + j
    BY <2>0 DEF RoundKeyFits, Quarter
  <2>5. w[4 * r + j] = RK(r, j - 1)
    <3>1. 4 * r + j \in 1 .. 4 * (nr + 1) /\ ((4 * r + j) - 1) \div 4 = r /\ ((4 * r + j) - 1) % 4 = j - 1
      BY <2>0 DEF RoundKeyFits, Quarter
    <3> HIDE DEF RK
    <3>2. w[4 * r + j] = RK(((4 * r + j) - 1) \div 4, ((4 * r + j) - 1) % 4)
      BY <3>1
    <3> QED BY <3>1, <3>2
  <2>6. RK(r, j - 1) = IF r \in {0, nr} THEN c.rk[4 * q + (j - 1) + 1] ELSE ReverseWord(Tb, c.rk[4 * q + (j - 1) + 1])
    OBVIOUS
  <2> HIDE DEF q, w, RK
  <2>2. q \in Nat /\ 4 * q + 4 <= Len(c.rk)
    BY <1>4, <2>1, Zenon DEF RoundKeyFits
  <2>3. RoundKey(c, q)[j] = c.rk[4 * q + j] /\ RoundKey(c, q) \in Columns
    <3>1. RoundKey(c, q) = [i \in 1 .. 4 |-> c.rk[4 * q + i]] /\ RoundKey(c, q) \in Columns
      BY <1>1, <2>2, RoundKeyIs
    <3> QED BY <3>1
  <2>4. RoundKey(c, q)[j] \in Word
    BY <2>3 DEF Columns
  <2>7. ReverseWord(Tb, c.rk[4 * q + j]) = Unmix(RoundKey(c, q)[j])
    BY <2>3, <2>4, ReverseWordIs
  <2>8. c.rk[4 * q + (j - 1) + 1] = RoundKey(c, q)[j] /\ c.rk[4 * q + (j - 1) + 1] = c.rk[4 * q + j]
    BY <2>1, <2>3
  <2>9. w[4 * r + j] = IF r \in {0, nr} THEN RoundKey(c, q)[j] ELSE Unmix(RoundKey(c, q)[j])
    BY <2>5, <2>6, <2>7, <2>8
  <2> QED BY <2>4, <2>9 DEF q
<1>6. w \in Seq(Word) /\ Len(w) = 4 * (nr + 1)
  <2>3. w = [k \in 1 .. 4 * (nr + 1) |-> w[k]]
    OBVIOUS
  <2> HIDE DEF w
  <2>1. ASSUME NEW k \in 1 .. 4 * (nr + 1)  PROVE w[k] \in Word
    <3>1. PICK r \in 0 .. nr, j \in 1 .. 4 : 4 * r + j = k
      BY <1>4
    <3>2. w[4 * r + j] \in Word
      BY <1>5, UnmixIs
    <3> QED BY <3>1, <3>2
  <2>4. w \in [1 .. 4 * (nr + 1) -> Word]
    BY <2>1, <2>3
  <2> DEFINE last == 4 * (nr + 1)
  <2>5. last \in {44, 52, 60}
    <3>1. nr \in {10, 12, 14}
      BY <1>1, <1>3, Zenon
    <3> QED BY <3>1
  <2> HIDE DEF last
  <2>6. w \in [1 .. last -> Word]
    BY <2>4 DEF last
  <2>7. w \in Seq(Word) /\ Len(w) = last
    <3>1. ASSUME NEW m \in Nat, NEW v \in [1 .. m -> Word]  PROVE v \in Seq(Word) /\ Len(v) = m
      <4>1. \A k \in 1 .. m : v[k] \in Word
        OBVIOUS
      <4>2. [k \in 1 .. m |-> v[k]] \in Seq(Word) /\ Len([k \in 1 .. m |-> v[k]]) = m
        BY <4>1
      <4>3. v = [k \in 1 .. m |-> v[k]]
        OBVIOUS
      <4> QED BY <4>2, <4>3, Zenon
    <3>2. last \in Nat
      BY <2>5
    <3> QED BY <2>6, <3>1, <3>2, Zenon
  <2> QED BY <2>7 DEF last
<1> HIDE DEF w
<1>7. d.nr = nr /\ d.rk = w
  BY <1>2
<1>8. ASSUME NEW r \in 0 .. nr
      PROVE  RoundKey(d, r) = IF r \in {0, nr} THEN RoundKey(c, nr - r) ELSE UnmixAll(RoundKey(c, nr - r))
  <2>1. r \in Nat /\ 4 * r + 4 <= Len(d.rk) /\ d.rk \in Seq(Word)
    <3>1. RoundKeyFits(nr, Len(c.rk), r)
      BY <1>4
    <3>2. r \in Nat /\ 4 * r + 4 <= 4 * (nr + 1)
      BY <3>1, Zenon DEF RoundKeyFits
    <3>3. d.rk \in Seq(Word) /\ Len(d.rk) = 4 * (nr + 1)
      BY <1>6, <1>7
    <3> QED BY <3>2, <3>3, Zenon
  <2>2. RoundKey(d, r) = [j \in 1 .. 4 |-> w[4 * r + j]]
    <3>1. RoundKey(d, r) = [j \in 1 .. 4 |-> d.rk[4 * r + j]]
      BY <2>1, RoundKeyIs
    <3> QED BY <1>7, <3>1, Zenon
  <2> DEFINE q == nr - r
             x == RoundKey(c, q)
  <2>3. x \in Columns
    <3>1. q \in 0 .. c.nr
      BY <1>3, <1>4, Zenon DEF RoundKeyFits
    <3> QED BY <1>1, <3>1 DEF IsAesContext
  <2>4. \A j \in 1 .. 4 : w[4 * r + j] = IF r \in {0, nr} THEN x[j] ELSE Unmix(x[j])
    BY <1>5
  <2> HIDE DEF x
  <2>5. x = [j \in 1 .. 4 |-> x[j]]
    BY <2>3 DEF Columns
  <2>6. UnmixAll(x) = [j \in 1 .. 4 |-> Unmix(x[j])]
    BY DEF UnmixAll, WordPlaces
  <2>7. RoundKey(d, r) = IF r \in {0, nr} THEN x ELSE UnmixAll(x)
    <3>1. CASE r \in {0, nr}
      BY <2>2, <2>4, <2>5, <3>1
    <3>2. CASE r \notin {0, nr}
      BY <2>2, <2>4, <2>6, <3>2
    <3> QED BY <3>1, <3>2
  <2> QED BY <2>7 DEF x
<1>10. RoundKey(d, 0) = RoundKey(c, nr) /\ RoundKey(d, nr) = RoundKey(c, 0)
  <2>1. 0 \in 0 .. nr /\ nr \in 0 .. nr /\ 0 \in {0, nr} /\ nr \in {0, nr} /\ nr - 0 = nr /\ nr - nr = 0
    BY <1>4
  <2>2. RoundKey(d, 0) = RoundKey(c, nr - 0) /\ RoundKey(d, nr) = RoundKey(c, nr - nr)
    BY <1>8, <2>1
  <2> QED BY <2>1, <2>2
<1>11. \A r \in 1 .. (nr - 1) : RoundKey(d, r) = UnmixAll(RoundKey(c, nr - r))
  BY <1>4, <1>8
<1>12. InverseKeys(d, c)
  BY <1>3, <1>7, <1>10, <1>11 DEF InverseKeys
<1> QED BY <1>12 DEF d, c

(* What was encrypted by a key schedule is decrypted by the other, for      *)
(* every key and every block.                                               *)
THEOREM BlockRoundTrip ==
  ASSUME NEW keyOf \in [0 .. 31 -> Byte], NEW bits \in KeySizes, NEW b \in Block
  PROVE  aes_crypt_ecb(aes_setkey_dec(keyOf, bits), "decrypt",
                       aes_crypt_ecb(aes_setkey_enc(keyOf, bits), "encrypt", b)) = b
<1>1. IsAesContext(aes_setkey_enc(keyOf, bits))
  BY EncryptionKey
<1> QED BY <1>1, DecryptionKey, Deciphers

-----------------------------------------------------------------------------
(* The modes of operation, for any function K from blocks to blocks: v is   *)
(* the first iv, t the text, c the cipher text.                             *)
Prev(v, c, k) == [i \in Index |-> IF k = 0 THEN v[i] ELSE c[16 * (k - 1) + i]]
BlockOf(t, k) == [i \in Index |-> t[16 * k + i]]
CbcUpTo(K, v, t, c, upto) ==
  \A k \in Nat : 16 * k + 16 <= upto => BlockOf(c, k) = K[XorBlock(BlockOf(t, k), Prev(v, c, k))]
CfbUpTo(K, v, t, c, upto) ==
  \A k \in Nat, i \in Index :
    16 * k + i < upto => c[16 * k + i] = Xor(t[16 * k + i], K[Prev(v, c, k)][i])
(* The iv of CFB behind m bytes of block k.                                 *)
CfbIv(K, v, c, k, m) == [j \in Index |-> IF j < m THEN c[16 * k + j] ELSE K[Prev(v, c, k)][j]]

(* The cipher text block before one, or the initial iv.                     *)
LEMMA PrevIs ==
  ASSUME NEW len \in Nat, NEW c \in [0 .. (len - 1) -> Byte], NEW v \in Block, NEW k \in Nat
  PROVE  /\ 16 * k <= len => Prev(v, c, k) \in Block
         /\ 16 * k + 16 <= len => BlockOf(c, k) \in Block
         /\ BlockOf(c, k) = Prev(v, c, k + 1)
<1>1. k + 1 # 0 /\ (k + 1) - 1 = k
  OBVIOUS
<1>2. BlockOf(c, k) = Prev(v, c, k + 1)
  BY <1>1 DEF BlockOf, Prev
<1>3. ASSUME 16 * k + 16 <= len  PROVE BlockOf(c, k) \in Block
  <2>1. \A i \in Index : 16 * k + i \in 0 .. (len - 1)
    BY <1>3 DEF Index
  <2> QED BY <2>1 DEF BlockOf, Block
<1>4. ASSUME 16 * k <= len  PROVE Prev(v, c, k) \in Block
  <2>1. \A i \in Index : k # 0 => 16 * (k - 1) + i \in 0 .. (len - 1)
    BY <1>4 DEF Index
  <2> QED BY <2>1 DEF Prev, Block
<1> QED BY <1>2, <1>3, <1>4

(* Only what stands before a place is read there.                           *)
Agree(c, d, upto) == \A o \in Nat : o < upto => c[o] = d[o]
(* It depends on the earlier text alone.                                    *)
LEMMA PrevReads ==
  ASSUME NEW c, NEW d, NEW v, NEW k \in Nat, NEW upto \in Nat, 16 * k <= upto, Agree(c, d, upto)
  PROVE  Prev(v, d, k) = Prev(v, c, k)
<1>1. \A i \in Index : k # 0 => 16 * (k - 1) + i \in Nat /\ 16 * (k - 1) + i < upto
  BY DEF Index
<1> QED BY <1>1 DEF Prev, Agree

(* So does the iv of CFB in the middle of a block.                          *)
LEMMA CfbReads ==
  ASSUME NEW c, NEW d, NEW K, NEW v, NEW t, NEW upto \in Nat, Agree(c, d, upto), CfbUpTo(K, v, t, c, upto)
  PROVE  CfbUpTo(K, v, t, d, upto)
<1>1. ASSUME NEW k \in Nat, NEW i \in Index, 16 * k + i < upto
      PROVE  d[16 * k + i] = Xor(t[16 * k + i], K[Prev(v, d, k)][i])
  <2>1. 16 * k <= upto /\ 16 * k + i \in Nat
    BY <1>1 DEF Index
  <2>2. Prev(v, d, k) = Prev(v, c, k)
    BY <2>1, PrevReads
  <2>3. c[16 * k + i] = Xor(t[16 * k + i], K[Prev(v, c, k)][i])
    BY <1>1 DEF CfbUpTo
  <2>4. d[16 * k + i] = c[16 * k + i]
    BY <1>1, <2>1 DEF Agree
  <2> QED BY <2>2, <2>3, <2>4
<1> QED BY <1>1 DEF CfbUpTo

(* And what CBC has done.                                                   *)
LEMMA CbcReads ==
  ASSUME NEW c, NEW d, NEW K, NEW v, NEW t, NEW upto \in Nat, Agree(c, d, upto), CbcUpTo(K, v, t, c, upto)
  PROVE  CbcUpTo(K, v, t, d, upto)
<1>1. ASSUME NEW k \in Nat, 16 * k + 16 <= upto
      PROVE  BlockOf(d, k) = K[XorBlock(BlockOf(t, k), Prev(v, d, k))]
  <2>1. 16 * k <= upto /\ \A i \in Index : 16 * k + i \in Nat /\ 16 * k + i < upto
    BY <1>1 DEF Index
  <2>2. Prev(v, d, k) = Prev(v, c, k)
    BY <2>1, PrevReads
  <2>3. BlockOf(c, k) = K[XorBlock(BlockOf(t, k), Prev(v, c, k))]
    BY <1>1 DEF CbcUpTo
  <2>4. BlockOf(d, k) = BlockOf(c, k)
    BY <2>1 DEF BlockOf, Agree
  <2> QED BY <2>2, <2>3, <2>4
<1> QED BY <1>1 DEF CbcUpTo

(* One byte of CFB: the iv, the stream and what they become.                *)
LEMMA CfbStep ==
  ASSUME NEW K, NEW v, NEW c, NEW k \in Nat, NEW m \in Index, NEW w,
         K[Prev(v, c, k)] \in Block,
         w = IF m = 0 THEN Prev(v, c, k) ELSE CfbIv(K, v, c, k, m)
  PROVE  LET stream == IF m = 0 THEN K[w] ELSE w
             w2 == [stream EXCEPT ![m] = c[16 * k + m]]
             m2 == (m + 1) % 16
         IN  /\ stream[m] = K[Prev(v, c, k)][m]
             /\ m2 \in Index
             /\ m < 15 => m2 = m + 1 /\ m2 # 0 /\ w2 = CfbIv(K, v, c, k, m2)
             /\ m = 15 => m2 = 0 /\ w2 = Prev(v, c, k + 1)
<1> DEFINE stream == IF m = 0 THEN K[w] ELSE w
           w2 == [stream EXCEPT ![m] = c[16 * k + m]]
           e == K[Prev(v, c, k)]
<1>1. m \in Int /\ 0 <= m /\ m <= 15
  BY DEF Index
<1>2. e = [j \in Index |-> e[j]]
  BY DEF Block
<1>3. stream = [j \in Index |-> IF j < m THEN c[16 * k + j] ELSE e[j]]
  <2>1. CASE m = 0
    <3>1. stream = e /\ \A j \in Index : ~(j < m)
      BY <2>1 DEF Index
    <3> HIDE DEF stream, e
    <3> QED BY <1>2, <3>1
  <2>2. CASE m # 0
    BY <2>2 DEF CfbIv
  <2> QED BY <2>1, <2>2
<1> HIDE DEF stream, e
<1>4. stream[m] = e[m]
  BY <1>1, <1>3
<1>5. w2 = [j \in Index |-> IF j < m + 1 THEN c[16 * k + j] ELSE e[j]]
  <2>1. w2 = [j \in Index |-> IF j = m THEN c[16 * k + m] ELSE IF j < m THEN c[16 * k + j] ELSE e[j]]
    BY <1>3
  <2>2. \A j \in Index : j \in Int /\ (j < m + 1 <=> j = m \/ j < m)
    BY <1>1 DEF Index
  <2> QED BY <2>1, <2>2
<1> HIDE DEF w2
<1>6. m < 15 => (m + 1) % 16 = m + 1 /\ m + 1 # 0 /\ (m + 1) % 16 \in Index
  BY <1>1 DEF Index
<1>7. m = 15 => (m + 1) % 16 = 0 /\ (m + 1) % 16 \in Index
  BY DEF Index
<1>8. ASSUME m = 15  PROVE w2 = Prev(v, c, k + 1)
  <2>1. \A j \in Index : j < m + 1
    BY <1>8 DEF Index
  <2>2. k + 1 # 0 /\ (k + 1) - 1 = k
    OBVIOUS
  <2> QED BY <1>5, <2>1, <2>2 DEF Prev
<1>9. m < 15 \/ m = 15
  BY <1>1
<1>10. ASSUME m < 15  PROVE w2 = CfbIv(K, v, c, k, (m + 1) % 16)
  BY <1>5, <1>6, <1>10 DEF CfbIv, e
<1> QED BY <1>4, <1>6, <1>7, <1>8, <1>9, <1>10 DEF stream, w2, e

(* One more byte of CFB, as a whole.                                        *)
LEMMA CfbOneMore ==
  ASSUME NEW K, NEW v, NEW t, NEW c, NEW k \in Nat, NEW m \in Index,
         CfbUpTo(K, v, t, c, 16 * k + m),
         c[16 * k + m] = Xor(t[16 * k + m], K[Prev(v, c, k)][m])
  PROVE  CfbUpTo(K, v, t, c, 16 * k + m + 1)
<1>1. ASSUME NEW q \in Nat, NEW i \in Index, 16 * q + i < 16 * k + m + 1
      PROVE  c[16 * q + i] = Xor(t[16 * q + i], K[Prev(v, c, q)][i])
  <2>1. 16 * q + i < 16 * k + m \/ (q = k /\ i = m)
    BY <1>1 DEF Index
  <2> QED BY <2>1 DEF CfbUpTo
<1> QED BY <1>1 DEF CfbUpTo

(* One more block of CBC, as a whole.                                       *)
LEMMA CbcOneMore ==
  ASSUME NEW K, NEW v, NEW t, NEW c, NEW k \in Nat,
         CbcUpTo(K, v, t, c, 16 * k),
         BlockOf(c, k) = K[XorBlock(BlockOf(t, k), Prev(v, c, k))]
  PROVE  CbcUpTo(K, v, t, c, 16 * k + 16)
<1>1. ASSUME NEW q \in Nat, 16 * q + 16 <= 16 * k + 16
      PROVE  BlockOf(c, q) = K[XorBlock(BlockOf(t, q), Prev(v, c, q))]
  <2>1. 16 * q + 16 <= 16 * k \/ q = k
    BY <1>1
  <2> QED BY <2>1 DEF CbcUpTo
<1> QED BY <1>1 DEF CbcUpTo

-----------------------------------------------------------------------------
(* The encryption of a block with the key of the job.                       *)
BlockCipher == [b \in Block |-> aes_crypt_ecb(aes_setkey_enc(aesKey.key, aesKey.bits), "encrypt", b)]
UpTo(c, upto) ==
  IF job.mode = "cbc" THEN CbcUpTo(BlockCipher, iv0, job.text, c, upto)
                      ELSE CfbUpTo(BlockCipher, iv0, job.text, c, upto)

(* Where a call stands: Cursor bytes into block k, with the iv that belongs *)
(* there when c is the cipher text.                                         *)
Cursor == IF aesPc = "run" THEN n ELSE iv_off
Stands(k) == k \in Nat /\ Cursor \in Index /\ off = 16 * k + Cursor /\ (job.mode = "cbc" => Cursor = 0)
IvStands(c, k) == iv = IF Cursor = 0 THEN Prev(iv0, c, k) ELSE CfbIv(BlockCipher, iv0, c, k, Cursor)

Encrypting == /\ UpTo(data, off)
              /\ \A o \in DOMAIN job.text : off <= o => data[o] = job.text[o]
Decrypting(c) == /\ c \in [DOMAIN job.text -> Byte] /\ UpTo(c, TextLen)
                 /\ \A o \in DOMAIN job.text : data[o] = IF o < off THEN job.text[o] ELSE c[o]

AesKeyIs ==
  aes = IF job.mode = "cbc" /\ dir = "decrypt" THEN aes_setkey_dec(aesKey.key, aesKey.bits)
                                               ELSE aes_setkey_enc(aesKey.key, aesKey.bits)
AesTypes ==
  /\ job \in Texts /\ aesKey \in AesKeys /\ iv0 \in IVs /\ dir \in {"encrypt", "decrypt"}
  /\ off \in Nat /\ length \in Nat /\ off <= TextLen
  /\ data \in [DOMAIN job.text -> Byte]
  /\ aesPc \in {"setkey", "call", "run", "idle"}
  /\ aesPc \in {"call", "run"} => AesKeyIs
  /\ aesPc = "run" => off + length <= TextLen /\ (job.mode = "cbc" => length % 16 = 0)
AesInv ==
  /\ AesTypes
  /\ aesPc = "setkey" /\ dir = "encrypt" => data = job.text
  /\ aesPc = "setkey" /\ dir = "decrypt" => UpTo(data, TextLen)
  /\ aesPc # "setkey" /\ dir = "encrypt" => Encrypting /\ \E k : Stands(k) /\ IvStands(data, k)
  /\ aesPc # "setkey" /\ dir = "decrypt" => \E c : Decrypting(c) /\ \E k : Stands(k) /\ IvStands(c, k)

(* The text of a run, from AesAssumption.                                   *)
LEMMA TextIs ==
  ASSUME job \in Texts
  PROVE  /\ TextLen \in Nat /\ DOMAIN job.text = 0 .. (TextLen - 1)
         /\ job.text \in [0 .. (TextLen - 1) -> Byte]
         /\ job.mode \in {"cbc", "cfb128"}
<1>1. IsFiniteSet(DOMAIN job.text)
  BY AesAssumption
<1>2. job.text \in [0 .. (TextLen - 1) -> Byte]
  BY AesAssumption DEF TextLen
<1>3. TextLen \in Nat
  BY <1>1, FS_CardinalityType DEF TextLen
<1> QED BY <1>2, <1>3, AesAssumption

(* BlockCipher is the cipher of the encryption key, once the key is set.    *)
LEMMA BlockCipherIs ==
  ASSUME aesKey \in AesKeys
  PROVE  /\ BlockCipher \in [Block -> Block]
         /\ \A b \in Block :
              /\ aes_crypt_ecb(aes_setkey_enc(aesKey.key, aesKey.bits), "encrypt", b) = BlockCipher[b]
              /\ aes_crypt_ecb(aes_setkey_dec(aesKey.key, aesKey.bits), "decrypt", BlockCipher[b]) = b
<1>1. aesKey.bits \in KeySizes /\ aesKey.key \in [0 .. 31 -> Byte]
  BY AesAssumption
<1>2. IsAesContext(aes_setkey_enc(aesKey.key, aesKey.bits))
  BY <1>1, EncryptionKey
<1>3. \A b \in Block : aes_crypt_ecb(aes_setkey_enc(aesKey.key, aesKey.bits), "encrypt", b) \in Block
  BY <1>2, Enciphered16
<1>4. \A b \in Block : aes_crypt_ecb(aes_setkey_enc(aesKey.key, aesKey.bits), "encrypt", b) = BlockCipher[b]
  BY DEF BlockCipher
<1>5. BlockCipher \in [Block -> Block]
  BY <1>3 DEF BlockCipher
<1> QED BY <1>1, <1>4, <1>5, BlockRoundTrip

(* The inductive invariant holds initially,                                 *)
LEMMA AesStarts == AesInit => AesInv
<1> SUFFICES ASSUME AesInit  PROVE AesInv
  OBVIOUS
<1>1. TextLen \in Nat /\ job.text \in [DOMAIN job.text -> Byte]
  BY TextIs DEF AesInit
<1> QED BY <1>1 DEF AesInit, AesInv, AesTypes

(* and every action keeps it: setting the key,                              *)
LEMMA SetKeyKeeps ==
  ASSUME AesInv, SetKey
  PROVE  AesInv'
<1>1. /\ TextLen \in Nat /\ DOMAIN job.text = 0 .. (TextLen - 1) /\ job.text \in [0 .. (TextLen - 1) -> Byte]
      /\ job.mode \in {"cbc", "cfb128"}
  BY TextIs DEF AesInv, AesTypes
<1>2. job' = job /\ aesKey' = aesKey /\ iv0' = iv0 /\ dir' = dir /\ data' = data /\ TextLen' = TextLen
  BY DEF SetKey, TextLen
<1>3. AesTypes'
  BY <1>1, <1>2 DEF SetKey, AesInv, AesTypes, AesKeyIs
<1>4. aesPc' = "call" /\ Cursor' = 0 /\ off' = 0 /\ iv' = iv0 /\ aesPc = "setkey"
  BY DEF SetKey, Cursor
<1>5. Stands(0)'
  BY <1>4 DEF Stands, Index
<1>6. \A c : Prev(iv0, c, 0) = iv0
  BY AesAssumption DEF AesInv, AesTypes, Prev, Block
<1>7. \A c : IvStands(c, 0)'
  BY <1>2, <1>4, <1>6 DEF IvStands
<1>8. BlockCipher' = BlockCipher
  BY <1>2 DEF BlockCipher
<1>9. CASE dir = "encrypt"
  <2>1. data = job.text
    BY <1>4, <1>9 DEF AesInv
  <2>2. UpTo(data, 0)
    <3>1. \A k \in Nat : ~(16 * k + 16 <= 0)
      OBVIOUS
    <3>2. \A k \in Nat, i \in Index : ~(16 * k + i < 0)
      BY DEF Index
    <3> QED BY <3>1, <3>2 DEF UpTo, CbcUpTo, CfbUpTo
  <2>3. UpTo(data, 0)' = UpTo(data, 0)
    BY <1>2, <1>8 DEF UpTo
  <2>4. Encrypting'
    BY <1>2, <1>4, <2>1, <2>2, <2>3 DEF Encrypting, UpTo
  <2> QED BY <1>2, <1>3, <1>4, <1>5, <1>7, <1>9, <2>4 DEF AesInv
<1>10. CASE dir = "decrypt"
  <2>1. UpTo(data, TextLen)
    BY <1>4, <1>10 DEF AesInv
  <2>2. Decrypting(data)'
    <3>1. data \in [DOMAIN job.text -> Byte]
      BY DEF AesInv, AesTypes
    <3>2. \A o \in DOMAIN job.text : ~(o < 0)
      BY <1>1
    <3>3. UpTo(data, TextLen)'
      BY <1>2, <1>8, <2>1 DEF UpTo
    <3> QED BY <1>2, <1>4, <3>1, <3>2, <3>3 DEF Decrypting
  <2> QED BY <1>2, <1>3, <1>4, <1>5, <1>7, <1>10, <2>2 DEF AesInv
<1> QED BY <1>9, <1>10 DEF AesInv, AesTypes

(* Steps that leave the text, the iv and the place alone.                   *)
LEMMA Undisturbed ==
  ASSUME AesInv, aesPc # "setkey", aesPc' # "setkey", AesTypes',
         job' = job /\ aesKey' = aesKey /\ iv0' = iv0 /\ dir' = dir /\ data' = data,
         off' = off /\ iv' = iv /\ Cursor' = Cursor
  PROVE  AesInv'
<1>1. BlockCipher' = BlockCipher /\ TextLen' = TextLen
  BY DEF BlockCipher, TextLen
<1>2. \A k : Stands(k)' <=> Stands(k)
  BY DEF Stands
<1>3. \A c, k : IvStands(c, k)' <=> IvStands(c, k)
  BY <1>1 DEF IvStands
<1>4. \A c, upto : UpTo(c, upto)' <=> UpTo(c, upto)
  BY <1>1 DEF UpTo
<1>5. CASE dir = "encrypt"
  <2>1. Encrypting'
    BY <1>4, <1>5 DEF AesInv, Encrypting
  <2>2. PICK k : Stands(k) /\ IvStands(data, k)
    BY <1>5 DEF AesInv
  <2>3. (Stands(k) /\ IvStands(data, k))'
    BY <1>2, <1>3, <2>2
  <2> QED BY <1>5, <2>1, <2>3 DEF AesInv
<1>6. CASE dir = "decrypt"
  <2>1. PICK c : Decrypting(c) /\ \E k : Stands(k) /\ IvStands(c, k)
    BY <1>6 DEF AesInv
  <2>2. PICK k : Stands(k) /\ IvStands(c, k)
    BY <2>1
  <2>3. Stands(k)' /\ IvStands(c, k)'
    BY <1>2, <1>3, <2>2
  <2>4. Decrypting(c)'
    BY <1>1, <1>4, <2>1 DEF Decrypting
  <2> QED BY <1>6, <2>3, <2>4 DEF AesInv
<1> QED BY <1>5, <1>6 DEF AesInv, AesTypes

(* calling a mode of operation,                                             *)
LEMMA CallModeKeeps ==
  ASSUME AesInv, CallMode
  PROVE  AesInv'
<1>1. /\ aesPc = "call" /\ aesPc' = "run" /\ n' = iv_off
      /\ job' = job /\ aesKey' = aesKey /\ iv0' = iv0 /\ dir' = dir /\ data' = data
      /\ off' = off /\ iv' = iv /\ aes' = aes
  BY DEF CallMode
<1>2. PICK len \in Cuts : off + len <= TextLen /\ Entered(len) /\ length' = len
  BY DEF CallMode
<1>3. len \in Nat
  BY AesAssumption
<1>4. TextLen' = TextLen
  BY <1>1 DEF TextLen
<1>5. AesTypes'
  BY <1>1, <1>2, <1>3, <1>4 DEF AesInv, AesTypes, Entered, AesKeyIs
<1>6. Cursor' = Cursor
  BY <1>1 DEF Cursor
<1> QED BY <1>1, <1>5, <1>6, Undisturbed

(* returning from it,                                                       *)
LEMMA ReturnModeKeeps ==
  ASSUME AesInv, ReturnMode
  PROVE  AesInv'
<1>1. /\ aesPc = "run" /\ aesPc' = "call" /\ iv_off' = n
      /\ job' = job /\ aesKey' = aesKey /\ iv0' = iv0 /\ dir' = dir /\ data' = data
      /\ off' = off /\ iv' = iv /\ aes' = aes /\ length' = length
  BY DEF ReturnMode
<1>2. TextLen' = TextLen
  BY <1>1 DEF TextLen
<1>3. AesTypes'
  BY <1>1, <1>2 DEF AesInv, AesTypes, AesKeyIs
<1>4. Cursor' = Cursor
  BY <1>1 DEF Cursor
<1> QED BY <1>1, <1>3, <1>4, Undisturbed

(* turning round to decrypt,                                                *)
LEMMA TurnRoundKeeps ==
  ASSUME AesInv, TurnRound
  PROVE  AesInv'
<1>1. /\ aesPc = "call" /\ off = TextLen
      /\ job' = job /\ aesKey' = aesKey /\ iv0' = iv0 /\ data' = data /\ iv_off' = iv_off
      /\ off' = off /\ iv' = iv /\ aes' = aes /\ length' = length
  BY DEF TurnRound
<1>2. TextLen' = TextLen /\ BlockCipher' = BlockCipher
  BY <1>1 DEF TextLen, BlockCipher
<1>3. CASE dir = "encrypt"
  <2>1. dir' = "decrypt" /\ aesPc' = "setkey"
    BY <1>3 DEF TurnRound
  <2>2. AesTypes'
    BY <1>1, <1>2, <2>1 DEF AesInv, AesTypes
  <2>3. UpTo(data, TextLen)
    BY <1>1, <1>3 DEF AesInv, Encrypting
  <2>4. UpTo(data, TextLen)'
    BY <1>1, <1>2, <2>3 DEF UpTo
  <2> QED BY <2>1, <2>2, <2>4 DEF AesInv
<1>4. CASE dir # "encrypt"
  <2>1. dir' = dir /\ aesPc' = "idle"
    BY <1>4 DEF TurnRound
  <2>2. AesTypes'
    BY <1>1, <1>2, <2>1 DEF AesInv, AesTypes
  <2>3. Cursor' = Cursor
    BY <1>1, <2>1 DEF Cursor
  <2> QED BY <1>1, <2>1, <2>2, <2>3, Undisturbed
<1> QED BY <1>3, <1>4

(* The bytes before the place are all that the iv holds of the text.        *)
LEMMA IvReads ==
  ASSUME NEW c, NEW d, NEW k, Stands(k), off \in Nat, Agree(c, d, off), IvStands(c, k)
  PROVE  IvStands(d, k)
<1>1. k \in Nat /\ Cursor \in Index /\ off = 16 * k + Cursor /\ 16 * k <= off
  BY DEF Stands, Index
<1>2. Prev(iv0, d, k) = Prev(iv0, c, k)
  BY <1>1, PrevReads
<1>3. \A j \in Index : j < Cursor => 16 * k + j \in Nat /\ 16 * k + j < off
  BY <1>1 DEF Index
<1>4. CfbIv(BlockCipher, iv0, d, k, Cursor) = CfbIv(BlockCipher, iv0, c, k, Cursor)
  BY <1>2, <1>3 DEF CfbIv, Agree
<1> QED BY <1>2, <1>4 DEF IvStands

(* A byte of CFB, when c is the cipher text.                                *)
LEMMA CfbByteMoves ==
  ASSUME AesInv, CfbByte, NEW c, NEW k, Stands(k), IvStands(c, k), Prev(iv0, c, k) \in Block,
         NEW stream, stream = IF n = 0 THEN aes_crypt_ecb(aes, "encrypt", iv) ELSE iv,
         iv' = [stream EXCEPT ![n] = c[off]]
  PROVE  /\ stream[n] = BlockCipher[Prev(iv0, c, k)][n]
         /\ \E q : Stands(q)' /\ IvStands(c, q)'
<1>1. /\ aesPc = "run" /\ aesPc' = "run" /\ job.mode = "cfb128" /\ n' = (n + 1) % 16 /\ off' = off + 1
      /\ job' = job /\ aesKey' = aesKey /\ iv0' = iv0
  BY DEF CfbByte
<1>2. Cursor = n /\ Cursor' = n' /\ BlockCipher' = BlockCipher
  BY <1>1 DEF Cursor, BlockCipher
<1>3. k \in Nat /\ n \in Index /\ off = 16 * k + n
  BY <1>2 DEF Stands
<1>4. aesKey \in AesKeys /\ aes = aes_setkey_enc(aesKey.key, aesKey.bits)
  BY <1>1 DEF AesInv, AesTypes, AesKeyIs
<1>5. BlockCipher[Prev(iv0, c, k)] \in Block
  BY <1>4, BlockCipherIs
<1>6. iv = IF n = 0 THEN Prev(iv0, c, k) ELSE CfbIv(BlockCipher, iv0, c, k, n)
  BY <1>2 DEF IvStands
<1>7. stream = IF n = 0 THEN BlockCipher[iv] ELSE iv
  BY <1>4, <1>6, BlockCipherIs
<1> DEFINE m2 == (n + 1) % 16
<1>8. /\ stream[n] = BlockCipher[Prev(iv0, c, k)][n]
      /\ m2 \in Index
      /\ n < 15 => m2 = n + 1 /\ m2 # 0 /\ iv' = CfbIv(BlockCipher, iv0, c, k, m2)
      /\ n = 15 => m2 = 0 /\ iv' = Prev(iv0, c, k + 1)
  <2>1. LET s == IF n = 0 THEN BlockCipher[iv] ELSE iv
            w2 == [s EXCEPT ![n] = c[16 * k + n]]
        IN  /\ s[n] = BlockCipher[Prev(iv0, c, k)][n]
            /\ m2 \in Index
            /\ n < 15 => m2 = n + 1 /\ m2 # 0 /\ w2 = CfbIv(BlockCipher, iv0, c, k, m2)
            /\ n = 15 => m2 = 0 /\ w2 = Prev(iv0, c, k + 1)
    BY <1>3, <1>5, <1>6, CfbStep
  <2>2. iv' = [stream EXCEPT ![n] = c[16 * k + n]]
    BY <1>3
  <2> HIDE DEF m2
  <2> QED BY <1>7, <2>1, <2>2
<1>9. Cursor' = m2 /\ job'.mode = "cfb128"
  BY <1>1, <1>2
<1> HIDE DEF m2
<1>10. CASE n < 15
  <2>1. off' = 16 * k + m2
    BY <1>1, <1>3, <1>8, <1>10 DEF Index
  <2>2. Stands(k)'
    BY <1>3, <1>8, <1>9, <2>1 DEF Stands
  <2>3. IvStands(c, k)'
    BY <1>1, <1>2, <1>8, <1>9, <1>10 DEF IvStands
  <2> QED BY <1>8, <2>2, <2>3
<1>11. CASE n = 15
  <2>1. off' = 16 * (k + 1) + m2 /\ k + 1 \in Nat
    BY <1>1, <1>3, <1>8, <1>11
  <2>2. Stands(k + 1)'
    BY <1>8, <1>9, <2>1 DEF Stands
  <2>3. IvStands(c, k + 1)'
    BY <1>1, <1>2, <1>8, <1>9, <1>11 DEF IvStands
  <2> QED BY <1>8, <2>2, <2>3
<1>12. n < 15 \/ n = 15
  BY <1>3 DEF Index
<1> QED BY <1>10, <1>11, <1>12

(* a byte of aes_crypt_cfb128,                                              *)
LEMMA CfbByteKeeps ==
  ASSUME AesInv, CfbByte
  PROVE  AesInv'
<1> DEFINE len == TextLen
           text == job.text
<1>1. /\ len \in Nat /\ DOMAIN text = 0 .. (len - 1) /\ text \in [0 .. (len - 1) -> Byte]
      /\ data \in [0 .. (len - 1) -> Byte] /\ off \in Nat /\ length \in Nat /\ off + length <= len
      /\ iv0 \in Block /\ aesKey \in AesKeys /\ aes = aes_setkey_enc(aesKey.key, aesKey.bits)
  <2>1. job \in Texts /\ iv0 \in Block
    BY AesAssumption DEF AesInv, AesTypes
  <2> QED BY <2>1, TextIs DEF AesInv, AesTypes, AesKeyIs, CfbByte
<1>2. /\ aesPc = "run" /\ aesPc' = "run" /\ job.mode = "cfb128" /\ length > 0
      /\ n' = (n + 1) % 16 /\ off' = off + 1 /\ length' = length - 1
      /\ job' = job /\ aesKey' = aesKey /\ iv0' = iv0 /\ dir' = dir /\ aes' = aes
  BY DEF CfbByte
<1>3. /\ Cursor = n /\ BlockCipher' = BlockCipher /\ TextLen' = len
      /\ \A c, upto : UpTo(c, upto)' <=> UpTo(c, upto)
  BY <1>2 DEF Cursor, BlockCipher, TextLen, UpTo
<1>4. PICK stream :
        /\ stream = IF n = 0 THEN aes_crypt_ecb(aes, "encrypt", iv) ELSE iv
        /\ data' = [data EXCEPT ![off] = Xor(data[off], stream[n])]
        /\ iv' = [stream EXCEPT ![n] = IvAfter(data[off], Xor(data[off], stream[n]))]
  BY DEF CfbByte
<1>5. off \in 0 .. (len - 1) /\ off + 1 <= len /\ length - 1 \in Nat /\ (off + 1) + (length - 1) <= len
  BY <1>1, <1>2
<1>6. /\ data'[off] = Xor(data[off], stream[n])
      /\ \A o \in 0 .. (len - 1) : o # off => data'[o] = data[o]
      /\ DOMAIN data' = 0 .. (len - 1)
  BY <1>1, <1>4, <1>5
<1>7. ASSUME NEW k, Stands(k)
      PROVE  k \in Nat /\ n \in Index /\ off = 16 * k + n /\ 16 * k <= len /\ 16 * k <= off
  <2>1. k \in Nat /\ n \in Index /\ off = 16 * k + n
    BY <1>3, <1>7 DEF Stands
  <2>2. 16 * k <= off
    BY <2>1 DEF Index
  <2>3. off <= len
    <3> HIDE DEF len
    <3> QED BY <1>1
  <2> HIDE DEF len
  <2>4. 16 * k <= len
    BY <1>1, <2>1, <2>2, <2>3
  <2> QED BY <2>1, <2>2, <2>4
<1>8. ASSUME data'[off] \in Byte  PROVE AesTypes'
  <2>1. data' \in [0 .. (len - 1) -> Byte]
    BY <1>1, <1>4, <1>5, <1>8
  <2> HIDE DEF len
  <2>2. off' <= TextLen'
    BY <1>2, <1>3, <1>5
  <2>3. off' \in Nat /\ length' \in Nat /\ off' + length' <= TextLen'
    BY <1>1, <1>2, <1>3, <1>5
  <2>4. job'.mode # "cbc" /\ AesKeyIs'
    BY <1>1, <1>2 DEF AesKeyIs
  <2> QED BY <1>1, <1>2, <2>1, <2>2, <2>3, <2>4 DEF AesInv, AesTypes
<1>9. CASE dir = "encrypt"
  <2> PICK d : d = data'
    OBVIOUS
  <2>1. /\ Encrypting /\ \E k : Stands(k) /\ IvStands(data, k)
    BY <1>2, <1>9 DEF AesInv
  <2>2. PICK k : Stands(k) /\ IvStands(data, k)
    BY <2>1
  <2>3. Agree(data, d, off)
    BY <1>1, <1>6 DEF Agree
  <2>4. IvStands(d, k) /\ Prev(iv0, d, k) = Prev(iv0, data, k)
    BY <1>1, <1>7, <2>2, <2>3, IvReads, PrevReads
  <2>5. Prev(iv0, d, k) \in Block
    BY <1>1, <1>7, <2>2, <2>4, PrevIs
  <2>6. iv' = [stream EXCEPT ![n] = d[off]]
    BY <1>4, <1>6, <1>9 DEF IvAfter
  <2>7. stream[n] = BlockCipher[Prev(iv0, d, k)][n] /\ \E q : Stands(q)' /\ IvStands(d, q)'
    <3>1. Stands(k) /\ IvStands(d, k) /\ stream = IF n = 0 THEN aes_crypt_ecb(aes, "encrypt", iv) ELSE iv
      BY <1>4, <2>2, <2>4
    <3> QED BY <2>5, <2>6, <3>1, CfbByteMoves
  <2>8. d[off] = Xor(text[off], BlockCipher[Prev(iv0, d, k)][n]) /\ d[off] \in Byte
    <3>1. data[off] = text[off] /\ text[off] \in Byte
      BY <1>1, <1>5, <2>1 DEF Encrypting
    <3>2. BlockCipher[Prev(iv0, d, k)][n] \in Byte
      <4>1. BlockCipher[Prev(iv0, d, k)] \in Block /\ n \in Index
        BY <1>1, <1>7, <2>2, <2>5, BlockCipherIs
      <4> QED BY <4>1 DEF Block
    <3> QED BY <1>6, <2>7, <3>1, <3>2, XorFacts
  <2>9. UpTo(d, off + 1)
    <3>1. CfbUpTo(BlockCipher, iv0, text, data, off)
      BY <1>2, <2>1 DEF Encrypting, UpTo
    <3>2. CfbUpTo(BlockCipher, iv0, text, d, off)
      <4> HIDE DEF text
      <4> QED BY <1>1, <2>3, <3>1, CfbReads
    <3>3. off = 16 * k + n /\ k \in Nat /\ n \in Index /\ 16 * k + n + 1 = off + 1
      BY <1>7, <2>2 DEF Index
    <3>4. CfbUpTo(BlockCipher, iv0, text, d, off + 1)
      <4> HIDE DEF text
      <4>1. CfbUpTo(BlockCipher, iv0, text, d, 16 * k + n)
        BY <3>2, <3>3
      <4>2. d[16 * k + n] = Xor(text[16 * k + n], BlockCipher[Prev(iv0, d, k)][n])
        BY <2>8, <3>3
      <4>3. CfbUpTo(BlockCipher, iv0, text, d, 16 * k + n + 1)
        BY <3>3, <4>1, <4>2, CfbOneMore
      <4> QED BY <3>3, <4>3
    <3> QED BY <1>2, <3>4 DEF UpTo
  <2>10. \A o \in DOMAIN text : off + 1 <= o => d[o] = text[o]
    <3>1. \A o \in 0 .. (len - 1) : off + 1 <= o => o # off /\ off <= o
      BY <1>1
    <3> QED BY <1>1, <1>6, <2>1, <3>1 DEF Encrypting
  <2>11. Encrypting'
    <3>1. UpTo(data, off)'
      BY <1>2, <1>3, <2>9 DEF UpTo
    <3>2. (\A o \in DOMAIN job.text : off <= o => data[o] = job.text[o])'
      BY <1>2, <2>10
    <3> QED BY <3>1, <3>2 DEF Encrypting
  <2>12. AesTypes'
    BY <1>8, <2>8
  <2>13. (\E q : Stands(q) /\ IvStands(data, q))'
    <3>1. PICK q : Stands(q)' /\ IvStands(d, q)'
      BY <2>7
    <3>2. IvStands(data, q)'
      BY <3>1 DEF IvStands
    <3> QED BY <3>1, <3>2
  <2> QED BY <1>2, <1>9, <2>11, <2>12, <2>13 DEF AesInv
<1>10. CASE dir = "decrypt"
  <2>1. PICK c : Decrypting(c) /\ \E k : Stands(k) /\ IvStands(c, k)
    BY <1>2, <1>10 DEF AesInv
  <2>2. PICK k : Stands(k) /\ IvStands(c, k)
    BY <2>1
  <2>3. c \in [0 .. (len - 1) -> Byte] /\ CfbUpTo(BlockCipher, iv0, text, c, len)
    BY <1>1, <1>2, <2>1 DEF Decrypting, UpTo
  <2>4. data[off] = c[off] /\ c[off] \in Byte
    BY <1>1, <1>5, <2>1, <2>3 DEF Decrypting
  <2>5. Prev(iv0, c, k) \in Block
    BY <1>1, <1>7, <2>2, <2>3, PrevIs
  <2>6. iv' = [stream EXCEPT ![n] = c[off]]
    BY <1>4, <1>10, <2>4 DEF IvAfter
  <2>7. stream[n] = BlockCipher[Prev(iv0, c, k)][n] /\ \E q : Stands(q)' /\ IvStands(c, q)'
    BY <1>4, <2>2, <2>5, <2>6, CfbByteMoves
  <2>8. c[off] = Xor(text[off], BlockCipher[Prev(iv0, c, k)][n])
    <3>1. off = 16 * k + n /\ k \in Nat /\ n \in Index /\ 16 * k + n < len
      BY <1>1, <1>5, <1>7, <2>2
    <3>2. c[16 * k + n] = Xor(text[16 * k + n], BlockCipher[Prev(iv0, c, k)][n])
      BY <2>3, <3>1 DEF CfbUpTo
    <3> QED BY <3>1, <3>2
  <2>9. data'[off] = text[off] /\ data'[off] \in Byte
    <3>1. text[off] \in Byte
      BY <1>1, <1>5
    <3>2. BlockCipher[Prev(iv0, c, k)][n] \in Byte
      <4>1. BlockCipher[Prev(iv0, c, k)] \in Block /\ n \in Index
        BY <1>1, <1>7, <2>2, <2>5, BlockCipherIs
      <4> QED BY <4>1 DEF Block
    <3> QED BY <1>6, <2>4, <2>7, <2>8, <3>1, <3>2, XorFacts
  <2>10. AesTypes'
    BY <1>8, <2>9
  <2>11. \A o \in DOMAIN text : data'[o] = IF o < off + 1 THEN text[o] ELSE c[o]
    <3>1. \A o \in 0 .. (len - 1) : o < off + 1 <=> o = off \/ o < off
      BY <1>1
    <3>2. \A o \in 0 .. (len - 1) : data[o] = IF o < off THEN text[o] ELSE c[o]
      BY <1>1, <2>1 DEF Decrypting
    <3> QED BY <1>1, <1>6, <2>9, <3>1, <3>2
  <2>12. Decrypting(c)'
    BY <1>2, <1>3, <2>1, <2>11 DEF Decrypting
  <2> QED BY <1>2, <1>10, <2>7, <2>10, <2>12 DEF AesInv
<1> QED BY <1>9, <1>10 DEF AesInv, AesTypes

(* Adding a block twice takes it out again.                                 *)
LEMMA XorBlockIs ==
  ASSUME NEW a \in Block, NEW b \in Block
  PROVE  XorBlock(a, b) \in Block /\ XorBlock(XorBlock(a, b), b) = a
<1>1. \A x, y : XorBlock(x, y) = u128_xor(x, y)
  BY TableIs DEF u128_xor, XorBlock
<1> QED BY <1>1, XorBlockFacts

(* and a block of aes_crypt_cbc.                                            *)
LEMMA CbcBlockKeeps ==
  ASSUME AesInv, CbcBlock
  PROVE  AesInv'
<1> DEFINE len == TextLen
           text == job.text
           input == [i \in Index |-> data[off + i]]
<1>1. /\ len \in Nat /\ DOMAIN text = 0 .. (len - 1) /\ text \in [0 .. (len - 1) -> Byte]
      /\ data \in [0 .. (len - 1) -> Byte] /\ off \in Nat /\ length \in Nat /\ off + length <= len /\ length % 16 = 0
      /\ iv0 \in Block /\ aesKey \in AesKeys /\ AesKeyIs /\ dir \in {"encrypt", "decrypt"}
  <2>1. job \in Texts /\ iv0 \in Block
    BY AesAssumption DEF AesInv, AesTypes
  <2> QED BY <2>1, TextIs DEF AesInv, AesTypes, CbcBlock
<1>2. /\ aesPc = "run" /\ aesPc' = "run" /\ job.mode = "cbc" /\ length > 0
      /\ n' = n /\ off' = off + 16 /\ length' = length - 16
      /\ job' = job /\ aesKey' = aesKey /\ iv0' = iv0 /\ dir' = dir /\ aes' = aes
  BY DEF CbcBlock
<1>3. /\ Cursor = n /\ Cursor' = n /\ BlockCipher' = BlockCipher /\ TextLen' = len
      /\ \A c, upto : UpTo(c, upto)' <=> UpTo(c, upto)
  BY <1>2 DEF Cursor, BlockCipher, TextLen, UpTo
<1>4. PICK output :
        /\ output = IF dir = "decrypt" THEN XorBlock(aes_crypt_ecb(aes, "decrypt", input), iv)
                                       ELSE aes_crypt_ecb(aes, "encrypt", XorBlock(input, iv))
        /\ data' = Replace(off, output)
        /\ iv' = IvAfter(input, output)
  BY DEF CbcBlock
<1> HIDE DEF len
<1>5. /\ length >= 16 /\ off + 16 <= len /\ length - 16 \in Nat
      /\ (off + 16) + (length - 16) <= len /\ (length - 16) % 16 = 0
  <2>1. length >= 16 /\ (length - 16) % 16 = 0
    <3>1. length \in Nat /\ length > 0 /\ length % 16 = 0
      BY <1>1, <1>2
    <3> QED BY <3>1
  <2>2. off \in Nat /\ length \in Nat /\ len \in Nat /\ off + length <= len
    BY <1>1
  <2> QED BY <2>1, <2>2
<1>6. ASSUME output \in Block
      PROVE  /\ data' \in [0 .. (len - 1) -> Byte]
             /\ \A i \in Index : data'[off + i] = output[i]
             /\ \A o \in 0 .. (len - 1) : o < off \/ off + 16 <= o => data'[o] = data[o]
             /\ AesTypes'
  <2>1. DOMAIN output = Index /\ \A i \in Index : output[i] \in Byte
    BY <1>6 DEF Block
  <2>2. data' = [o \in 0 .. (len - 1) |-> IF o - off \in Index THEN output[o - off] ELSE data[o]]
    BY <1>1, <1>4, <2>1 DEF Replace
  <2>3. data' \in [0 .. (len - 1) -> Byte]
    BY <1>1, <2>1, <2>2
  <2>4. ASSUME NEW i \in Index  PROVE data'[off + i] = output[i]
    <3>1. off + i \in 0 .. (len - 1) /\ (off + i) - off = i
      BY <1>1, <1>5 DEF Index
    <3> QED BY <2>2, <3>1
  <2>5. ASSUME NEW o \in 0 .. (len - 1), o < off \/ off + 16 <= o  PROVE data'[o] = data[o]
    <3>1. o - off \notin Index
      BY <1>1, <2>5 DEF Index
    <3> QED BY <2>2, <3>1
  <2>6. off' <= TextLen'
    BY <1>2, <1>3, <1>5
  <2>7. off' \in Nat /\ length' \in Nat /\ off' + length' <= TextLen' /\ length' % 16 = 0
    BY <1>1, <1>2, <1>3, <1>5
  <2>8. AesKeyIs'
    BY <1>1, <1>2 DEF AesKeyIs
  <2>9. AesTypes'
    BY <1>1, <1>2, <2>3, <2>6, <2>7, <2>8 DEF AesInv, AesTypes
  <2> QED BY <2>3, <2>4, <2>5, <2>9
<1>7. ASSUME NEW k, Stands(k)
      PROVE  /\ k \in Nat /\ n = 0 /\ off = 16 * k /\ 16 * k + 16 <= len /\ 16 * k <= len
             /\ Stands(k + 1)'
             /\ \A x : BlockOf(x, k) = [i \in Index |-> x[off + i]]
             /\ \A c : IvStands(c, k) => iv = Prev(iv0, c, k)
             /\ \A c : iv' = Prev(iv0, c, k + 1) => IvStands(c, k + 1)'
  <2>1. k \in Nat /\ n = 0 /\ off = 16 * k
    BY <1>2, <1>3, <1>7 DEF Stands
  <2>2. 16 * k + 16 <= len /\ 16 * k <= len
    BY <1>1, <1>5, <2>1
  <2>3. Stands(k + 1)'
    <3>1. k + 1 \in Nat /\ off' = 16 * (k + 1) + n /\ n \in Index
      BY <1>2, <2>1 DEF Index
    <3> QED BY <1>3, <2>1, <3>1 DEF Stands
  <2>4. \A x : BlockOf(x, k) = [i \in Index |-> x[off + i]]
    BY <2>1 DEF BlockOf
  <2>5. \A c : IvStands(c, k) => iv = Prev(iv0, c, k)
    BY <1>3, <2>1 DEF IvStands
  <2>6. \A c : iv' = Prev(iv0, c, k + 1) => IvStands(c, k + 1)'
    BY <1>2, <1>3, <2>1 DEF IvStands
  <2> QED BY <2>1, <2>2, <2>3, <2>4, <2>5, <2>6
<1>8. CASE dir = "encrypt"
  <2> PICK d : d = data'
    OBVIOUS
  <2>1. /\ Encrypting /\ \E k : Stands(k) /\ IvStands(data, k)
    BY <1>2, <1>8 DEF AesInv
  <2>2. PICK k : Stands(k) /\ IvStands(data, k)
    BY <2>1
  <2>3. /\ k \in Nat /\ off = 16 * k /\ 16 * k + 16 <= len /\ 16 * k <= len
        /\ iv = Prev(iv0, data, k) /\ input = BlockOf(data, k)
    BY <1>7, <2>2
  <2>4. iv \in Block /\ BlockOf(text, k) \in Block
    BY <1>1, <2>3, PrevIs
  <2>5. input = BlockOf(text, k)
    <3>0. off \in Nat /\ len \in Nat /\ off + 16 <= len
      BY <1>1, <1>5
    <3>1. \A i \in Index : off + i \in 0 .. (len - 1) /\ off <= off + i
      BY <3>0 DEF Index
    <3>2. \A i \in Index : data[off + i] = text[off + i]
      BY <1>1, <2>1, <3>1 DEF Encrypting
    <3>3. BlockOf(text, k) = [i \in Index |-> text[off + i]]
      BY <1>7, <2>2
    <3> QED BY <3>2, <3>3
  <2> HIDE DEF input
  <2>6. output = BlockCipher[XorBlock(BlockOf(text, k), iv)] /\ output \in Block
    <3>1. aes = aes_setkey_enc(aesKey.key, aesKey.bits)
      BY <1>1, <1>8 DEF AesKeyIs
    <3>2. XorBlock(BlockOf(text, k), iv) \in Block
      BY <2>4, XorBlockIs
    <3> HIDE DEF text
    <3>3. output = aes_crypt_ecb(aes, "encrypt", XorBlock(BlockOf(text, k), iv))
      BY <1>4, <1>8, <2>5
    <3> QED BY <1>1, <3>1, <3>2, <3>3, BlockCipherIs
  <2>7. /\ d \in [0 .. (len - 1) -> Byte] /\ AesTypes'
        /\ \A i \in Index : d[off + i] = output[i]
        /\ \A o \in 0 .. (len - 1) : o < off \/ off + 16 <= o => d[o] = data[o]
    BY <1>6, <2>6
  <2>8. BlockOf(d, k) = output
    <3>1. BlockOf(d, k) = [i \in Index |-> d[off + i]]
      BY <1>7, <2>2
    <3>2. output = [i \in Index |-> output[i]]
      BY <2>6 DEF Block
    <3> QED BY <2>7, <3>1, <3>2
  <2>9. Agree(data, d, off)
    <3>1. \A o \in Nat : o < off => o \in 0 .. (len - 1)
      BY <1>1, <1>5
    <3> QED BY <2>7, <3>1 DEF Agree
  <2>10. iv = Prev(iv0, d, k)
    <3>1. 16 * k <= off
      BY <2>3
    <3> QED BY <1>1, <2>3, <2>9, <3>1, PrevReads
  <2>11. UpTo(d, off + 16)
    <3> HIDE DEF text
    <3>1. CbcUpTo(BlockCipher, iv0, text, data, off)
      BY <1>2, <2>1 DEF Encrypting, UpTo, text
    <3>2. CbcUpTo(BlockCipher, iv0, text, d, 16 * k)
      BY <1>1, <2>3, <2>9, <3>1, CbcReads
    <3>3. BlockOf(d, k) = BlockCipher[XorBlock(BlockOf(text, k), Prev(iv0, d, k))]
      BY <2>6, <2>8, <2>10
    <3>4. CbcUpTo(BlockCipher, iv0, text, d, 16 * k + 16)
      BY <2>3, <3>2, <3>3, CbcOneMore
    <3> QED BY <1>2, <2>3, <3>4 DEF UpTo, text
  <2>12. \A o \in DOMAIN text : off + 16 <= o => d[o] = text[o]
    <3>1. \A o \in 0 .. (len - 1) : off + 16 <= o => off <= o
      BY <1>1
    <3> QED BY <1>1, <2>1, <2>7, <3>1 DEF Encrypting
  <2>13. Encrypting'
    <3>1. UpTo(data, off)'
      BY <1>2, <1>3, <2>11 DEF UpTo
    <3>2. (\A o \in DOMAIN job.text : off <= o => data[o] = job.text[o])'
      BY <1>2, <2>12
    <3> QED BY <3>1, <3>2 DEF Encrypting
  <2>14. IvStands(data, k + 1)'
    <3>1. iv' = output
      BY <1>4, <1>8 DEF IvAfter
    <3>2. BlockOf(d, k) = Prev(iv0, d, k + 1)
      BY <1>1, <2>3, <2>7, PrevIs
    <3>3. IvStands(d, k + 1)'
      BY <1>7, <2>2, <2>8, <3>1, <3>2
    <3> QED BY <3>3 DEF IvStands
  <2>15. (\E q : Stands(q) /\ IvStands(data, q))'
    BY <1>7, <2>2, <2>14
  <2> QED BY <1>2, <1>8, <2>7, <2>13, <2>15 DEF AesInv
<1>9. CASE dir = "decrypt"
  <2>1. PICK c : Decrypting(c) /\ \E k : Stands(k) /\ IvStands(c, k)
    BY <1>2, <1>9 DEF AesInv
  <2>2. PICK k : Stands(k) /\ IvStands(c, k)
    BY <2>1
  <2>3. c \in [0 .. (len - 1) -> Byte] /\ CbcUpTo(BlockCipher, iv0, text, c, len)
    BY <1>1, <1>2, <2>1 DEF Decrypting, UpTo, len
  <2>4. /\ k \in Nat /\ off = 16 * k /\ 16 * k + 16 <= len /\ 16 * k <= len
        /\ iv = Prev(iv0, c, k)
    BY <1>7, <2>2
  <2>5. iv \in Block /\ BlockOf(text, k) \in Block
    <3>1. iv \in Block
      BY <1>1, <2>3, <2>4, PrevIs
    <3>2. BlockOf(text, k) \in Block
      BY <1>1, <2>4, PrevIs
    <3> QED BY <3>1, <3>2
  <2>6. input = BlockOf(c, k)
    <3>0. off \in Nat /\ len \in Nat /\ off + 16 <= len
      BY <1>1, <1>5
    <3>1. \A i \in Index : off + i \in 0 .. (len - 1) /\ ~(off + i < off)
      BY <3>0 DEF Index
    <3>2. \A i \in Index : data[off + i] = c[off + i]
      BY <1>1, <2>1, <3>1 DEF Decrypting
    <3>3. BlockOf(c, k) = [i \in Index |-> c[off + i]]
      BY <1>7, <2>2
    <3> QED BY <3>2, <3>3
  <2> HIDE DEF input
  <2>7. input = BlockCipher[XorBlock(BlockOf(text, k), iv)]
    <3> HIDE DEF text
    <3>1. BlockOf(c, k) = BlockCipher[XorBlock(BlockOf(text, k), Prev(iv0, c, k))]
      BY <2>3, <2>4 DEF CbcUpTo
    <3> QED BY <2>4, <2>6, <3>1
  <2>8. output = BlockOf(text, k)
    <3>1. aes = aes_setkey_dec(aesKey.key, aesKey.bits)
      BY <1>1, <1>2, <1>9 DEF AesKeyIs
    <3> HIDE DEF text
    <3>2. XorBlock(BlockOf(text, k), iv) \in Block /\ XorBlock(XorBlock(BlockOf(text, k), iv), iv) = BlockOf(text, k)
      BY <2>5, XorBlockIs
    <3>3. aes_crypt_ecb(aes, "decrypt", input) = XorBlock(BlockOf(text, k), iv)
      BY <1>1, <2>7, <3>1, <3>2, BlockCipherIs
    <3>4. output = XorBlock(aes_crypt_ecb(aes, "decrypt", input), iv)
      BY <1>4, <1>9
    <3> QED BY <3>2, <3>3, <3>4
  <2>9. /\ AesTypes'
        /\ \A i \in Index : data'[off + i] = output[i]
        /\ \A o \in 0 .. (len - 1) : o < off \/ off + 16 <= o => data'[o] = data[o]
    BY <1>6, <2>5, <2>8
  <2>10. \A o \in DOMAIN text : data'[o] = IF o < off + 16 THEN text[o] ELSE c[o]
    <3>1. \A o \in 0 .. (len - 1) : data[o] = IF o < off THEN text[o] ELSE c[o]
      BY <1>1, <2>1 DEF Decrypting
    <3>2. ASSUME NEW i \in Index  PROVE data'[off + i] = text[off + i]
      <4>1. output = [j \in Index |-> text[off + j]]
        BY <1>7, <2>2, <2>8
      <4> HIDE DEF text
      <4>2. output[i] = text[off + i]
        BY <4>1
      <4> QED BY <2>9, <4>2
    <3>3. ASSUME NEW o \in 0 .. (len - 1)  PROVE data'[o] = IF o < off + 16 THEN text[o] ELSE c[o]
      <4>1. CASE o < off
        <5>1. o < off + 16
          BY <1>1, <4>1
        <5> QED BY <2>9, <3>1, <4>1, <5>1
      <4>2. CASE off + 16 <= o
        <5>1. ~(o < off + 16) /\ ~(o < off)
          BY <1>1, <4>2
        <5> QED BY <2>9, <3>1, <4>2, <5>1
      <4>3. CASE ~(o < off) /\ ~(off + 16 <= o)
        <5> DEFINE i == o - off
        <5>1. i \in Index /\ off + i = o /\ o < off + 16
          BY <1>1, <4>3 DEF Index
        <5> HIDE DEF i
        <5>2. data'[off + i] = text[off + i]
          BY <3>2, <5>1
        <5> QED BY <5>1, <5>2
      <4> QED BY <4>1, <4>2, <4>3
    <3> QED BY <1>1, <3>3
  <2>11. Decrypting(c)'
    BY <1>2, <1>3, <2>1, <2>10 DEF Decrypting, len
  <2>12. IvStands(c, k + 1)'
    <3>1. iv' = input
      BY <1>4, <1>9 DEF IvAfter
    <3>2. BlockOf(c, k) = Prev(iv0, c, k + 1)
      BY <1>1, <2>3, <2>4, PrevIs
    <3> QED BY <1>7, <2>2, <2>6, <3>1, <3>2
  <2>13. Stands(k + 1)'
    BY <1>7, <2>2
  <2> QED BY <1>2, <1>9, <2>9, <2>11, <2>12, <2>13 DEF AesInv
<1> QED BY <1>1, <1>8, <1>9

(* AesModes: types, place, what the text holds so far in terms of the text  *)
(* before, and the iv that goes with it (aes.c:718-890) hold always.        *)
THEOREM AesInductive == AesSpec => []AesInv
<1>1. AesInit => AesInv
  BY AesStarts
<1>2. AesInv /\ [AesNext]_aesVars => AesInv'
  <2> SUFFICES ASSUME AesInv, [AesNext]_aesVars  PROVE AesInv'
    OBVIOUS
  <2>1. CASE SetKey
    BY <2>1, SetKeyKeeps
  <2>2. CASE CallMode
    BY <2>2, CallModeKeeps
  <2>3. CASE CbcBlock
    BY <2>3, CbcBlockKeeps
  <2>4. CASE CfbByte
    BY <2>4, CfbByteKeeps
  <2>5. CASE ReturnMode
    BY <2>5, ReturnModeKeeps
  <2>6. CASE TurnRound
    BY <2>6, TurnRoundKeeps
  <2>7. CASE UNCHANGED aesVars
    <3>1. /\ aesPc' = aesPc /\ job' = job /\ aesKey' = aesKey /\ dir' = dir /\ aes' = aes /\ iv0' = iv0 /\ iv' = iv
          /\ iv_off' = iv_off /\ n' = n /\ length' = length /\ off' = off /\ data' = data
      BY <2>7 DEF aesVars
    <3>2. AesTypes'
      BY <3>1 DEF AesInv, AesTypes, AesKeyIs, TextLen
    <3>3. CASE aesPc = "setkey"
      <4>1. UpTo(data, TextLen)' <=> UpTo(data, TextLen)
        BY <3>1 DEF UpTo, BlockCipher, TextLen
      <4> QED BY <3>1, <3>2, <3>3, <4>1 DEF AesInv
    <3>4. CASE aesPc # "setkey"
      <4>1. Cursor' = Cursor
        BY <3>1 DEF Cursor
      <4> QED BY <3>1, <3>2, <3>4, <4>1, Undisturbed
    <3> QED BY <3>3, <3>4
  <2> QED BY <2>1, <2>2, <2>3, <2>4, <2>5, <2>6, <2>7 DEF AesNext
<1> QED BY <1>1, <1>2, PTL DEF AesSpec

(* aes.c:718-890.  What was encrypted in any mode, with any key, iv, offset *)
(* and division into calls, decrypts to what it was.                        *)
THEOREM RoundTripHolds == AesSpec => []RoundTrip
<1>1. AesInv => RoundTrip
  <2> SUFFICES ASSUME AesInv, dir = "decrypt", aesPc # "setkey", NEW i \in 0 .. (off - 1)
               PROVE  data[i] = job.text[i]
    BY DEF RoundTrip
  <2>1. PICK c : Decrypting(c)
    BY DEF AesInv
  <2>2. /\ TextLen \in Nat /\ DOMAIN job.text = 0 .. (TextLen - 1) /\ off \in Nat /\ off <= TextLen
    BY TextIs DEF AesInv, AesTypes
  <2>3. i \in DOMAIN job.text /\ i < off
    BY <2>2
  <2> QED BY <2>1, <2>3 DEF Decrypting
<1> QED BY <1>1, AesInductive, PTL

-----------------------------------------------------------------------------
(* The same as FIPS 197: products, inverses and the substitution.           *)

(* The product of the standard, one bit of y after the other.               *)
Part(x, y, k) == IF IsSet(y, k) THEN x ELSE 0
H7(x, y) == Product(x, y, 7, 0)
H6(x, y) == Product(x, y, 6, H7(x, y))
H5(x, y) == Product(x, y, 5, H6(x, y))
H4(x, y) == Product(x, y, 4, H5(x, y))
H3(x, y) == Product(x, y, 3, H4(x, y))
H2(x, y) == Product(x, y, 2, H3(x, y))
H1(x, y) == Product(x, y, 1, H2(x, y))

(* A step of the product.                                                   *)
LEMMA ProductStep ==
  ASSUME NEW x \in Byte, NEW y \in Byte, NEW k, NEW p \in Byte
  PROVE  /\ Product(x, y, k, p) = Xor(XTIME(p), Part(x, y, k))
         /\ Product(x, y, k, p) \in Byte /\ Part(x, y, k) \in Byte
<1>1. Double(p) = XTIME(p) /\ XTIME(p) \in Byte
  BY DoubleIs, XTimeBits
<1>2. Part(x, y, k) \in Byte
  BY ConstantBits DEF Part
<1>3. Product(x, y, k, p) = Xor(XTIME(p), Part(x, y, k))
  BY <1>1 DEF Product, With, Part, IsSet, Bit
<1> QED BY <1>1, <1>2, <1>3, XorAlgebra

(* The eight steps of it.                                                   *)
LEMMA ProductSteps ==
  ASSUME NEW x \in Byte, NEW y \in Byte
  PROVE  /\ H7(x, y) \in Byte /\ H7(x, y) = Part(x, y, 7)
         /\ H6(x, y) \in Byte /\ H6(x, y) = Xor(XTIME(H7(x, y)), Part(x, y, 6))
         /\ H5(x, y) \in Byte /\ H5(x, y) = Xor(XTIME(H6(x, y)), Part(x, y, 5))
         /\ H4(x, y) \in Byte /\ H4(x, y) = Xor(XTIME(H5(x, y)), Part(x, y, 4))
         /\ H3(x, y) \in Byte /\ H3(x, y) = Xor(XTIME(H4(x, y)), Part(x, y, 3))
         /\ H2(x, y) \in Byte /\ H2(x, y) = Xor(XTIME(H3(x, y)), Part(x, y, 2))
         /\ H1(x, y) \in Byte /\ H1(x, y) = Xor(XTIME(H2(x, y)), Part(x, y, 1))
         /\ Times(x, y) \in Byte /\ Times(x, y) = Xor(XTIME(H1(x, y)), Part(x, y, 0))
<1>1. H7(x, y) \in Byte /\ H7(x, y) = Xor(XTIME(0), Part(x, y, 7)) /\ Part(x, y, 7) \in Byte
  BY ConstantBits, ProductStep DEF H7
<1>2. XTIME(0) = 0
  BY InvOfOne, InvBytes, ConstantBits, XorAlgebra, XTimeBits, ByteIsBits, EightBits
<1>3. H7(x, y) = Part(x, y, 7)
  BY <1>1, <1>2, XorAlgebra
<1>4. H6(x, y) \in Byte /\ H6(x, y) = Xor(XTIME(H7(x, y)), Part(x, y, 6))
  BY <1>1, ProductStep DEF H6
<1>5. H5(x, y) \in Byte /\ H5(x, y) = Xor(XTIME(H6(x, y)), Part(x, y, 5))
  BY <1>4, ProductStep DEF H5
<1>6. H4(x, y) \in Byte /\ H4(x, y) = Xor(XTIME(H5(x, y)), Part(x, y, 4))
  BY <1>5, ProductStep DEF H4
<1>7. H3(x, y) \in Byte /\ H3(x, y) = Xor(XTIME(H4(x, y)), Part(x, y, 3))
  BY <1>6, ProductStep DEF H3
<1>8. H2(x, y) \in Byte /\ H2(x, y) = Xor(XTIME(H3(x, y)), Part(x, y, 2))
  BY <1>7, ProductStep DEF H2
<1>9. H1(x, y) \in Byte /\ H1(x, y) = Xor(XTIME(H2(x, y)), Part(x, y, 1))
  BY <1>8, ProductStep DEF H1
<1>10. Times(x, y) = Product(x, y, 0, H1(x, y))
  BY DEF Times, H1, H2, H3, H4, H5, H6, H7
<1>11. Times(x, y) \in Byte /\ Times(x, y) = Xor(XTIME(H1(x, y)), Part(x, y, 0))
  BY <1>9, <1>10, ProductStep
<1> QED BY <1>1, <1>3, <1>4, <1>5, <1>6, <1>7, <1>8, <1>9, <1>11

(* Parts are linear.                                                        *)
LEMMA PartSum ==
  ASSUME NEW x \in Byte, NEW y \in Byte, NEW z \in Byte, NEW k \in 0 .. 7
  PROVE  Part(x, Xor(y, z), k) = Xor(Part(x, y, k), Part(x, z, k))
BY XorBits, XorAlgebra, ConstantBits DEF Part

(* A sum of products, from one bit to the next.                             *)
LEMMA SumStep ==
  ASSUME NEW x \in Byte, NEW y \in Byte, NEW z \in Byte, NEW k \in 0 .. 7,
         NEW p \in Byte, NEW q \in Byte
  PROVE  Xor(XTIME(Xor(p, q)), Part(x, Xor(y, z), k))
           = Xor(Xor(XTIME(p), Part(x, y, k)), Xor(XTIME(q), Part(x, z, k)))
<1>1. Part(x, Xor(y, z), k) = Xor(Part(x, y, k), Part(x, z, k))
  BY PartSum
<1>2. XTIME(p) \in Byte /\ XTIME(q) \in Byte /\ Part(x, y, k) \in Byte /\ Part(x, z, k) \in Byte
  BY XTimeBits, ConstantBits DEF Part
<1>3. XTIME(Xor(p, q)) = Xor(XTIME(p), XTIME(q))
  BY XTimeSum
<1> QED BY <1>1, <1>2, <1>3, SumOfSums

(* So is the product, in its second factor.                                 *)
LEMMA TimesSum ==
  ASSUME NEW x \in Byte, NEW y \in Byte, NEW z \in Byte
  PROVE  Times(x, Xor(y, z)) = Xor(Times(x, y), Times(x, z))
<1> DEFINE s == Xor(y, z)
<1>0. s \in Byte
  BY XorAlgebra
<1> HIDE DEF s
<1>1. /\ 0 \in 0 .. 7 /\ 1 \in 0 .. 7 /\ 2 \in 0 .. 7 /\ 3 \in 0 .. 7
      /\ 4 \in 0 .. 7 /\ 5 \in 0 .. 7 /\ 6 \in 0 .. 7 /\ 7 \in 0 .. 7
  OBVIOUS
<1>2. ASSUME NEW k \in 0 .. 7, NEW p \in Byte, NEW q \in Byte
      PROVE  Xor(XTIME(Xor(p, q)), Part(x, s, k))
               = Xor(Xor(XTIME(p), Part(x, y, k)), Xor(XTIME(q), Part(x, z, k)))
  BY SumStep DEF s
<1>3. H7(x, s) = Xor(H7(x, y), H7(x, z))
  <2>1. Part(x, s, 7) = Xor(Part(x, y, 7), Part(x, z, 7))
    BY <1>1, PartSum DEF s
  <2> QED BY <1>0, <2>1, ProductSteps
<1>4. H6(x, s) = Xor(H6(x, y), H6(x, z))
  BY <1>0, <1>1, <1>2, <1>3, ProductSteps
<1>5. H5(x, s) = Xor(H5(x, y), H5(x, z))
  BY <1>0, <1>1, <1>2, <1>4, ProductSteps
<1>6. H4(x, s) = Xor(H4(x, y), H4(x, z))
  BY <1>0, <1>1, <1>2, <1>5, ProductSteps
<1>7. H3(x, s) = Xor(H3(x, y), H3(x, z))
  BY <1>0, <1>1, <1>2, <1>6, ProductSteps
<1>8. H2(x, s) = Xor(H2(x, y), H2(x, z))
  BY <1>0, <1>1, <1>2, <1>7, ProductSteps
<1>9. H1(x, s) = Xor(H1(x, y), H1(x, z))
  BY <1>0, <1>1, <1>2, <1>8, ProductSteps
<1>10. Times(x, s) = Xor(Times(x, y), Times(x, z))
  BY <1>0, <1>1, <1>2, <1>9, ProductSteps
<1> QED BY <1>10 DEF s

(* A few products at the ends of the range.                                 *)
LEMMA NoDouble ==
  /\ 0 \in Byte /\ 1 \in Byte /\ 27 \in Byte /\ 128 \in Byte
  /\ XTIME(0) = 0 /\ XTIME(128) = 27
  /\ \A k \in 0 .. 7 : IsSet(1, k) <=> k = 0
  /\ \A k \in 0 .. 7 : IsSet(128, k) <=> k = 7
<1>1. 0 \in Byte /\ 1 \in Byte /\ 27 \in Byte /\ 128 \in Byte
  BY BytesAre
<1>2. /\ IsSet(1, 0) /\ ~IsSet(1, 1) /\ ~IsSet(1, 2) /\ ~IsSet(1, 3)
      /\ ~IsSet(1, 4) /\ ~IsSet(1, 5) /\ ~IsSet(1, 6) /\ ~IsSet(1, 7)
  BY EachBit
<1>3. /\ ~IsSet(128, 0) /\ ~IsSet(128, 1) /\ ~IsSet(128, 2) /\ ~IsSet(128, 3)
      /\ ~IsSet(128, 4) /\ ~IsSet(128, 5) /\ ~IsSet(128, 6) /\ IsSet(128, 7)
  BY EachBit
<1>4. /\ Xor(0, 27) = 27 /\ Xor(0, 0) = 0
  BY <1>1, XorAlgebra
<1>5. XTIME(0) = 0 /\ XTIME(128) = 27
  BY <1>4 DEF XTIME
<1>6. /\ \A k \in 0 .. 7 : IsSet(1, k) <=> k = 0
      /\ \A k \in 0 .. 7 : IsSet(128, k) <=> k = 7
  BY <1>2, <1>3, EightBits
<1> QED BY <1>1, <1>5, <1>6

(* Multiplying by nothing, by one, by 128 and by 27.                        *)
LEMMA TimesSingle ==
  ASSUME NEW x \in Byte
  PROVE  /\ Times(x, 0) = 0 /\ Times(x, 1) = x
         /\ Times(x, 128) = XTIME(XTIME(XTIME(XTIME(XTIME(XTIME(XTIME(x)))))))
         /\ Times(x, 27) = Xor(XTIME(Xor(XTIME(XTIME(Xor(XTIME(x), x))), x)), x)
<1>1. /\ 0 \in 0 .. 7 /\ 1 \in 0 .. 7 /\ 2 \in 0 .. 7 /\ 3 \in 0 .. 7
      /\ 4 \in 0 .. 7 /\ 5 \in 0 .. 7 /\ 6 \in 0 .. 7 /\ 7 \in 0 .. 7
  OBVIOUS
<1>2. Xor(0, 0) = 0 /\ Xor(0, x) = x /\ \A z \in Byte : Xor(z, 0) = z /\ XTIME(z) \in Byte
  BY XorAlgebra, ConstantBits, XTimeBits
<1>3. Times(x, 0) = 0
  <2>1. /\ Part(x, 0, 7) = 0 /\ Part(x, 0, 6) = 0 /\ Part(x, 0, 5) = 0 /\ Part(x, 0, 4) = 0
        /\ Part(x, 0, 3) = 0 /\ Part(x, 0, 2) = 0 /\ Part(x, 0, 1) = 0 /\ Part(x, 0, 0) = 0
    BY <1>1, ConstantBits DEF Part
  <2>2. H7(x, 0) = 0 /\ H6(x, 0) = 0 /\ H5(x, 0) = 0 /\ H4(x, 0) = 0
    BY <1>2, <2>1, NoDouble, ProductSteps
  <2>3. H3(x, 0) = 0 /\ H2(x, 0) = 0 /\ H1(x, 0) = 0
    BY <1>2, <2>1, <2>2, NoDouble, ProductSteps
  <2> QED BY <1>2, <2>1, <2>3, NoDouble, ProductSteps
<1>4. Times(x, 1) = x
  <2>1. /\ Part(x, 1, 7) = 0 /\ Part(x, 1, 6) = 0 /\ Part(x, 1, 5) = 0 /\ Part(x, 1, 4) = 0
        /\ Part(x, 1, 3) = 0 /\ Part(x, 1, 2) = 0 /\ Part(x, 1, 1) = 0 /\ Part(x, 1, 0) = x
    BY <1>1, NoDouble DEF Part
  <2>2. H7(x, 1) = 0 /\ H6(x, 1) = 0 /\ H5(x, 1) = 0 /\ H4(x, 1) = 0
    BY <1>2, <2>1, NoDouble, ProductSteps
  <2>3. H3(x, 1) = 0 /\ H2(x, 1) = 0 /\ H1(x, 1) = 0
    BY <1>2, <2>1, <2>2, NoDouble, ProductSteps
  <2> QED BY <1>2, <2>1, <2>3, NoDouble, ProductSteps
<1>5. Times(x, 128) = XTIME(XTIME(XTIME(XTIME(XTIME(XTIME(XTIME(x)))))))
  <2>1. /\ Part(x, 128, 7) = x /\ Part(x, 128, 6) = 0 /\ Part(x, 128, 5) = 0 /\ Part(x, 128, 4) = 0
        /\ Part(x, 128, 3) = 0 /\ Part(x, 128, 2) = 0 /\ Part(x, 128, 1) = 0 /\ Part(x, 128, 0) = 0
    BY <1>1, NoDouble DEF Part
  <2>2. H7(x, 128) = x /\ H6(x, 128) = XTIME(H7(x, 128)) /\ H5(x, 128) = XTIME(H6(x, 128))
    BY <1>2, <2>1, NoDouble, ProductSteps
  <2>3. H4(x, 128) = XTIME(H5(x, 128)) /\ H3(x, 128) = XTIME(H4(x, 128))
    BY <1>2, <2>1, NoDouble, ProductSteps
  <2>4. H2(x, 128) = XTIME(H3(x, 128)) /\ H1(x, 128) = XTIME(H2(x, 128)) /\ Times(x, 128) = XTIME(H1(x, 128))
    BY <1>2, <2>1, NoDouble, ProductSteps
  <2> QED BY <2>2, <2>3, <2>4
<1>6. Times(x, 27) = Xor(XTIME(Xor(XTIME(XTIME(Xor(XTIME(x), x))), x)), x)
  <2>1. /\ Part(x, 27, 7) = 0 /\ Part(x, 27, 6) = 0 /\ Part(x, 27, 5) = 0 /\ Part(x, 27, 4) = x
        /\ Part(x, 27, 3) = x /\ Part(x, 27, 2) = 0 /\ Part(x, 27, 1) = x /\ Part(x, 27, 0) = x
    BY <1>1, ConstantBits DEF Part
  <2>2. H7(x, 27) = 0 /\ H6(x, 27) = 0 /\ H5(x, 27) = 0
    BY <1>2, <2>1, NoDouble, ProductSteps
  <2>3. H4(x, 27) = x /\ H3(x, 27) = Xor(XTIME(x), x)
    BY <1>2, <2>1, <2>2, NoDouble, ProductSteps
  <2>4. H2(x, 27) = XTIME(H3(x, 27)) /\ H1(x, 27) = Xor(XTIME(H2(x, 27)), x)
    BY <1>2, <2>1, NoDouble, ProductSteps
  <2> QED BY <2>1, <2>3, <2>4, NoDouble, ProductSteps
<1> QED BY <1>3, <1>4, <1>5, <1>6

(* The polynomial of the field: x to the 8 is x to the 4, the 3, the 1 and  *)
(* the 0.                                                                   *)
LEMMA FieldPolynomial ==
  ASSUME NEW x \in Byte
  PROVE  Times(x, 27) = XTIME(Times(x, 128))
<1> DEFINE x1 == XTIME(x)
           x2 == XTIME(x1)
           x3 == XTIME(x2)
           x4 == XTIME(x3)
           x5 == XTIME(x4)
           x6 == XTIME(x5)
           x7 == XTIME(x6)
           x8 == XTIME(x7)
<1>1. /\ x1 \in Byte /\ x2 \in Byte /\ x3 \in Byte /\ x4 \in Byte
      /\ x5 \in Byte /\ x6 \in Byte /\ x7 \in Byte /\ x8 \in Byte
  BY XTimeBits
<1>2. Times(x, 128) = x7
  BY TimesSingle
<1>3. Times(x, 27) = Xor(Xor(x4, x3), Xor(x1, x))
  <2>1. XTIME(Xor(x1, x)) = Xor(x2, x1)
    BY <1>1, XTimeSum
  <2>2. XTIME(Xor(x2, x1)) = Xor(x3, x2) /\ Xor(x3, x2) \in Byte
    BY <1>1, XTimeSum, XorAlgebra
  <2>3. XTIME(Xor(Xor(x3, x2), x)) = Xor(XTIME(Xor(x3, x2)), x1)
    BY <2>2, XTimeSum
  <2>4. XTIME(Xor(x3, x2)) = Xor(x4, x3) /\ Xor(x4, x3) \in Byte
    BY <1>1, XTimeSum, XorAlgebra
  <2>5. Times(x, 27) = Xor(Xor(Xor(x4, x3), x1), x)
    BY <2>1, <2>2, <2>3, <2>4, TimesSingle
  <2> QED BY <1>1, <2>4, <2>5, XorAlgebra
<1>6. x1 = XTIME(x) /\ x2 = XTIME(x1) /\ x3 = XTIME(x2) /\ x4 = XTIME(x3)
  OBVIOUS
<1>7. x5 = XTIME(x4) /\ x6 = XTIME(x5) /\ x7 = XTIME(x6) /\ x8 = XTIME(x7)
  OBVIOUS
<1>8. x8 = XTIME(Times(x, 128))
  BY <1>2
<1> HIDE DEF x1, x2, x3, x4, x5, x6, x7, x8
<1>11. Xor(x4, x3) \in Byte /\ Xor(x1, x) \in Byte
  BY <1>1, XorAlgebra
<1>4. Xor(Xor(x4, x3), Xor(x1, x)) \in Byte
  BY <1>11, XorAlgebra
<1>5. \A k \in 0 .. 7 : IsSet(Xor(Xor(x4, x3), Xor(x1, x)), k)
        <=> ~(~(IsSet(x4, k) <=> IsSet(x3, k)) <=> ~(IsSet(x1, k) <=> IsSet(x, k)))
  <2> TAKE k \in 0 .. 7
  <2>1. IsSet(Xor(Xor(x4, x3), Xor(x1, x)), k) <=> ~(IsSet(Xor(x4, x3), k) <=> IsSet(Xor(x1, x), k))
    BY <1>11, XorBits
  <2>2. /\ IsSet(Xor(x4, x3), k) <=> ~(IsSet(x4, k) <=> IsSet(x3, k))
        /\ IsSet(Xor(x1, x), k) <=> ~(IsSet(x1, k) <=> IsSet(x, k))
    BY <1>1, XorBits
  <2> QED BY <2>1, <2>2
<1>9. \A k \in 0 .. 7 : IsSet(x8, k)
        <=> ~(~(IsSet(x4, k) <=> IsSet(x3, k)) <=> ~(IsSet(x1, k) <=> IsSet(x, k)))
  <2> DEFINE Same(k) == IsSet(x8, k)
        <=> ~(~(IsSet(x4, k) <=> IsSet(x3, k)) <=> ~(IsSet(x1, k) <=> IsSet(x, k)))
  <2>1. Same(0) /\ Same(1)
    BY <1>1, <1>6, <1>7, XTimeBits
  <2>2. Same(2) /\ Same(3)
    BY <1>1, <1>6, <1>7, XTimeBits
  <2>3. Same(4) /\ Same(5)
    BY <1>1, <1>6, <1>7, XTimeBits
  <2>4. Same(6) /\ Same(7)
    BY <1>1, <1>6, <1>7, XTimeBits
  <2> HIDE DEF Same
  <2>5. \A k \in 0 .. 7 : Same(k)
    BY <2>1, <2>2, <2>3, <2>4, EightBits
  <2> QED BY <2>5 DEF Same
<1>10. x8 = Xor(Xor(x4, x3), Xor(x1, x))
  BY <1>1, <1>4, <1>5, <1>9, ByteIsBits
<1> QED BY <1>3, <1>8, <1>10

(* Doubling a factor doubles the product: at once where nothing falls out,  *)
(* and by the polynomial of the field where the highest bit does.           *)
LEMMA TimesShifted ==
  ASSUME NEW x \in Byte, NEW y \in Byte, ~IsSet(y, 7)
  PROVE  Times(x, XTIME(y)) = XTIME(Times(x, y))
<1> DEFINE z == XTIME(y)
<1>1. /\ 0 \in 0 .. 7 /\ 1 \in 0 .. 7 /\ 2 \in 0 .. 7 /\ 3 \in 0 .. 7
      /\ 4 \in 0 .. 7 /\ 5 \in 0 .. 7 /\ 6 \in 0 .. 7 /\ 7 \in 0 .. 7
  OBVIOUS
<1>2. z \in Byte /\ \A q \in Byte : Xor(0, q) = q /\ Xor(q, 0) = q /\ XTIME(q) \in Byte
  BY XorAlgebra, ConstantBits, XTimeBits
<1>3. /\ Part(x, z, 0) = 0 /\ Part(x, z, 1) = Part(x, y, 0) /\ Part(x, z, 2) = Part(x, y, 1)
      /\ Part(x, z, 3) = Part(x, y, 2) /\ Part(x, z, 4) = Part(x, y, 3)
  BY XTimeBits DEF Part
<1>4. /\ Part(x, z, 5) = Part(x, y, 4) /\ Part(x, z, 6) = Part(x, y, 5) /\ Part(x, z, 7) = Part(x, y, 6)
      /\ Part(x, y, 7) = 0
  BY XTimeBits DEF Part
<1> HIDE DEF z
<1>5. H7(x, z) = H6(x, y)
  <2>1. H6(x, y) = Xor(0, Part(x, y, 6)) /\ Part(x, y, 6) \in Byte
    BY <1>4, NoDouble, ProductSteps DEF Part
  <2> QED BY <1>2, <1>4, <2>1, ProductSteps
<1>6. H6(x, z) = H5(x, y)
  BY <1>2, <1>4, <1>5, ProductSteps
<1>7. H5(x, z) = H4(x, y)
  BY <1>2, <1>4, <1>6, ProductSteps
<1>8. H4(x, z) = H3(x, y)
  BY <1>2, <1>3, <1>7, ProductSteps
<1>9. H3(x, z) = H2(x, y)
  BY <1>2, <1>3, <1>8, ProductSteps
<1>10. H2(x, z) = H1(x, y)
  BY <1>2, <1>3, <1>9, ProductSteps
<1>11. H1(x, z) = Times(x, y)
  BY <1>2, <1>3, <1>10, ProductSteps
<1>12. Times(x, z) = XTIME(Times(x, y))
  BY <1>2, <1>3, <1>11, ProductSteps
<1> QED BY <1>12 DEF z

(* Both cases.                                                              *)
LEMMA TimesDoubled ==
  ASSUME NEW x \in Byte, NEW y \in Byte
  PROVE  Times(x, XTIME(y)) = XTIME(Times(x, y))
<1>1. CASE ~IsSet(y, 7)
  BY <1>1, TimesShifted
<1>2. CASE IsSet(y, 7)
  <2> DEFINE u == Xor(y, 128)
  <2>1. u \in Byte /\ ~IsSet(u, 7) /\ Xor(u, 128) = y
    <3>1. 7 \in 0 .. 7
      OBVIOUS
    <3>2. Xor(Xor(y, 128), 128) = Xor(y, Xor(128, 128)) /\ Xor(128, 128) = 0 /\ Xor(y, 0) = y
      BY NoDouble, XorAlgebra
    <3> QED BY <1>2, <3>1, <3>2, NoDouble, XorAlgebra, XorBits
  <2> HIDE DEF u
  <2>2. Times(x, u) \in Byte /\ Times(x, 128) \in Byte /\ XTIME(u) \in Byte
    BY <2>1, NoDouble, ProductSteps, XTimeBits
  <2>3. XTIME(y) = Xor(XTIME(u), 27)
    BY <2>1, NoDouble, XTimeSum
  <2>4. Times(x, XTIME(y)) = Xor(Times(x, XTIME(u)), Times(x, 27))
    BY <2>2, <2>3, NoDouble, TimesSum
  <2>5. Times(x, XTIME(u)) = XTIME(Times(x, u))
    BY <2>1, TimesShifted
  <2>6. Times(x, y) = Xor(Times(x, u), Times(x, 128))
    BY <2>1, NoDouble, TimesSum
  <2>7. XTIME(Times(x, y)) = Xor(XTIME(Times(x, u)), XTIME(Times(x, 128)))
    BY <2>2, <2>6, XTimeSum
  <2> QED BY <2>4, <2>5, <2>7, FieldPolynomial
<1> QED BY <1>1, <1>2

(* The products of the standard are those of the tables of logarithms.      *)
LEMMA TimesIs ==
  ASSUME NEW a \in Exponent
  PROVE  \A y \in Byte : Times(a, y) = MUL(Pw, Lg, a, y)
<1>1. a \in Byte
  BY ExponentsAre
<1> DEFINE F == [y \in Byte |-> Times(a, y)]
<1>2. F[0] = 0 /\ F[1] = a
  BY <1>1, NoDouble, TimesSingle
<1>3. ASSUME NEW y \in Byte  PROVE F[Times3(y)] = Times3(F[y])
  <2>1. Times3(y) \in Byte /\ XTIME(y) \in Byte
    BY TripledBits, XTimeBits
  <2>2. Times(a, Times3(y)) = Xor(Times(a, y), Times(a, XTIME(y)))
    BY <1>1, <2>1, TimesSum DEF Times3
  <2>3. Times(a, Times3(y)) = Times3(Times(a, y))
    BY <1>1, <2>2, TimesDoubled DEF Times3
  <2> QED BY <2>1, <2>3
<1>4. \A y \in Byte : F[y] = Times(a, y)
  OBVIOUS
<1> HIDE DEF F
<1>5. \A y \in Byte : MUL(Pw, Lg, a, y) = F[y]
  BY <1>2, <1>3, ProductIs
<1> QED BY <1>4, <1>5

(* Powers of the generator are multiplied by adding their exponents.        *)
LEMMA TimesPowers ==
  ASSUME NEW e \in Nat, NEW f \in Nat
  PROVE  Times(Pw[e % 255], Pw[f % 255]) = Pw[(e + f) % 255]
<1> DEFINE p == IF e % 255 = 0 THEN 255 ELSE e % 255
           q == IF f % 255 = 0 THEN 255 ELSE f % 255
<1>1. p \in Exponent /\ q \in Exponent
  BY ExponentsAre
<1>2. Pw[0] = 1 /\ Pw[255] = 1
  BY Logarithms, OrderOfThree DEF Powers3
<1>3. (p + q) % 255 = (e + f) % 255
  OBVIOUS
<1>4. Pw[e % 255] = Pw[p] /\ Pw[f % 255] = Pw[q]
  BY <1>2
<1> HIDE DEF p, q
<1>5. /\ Pw[p] \in Exponent /\ Lg[Pw[p]] = p
      /\ Pw[q] \in Exponent /\ Lg[Pw[q]] = q
  BY <1>1, Logarithms
<1>6. Pw[q] \in Byte /\ Pw[q] # 0
  BY <1>5 DEF Exponent
<1>7. Times(Pw[p], Pw[q]) = MUL(Pw, Lg, Pw[p], Pw[q])
  BY <1>5, <1>6, TimesIs
<1>8. MUL(Pw, Lg, Pw[p], Pw[q]) = Pw[(p + q) % 255]
  BY <1>5, <1>6 DEF MUL
<1> QED BY <1>3, <1>4, <1>7, <1>8

(* The next power of the standard is the next of the table.                 *)
LEMMA NextPowerIs ==
  ASSUME NEW j \in Exponent, NEW e \in Nat
  PROVE  NextPower(Pw[j], Pw[e % 255]) = Pw[(2 * (e + j)) % 255]
<1>1. j \in Nat /\ e + j \in Nat
  BY ExponentsAre
<1>2. Pw[j] = Pw[j % 255]
  <2>1. Pw[0] = 1 /\ Pw[255] = 1
    BY Logarithms, OrderOfThree DEF Powers3
  <2>2. j = 255 \/ j % 255 = j
    BY ExponentsAre
  <2>3. 255 % 255 = 0
    OBVIOUS
  <2> QED BY <2>1, <2>2, <2>3
<1>3. Times(Pw[e % 255], Pw[j]) = Pw[(e + j) % 255]
  BY <1>1, <1>2, TimesPowers
<1>4. Times(Pw[(e + j) % 255], Pw[(e + j) % 255]) = Pw[((e + j) + (e + j)) % 255]
  BY <1>1, TimesPowers
<1>5. (e + j) + (e + j) = 2 * (e + j)
  BY <1>1
<1>6. NextPower(Pw[j], Pw[e % 255]) = Square(Times(Pw[e % 255], Pw[j]))
  BY DEF NextPower, With
<1> QED BY <1>3, <1>4, <1>5, <1>6 DEF Square

(* The inverse of the field is that of the tables.                          *)
LEMMA FieldInverseIs ==
  ASSUME NEW x \in Byte
  PROVE  FieldInverse(x) = Inverse3(x)
<1>1. CASE x = 0
  <2>1. \A p \in Byte : NextPower(0, p) = 0
    <3>1. ASSUME NEW p \in Byte  PROVE NextPower(0, p) = Square(Times(p, 0))
      BY DEF NextPower, With
    <3>2. Square(0) = 0
      BY NoDouble, TimesSingle DEF Square
    <3> QED BY <3>1, <3>2, TimesSingle
  <2> QED BY <1>1, <2>1, NoDouble DEF FieldInverse, Inverse3
<1>2. CASE x # 0
  <2>1. x \in Exponent
    BY <1>2 DEF Exponent
  <2> DEFINE j == Lg[x]
  <2>2. j \in Exponent /\ Pw[j] = x /\ j \in Nat /\ 1 <= j /\ j <= 255
    BY <2>1, Logarithms, ExponentsAre
  <2> HIDE DEF j
  <2>3. /\ 0 % 255 = 0 /\ 2 * (0 + j) = 2 * j /\ 2 * (2 * j + j) = 6 * j /\ 2 * (6 * j + j) = 14 * j
        /\ 2 * (14 * j + j) = 30 * j /\ 2 * (30 * j + j) = 62 * j /\ 2 * (62 * j + j) = 126 * j
        /\ 2 * (126 * j + j) = 254 * j
    BY <2>2
  <2>4. /\ 0 \in Nat /\ 2 * j \in Nat /\ 6 * j \in Nat /\ 14 * j \in Nat
        /\ 30 * j \in Nat /\ 62 * j \in Nat /\ 126 * j \in Nat
    BY <2>2
  <2>5. Pw[0] = 1
    BY Logarithms DEF Powers3
  <2>6. \A e \in Nat : NextPower(x, Pw[e % 255]) = Pw[(2 * (e + j)) % 255]
    BY <2>2, NextPowerIs
  <2>7. NextPower(x, 1) = Pw[(2 * j) % 255]
    BY <2>3, <2>4, <2>5, <2>6
  <2>8. NextPower(x, Pw[(2 * j) % 255]) = Pw[(6 * j) % 255] /\ NextPower(x, Pw[(6 * j) % 255]) = Pw[(14 * j) % 255]
    BY <2>3, <2>4, <2>6
  <2>9. NextPower(x, Pw[(14 * j) % 255]) = Pw[(30 * j) % 255] /\ NextPower(x, Pw[(30 * j) % 255]) = Pw[(62 * j) % 255]
    BY <2>3, <2>4, <2>6
  <2>10. NextPower(x, Pw[(62 * j) % 255]) = Pw[(126 * j) % 255] /\ NextPower(x, Pw[(126 * j) % 255]) = Pw[(254 * j) % 255]
    BY <2>3, <2>4, <2>6
  <2>11. FieldInverse(x) = Pw[(254 * j) % 255]
    BY <2>7, <2>8, <2>9, <2>10 DEF FieldInverse
  <2>12. (254 * j) % 255 = 255 - j
    BY <2>2
  <2> QED BY <1>2, <2>11, <2>12 DEF Inverse3, j
<1> QED BY <1>1, <1>2

(* A byte put together from its bits.                                       *)
LEMMA FromBits ==
  ASSUME NEW a \in 0 .. 1, NEW b \in 0 .. 1, NEW c \in 0 .. 1, NEW d \in 0 .. 1,
         NEW e \in 0 .. 1, NEW f \in 0 .. 1, NEW g \in 0 .. 1, NEW h \in 0 .. 1,
         NEW y, y = a + 2 * b + 4 * c + 8 * d + 16 * e + 32 * f + 64 * g + 128 * h
  PROVE  /\ y \in Byte
         /\ IsSet(y, 0) <=> a = 1
         /\ IsSet(y, 1) <=> b = 1
         /\ IsSet(y, 2) <=> c = 1
         /\ IsSet(y, 3) <=> d = 1
         /\ IsSet(y, 4) <=> e = 1
         /\ IsSet(y, 5) <=> f = 1
         /\ IsSet(y, 6) <=> g = 1
         /\ IsSet(y, 7) <=> h = 1
<1> DEFINE y1 == b + 2 * c + 4 * d + 8 * e + 16 * f + 32 * g + 64 * h
           y2 == c + 2 * d + 4 * e + 8 * f + 16 * g + 32 * h
           y3 == d + 2 * e + 4 * f + 8 * g + 16 * h
           y4 == e + 2 * f + 4 * g + 8 * h
           y5 == f + 2 * g + 4 * h
           y6 == g + 2 * h
<1>1. y \in Byte /\ y \in Int
  BY BytesAre
<1>2. y \div 2 = y1 /\ y % 2 = a
  OBVIOUS
<1>3. y1 \div 2 = y2 /\ y1 % 2 = b
  OBVIOUS
<1>4. y2 \div 2 = y3 /\ y2 % 2 = c
  OBVIOUS
<1>5. y3 \div 2 = y4 /\ y3 % 2 = d
  OBVIOUS
<1>6. y4 \div 2 = y5 /\ y4 % 2 = e
  OBVIOUS
<1>7. y5 \div 2 = y6 /\ y5 % 2 = f
  OBVIOUS
<1>8. y6 \div 2 = h /\ y6 % 2 = g /\ h % 2 = h
  OBVIOUS
<1> HIDE DEF y1, y2, y3, y4, y5, y6
<1>9. /\ y \div 4 = (y \div 2) \div 2 /\ y \div 8 = (y \div 4) \div 2 /\ y \div 16 = (y \div 8) \div 2
      /\ y \div 32 = (y \div 16) \div 2 /\ y \div 64 = (y \div 32) \div 2 /\ y \div 128 = (y \div 64) \div 2
  BY <1>1
<1>10. /\ y \div 2 = y1 /\ y \div 4 = y2 /\ y \div 8 = y3 /\ y \div 16 = y4
       /\ y \div 32 = y5 /\ y \div 64 = y6 /\ y \div 128 = h
  BY <1>2, <1>3, <1>4, <1>5, <1>6, <1>7, <1>8, <1>9
<1>11. /\ IsSet(y, 0) <=> y % 2 = 1
       /\ IsSet(y, 1) <=> y1 % 2 = 1
       /\ IsSet(y, 2) <=> y2 % 2 = 1
       /\ IsSet(y, 3) <=> y3 % 2 = 1
       /\ IsSet(y, 4) <=> y4 % 2 = 1
       /\ IsSet(y, 5) <=> y5 % 2 = 1
       /\ IsSet(y, 6) <=> y6 % 2 = 1
       /\ IsSet(y, 7) <=> h % 2 = 1
  <2>1. /\ IsSet(y, 0) <=> y % 2 = 1
        /\ IsSet(y, 1) <=> (y \div 2) % 2 = 1
        /\ IsSet(y, 2) <=> (y \div 4) % 2 = 1
        /\ IsSet(y, 3) <=> (y \div 8) % 2 = 1
        /\ IsSet(y, 4) <=> (y \div 16) % 2 = 1
        /\ IsSet(y, 5) <=> (y \div 32) % 2 = 1
        /\ IsSet(y, 6) <=> (y \div 64) % 2 = 1
        /\ IsSet(y, 7) <=> (y \div 128) % 2 = 1
    BY <1>1, EachBit
  <2>2. /\ IsSet(y, 0) <=> y % 2 = 1
        /\ IsSet(y, 1) <=> y1 % 2 = 1
        /\ IsSet(y, 2) <=> y2 % 2 = 1
        /\ IsSet(y, 3) <=> y3 % 2 = 1
    BY <1>10, <2>1, ZenonT(30)
  <2>3. /\ IsSet(y, 4) <=> y4 % 2 = 1
        /\ IsSet(y, 5) <=> y5 % 2 = 1
    BY <1>10, <2>1, ZenonT(30)
  <2>4. /\ IsSet(y, 6) <=> y6 % 2 = 1
        /\ IsSet(y, 7) <=> h % 2 = 1
    BY <1>10, <2>1, ZenonT(30)
  <2> QED BY <2>2, <2>3, <2>4
<1> QED BY <1>1, <1>2, <1>3, <1>4, <1>5, <1>6, <1>7, <1>8, <1>11

(* A sum of bits is odd when their exclusive or is set.                     *)
LEMMA AffineBitIs ==
  ASSUME NEW x \in Byte, NEW i \in 0 .. 7
  PROVE  /\ AffineBit(x, i) \in 0 .. 1
         /\ AffineBit(x, i) = 1 <=>
              ~(~(~(~(~(IsSet(x, i) <=> IsSet(x, (i + 4) % 8)) <=> IsSet(x, (i + 5) % 8))
                  <=> IsSet(x, (i + 6) % 8)) <=> IsSet(x, (i + 7) % 8)) <=> IsSet(99, i))
<1>1. ASSUME NEW a \in 0 .. 1, NEW b \in 0 .. 1, NEW c \in 0 .. 1, NEW d \in 0 .. 1, NEW e \in 0 .. 1, NEW f \in 0 .. 1
      PROVE  /\ (a + b + c + d + e + f) % 2 \in 0 .. 1
             /\ (a + b + c + d + e + f) % 2 = 1 <=>
                  ~(~(~(~(~(a = 1 <=> b = 1) <=> c = 1) <=> d = 1) <=> e = 1) <=> f = 1)
  <2>1. ASSUME NEW s \in Int, NEW r \in 0 .. 1
        PROVE  (s + r) % 2 = 1 <=> ~(s % 2 = 1 <=> r = 1)
    <3>1. CASE r = 0
      BY <3>1
    <3>2. CASE r = 1
      <4>1. (s + 1) % 2 = 1 <=> s % 2 = 0
        OBVIOUS
      <4>2. s % 2 = 0 \/ s % 2 = 1
        OBVIOUS
      <4> QED BY <3>2, <4>1, <4>2
    <3> QED BY <3>1, <3>2
  <2>2. /\ a \in Int /\ a + b \in Int /\ a + b + c \in Int /\ a + b + c + d \in Int
        /\ a + b + c + d + e \in Int /\ a + b + c + d + e + f \in Int
    OBVIOUS
  <2>3. a % 2 = 1 <=> a = 1
    OBVIOUS
  <2>4. (a + b) % 2 = 1 <=> ~(a = 1 <=> b = 1)
    BY <2>1, <2>2, <2>3
  <2>5. (a + b + c) % 2 = 1 <=> ~((a + b) % 2 = 1 <=> c = 1)
    BY <2>1, <2>2
  <2>6. (a + b + c + d) % 2 = 1 <=> ~((a + b + c) % 2 = 1 <=> d = 1)
    BY <2>1, <2>2
  <2>7. (a + b + c + d + e) % 2 = 1 <=> ~((a + b + c + d) % 2 = 1 <=> e = 1)
    BY <2>1, <2>2
  <2>8. (a + b + c + d + e + f) % 2 = 1 <=> ~((a + b + c + d + e) % 2 = 1 <=> f = 1)
    BY <2>1, <2>2
  <2>9. (a + b + c + d + e + f) % 2 \in 0 .. 1
    BY <2>2
  <2> QED BY <2>4, <2>5, <2>6, <2>7, <2>8, <2>9
<1>2. \A z, k \in Int : 0 <= z /\ k \in 0 .. 7 => Bit(z, k) \in 0 .. 1 /\ (IsSet(z, k) <=> Bit(z, k) = 1)
  <2>1. ASSUME NEW z \in Int, NEW k \in 0 .. 7  PROVE z \div 2^k \in Int
    <3>1. /\ z \div 1 \in Int /\ z \div 2 \in Int /\ z \div 4 \in Int /\ z \div 8 \in Int
          /\ z \div 16 \in Int /\ z \div 32 \in Int /\ z \div 64 \in Int /\ z \div 128 \in Int
      OBVIOUS
    <3>2. /\ z \div 2^0 \in Int /\ z \div 2^1 \in Int /\ z \div 2^2 \in Int /\ z \div 2^3 \in Int
          /\ z \div 2^4 \in Int /\ z \div 2^5 \in Int /\ z \div 2^6 \in Int /\ z \div 2^7 \in Int
      BY <3>1, PowersOfTwo, Zenon
    <3>3. k = 0 \/ k = 1 \/ k = 2 \/ k = 3 \/ k = 4 \/ k = 5 \/ k = 6 \/ k = 7
      BY EightBits
    <3> QED BY <3>2, <3>3, Zenon
  <2> QED BY <2>1 DEF Bit, IsSet
<1>3. /\ i \in Int /\ (i + 4) % 8 \in 0 .. 7 /\ (i + 5) % 8 \in 0 .. 7
      /\ (i + 6) % 8 \in 0 .. 7 /\ (i + 7) % 8 \in 0 .. 7
  OBVIOUS
<1>4. x \in Int /\ 0 <= x
  BY BytesAre
<1> DEFINE r4 == (i + 4) % 8
           r5 == (i + 5) % 8
           r6 == (i + 6) % 8
           r7 == (i + 7) % 8
<1>5. r4 \in 0 .. 7 /\ r5 \in 0 .. 7 /\ r6 \in 0 .. 7 /\ r7 \in 0 .. 7
  BY <1>3
<1> HIDE DEF r4, r5, r6, r7
<1>6. /\ Bit(x, i) \in 0 .. 1 /\ Bit(x, r4) \in 0 .. 1 /\ Bit(x, r5) \in 0 .. 1
      /\ Bit(x, r6) \in 0 .. 1 /\ Bit(x, r7) \in 0 .. 1 /\ Bit(99, i) \in 0 .. 1
  BY <1>2, <1>4, <1>5
<1>7. /\ IsSet(x, i) <=> Bit(x, i) = 1
      /\ IsSet(x, r4) <=> Bit(x, r4) = 1
      /\ IsSet(x, r5) <=> Bit(x, r5) = 1
      /\ IsSet(x, r6) <=> Bit(x, r6) = 1
      /\ IsSet(x, r7) <=> Bit(x, r7) = 1
      /\ IsSet(99, i) <=> Bit(99, i) = 1
  BY <1>2, <1>4, <1>5
<1>8. AffineBit(x, i) = (Bit(x, i) + Bit(x, r4) + Bit(x, r5) + Bit(x, r6) + Bit(x, r7) + Bit(99, i)) % 2
  BY DEF AffineBit, r4, r5, r6, r7
<1>9. /\ AffineBit(x, i) \in 0 .. 1
      /\ AffineBit(x, i) = 1 <=>
           ~(~(~(~(~(IsSet(x, i) <=> IsSet(x, r4)) <=> IsSet(x, r5)) <=> IsSet(x, r6)) <=> IsSet(x, r7)) <=> IsSet(99, i))
  BY <1>1, <1>6, <1>7, <1>8
<1> QED BY <1>9 DEF r4, r5, r6, r7

(* The affine byte of the standard is the one that the code computes.       *)
LEMMA AffineByteIs ==
  ASSUME NEW x \in Byte
  PROVE  AffineByte(x) = Substituted(x)
<1>1. \A i \in 0 .. 7 : AffineBit(x, i) \in 0 .. 1
  BY AffineBitIs
<1>2. /\ 0 \in 0 .. 7 /\ 1 \in 0 .. 7 /\ 2 \in 0 .. 7 /\ 3 \in 0 .. 7
      /\ 4 \in 0 .. 7 /\ 5 \in 0 .. 7 /\ 6 \in 0 .. 7 /\ 7 \in 0 .. 7
  OBVIOUS
<1>3. /\ AffineByte(x) \in Byte
      /\ \A i \in 0 .. 7 : IsSet(AffineByte(x), i) <=> AffineBit(x, i) = 1
  <2>1. /\ AffineByte(x) \in Byte
        /\ IsSet(AffineByte(x), 0) <=> AffineBit(x, 0) = 1
        /\ IsSet(AffineByte(x), 1) <=> AffineBit(x, 1) = 1
        /\ IsSet(AffineByte(x), 2) <=> AffineBit(x, 2) = 1
        /\ IsSet(AffineByte(x), 3) <=> AffineBit(x, 3) = 1
        /\ IsSet(AffineByte(x), 4) <=> AffineBit(x, 4) = 1
        /\ IsSet(AffineByte(x), 5) <=> AffineBit(x, 5) = 1
        /\ IsSet(AffineByte(x), 6) <=> AffineBit(x, 6) = 1
        /\ IsSet(AffineByte(x), 7) <=> AffineBit(x, 7) = 1
    BY <1>1, <1>2, FromBits DEF AffineByte
  <2> QED BY <2>1, EightBits
<1>4. Affine(x) \in Byte /\ Substituted(x) = Xor(Affine(x), 99) /\ Substituted(x) \in Byte /\ 99 \in Byte
  BY AffineBits, SubstitutedIs, ConstantBits
<1>5. \A i \in 0 .. 7 : IsSet(Substituted(x), i) <=> ~(IsSet(Affine(x), i) <=> IsSet(99, i))
  BY <1>4, XorBits
<1> DEFINE Odd(i) ==
      AffineBit(x, i) = 1 <=> ~(IsSet(Affine(x), i) <=> IsSet(99, i))
<1>6. /\ (0 + 4) % 8 = 4 /\ (0 + 5) % 8 = 5 /\ (0 + 6) % 8 = 6 /\ (0 + 7) % 8 = 7
      /\ (1 + 4) % 8 = 5 /\ (1 + 5) % 8 = 6 /\ (1 + 6) % 8 = 7 /\ (1 + 7) % 8 = 0
      /\ (2 + 4) % 8 = 6 /\ (2 + 5) % 8 = 7 /\ (2 + 6) % 8 = 0 /\ (2 + 7) % 8 = 1
      /\ (3 + 4) % 8 = 7 /\ (3 + 5) % 8 = 0 /\ (3 + 6) % 8 = 1 /\ (3 + 7) % 8 = 2
      /\ (4 + 4) % 8 = 0 /\ (4 + 5) % 8 = 1 /\ (4 + 6) % 8 = 2 /\ (4 + 7) % 8 = 3
      /\ (5 + 4) % 8 = 1 /\ (5 + 5) % 8 = 2 /\ (5 + 6) % 8 = 3 /\ (5 + 7) % 8 = 4
      /\ (6 + 4) % 8 = 2 /\ (6 + 5) % 8 = 3 /\ (6 + 6) % 8 = 4 /\ (6 + 7) % 8 = 5
      /\ (7 + 4) % 8 = 3 /\ (7 + 5) % 8 = 4 /\ (7 + 6) % 8 = 5 /\ (7 + 7) % 8 = 6
  OBVIOUS
<1>7. Odd(0) /\ Odd(1)
  <2>1. Odd(0)
    BY <1>2, <1>6, AffineBitIs, AffineBits
  <2>2. Odd(1)
    BY <1>2, <1>6, AffineBitIs, AffineBits
  <2> QED BY <2>1, <2>2
<1>8. Odd(2) /\ Odd(3)
  <2>1. Odd(2)
    BY <1>2, <1>6, AffineBitIs, AffineBits
  <2>2. Odd(3)
    BY <1>2, <1>6, AffineBitIs, AffineBits
  <2> QED BY <2>1, <2>2
<1>9. Odd(4) /\ Odd(5)
  <2>1. Odd(4)
    BY <1>2, <1>6, AffineBitIs, AffineBits
  <2>2. Odd(5)
    BY <1>2, <1>6, AffineBitIs, AffineBits
  <2> QED BY <2>1, <2>2
<1>10. Odd(6) /\ Odd(7)
  <2>1. Odd(6)
    BY <1>2, <1>6, AffineBitIs, AffineBits
  <2>2. Odd(7)
    BY <1>2, <1>6, AffineBitIs, AffineBits
  <2> QED BY <2>1, <2>2
<1> HIDE DEF Odd
<1>11. \A i \in 0 .. 7 : Odd(i)
  BY <1>7, <1>8, <1>9, <1>10, EightBits
<1>12. \A i \in 0 .. 7 : IsSet(AffineByte(x), i) <=> IsSet(Substituted(x), i)
  BY <1>3, <1>5, <1>11 DEF Odd
<1> QED BY <1>3, <1>4, <1>12, ByteIsBits

(* The substitution of the standard is the table of the code.               *)
LEMMA SubByteIs == SubByte = Sb
<1>1. SubByte = [x \in Byte |-> With(FieldInverse(x), AffineByte)]
  BY TableIs DEF SubByte
<1>2. ASSUME NEW x \in Byte  PROVE With(FieldInverse(x), AffineByte) = Sb[x]
  <2>1. With(FieldInverse(x), AffineByte) = AffineByte(FieldInverse(x))
    BY DEF With
  <2>2. FieldInverse(x) = Inverse3(x) /\ Inverse3(x) \in Byte
    BY FieldInverseIs, InverseDiffers
  <2> QED BY <2>1, <2>2, AffineByteIs, SbIs
<1>3. Sb = [x \in Byte |-> Sb[x]]
  BY SbIs
<1> QED BY <1>1, <1>2, <1>3

-----------------------------------------------------------------------------
(* The same as FIPS 197: rounds and the cipher.                             *)

(* Where the bytes of a state stand: Col and Row of a block's byte.         *)
Col(i) == (i \div 4) + 1
Row(i) == (i % 4) + 1
(* ShiftRows in terms of columns and rows.                                  *)
LEMMA Standing ==
  ASSUME NEW i \in Index
  PROVE  /\ Col(i) \in WordPlaces /\ Row(i) \in WordPlaces
         /\ (i + 4 * (i % 4)) % 16 \in Index
         /\ Col((i + 4 * (i % 4)) % 16) = ((Col(i) + Row(i) - 2) % 4) + 1
         /\ Row((i + 4 * (i % 4)) % 16) = Row(i)
<1>1. /\ (i \div 4) + 1 \in 1 .. 4 /\ (i % 4) + 1 \in 1 .. 4
      /\ (i + 4 * (i % 4)) % 16 \in 0 .. 15
  BY DEF Index
<1>2. (((i + 4 * (i % 4)) % 16) \div 4) + 1 = ((((i \div 4) + 1) + ((i % 4) + 1) - 2) % 4) + 1
  BY DEF Index
<1>3. ((i + 4 * (i % 4)) % 16) % 4 = i % 4
  BY DEF Index
<1> QED BY <1>1, <1>2, <1>3 DEF Col, Row, WordPlaces, Index

(* A byte of a block is one of its columns.                                 *)
LEMMA PutWordsIs ==
  ASSUME NEW x
  PROVE  PutWords(x) = [i \in Index |-> x[Col(i)][Row(i)]]
BY TableIs DEF PutWords, Col, Row

(* ShiftRows after SubBytes: the last round of the code.                    *)
LEMMA ShiftedIs ==
  ASSUME NEW y \in Columns
  PROVE  ShiftRows(SubBytes(Sb, PutWords(y))) = PutWords(LastRound(Tb, "encrypt", y))
<1> DEFINE s == PutWords(y)
           z == LastRound(Tb, "encrypt", y)
           t == SubBytes(Sb, s)
<1>1. s = [i \in Index |-> y[Col(i)][Row(i)]]
  BY PutWordsIs
<1>2. z \in Columns /\ \A j, k \in WordPlaces : z[j][k] = Sb[Source(y, "encrypt", j, k)]
  BY LastRoundIs
<1>3. PutWords(z) = [i \in Index |-> z[Col(i)][Row(i)]]
  BY PutWordsIs
<1>4. t = [i \in Index |-> Sb[s[i]]]
  BY TableIs DEF SubBytes
<1> HIDE DEF s, z, t
<1>5. ASSUME NEW i \in Index  PROVE t[(i + 4 * (i % 4)) % 16] = z[Col(i)][Row(i)]
  <2> DEFINE q == (i + 4 * (i % 4)) % 16
             j == Col(i)
             k == Row(i)
  <2>1. q \in Index /\ j \in WordPlaces /\ k \in WordPlaces /\ Col(q) = ((j + k - 2) % 4) + 1 /\ Row(q) = k
    BY Standing
  <2> HIDE DEF q, j, k
  <2>2. t[q] = Sb[y[((j + k - 2) % 4) + 1][k]]
    BY <1>1, <1>4, <2>1
  <2>3. z[j][k] = Sb[y[((j + k - 2) % 4) + 1][k]]
    BY <1>2, <2>1 DEF Source
  <2> QED BY <2>2, <2>3 DEF q, j, k
<1>6. ShiftRows(t) = [i \in Index |-> t[(i + 4 * (i % 4)) % 16]]
  BY DEF ShiftRows
<1> QED BY <1>3, <1>5, <1>6 DEF s, z, t

(* MixColumns: each column by the tables.                                   *)
LEMMA MixWordIs ==
  ASSUME NEW a \in Word
  PROVE  /\ MixWord(a)[1] = Xor(Xor(Double(a[1]), Xor(Double(a[2]), a[2])), Xor(a[3], a[4]))
         /\ MixWord(a)[2] = Xor(Xor(Double(a[2]), Xor(Double(a[3]), a[3])), Xor(a[4], a[1]))
         /\ MixWord(a)[3] = Xor(Xor(Double(a[3]), Xor(Double(a[4]), a[4])), Xor(a[1], a[2]))
         /\ MixWord(a)[4] = Xor(Xor(Double(a[4]), Xor(Double(a[1]), a[1])), Xor(a[2], a[3]))
<1> DEFINE p == a[1]
           q == a[2]
           r == a[3]
           s == a[4]
<1>1. p \in Byte /\ q \in Byte /\ r \in Byte /\ s \in Byte
  BY WordsAre
<1>2. /\ Double(p) = XTIME(p) /\ Double(q) = XTIME(q) /\ Double(r) = XTIME(r) /\ Double(s) = XTIME(s)
      /\ XTIME(p) \in Byte /\ XTIME(q) \in Byte /\ XTIME(r) \in Byte /\ XTIME(s) \in Byte
  BY <1>1, DoubleIs, XTimeBits
<1>3. MixWord(a) = XorWord(XorWord(Forth(p)[1], Forth(q)[2]), XorWord(Forth(r)[3], Forth(s)[4]))
  BY DEF MixWord
<1> HIDE DEF p, q, r, s
<1>4. /\ Forth(p)[1] \in Word /\ Forth(q)[2] \in Word /\ Forth(r)[3] \in Word /\ Forth(s)[4] \in Word
  BY <1>1, ForthIs
<1>5. /\ XorWord(Forth(p)[1], Forth(q)[2]) \in Word /\ XorWord(Forth(r)[3], Forth(s)[4]) \in Word
  BY <1>4, XorWordIs
<1>6. /\ MixWord(a)[1] = Xor(Xor(Forth(p)[1][1], Forth(q)[2][1]), Xor(Forth(r)[3][1], Forth(s)[4][1]))
      /\ MixWord(a)[2] = Xor(Xor(Forth(p)[1][2], Forth(q)[2][2]), Xor(Forth(r)[3][2], Forth(s)[4][2]))
      /\ MixWord(a)[3] = Xor(Xor(Forth(p)[1][3], Forth(q)[2][3]), Xor(Forth(r)[3][3], Forth(s)[4][3]))
      /\ MixWord(a)[4] = Xor(Xor(Forth(p)[1][4], Forth(q)[2][4]), Xor(Forth(r)[3][4], Forth(s)[4][4]))
  BY <1>3, <1>4, <1>5, XorWordIs
<1>7. /\ Forth(p)[1] = <<XTIME(p), p, p, Xor(XTIME(p), p)>>
      /\ Forth(q)[2] = <<Xor(XTIME(q), q), XTIME(q), q, q>>
      /\ Forth(r)[3] = <<r, Xor(XTIME(r), r), XTIME(r), r>>
      /\ Forth(s)[4] = <<s, s, Xor(XTIME(s), s), XTIME(s)>>
  BY <1>1, ForthIs
<1>8. /\ MixWord(a)[1] = Xor(Xor(XTIME(p), Xor(XTIME(q), q)), Xor(r, s))
      /\ MixWord(a)[2] = Xor(Xor(p, XTIME(q)), Xor(Xor(XTIME(r), r), s))
      /\ MixWord(a)[3] = Xor(Xor(p, q), Xor(XTIME(r), Xor(XTIME(s), s)))
      /\ MixWord(a)[4] = Xor(Xor(Xor(XTIME(p), p), q), Xor(r, XTIME(s)))
  BY <1>6, <1>7
<1>9. ASSUME NEW b \in Byte, NEW c \in Byte, NEW d \in Byte, NEW e \in Byte
      PROVE  /\ Xor(Xor(b, c), Xor(d, e)) = Xor(Xor(c, d), Xor(e, b))
             /\ Xor(Xor(b, c), Xor(d, e)) = Xor(Xor(d, e), Xor(b, c))
             /\ Xor(Xor(b, c), Xor(d, e)) = Xor(Xor(e, b), Xor(c, d))
  <2>1. Xor(b, c) \in Byte /\ Xor(d, e) \in Byte /\ Xor(c, d) \in Byte /\ Xor(e, b) \in Byte
    BY XorAlgebra
  <2>2. Xor(Xor(b, c), Xor(d, e)) = Xor(Xor(d, e), Xor(b, c))
    BY <2>1, XorAlgebra
  <2>3. Xor(c, b) = Xor(b, c) /\ Xor(d, e) = Xor(e, d) /\ Xor(e, b) = Xor(b, e) /\ Xor(c, d) = Xor(d, c)
    BY XorAlgebra
  <2>4. Xor(Xor(c, b), Xor(d, e)) = Xor(Xor(c, d), Xor(b, e))
    BY SumOfSums
  <2>5. Xor(Xor(c, d), Xor(e, b)) = Xor(Xor(e, b), Xor(c, d))
    BY <2>1, XorAlgebra
  <2> QED BY <2>2, <2>3, <2>4, <2>5
<1>10. /\ Xor(XTIME(p), p) \in Byte /\ Xor(XTIME(q), q) \in Byte
       /\ Xor(XTIME(r), r) \in Byte /\ Xor(XTIME(s), s) \in Byte
  BY <1>1, <1>2, XorAlgebra
<1>11. /\ MixWord(a)[2] = Xor(Xor(XTIME(q), Xor(XTIME(r), r)), Xor(s, p))
       /\ MixWord(a)[3] = Xor(Xor(XTIME(r), Xor(XTIME(s), s)), Xor(p, q))
  BY <1>1, <1>2, <1>8, <1>9, <1>10
<1>12. MixWord(a)[4] = Xor(Xor(XTIME(s), Xor(XTIME(p), p)), Xor(q, r))
  BY <1>1, <1>2, <1>8, <1>9, <1>10
<1> QED BY <1>2, <1>8, <1>11, <1>12 DEF p, q, r, s

(* The bytes that MixColumns reads stand in one column.                     *)
LEMMA SameColumn ==
  ASSUME NEW i \in Index, NEW q \in 0 .. 3
  PROVE  /\ 4 * (i \div 4) + ((i + q) % 4) \in Index
         /\ Col(4 * (i \div 4) + ((i + q) % 4)) = Col(i)
         /\ Row(4 * (i \div 4) + ((i + q) % 4)) = ((i + q) % 4) + 1
<1>1. i \in Int /\ 0 <= i /\ i <= 15
  BY DEF Index
<1>2. (i + q) % 4 \in 0 .. 3
  BY <1>1
<1>3. i \div 4 \in 0 .. 3
  BY <1>1
<1> DEFINE c == i \div 4
           r == (i + q) % 4
<1>4. c \in 0 .. 3 /\ r \in 0 .. 3
  BY <1>2, <1>3
<1> HIDE DEF c, r
<1>5. 4 * c + r \in 0 .. 15 /\ (4 * c + r) \div 4 = c /\ (4 * c + r) % 4 = r
  BY <1>4
<1> QED BY <1>5 DEF c, r, Col, Row, Index

(* And are the next rows of it.                                             *)
LEMMA NextRows ==
  ASSUME NEW i \in Index
  PROVE  /\ Row(i) = 1 \/ Row(i) = 2 \/ Row(i) = 3 \/ Row(i) = 4
         /\ ((i + 0) % 4) + 1 = Row(i)
         /\ Row(i) = 1 => ((i + 1) % 4) + 1 = 2 /\ ((i + 2) % 4) + 1 = 3 /\ ((i + 3) % 4) + 1 = 4
         /\ Row(i) = 2 => ((i + 1) % 4) + 1 = 3 /\ ((i + 2) % 4) + 1 = 4 /\ ((i + 3) % 4) + 1 = 1
         /\ Row(i) = 3 => ((i + 1) % 4) + 1 = 4 /\ ((i + 2) % 4) + 1 = 1 /\ ((i + 3) % 4) + 1 = 2
         /\ Row(i) = 4 => ((i + 1) % 4) + 1 = 1 /\ ((i + 2) % 4) + 1 = 2 /\ ((i + 3) % 4) + 1 = 3
<1>1. i \in Int /\ 0 <= i /\ i <= 15
  BY DEF Index
<1> QED BY <1>1 DEF Row

(* MixColumns of the standard, after substituting and moving, is a round    *)
(* through the tables.                                                      *)
LEMMA MixedIs ==
  ASSUME NEW y \in Columns
  PROVE  MixColumns(PutWords(LastRound(Tb, "encrypt", y))) = PutWords(TableRound(Tb, "encrypt", y))
<1> DEFINE z == LastRound(Tb, "encrypt", y)
           m == TableRound(Tb, "encrypt", y)
           s == PutWords(z)
           At(i, q) == s[4 * (i \div 4) + ((i + q) % 4)]
           Mixed(i) == Xor(Xor(Double(At(i, 0)), Xor(Double(At(i, 1)), At(i, 1))), Xor(At(i, 2), At(i, 3)))
<1>1. z \in Columns
  BY LastRoundIs
<1>2. \A j \in WordPlaces : m[j] = MixWord(z[j])
  BY ForthRound
<1>3. s = [i \in Index |-> z[Col(i)][Row(i)]]
  BY PutWordsIs
<1>4. PutWords(m) = [i \in Index |-> m[Col(i)][Row(i)]]
  BY PutWordsIs
<1>5. MixColumns(s) = [i \in Index |-> Mixed(i)]
  BY DEF MixColumns
<1> HIDE DEF z, m, s
<1>6. ASSUME NEW i \in Index  PROVE Mixed(i) = m[Col(i)][Row(i)]
  <2> DEFINE a == z[Col(i)]
  <2>1. Col(i) \in WordPlaces /\ a \in Word
    BY <1>1, Standing, ColumnsAre
  <2>2. \A q \in 0 .. 3 : At(i, q) = a[((i + q) % 4) + 1]
    BY <1>3, SameColumn
  <2>3. m[Col(i)] = MixWord(a)
    BY <1>2, <2>1
  <2> HIDE DEF a, At
  <2>4. 0 \in 0 .. 3 /\ 1 \in 0 .. 3 /\ 2 \in 0 .. 3 /\ 3 \in 0 .. 3
    OBVIOUS
  <2>5. /\ At(i, 0) = a[((i + 0) % 4) + 1] /\ At(i, 1) = a[((i + 1) % 4) + 1]
        /\ At(i, 2) = a[((i + 2) % 4) + 1] /\ At(i, 3) = a[((i + 3) % 4) + 1]
    BY <2>2, <2>4
  <2>6. MixWord(a)[Row(i)] = Mixed(i)
    <3>1. CASE Row(i) = 1
      <4>1. At(i, 0) = a[1] /\ At(i, 1) = a[2] /\ At(i, 2) = a[3] /\ At(i, 3) = a[4]
        BY <2>5, <3>1, NextRows, Zenon
      <4> QED BY <2>1, <3>1, <4>1, MixWordIs
    <3>2. CASE Row(i) = 2
      <4>1. At(i, 0) = a[2] /\ At(i, 1) = a[3] /\ At(i, 2) = a[4] /\ At(i, 3) = a[1]
        BY <2>5, <3>2, NextRows, Zenon
      <4> QED BY <2>1, <3>2, <4>1, MixWordIs
    <3>3. CASE Row(i) = 3
      <4>1. At(i, 0) = a[3] /\ At(i, 1) = a[4] /\ At(i, 2) = a[1] /\ At(i, 3) = a[2]
        BY <2>5, <3>3, NextRows, Zenon
      <4> QED BY <2>1, <3>3, <4>1, MixWordIs
    <3>4. CASE Row(i) = 4
      <4>1. At(i, 0) = a[4] /\ At(i, 1) = a[1] /\ At(i, 2) = a[2] /\ At(i, 3) = a[3]
        BY <2>5, <3>4, NextRows, Zenon
      <4> QED BY <2>1, <3>4, <4>1, MixWordIs
    <3> QED BY <3>1, <3>2, <3>3, <3>4, NextRows
  <2> QED BY <2>3, <2>6
<1>7. MixColumns(s) = PutWords(m)
  BY <1>4, <1>5, <1>6
<1> QED BY <1>7 DEF s, m, z

(* The keys of a round, as the standard adds them.                          *)
LEMMA AddedIs ==
  ASSUME NEW c, c.rk \in Seq(Word), NEW r \in Nat, 4 * r + 4 <= Len(c.rk), NEW y \in Columns
  PROVE  AddRoundKey(PutWords(y), c.rk, r) = PutWords(XorWords(RoundKey(c, r), y))
<1> DEFINE k == RoundKey(c, r)
           w == c.rk
           x == XorWords(k, y)
<1>1. k = [j \in 1 .. 4 |-> w[4 * r + j]] /\ k \in Columns
  BY RoundKeyIs
<1>2. AddRoundKey(PutWords(y), w, r)
        = [i \in Index |-> Xor(PutWords(y)[i], w[4 * r + (i \div 4) + 1][(i % 4) + 1])]
  BY TableIs DEF AddRoundKey
<1> HIDE DEF k, w
<1>3. PutWords(x) = [i \in Index |-> x[Col(i)][Row(i)]]
  BY PutWordsIs
<1>4. \A j, h \in WordPlaces : x[j][h] = Xor(k[j][h], y[j][h])
  BY <1>1, XorWordsIs
<1>5. PutWords(y) = [i \in Index |-> y[Col(i)][Row(i)]]
  BY PutWordsIs
<1> HIDE DEF x
<1>6. ASSUME NEW i \in Index
      PROVE  Xor(PutWords(y)[i], w[4 * r + (i \div 4) + 1][(i % 4) + 1]) = x[Col(i)][Row(i)]
  <2>1. Col(i) \in WordPlaces /\ Row(i) \in WordPlaces
    BY Standing
  <2>2. 4 * r + (i \div 4) + 1 = 4 * r + Col(i) /\ (i % 4) + 1 = Row(i)
    BY DEF Col, Row, Index
  <2>3. w[4 * r + (i \div 4) + 1][(i % 4) + 1] = k[Col(i)][Row(i)]
    <3>1. k[Col(i)] = w[4 * r + Col(i)]
      BY <1>1, <2>1 DEF WordPlaces
    <3> QED BY <2>2, <3>1
  <2>4. y[Col(i)][Row(i)] \in Byte /\ k[Col(i)][Row(i)] \in Byte
    BY <1>1, <2>1, ColumnsAre
  <2>5. Xor(y[Col(i)][Row(i)], k[Col(i)][Row(i)]) = Xor(k[Col(i)][Row(i)], y[Col(i)][Row(i)])
    BY <2>4, XorAlgebra
  <2> QED BY <1>4, <1>5, <2>1, <2>3, <2>5
<1> QED BY <1>2, <1>3, <1>6 DEF x, k, w

(* A context whose round keys are all there.                                *)
HasKeys(c) == IsAesContext(c) /\ c.rk \in Seq(Word) /\ 4 * (c.nr + 1) <= Len(c.rk)

(* A round of the standard is a round by tables.                            *)
LEMMA RoundIsStandard ==
  ASSUME NEW c, HasKeys(c), NEW r \in 1 .. c.nr, NEW y \in Columns
  PROVE  Round(Sb, c.rk, c.nr, r, PutWords(y))
           = PutWords(XorWords(RoundKey(c, r), IF r = c.nr THEN LastRound(Tb, "encrypt", y)
                                                           ELSE TableRound(Tb, "encrypt", y)))
<1>1. c.nr \in {10, 12, 14} /\ c.rk \in Seq(Word) /\ 4 * (c.nr + 1) <= Len(c.rk)
  BY DEF HasKeys, IsAesContext
<1> DEFINE q == c.nr
           w == c.rk
<1>2. r \in Nat /\ 4 * r + 4 <= Len(w)
  <2>1. q \in {10, 12, 14} /\ w \in Seq(Word) /\ 4 * (q + 1) <= Len(w) /\ r \in 1 .. q
    BY <1>1
  <2>2. Len(w) \in Nat
    BY <2>1
  <2> HIDE DEF q, w
  <2> QED BY <2>1, <2>2
<1>3. LastRound(Tb, "encrypt", y) \in Columns /\ TableRound(Tb, "encrypt", y) \in Columns
  BY LastRoundIs, ForthRound
<1>4. Round(Sb, w, q, r, PutWords(y))
        = AddRoundKey(IF r = q THEN ShiftRows(SubBytes(Sb, PutWords(y)))
                               ELSE MixColumns(ShiftRows(SubBytes(Sb, PutWords(y)))), w, r)
  BY DEF Round, With
<1>5. ShiftRows(SubBytes(Sb, PutWords(y))) = PutWords(LastRound(Tb, "encrypt", y))
  BY ShiftedIs
<1>6. MixColumns(PutWords(LastRound(Tb, "encrypt", y))) = PutWords(TableRound(Tb, "encrypt", y))
  BY MixedIs
<1>7. \A z \in Columns : AddRoundKey(PutWords(z), w, r) = PutWords(XorWords(RoundKey(c, r), z))
  BY <1>1, <1>2, AddedIs
<1> HIDE DEF q, w
<1>8. CASE r = q
  BY <1>3, <1>4, <1>5, <1>7, <1>8 DEF q, w
<1>9. CASE r # q
  BY <1>3, <1>4, <1>5, <1>6, <1>7, <1>9 DEF q, w
<1> QED BY <1>8, <1>9

(* Adding the first round key.                                              *)
LEMMA FirstKeyIs ==
  ASSUME NEW c, HasKeys(c), NEW b \in Block
  PROVE  AddRoundKey(b, c.rk, 0) = PutWords(XorWords(RoundKey(c, 0), Words(b)))
<1>1. c.rk \in Seq(Word) /\ c.nr \in {10, 12, 14} /\ 4 * (c.nr + 1) <= Len(c.rk)
  BY DEF HasKeys, IsAesContext
<1>2. 0 \in Nat /\ 4 * 0 + 4 <= Len(c.rk)
  <2> DEFINE q == c.nr
             len == Len(c.rk)
  <2>1. q \in {10, 12, 14} /\ 4 * (q + 1) <= len /\ len \in Nat
    BY <1>1
  <2> HIDE DEF q, len
  <2>2. 4 * 0 + 4 <= len
    BY <2>1
  <2> QED BY <2>2 DEF len
<1>3. Words(b) \in Columns /\ PutWords(Words(b)) = b
  BY BlocksAreColumns
<1>4. AddRoundKey(PutWords(Words(b)), c.rk, 0) = PutWords(XorWords(RoundKey(c, 0), Words(b)))
  BY <1>1, <1>2, <1>3, AddedIs
<1> QED BY <1>3, <1>4

(* The states of the standard are those of the code, by columns.            *)
Standard(f, c, b) ==
  f = [r \in 0 .. c.nr |-> IF r = 0 THEN AddRoundKey(b, c.rk, 0) ELSE Round(Sb, c.rk, c.nr, r, f[r - 1])]
Through(g, q, x, out16) == \A r \in 0 .. q : g[r] = IF r < q THEN PutWords(x[r]) ELSE out16

(* One round of the recursion of the standard.                              *)
LEMMA StandardStep ==
  ASSUME NEW c, HasKeys(c), NEW b \in Block, NEW x, Trace(x, c, "encrypt", b), NEW out16,
         out16 = PutWords(XorWords(RoundKey(c, c.nr), LastRound(Tb, "encrypt", x[c.nr - 1])))
  PROVE  /\ AddRoundKey(b, c.rk, 0) = PutWords(x[0])
         /\ \A r \in 1 .. c.nr :
              Round(Sb, c.rk, c.nr, r, PutWords(x[r - 1])) = IF r < c.nr THEN PutWords(x[r]) ELSE out16
<1>1. c.nr \in {10, 12, 14}
  BY DEF HasKeys, IsAesContext
<1>2. /\ \A r \in 0 .. (c.nr - 1) : x[r] \in Columns
      /\ x[0] = XorWords(RoundKey(c, 0), Words(b))
      /\ \A r \in 1 .. (c.nr - 1) : x[r] = RoundOf(Tb, c, "encrypt", r, x[r - 1])
  BY DEF Trace
<1>3. ASSUME NEW r \in 1 .. c.nr
      PROVE  Round(Sb, c.rk, c.nr, r, PutWords(x[r - 1])) = IF r < c.nr THEN PutWords(x[r]) ELSE out16
  <2>1. r - 1 \in 0 .. (c.nr - 1) /\ (r = c.nr \/ (r < c.nr /\ r # c.nr /\ r \in 1 .. (c.nr - 1)))
    BY <1>1
  <2>2. x[r - 1] \in Columns
    BY <1>2, <2>1
  <2>3. CASE r = c.nr
    <3>1. ~(r < c.nr)
      BY <1>1, <2>3
    <3> QED BY <2>2, <2>3, <3>1, RoundIsStandard
  <2>4. CASE r < c.nr /\ r # c.nr /\ r \in 1 .. (c.nr - 1)
    <3>1. x[r] = XorWords(RoundKey(c, r), TableRound(Tb, "encrypt", x[r - 1]))
      BY <1>2, <2>4 DEF RoundOf
    <3> QED BY <2>2, <2>4, <3>1, RoundIsStandard
  <2> QED BY <2>1, <2>3, <2>4
<1> QED BY <1>2, <1>3, FirstKeyIs

(* All of them: the recursion has a solution, and it ends with the cipher   *)
(* text.                                                                    *)
LEMMA StandardEnds ==
  ASSUME NEW c, HasKeys(c), NEW b \in Block, NEW x, Trace(x, c, "encrypt", b), NEW out16,
         out16 = PutWords(XorWords(RoundKey(c, c.nr), LastRound(Tb, "encrypt", x[c.nr - 1])))
  PROVE  /\ \E f : Standard(f, c, b)
         /\ \A f : Standard(f, c, b) => f[c.nr] = out16
<1> DEFINE q == c.nr
           w == c.rk
           F(r) == IF r < q THEN PutWords(x[r]) ELSE out16
           a == AddRoundKey(b, w, 0)
           Next16(r, s) == Round(Sb, w, q, r, s)
<1>1. q \in {10, 12, 14}
  BY DEF HasKeys, IsAesContext
<1>2. a = PutWords(x[0]) /\ \A r \in 1 .. q : Next16(r, PutWords(x[r - 1])) = F(r)
  BY StandardStep
<1>3. \A f : Standard(f, c, b) <=> f = [r \in 0 .. q |-> IF r = 0 THEN a ELSE Next16(r, f[r - 1])]
  BY DEF Standard
<1> HIDE DEF q, w, a, Next16
<1>4. \A r \in 1 .. q : r - 1 \in 0 .. q /\ F(r - 1) = PutWords(x[r - 1]) /\ r # 0
  BY <1>1
<1>5. F(0) = a /\ \A r \in 1 .. q : F(r) = Next16(r, F(r - 1))
  BY <1>1, <1>2, <1>4
<1>6. 0 \in 0 .. q /\ q \in 0 .. q /\ F(q) = out16 /\ \A r \in 0 .. q : r = 0 \/ r \in 1 .. q
  BY <1>1
<1> HIDE DEF F
<1>7. \E f : Standard(f, c, b)
  <2> DEFINE g == [r \in 0 .. q |-> F(r)]
  <2>1. \A r \in 0 .. q : g[r] = F(r)
    OBVIOUS
  <2>2. g = [r \in 0 .. q |-> g[r]]
    OBVIOUS
  <2> HIDE DEF g
  <2>3. \A r \in 0 .. q : g[r] = IF r = 0 THEN a ELSE Next16(r, g[r - 1])
    BY <1>4, <1>5, <1>6, <2>1
  <2>4. g = [r \in 0 .. q |-> IF r = 0 THEN a ELSE Next16(r, g[r - 1])]
    BY <2>2, <2>3
  <2> QED BY <1>3, <2>4
<1>8. ASSUME NEW f, Standard(f, c, b)  PROVE f[q] = out16
  <2>1. f = [r \in 0 .. q |-> IF r = 0 THEN a ELSE Next16(r, f[r - 1])]
    BY <1>3, <1>8
  <2>2. f[0] = a /\ \A r \in 1 .. q : f[r] = Next16(r, f[r - 1])
    <3>1. \A r \in 1 .. q : r \in 0 .. q /\ r # 0
      BY <1>1
    <3> QED BY <1>6, <2>1, <3>1
  <2> DEFINE S == {i \in Byte : i \in 0 .. q => f[i] = F(i)}
  <2>3. 0 \in S
    BY <1>5, <2>2, BytesAre
  <2>4. ASSUME NEW i \in Int, 0 <= i, i < 255, i \in S  PROVE i + 1 \in S
    <3>1. i + 1 \in Byte
      BY <2>4, BytesAre
    <3>2. ASSUME i + 1 \in 0 .. q  PROVE f[i + 1] = F(i + 1)
      <4>1. i \in 0 .. q /\ i + 1 \in 1 .. q /\ (i + 1) - 1 = i
        BY <1>1, <2>4, <3>2
      <4>2. f[i] = F(i)
        BY <2>4, <4>1
      <4>3. f[i + 1] = Next16(i + 1, f[i]) /\ F(i + 1) = Next16(i + 1, F(i))
        BY <1>5, <2>2, <4>1
      <4> QED BY <4>2, <4>3
    <3> QED BY <3>1, <3>2
  <2> HIDE DEF S
  <2>5. Byte \subseteq S
    BY <2>3, <2>4, HandedOnBytes
  <2>6. q \in Byte
    BY <1>1, BytesAre
  <2>7. q \in S
    BY <2>5, <2>6
  <2> QED BY <1>6, <2>7 DEF S
<1> QED BY <1>7, <1>8 DEF q

(* The code's block cipher is that of FIPS 197 under the same expanded key. *)
THEOREM CipherIsStandard ==
  ASSUME NEW c, HasKeys(c), NEW b \in Block
  PROVE  Cipher(c.rk, c.nr, b) = aes_crypt_ecb(c, "encrypt", b)
<1> DEFINE Eq(f) == f = [r \in 0 .. c.nr |->
                           IF r = 0 THEN AddRoundKey(b, c.rk, 0)
                           ELSE CHOOSE y \in {Round(Sb, c.rk, c.nr, r, s) : s \in {f[r - 1]}} : TRUE]
           x == CHOOSE f : Eq(f)
<1>1. \A r, e : (CHOOSE y \in {Round(Sb, c.rk, c.nr, r, s) : s \in {e}} : TRUE) = Round(Sb, c.rk, c.nr, r, e)
  OBVIOUS
<1>2. \A f : Eq(f) <=> Standard(f, c, b)
  BY <1>1 DEF Standard
<1>3. CipherBy(Sb, c.rk, c.nr, b) = x[c.nr]
  BY DEF CipherBy, With
<1>4. Cipher(c.rk, c.nr, b) = CipherBy(Sb, c.rk, c.nr, b)
  BY SubByteIs DEF Cipher, With
<1> HIDE DEF Eq
<1>5. IsAesContext(c)
  BY DEF HasKeys
<1>6. PICK t : /\ Trace(t, c, "encrypt", b)
               /\ aes_crypt_ecb(c, "encrypt", b)
                    = PutWords(XorWords(RoundKey(c, c.nr), LastRound(Tb, "encrypt", t[c.nr - 1])))
  BY <1>5, CryptIs
<1>7. (\E f : Standard(f, c, b)) /\ \A f : Standard(f, c, b) => f[c.nr] = aes_crypt_ecb(c, "encrypt", b)
  BY <1>6, StandardEnds
<1>8. Eq(x)
  BY <1>2, <1>7
<1>9. x[c.nr] = aes_crypt_ecb(c, "encrypt", b)
  BY <1>2, <1>7, <1>8
<1> QED BY <1>3, <1>4, <1>9

-----------------------------------------------------------------------------
(* The same as FIPS 197: the expanded key, and the modes.                   *)

(* The round constants of the standard are those of the code.               *)
LEMMA RconIsStandard ==
  \A i \in 1 .. 10 : Rcon[i] = RconTable[i - 1]
<1> DEFINE Eq(f) == f = [i \in 1 .. 10 |-> IF i = 1 THEN 1 ELSE Double(f[i - 1])]
           rcon == CHOOSE f : Eq(f)
           g == [i \in 1 .. 10 |-> RconTable[i - 1]]
<1>1. Rcon = rcon
  BY TableIs DEF Rcon
<1>2. \A i \in 2 .. 10 : Double(RconTable[(i - 1) - 1]) = RconTable[i - 1]
  <2>1. \A i \in 2 .. 10 : (i - 1) - 1 \in 0 .. 9 /\ i - 1 \in 1 .. 9
    OBVIOUS
  <2> QED BY <2>1, RconIs, DoubleIs
<1>3. Eq(g)
  <2>1. ASSUME NEW i \in 1 .. 10  PROVE g[i] = IF i = 1 THEN 1 ELSE Double(g[i - 1])
    <3>1. CASE i = 1
      BY <3>1, RconIs
    <3>2. CASE i # 1
      <4>1. i \in 2 .. 10 /\ i - 1 \in 1 .. 10
        BY <3>2
      <4> QED BY <1>2, <3>2, <4>1
    <3> QED BY <3>1, <3>2
  <2>2. g = [i \in 1 .. 10 |-> g[i]]
    OBVIOUS
  <2> HIDE DEF g
  <2> QED BY <2>1, <2>2
<1>4. Eq(rcon)
  <2> HIDE DEF Eq, g
  <2> QED BY <1>3
<1> HIDE DEF rcon
<1>5. rcon[1] = 1 /\ \A i \in 2 .. 10 : rcon[i] = Double(rcon[i - 1])
  <2>1. 1 \in 1 .. 10 /\ \A i \in 2 .. 10 : i \in 1 .. 10 /\ i # 1
    OBVIOUS
  <2> QED BY <1>4, <2>1
<1>6. g[1] = 1 /\ \A i \in 2 .. 10 : g[i] = Double(g[i - 1])
  <2>1. 1 \in 1 .. 10 /\ \A i \in 2 .. 10 : i \in 1 .. 10 /\ i # 1
    OBVIOUS
  <2> HIDE DEF g
  <2> QED BY <1>3, <2>1
<1> HIDE DEF g
<1>7. \A i \in 2 .. 10 : rcon[i - 1] = g[i - 1] => rcon[i] = g[i]
  BY <1>5, <1>6
<1>8. rcon[1] = g[1] /\ rcon[2] = g[2] /\ rcon[3] = g[3] /\ rcon[4] = g[4]
  <2>1. /\ 2 \in 2 .. 10 /\ 3 \in 2 .. 10 /\ 4 \in 2 .. 10
        /\ 2 - 1 = 1 /\ 3 - 1 = 2 /\ 4 - 1 = 3
    OBVIOUS
  <2>2. rcon[1] = g[1]
    BY <1>5, <1>6
  <2>3. rcon[2] = g[2]
    BY <1>7, <2>1, <2>2
  <2>4. rcon[3] = g[3]
    BY <1>7, <2>1, <2>3
  <2> QED BY <1>7, <2>1, <2>2, <2>3, <2>4
<1>9. rcon[5] = g[5] /\ rcon[6] = g[6] /\ rcon[7] = g[7]
  <2>1. /\ 5 \in 2 .. 10 /\ 6 \in 2 .. 10 /\ 7 \in 2 .. 10
        /\ 5 - 1 = 4 /\ 6 - 1 = 5 /\ 7 - 1 = 6
    OBVIOUS
  <2>2. rcon[5] = g[5]
    BY <1>7, <1>8, <2>1
  <2>3. rcon[6] = g[6]
    BY <1>7, <2>1, <2>2
  <2> QED BY <1>7, <2>1, <2>2, <2>3
<1>10. rcon[8] = g[8] /\ rcon[9] = g[9] /\ rcon[10] = g[10]
  <2>1. /\ 8 \in 2 .. 10 /\ 9 \in 2 .. 10 /\ 10 \in 2 .. 10
        /\ 8 - 1 = 7 /\ 9 - 1 = 8 /\ 10 - 1 = 9
    OBVIOUS
  <2>2. rcon[8] = g[8]
    BY <1>7, <1>9, <2>1
  <2>3. rcon[9] = g[9]
    BY <1>7, <2>1, <2>2
  <2> QED BY <1>7, <2>1, <2>2, <2>3
<1>11. \A i \in 1 .. 10 : i = 1 \/ i = 2 \/ i = 3 \/ i = 4 \/ i = 5 \/ i = 6 \/ i = 7 \/ i = 8 \/ i = 9 \/ i = 10
  OBVIOUS
<1>12. \A i \in 1 .. 10 : rcon[i] = g[i]
  BY <1>8, <1>9, <1>10, <1>11
<1> QED BY <1>1, <1>12 DEF g

(* What the standard adds a word to is what the code does.                  *)
LEMMA HandedIs ==
  ASSUME NEW nk \in KeyWords, NEW i \in nk .. (4 * (nk + 7) - 1), NEW v \in Word
  PROVE  Handed(Sb, nk, i, v) = Temp(nk, i, v)
<1>1. nk \in {4, 6, 8}
  BY DEF KeyWords
<1>2. /\ nk > 6 <=> nk = 8
      /\ i % nk = 0 => i \div nk \in 1 .. 10
  <2>1. CASE nk = 4
    BY <2>1
  <2>2. CASE nk = 6
    BY <2>2
  <2>3. CASE nk = 8
    BY <2>3
  <2> QED BY <1>1, <2>1, <2>2, <2>3
<1>3. SubWord(Tb, v) = SubWordOf(Sb, v)
  BY TableIs, TableFacts DEF SubWord, SubWordOf
<1>4. SubNext(Tb, v) = SubWordOf(Sb, RotWordOf(v))
  <2>1. SubNext(Tb, v) = [k \in 1 .. 4 |-> Sb[v[(k % 4) + 1]]]
    BY TableIs, TableFacts DEF SubNext
  <2>2. \A k \in 1 .. 4 : RotWordOf(v)[k] = v[(k % 4) + 1]
    BY DEF RotWordOf
  <2>3. SubWordOf(Sb, RotWordOf(v)) = [k \in 1 .. 4 |-> Sb[RotWordOf(v)[k]]]
    BY DEF SubWordOf
  <2> QED BY <2>1, <2>2, <2>3
<1>5. ASSUME NEW a \in Word, NEW b \in Word  PROVE XorWord(a, b) = XorWord(b, a)
  <2>1. \A p, q \in Byte : Xor(p, q) = Xor(q, p)
    BY XorAlgebra
  <2> QED BY <2>1, WordsAre, XorWordIs
<1>6. CASE i % nk = 0
  <2>1. i \div nk \in 1 .. 10
    BY <1>2, <1>6
  <2> DEFINE r == i \div nk
  <2>2. r \in 1 .. 10 /\ r - 1 \in 0 .. 9
    BY <2>1
  <2> HIDE DEF r
  <2>3. Rcon[r] = RconTable[r - 1]
    BY <2>2, RconIsStandard
  <2>4. RconWord(Tb, r - 1) = <<Rcon[r], 0, 0, 0>>
    BY <2>3, TableFacts DEF RconWord
  <2>5. XorWord(SubNext(Tb, v), RconWord(Tb, r - 1)) = XorWord(RconWord(Tb, r - 1), SubNext(Tb, v))
    BY <1>5, <2>2, SubWordIs
  <2> QED BY <1>4, <1>6, <2>4, <2>5 DEF Handed, Temp, r
<1>7. CASE i % nk # 0
  BY <1>2, <1>3, <1>7 DEF Handed, Temp
<1> QED BY <1>6, <1>7

(* An expansion as the code makes it is one of the standard.                *)
LEMMA IsExpansion ==
  ASSUME NEW w, NEW keyOf, NEW nk \in KeyWords, NEW len \in Nat, Expansion(w, keyOf, nk, len), 4 * (nk + 7) <= len
  PROVE  IsKeyExpansion(w, keyOf, nk)
<1>1. nk \in {4, 6, 8} /\ nk \in Int
  BY DEF KeyWords
<1>2. /\ w \in Seq(Word) /\ Len(w) = len
      /\ \A i \in 0 .. (len - 1) :
           w[i + 1] = IF i < nk THEN WordOf(keyOf, 4 * i) ELSE XorWord(w[i + 1 - nk], Temp(nk, i, w[i]))
  BY DEF Expansion
<1>3. ASSUME NEW i \in 0 .. (4 * (nk + 7) - 1)
      PROVE  w[i + 1] = IF i < nk THEN <<keyOf[4 * i], keyOf[4 * i + 1], keyOf[4 * i + 2], keyOf[4 * i + 3]>>
                        ELSE XorWord(w[i + 1 - nk], Handed(Sb, nk, i, w[i]))
  <2>1. i \in 0 .. (len - 1) /\ i \in Int
    BY <1>1
  <2>2. CASE i < nk
    BY <1>2, <2>1, <2>2 DEF WordOf
  <2>3. CASE ~(i < nk)
    <3>1. i \in nk .. (4 * (nk + 7) - 1) /\ i \in 1 .. len
      BY <1>1, <2>1, <2>3
    <3>2. w[i] \in Word
      BY <1>2, <3>1
    <3>3. Handed(Sb, nk, i, w[i]) = Temp(nk, i, w[i])
      BY <3>1, <3>2, HandedIs
    <3> QED BY <1>2, <2>1, <2>3, <3>3
  <2> QED BY <2>2, <2>3
<1>4. IsExpansionBy(Sb, w, keyOf, nk)
  BY <1>1, <1>2, <1>3 DEF IsExpansionBy
<1> QED BY <1>4, SubByteIs DEF IsKeyExpansion, With

(* The key schedule of the code expands a key as FIPS 197 does.             *)
THEOREM KeyScheduleIsStandard ==
  ASSUME NEW keyOf \in [0 .. 31 -> Byte], NEW bits \in KeySizes
  PROVE  LET c == aes_setkey_enc(keyOf, bits)
         IN  /\ IsKeyExpansion(c.rk, keyOf, bits \div 32)
             /\ \A b \in Block : Cipher(c.rk, bits \div 32 + 6, b) = aes_crypt_ecb(c, "encrypt", b)
<1> DEFINE c == aes_setkey_enc(keyOf, bits)
           nk == bits \div 32
           len == nk * (Loops(bits) + 1)
<1>1. /\ Expansion(c.rk, keyOf, nk, len)
      /\ IsAesContext(c) /\ c.nr = Rounds(bits) /\ c.rk \in Seq(Word) /\ 4 * (c.nr + 1) <= Len(c.rk)
  BY EncryptionKey
<1>2. nk \in KeyWords /\ Rounds(bits) = nk + 6
  BY SizesAre
<1>3. len \in Nat /\ 4 * (nk + 7) <= len
  <2>1. Loops(bits) \in Nat /\ nk \in Nat /\ 4 * (Rounds(bits) + 1) <= nk * (Loops(bits) + 1)
    <3>1. Loops(bits) \in 1 .. 10 /\ nk \in {4, 6, 8} /\ 4 * (Rounds(bits) + 1) <= nk * (Loops(bits) + 1)
      BY SizesAre DEF KeyWords
    <3> HIDE DEF nk
    <3> QED BY <3>1
  <2> HIDE DEF nk
  <2>2. nk * (Loops(bits) + 1) \in Nat
    BY <2>1
  <2>3. 4 * (Rounds(bits) + 1) = 4 * (nk + 7)
    BY <1>2, <2>1
  <2> QED BY <2>1, <2>2, <2>3
<1> HIDE DEF c, nk, len
<1>4. IsKeyExpansion(c.rk, keyOf, nk)
  BY <1>1, <1>2, <1>3, IsExpansion
<1>5. HasKeys(c)
  BY <1>1 DEF HasKeys
<1>6. \A b \in Block : Cipher(c.rk, nk + 6, b) = aes_crypt_ecb(c, "encrypt", b)
  BY <1>1, <1>2, <1>5, CipherIsStandard
<1> QED BY <1>4, <1>6 DEF c, nk

(* What the block cipher of a run is, where a call may stand.               *)
LEMMA StandardCipher ==
  ASSUME AesInv, aesPc = "call", dir = "encrypt"
  PROVE  /\ IsKeyExpansion(aes.rk, aesKey.key, aesKey.bits \div 32)
         /\ \A b \in Block : Cipher(aes.rk, aesKey.bits \div 32 + 6, b) = BlockCipher[b]
<1>1. aes = aes_setkey_enc(aesKey.key, aesKey.bits) /\ aesKey \in AesKeys
  BY DEF AesInv, AesTypes, AesKeyIs
<1>2. aesKey.bits \in KeySizes /\ aesKey.key \in [0 .. 31 -> Byte]
  BY <1>1, AesAssumption
<1>3. \A b \in Block : BlockCipher[b] = aes_crypt_ecb(aes_setkey_enc(aesKey.key, aesKey.bits), "encrypt", b)
  BY <1>1, BlockCipherIs
<1> QED BY <1>1, <1>2, <1>3, KeyScheduleIsStandard

(* The block before block k of the cipher text, in the words of the         *)
(* property.                                                                *)
Out16(k) == IF k = 0 THEN iv0 ELSE [i \in Index |-> data[16 * (k - 1) + i]]
(* The text after every block, in terms of the standard.                    *)
LEMMA OutIs ==
  ASSUME AesInv, NEW k \in Nat, 16 * k <= off
  PROVE  Out16(k) = Prev(iv0, data, k) /\ Out16(k) \in Block
<1>1. job \in Texts /\ iv0 \in IVs /\ data \in [DOMAIN job.text -> Byte] /\ off \in Nat /\ off <= TextLen
  BY DEF AesInv, AesTypes
<1>2. TextLen \in Nat /\ data \in [0 .. (TextLen - 1) -> Byte] /\ iv0 \in Block
  <2>1. TextLen \in Nat /\ DOMAIN job.text = 0 .. (TextLen - 1)
    BY <1>1, TextIs
  <2>2. iv0 \in Block
    BY <1>1, AesAssumption
  <2> QED BY <1>1, <2>1, <2>2
<1>3. Prev(iv0, data, k) \in Block
  <2> DEFINE len == TextLen
  <2>1. len \in Nat /\ data \in [0 .. (len - 1) -> Byte] /\ 16 * k <= len
    BY <1>1, <1>2
  <2> HIDE DEF len
  <2> QED BY <1>2, <2>1, PrevIs
<1>4. CASE k = 0
  <2>1. iv0 = [i \in Index |-> iv0[i]]
    BY <1>2 DEF Block
  <2> QED BY <1>3, <1>4, <2>1 DEF Out16, Prev
<1>5. CASE k # 0
  BY <1>3, <1>5 DEF Out16, Prev
<1> QED BY <1>4, <1>5

(* The property, at the end of an encryption.                               *)
LEMMA ModeHolds ==
  ASSUME AesInv
  PROVE  ModeIsStandard
<1> SUFFICES ASSUME aesPc = "call", dir = "encrypt"
             PROVE  LET E(block) == Cipher(aes.rk, aesKey.bits \div 32 + 6, block)
                        P(k, i) == job.text[16 * (k - 1) + i]
                        Here(k) == {i \in Index : 16 * (k - 1) + i < off}
                    IN  /\ IsKeyExpansion(aes.rk, aesKey.key, aesKey.bits \div 32)
                        /\ \A k \in 1 .. ((off + 15) \div 16) :
                             IF job.mode = "cbc"
                             THEN Out16(k) = E([i \in Index |-> Xor(P(k, i), Out16(k - 1)[i])])
                             ELSE \A stream \in {E(Out16(k - 1))} :
                                    \A i \in Here(k) : data[16 * (k - 1) + i] = Xor(P(k, i), stream[i])
  BY DEF ModeIsStandard, Out16
<1> DEFINE E(block) == Cipher(aes.rk, aesKey.bits \div 32 + 6, block)
           P(k, i) == job.text[16 * (k - 1) + i]
           Here(k) == {i \in Index : 16 * (k - 1) + i < off}
<1>1. /\ IsKeyExpansion(aes.rk, aesKey.key, aesKey.bits \div 32)
      /\ \A b \in Block : E(b) = BlockCipher[b]
  BY StandardCipher
<1> HIDE DEF E
<1>2. /\ job \in Texts /\ off \in Nat /\ off <= TextLen /\ UpTo(data, off)
      /\ \E q : Stands(q)
  BY DEF AesInv, AesTypes, Encrypting
<1>3. TextLen \in Nat /\ DOMAIN job.text = 0 .. (TextLen - 1) /\ job.text \in [0 .. (TextLen - 1) -> Byte]
  BY <1>2, TextIs
<1>4. ASSUME NEW k \in 1 .. ((off + 15) \div 16), job.mode = "cbc"
      PROVE  Out16(k) = E([i \in Index |-> Xor(P(k, i), Out16(k - 1)[i])])
  <2>1. PICK q : q \in Nat /\ off = 16 * q
    <3>1. PICK q : Stands(q)
      BY <1>2
    <3>2. q \in Nat /\ off = 16 * q + Cursor /\ Cursor = 0
      BY <1>4, <3>1 DEF Stands
    <3>3. off = 16 * q
      BY <3>2
    <3> QED BY <3>2, <3>3
  <2>2. k - 1 \in Nat /\ k \in Nat /\ 16 * (k - 1) <= off /\ 16 * (k - 1) + 16 <= off /\ 16 * k <= off /\ k # 0
    <3>1. (16 * q + 15) \div 16 = q
      BY <2>1
    <3>2. k \in 1 .. q
      BY <2>1, <3>1
    <3> QED BY <2>1, <3>2
  <2>3. CbcUpTo(BlockCipher, iv0, job.text, data, off)
    BY <1>2, <1>4 DEF UpTo
  <2> DEFINE h == k - 1
             v == Out16(h)
             a == [i \in Index |-> Xor(P(k, i), v[i])]
  <2>4. BlockOf(data, h) = BlockCipher[XorBlock(BlockOf(job.text, h), Prev(iv0, data, h))]
    BY <2>2, <2>3 DEF CbcUpTo
  <2>5. v = Prev(iv0, data, h) /\ v \in Block
    BY <2>2, OutIs
  <2>6. XorBlock(BlockOf(job.text, h), v) = a
    BY TableIs DEF XorBlock, BlockOf
  <2>7. BlockOf(job.text, h) \in Block
    <3>1. \A i \in Index : 16 * h + i \in 0 .. (TextLen - 1)
      BY <1>2, <1>3, <2>2 DEF Index
    <3>2. \A i \in Index : job.text[16 * h + i] \in Byte
      BY <1>3, <3>1
    <3> QED BY <3>2 DEF BlockOf, Block
  <2>8. a \in Block
    <3> HIDE DEF a, v, h
    <3> QED BY <2>5, <2>6, <2>7, XorBlockIs
  <2>9. Out16(k) = BlockOf(data, h)
    BY <2>2 DEF Out16, BlockOf
  <2> HIDE DEF a, v, h
  <2>10. Out16(k) = E(a)
    BY <1>1, <2>4, <2>5, <2>6, <2>8, <2>9
  <2> QED BY <2>10 DEF a, v, h
<1>5. ASSUME NEW k \in 1 .. ((off + 15) \div 16), job.mode # "cbc", NEW i \in Here(k)
      PROVE  data[16 * (k - 1) + i] = Xor(P(k, i), E(Out16(k - 1))[i])
  <2>1. k - 1 \in Nat /\ 16 * (k - 1) <= off
    BY <1>2
  <2>2. CfbUpTo(BlockCipher, iv0, job.text, data, off)
    BY <1>2, <1>5 DEF UpTo
  <2>3. i \in Index /\ 16 * (k - 1) + i < off
    BY <1>5
  <2>4. data[16 * (k - 1) + i] = Xor(job.text[16 * (k - 1) + i], BlockCipher[Prev(iv0, data, k - 1)][i])
    BY <2>1, <2>2, <2>3 DEF CfbUpTo
  <2>5. Out16(k - 1) = Prev(iv0, data, k - 1) /\ Out16(k - 1) \in Block
    BY <2>1, OutIs
  <2> QED BY <1>1, <2>4, <2>5
<1> HIDE DEF P, Here
<1>6. /\ IsKeyExpansion(aes.rk, aesKey.key, aesKey.bits \div 32)
      /\ \A k \in 1 .. ((off + 15) \div 16) :
           IF job.mode = "cbc"
           THEN Out16(k) = E([i \in Index |-> Xor(P(k, i), Out16(k - 1)[i])])
           ELSE \A stream \in {E(Out16(k - 1))} :
                  \A i \in Here(k) : data[16 * (k - 1) + i] = Xor(P(k, i), stream[i])
  BY <1>1, <1>4, <1>5
<1> QED BY <1>6 DEF E, P, Here

(* aes.c:718-890.  The modes of operation are those of NIST SP 800-38A over *)
(* the cipher of FIPS 197 and its key expansion.                            *)
THEOREM ModeIsStandardHolds == AesSpec => []ModeIsStandard
<1>1. AesInv => ModeIsStandard
  BY ModeHolds
<1> QED BY <1>1, AesInductive, PTL
=============================================================================
