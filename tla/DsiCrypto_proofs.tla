-------------------------- MODULE DsiCrypto_proofs --------------------------
(***************************************************************************)
(* Proofs about DsiCrypto and the numbers of 128 bits it computes with     *)
(* (U128): the stream of a block depends on its position only, two ways of *)
(* counting agree, and keys and identity determine each other, for every   *)
(* console, chip position, launcher header, and every number of calls.     *)
(***************************************************************************)
EXTENDS DsiCrypto, TLAPS

-----------------------------------------------------------------------------
(* A table, compared or not, is the function it is made of.                 *)
LEMMA TableIs == ASSUME NEW f PROVE Table(f) = f
  BY DEF Table

LEMMA LowByte == \A x \in Int : x % 256 \in Byte
  BY DEF Byte

(* Exclusive or of nibbles and of bytes stays among them, and undoes itself. *)
Nibble(x, y) == XorNibble[x + 1][y + 1]

LEMMA NibbleFacts ==
  ASSUME NEW x \in 0 .. 15, NEW y \in 0 .. 15
  PROVE  Nibble(x, y) \in 0 .. 15 /\ Nibble(Nibble(x, y), y) = x
<1>1. Nibble(x, y) \in 0 .. 15
  BY DEF Nibble, XorNibble
<1>2. Nibble(Nibble(x, y), y) = x
  BY SMTT(60) DEF Nibble, XorNibble
<1> QED BY <1>1, <1>2

LEMMA XorFacts ==
  ASSUME NEW x \in Byte, NEW y \in Byte
  PROVE  Xor(x, y) \in Byte /\ Xor(Xor(x, y), y) = x
<1> DEFINE hi == Nibble(x \div 16, y \div 16)
           lo == Nibble(x % 16, y % 16)
<1>1. /\ x \div 16 \in 0 .. 15 /\ y \div 16 \in 0 .. 15 /\ x % 16 \in 0 .. 15 /\ y % 16 \in 0 .. 15
      /\ x = 16 * (x \div 16) + (x % 16)
  <2>1. /\ x \in Int /\ 0 <= x /\ x <= 255
        /\ y \in Int /\ 0 <= y /\ y <= 255
    BY DEF Byte
  <2>2. x = 16 * (x \div 16) + (x % 16)
    BY <2>1
  <2>3. x \div 16 \in 0 .. 15 /\ x % 16 \in 0 .. 15
    BY <2>1
  <2>4. y \div 16 \in 0 .. 15 /\ y % 16 \in 0 .. 15
    BY <2>1
  <2> QED BY <2>2, <2>3, <2>4
<1>2. /\ hi \in 0 .. 15 /\ lo \in 0 .. 15
      /\ Nibble(hi, y \div 16) = x \div 16 /\ Nibble(lo, y % 16) = x % 16
  BY <1>1, NibbleFacts
<1>3. \A a, b : Xor(a, b) = 16 * Nibble(a \div 16, b \div 16) + Nibble(a % 16, b % 16)
  BY DEF Xor, Nibble
<1> HIDE DEF hi, lo
<1>4. (16 * hi + lo) \div 16 = hi /\ (16 * hi + lo) % 16 = lo /\ 16 * hi + lo \in Byte
  <2>1. hi \in 0 .. 15 /\ lo \in 0 .. 15
    BY <1>2
  <2> QED BY <2>1 DEF Byte
<1>5. Xor(x, y) = 16 * hi + lo
  BY <1>3 DEF hi, lo
<1>6. Xor(16 * hi + lo, y) = 16 * (x \div 16) + (x % 16)
  BY <1>2, <1>3, <1>4
<1> QED BY <1>1, <1>4, <1>5, <1>6

LEMMA XorBlockFacts ==
  ASSUME NEW a \in Block, NEW b \in Block
  PROVE  /\ u128_xor(a, b) = [i \in Index |-> Xor(a[i], b[i])]
         /\ u128_xor(a, b) \in Block
         /\ u128_xor(u128_xor(a, b), b) = a
<1>1. \A x, y : u128_xor(x, y) = [i \in Index |-> Xor(x[i], y[i])]
  BY TableIs DEF u128_xor, XorBlock
<1> DEFINE r == [i \in Index |-> Xor(a[i], b[i])]
<1>2. \A i \in Index : a[i] \in Byte /\ b[i] \in Byte
  BY DEF Block
<1>3. \A i \in Index : r[i] \in Byte /\ Xor(r[i], b[i]) = a[i]
  BY <1>2, XorFacts
<1>4. r \in Block
  BY <1>3 DEF Block
<1>5. [i \in Index |-> Xor(r[i], b[i])] = a
  BY <1>3 DEF Block
<1> HIDE DEF r
<1> QED BY <1>1, <1>4, <1>5 DEF r

-----------------------------------------------------------------------------
(* Addition.  c[k] is carried into byte k.                                  *)
Carries(a, b, c) ==
  /\ c \in [0 .. 16 -> 0 .. 1] /\ c[0] = 0
  /\ \A k \in Index : c[k + 1] = (a[k] + b[k] + c[k]) \div 256
Added(a, b, c) == [k \in Index |-> (a[k] + b[k] + c[k]) % 256]

(* What is true of place 0 and is handed on from place to place is true of  *)
(* all: Index ends at 15.                                                   *)
LEMMA HandedOn ==
  ASSUME NEW S, 0 \in S, \A k \in Index : k \in S => k + 1 \in S
  PROVE  0 .. 16 \subseteq S
<1>1. 1 \in S /\ 2 \in S /\ 3 \in S /\ 4 \in S
  BY DEF Index
<1>2. 5 \in S /\ 6 \in S /\ 7 \in S /\ 8 \in S
  BY <1>1 DEF Index
<1>3. 9 \in S /\ 10 \in S /\ 11 \in S /\ 12 \in S
  BY <1>2 DEF Index
<1>4. 13 \in S /\ 14 \in S /\ 15 \in S /\ 16 \in S
  BY <1>3 DEF Index
<1> QED BY <1>1, <1>2, <1>3, <1>4

LEMMA CarriesUnique ==
  ASSUME NEW a \in Block, NEW b \in Block, NEW c, NEW d, Carries(a, b, c), Carries(a, b, d)
  PROVE  c = d
<1> DEFINE S == {k \in 0 .. 16 : c[k] = d[k]}
<1>1. 0 \in S
  BY DEF Carries
<1>2. \A k \in Index : k \in S => k + 1 \in S
  BY DEF Carries, Index
<1> HIDE DEF S
<1>3. 0 .. 16 \subseteq S
  BY <1>1, <1>2, HandedOn
<1>4. \A k \in 0 .. 16 : c[k] = d[k]
  BY <1>3 DEF S
<1> QED BY <1>4 DEF Carries

LEMMA ByteAt ==
  ASSUME NEW a \in Block, NEW k \in Index
  PROVE  a[k] \in 0 .. 255
  BY DEF Block, Byte

LEMMA PlaceOf ==
  ASSUME NEW k \in Index
  PROVE  k \in 0 .. 15 /\ k \in 0 .. 16 /\ k + 1 \in 0 .. 16
  BY DEF Index

(* The carry as it was written down for the AES engine.                     *)
Carry(a, b, k) ==
  IF \E j \in 0 .. (k - 1) : a[j] + b[j] > 255 /\ \A m \in (j + 1) .. (k - 1) : a[m] + b[m] >= 255
  THEN 1 ELSE 0

LEMMA CarryCarries ==
  ASSUME NEW a \in Block, NEW b \in Block
  PROVE  Carries(a, b, [k \in 0 .. 16 |-> Carry(a, b, k)])
<1> DEFINE From(j, k) == a[j] + b[j] > 255 /\ \A m \in (j + 1) .. (k - 1) : a[m] + b[m] >= 255
<1>0. \A k \in 0 .. 16 : Carry(a, b, k) = IF \E j \in 0 .. (k - 1) : From(j, k) THEN 1 ELSE 0
  BY DEF Carry
<1>1. \A k \in 0 .. 16 : Carry(a, b, k) \in 0 .. 1
  BY <1>0
<1>2. Carry(a, b, 0) = 0
  BY <1>0
<1>3. ASSUME NEW k \in Index
      PROVE  Carry(a, b, k + 1) = (a[k] + b[k] + Carry(a, b, k)) \div 256
  <2>1. /\ a[k] \in 0 .. 255 /\ b[k] \in 0 .. 255 /\ k \in 0 .. 16 /\ k + 1 \in 0 .. 16
        /\ k \in 0 .. 15
    BY ByteAt, PlaceOf, ZenonT(60)
  <2>2. From(k, k + 1) <=> a[k] + b[k] > 255
    BY <2>1
  <2>3. ASSUME NEW j \in 0 .. (k - 1)
        PROVE  From(j, k + 1) <=> From(j, k) /\ a[k] + b[k] >= 255
    <3>1. (j + 1) .. ((k + 1) - 1) = ((j + 1) .. (k - 1)) \cup {k}
      BY <2>1
    <3>2. (\A m \in (j + 1) .. ((k + 1) - 1) : a[m] + b[m] >= 255) <=>
             ((\A m \in (j + 1) .. (k - 1) : a[m] + b[m] >= 255) /\ a[k] + b[k] >= 255)
      BY <3>1, Zenon
    <3> QED BY <3>2
  <2> HIDE DEF From
  <2>4. (\E j \in 0 .. ((k + 1) - 1) : From(j, k + 1)) <=>
           (a[k] + b[k] > 255 \/ (a[k] + b[k] >= 255 /\ \E j \in 0 .. (k - 1) : From(j, k)))
    <3>1. 0 .. ((k + 1) - 1) = (0 .. (k - 1)) \cup {k}
      BY <2>1
    <3>2. (\E j \in 0 .. ((k + 1) - 1) : From(j, k + 1)) <=>
             (From(k, k + 1) \/ \E j \in 0 .. (k - 1) : From(j, k + 1))
      BY <3>1, Zenon
    <3>3. (\E j \in 0 .. (k - 1) : From(j, k + 1)) <=>
             (a[k] + b[k] >= 255 /\ \E j \in 0 .. (k - 1) : From(j, k))
      BY <2>3, Zenon
    <3> QED BY <3>2, <3>3, <2>2
  <2>7. /\ Carry(a, b, k) = IF \E j \in 0 .. (k - 1) : From(j, k) THEN 1 ELSE 0
        /\ Carry(a, b, k + 1) = IF \E j \in 0 .. ((k + 1) - 1) : From(j, k + 1) THEN 1 ELSE 0
    <3>1. \A n \in 0 .. 16 : Carry(a, b, n) = IF \E j \in 0 .. (n - 1) : From(j, n) THEN 1 ELSE 0
      BY <1>0
    <3>2. k \in 0 .. 16 /\ k + 1 \in 0 .. 16
      BY <2>1
    <3>3. Carry(a, b, k) = IF \E j \in 0 .. (k - 1) : From(j, k) THEN 1 ELSE 0
      BY <3>1, <3>2
    <3>4. Carry(a, b, k + 1) = IF \E j \in 0 .. ((k + 1) - 1) : From(j, k + 1) THEN 1 ELSE 0
      BY <3>1, <3>2
    <3> QED BY <3>3, <3>4
  <2>8. a[k] \in Int /\ b[k] \in Int /\ a[k] + b[k] \in 0 .. 510
    <3>1. a[k] \in 0 .. 255 /\ b[k] \in 0 .. 255
      BY <2>1
    <3>2. a[k] \in Int /\ b[k] \in Int
      BY <3>1
    <3>3. \A x, y \in 0 .. 255 : x + y \in 0 .. 510
      OBVIOUS
    <3>4. a[k] + b[k] \in 0 .. 510
      BY <3>1, <3>3, ZenonT(60)
    <3> QED BY <3>2, <3>4
  <2>5. CASE \E j \in 0 .. (k - 1) : From(j, k)
    <3>1. Carry(a, b, k) = 1
      BY <2>7, <2>5, Zenon
    <3>2. CASE a[k] + b[k] >= 255
      <4>1. Carry(a, b, k + 1) = 1
        BY <2>7, <2>4, <2>5, <3>2, Zenon
      <4> QED BY <3>1, <3>2, <4>1, <2>8
    <3>3. CASE ~(a[k] + b[k] >= 255)
      <4>1. ~(a[k] + b[k] > 255)
        BY <2>8, <3>3
      <4>2. Carry(a, b, k + 1) = 0
        BY <2>7, <2>4, <3>3, <4>1, Zenon
      <4> QED BY <3>1, <3>3, <4>2, <2>8
    <3> QED BY <3>2, <3>3
  <2>6. CASE ~\E j \in 0 .. (k - 1) : From(j, k)
    <3>1. Carry(a, b, k) = 0
      BY <2>7, <2>6, Zenon
    <3>2. CASE a[k] + b[k] > 255
      <4>1. Carry(a, b, k + 1) = 1
        BY <2>7, <2>4, <3>2, Zenon
      <4> QED BY <3>1, <3>2, <4>1, <2>8
    <3>3. CASE ~(a[k] + b[k] > 255)
      <4>1. Carry(a, b, k + 1) = 0
        BY <2>7, <2>4, <2>6, <3>3, Zenon
      <4> QED BY <3>1, <3>3, <4>1, <2>8
    <3> QED BY <3>2, <3>3
  <2> QED BY <2>5, <2>6
<1> DEFINE c == [k \in 0 .. 16 |-> Carry(a, b, k)]
<1>4. c \in [0 .. 16 -> 0 .. 1] /\ c[0] = 0
  BY <1>1, <1>2
<1>5. \A k \in Index : c[k + 1] = (a[k] + b[k] + c[k]) \div 256
  BY <1>3 DEF Index
<1> HIDE DEF c
<1>6. Carries(a, b, c)
  BY <1>4, <1>5 DEF Carries
<1> QED BY <1>6 DEF c

(* Both sums are this one.                                                  *)
LEMMA SumFacts ==
  ASSUME NEW a \in Block, NEW b \in Block, NEW c, Carries(a, b, c)
  PROVE  /\ Sum(a, b) = Added(a, b, c)
         /\ u128_add(a, b) = Added(a, b, c)
         /\ Added(a, b, c) \in Block
<1> DEFINE C == [k \in 0 .. 16 |-> Carry(a, b, k)]
<1>1. C = c
  BY CarryCarries, CarriesUnique
<1>2. Sum(a, b) = [k \in Index |-> (a[k] + b[k] + Carry(a, b, k)) % 256]
  BY TableIs DEF Sum, Carry
<1>3. \A k \in Index : Carry(a, b, k) = c[k]
  BY <1>1 DEF Index
<1>4. Sum(a, b) = Added(a, b, c)
  BY <1>2, <1>3 DEF Added
<1> DEFINE P(d) == d = [i \in 0 .. 16 |-> IF i = 0 THEN 0 ELSE (a[i - 1] + b[i - 1] + d[i - 1]) \div 256]
           carry == CHOOSE d : P(d)
<1>5. u128_add(a, b) = Added(a, b, carry)
  BY TableIs DEF u128_add, Added
<1>6. P(c)
  <2>1. \A i \in 0 .. 16 : c[i] = IF i = 0 THEN 0 ELSE (a[i - 1] + b[i - 1] + c[i - 1]) \div 256
    <3> SUFFICES ASSUME NEW i \in 1 .. 16
                 PROVE  c[i] = (a[i - 1] + b[i - 1] + c[i - 1]) \div 256
      BY DEF Carries
    <3>1. i - 1 \in Index /\ (i - 1) + 1 = i
      BY DEF Index
    <3> QED BY <3>1 DEF Carries
  <2> QED BY <2>1 DEF Carries
<1> HIDE DEF P
<1>7. P(carry)
  BY <1>6, Zenon
<1> HIDE DEF carry
<1>8. carry = c
  <2> DEFINE S == {k \in 0 .. 16 : carry[k] = c[k]}
  <2>0. ASSUME NEW d, P(d)
        PROVE  d[0] = 0 /\ \A k \in Index : d[k + 1] = (a[k] + b[k] + d[k]) \div 256
    <3>1. \A i \in 0 .. 16 : d[i] = IF i = 0 THEN 0 ELSE (a[i - 1] + b[i - 1] + d[i - 1]) \div 256
      BY <2>0, Zenon DEF P
    <3>2. \A k \in Index : k + 1 \in 1 .. 16 /\ (k + 1) - 1 = k
      BY DEF Index
    <3> QED BY <3>1, <3>2
  <2>1. 0 \in S
    BY <1>6, <1>7, <2>0
  <2>2. \A k \in Index : k \in S => k + 1 \in S
    BY <1>6, <1>7, <2>0 DEF Index
  <2> HIDE DEF S
  <2>3. 0 .. 16 \subseteq S
    BY <2>1, <2>2, HandedOn
  <2>4. \A k \in 0 .. 16 : carry[k] = c[k]
    BY <2>3 DEF S
  <2>5. DOMAIN carry = 0 .. 16 /\ carry = [k \in 0 .. 16 |-> carry[k]]
    <3> DEFINE g == [i \in 0 .. 16 |-> IF i = 0 THEN 0 ELSE (a[i - 1] + b[i - 1] + carry[i - 1]) \div 256]
    <3>1. carry = g
      BY <1>7 DEF P
    <3>2. DOMAIN g = 0 .. 16 /\ g = [k \in 0 .. 16 |-> g[k]]
      OBVIOUS
    <3> HIDE DEF g
    <3> QED BY <3>1, <3>2
  <2> QED BY <2>4, <2>5 DEF Carries
<1>9. Added(a, b, c) \in Block
  <2>1. \A k \in Index : a[k] \in Byte /\ b[k] \in Byte
    BY DEF Block
  <2>2. \A k \in Index : c[k] \in 0 .. 1
    <3>1. c \in [0 .. 16 -> 0 .. 1]
      BY DEF Carries
    <3> QED BY <3>1 DEF Index
  <2>3. \A k \in Index : (a[k] + b[k] + c[k]) % 256 \in Byte
    <3> SUFFICES ASSUME NEW k \in Index  PROVE (a[k] + b[k] + c[k]) % 256 \in Byte
      OBVIOUS
    <3>1. a[k] + b[k] + c[k] \in Int
      <4>1. a[k] \in 0 .. 255 /\ b[k] \in 0 .. 255 /\ c[k] \in 0 .. 1
        BY <2>1, <2>2 DEF Byte
      <4>2. \A x, y \in 0 .. 255, z \in 0 .. 1 : x + y + z \in Int
        OBVIOUS
      <4> QED BY <4>1, <4>2, Zenon
    <3> QED BY <3>1, LowByte
  <2> QED BY <2>3 DEF Added, Block
<1> QED BY <1>4, <1>5, <1>8, <1>9

LEMMA AddIsSum ==
  ASSUME NEW a \in Block, NEW b \in Block
  PROVE  u128_add(a, b) = Sum(a, b) /\ Sum(a, b) \in Block
  BY CarryCarries, SumFacts

-----------------------------------------------------------------------------
(* Counting.                                                                *)

LEMMA NumberFacts ==
  ASSUME NEW n \in Nat
  PROVE  Number(n) \in Block /\ \A a : u128_add32(a, n) = u128_add(a, Number(n))
<1>1. \A a : u128_add32(a, n) = u128_add(a, Number(n))
  BY DEF u128_add32, Number
<1> DEFINE power(i) == 256^i
<1>2. \A i \in Index : i < 4 => power(i) \in Nat \ {0}
  <2>1. power(0) = 1 /\ power(1) = 256 /\ power(2) = 65536 /\ power(3) = 16777216
    OBVIOUS
  <2> HIDE DEF power
  <2>2. power(0) \in Nat \ {0} /\ power(1) \in Nat \ {0} /\ power(2) \in Nat \ {0} /\ power(3) \in Nat \ {0}
    BY <2>1
  <2>3. \A i \in Index : i < 4 => i = 0 \/ i = 1 \/ i = 2 \/ i = 3
    BY DEF Index
  <2> QED BY <2>2, <2>3
<1> HIDE DEF power
<1>3. ASSUME NEW i \in Index  PROVE (IF i < 4 THEN (n \div power(i)) % 256 ELSE 0) \in Byte
  <2>1. \A d \in Nat \ {0} : n \div d \in Int
    OBVIOUS
  <2>2. i < 4 => n \div power(i) \in Int
    BY <1>2, <2>1
  <2>3. i < 4 => (n \div power(i)) % 256 \in Byte
    BY <2>2, LowByte
  <2>4. 0 \in Byte
    BY DEF Byte
  <2> QED BY <2>3, <2>4
<1>4. Number(n) = [i \in Index |-> IF i < 4 THEN (n \div power(i)) % 256 ELSE 0]
  BY DEF Number, power
<1> QED BY <1>1, <1>3, <1>4 DEF Block

(* The bytes of a number.                                                   *)
Digit(m, k) == (m \div 256^k) % 256

LEMMA NumberBytes ==
  ASSUME NEW m \in Nat
  PROVE  /\ Number(m)[0] = Digit(m, 0) /\ Number(m)[1] = Digit(m, 1)
         /\ Number(m)[2] = Digit(m, 2) /\ Number(m)[3] = Digit(m, 3)
         /\ \A k \in Index : k >= 4 => Number(m)[k] = 0
<1>1. Number(m) = [k \in Index |-> IF k < 4 THEN Digit(m, k) ELSE 0]
  BY Zenon DEF Number, Digit
<1>2. /\ 0 \in Index /\ 1 \in Index /\ 2 \in Index /\ 3 \in Index
      /\ 0 < 4 /\ 1 < 4 /\ 2 < 4 /\ 3 < 4
      /\ \A k \in Index : k >= 4 => ~(k < 4)
  BY DEF Index
<1> QED BY <1>1, <1>2

(* Adding one: the carry goes as far as there are bytes of 255.             *)
LEMMA OneMore ==
  ASSUME NEW a \in Block
  PROVE  Sum(a, Number(1)) =
           [k \in Index |-> (a[k] + IF \A m \in 0 .. (k - 1) : a[m] = 255 THEN 1 ELSE 0) % 256]
<1> DEFINE one == Number(1)
           Full(k) == \A m \in 0 .. (k - 1) : a[m] = 255
           c == [k \in 0 .. 16 |-> IF k # 0 /\ Full(k) THEN 1 ELSE 0]
<1>1. one \in Block /\ one[0] = 1 /\ \A k \in Index : k # 0 => one[k] = 0
  <2>1. one \in Block
    BY NumberFacts
  <2>2. 256^0 = 1 /\ 256^1 = 256 /\ 256^2 = 65536 /\ 256^3 = 16777216
    OBVIOUS
  <2>3. /\ (1 \div 1) % 256 = 1 /\ (1 \div 256) % 256 = 0 /\ (1 \div 65536) % 256 = 0
        /\ (1 \div 16777216) % 256 = 0
    OBVIOUS
  <2>4. Digit(1, 0) = 1 /\ Digit(1, 1) = 0 /\ Digit(1, 2) = 0 /\ Digit(1, 3) = 0
    BY <2>2, <2>3 DEF Digit
  <2>5. \A k \in Index : k = 0 \/ k = 1 \/ k = 2 \/ k = 3 \/ k >= 4
    BY DEF Index
  <2> HIDE DEF one
  <2>6. one[0] = 1 /\ one[1] = 0 /\ one[2] = 0 /\ one[3] = 0 /\ \A k \in Index : k >= 4 => one[k] = 0
    BY <2>4, NumberBytes DEF one
  <2>7. \A k \in Index : k # 0 => one[k] = 0
    BY <2>5, <2>6, Zenon
  <2> QED BY <2>1, <2>6, <2>7, Zenon
<1>2. \A k \in Index : a[k] \in 0 .. 255
  BY DEF Block, Byte
<1>3. ASSUME NEW k \in Index  PROVE c[k + 1] = (a[k] + one[k] + c[k]) \div 256
  <2>1. k \in 0 .. 15 /\ k \in 0 .. 16 /\ k + 1 \in 0 .. 16
    BY DEF Index
  <2>2. Full(k + 1) <=> Full(k) /\ a[k] = 255
    <3> DEFINE S == 0 .. ((k + 1) - 1)
               T == 0 .. (k - 1)
    <3>1. S = T \cup {k}
      BY <2>1
    <3> HIDE DEF S, T
    <3>2. (\A m \in S : a[m] = 255) <=> (\A m \in T : a[m] = 255) /\ a[k] = 255
      BY <3>1
    <3> QED BY <3>2, Zenon DEF S, T
  <2>3. Full(0)
    OBVIOUS
  <2>4. one[k] + c[k] = IF Full(k) THEN 1 ELSE 0
    BY <1>1, <2>1, <2>3
  <2>5. c[k + 1] = IF Full(k + 1) THEN 1 ELSE 0
    BY <2>1
  <2> HIDE DEF Full, c, one
  <2>6. one[k] \in Int /\ c[k] \in Int
    BY <1>1, <2>1 DEF c
  <2>7. a[k] + one[k] + c[k] = a[k] + (one[k] + c[k])
    BY <1>2, <2>6
  <2>8. CASE Full(k) /\ a[k] = 255
    BY <2>2, <2>4, <2>5, <2>7, <2>8
  <2>9. CASE Full(k) /\ a[k] # 255
    <3>1. (a[k] + 1) \div 256 = 0
      BY <1>2, <2>9
    <3> QED BY <2>2, <2>4, <2>5, <2>7, <2>9, <3>1
  <2>10. CASE ~Full(k)
    <3>1. (a[k] + 0) \div 256 = 0
      BY <1>2
    <3> QED BY <2>2, <2>4, <2>5, <2>7, <2>10, <3>1
  <2> QED BY <2>8, <2>9, <2>10
<1>4. c \in [0 .. 16 -> 0 .. 1] /\ c[0] = 0
  OBVIOUS
<1>5. \A k \in Index : a[k] + one[k] + c[k] = a[k] + IF Full(k) THEN 1 ELSE 0
  <2> SUFFICES ASSUME NEW k \in Index  PROVE a[k] + one[k] + c[k] = a[k] + IF Full(k) THEN 1 ELSE 0
    OBVIOUS
  <2>1. k \in 0 .. 16 /\ Full(0)
    BY DEF Index
  <2>2. one[k] + c[k] = (IF Full(k) THEN 1 ELSE 0) /\ one[k] \in Int /\ c[k] \in Int
    BY <1>1, <2>1
  <2>3. \A x, y, z \in Int : x + y + z = x + (y + z)
    OBVIOUS
  <2>4. a[k] \in Int
    BY <1>2
  <2> HIDE DEF Full, c, one
  <2>5. a[k] + one[k] + c[k] = a[k] + (one[k] + c[k])
    BY <2>2, <2>3, <2>4, Zenon
  <2> QED BY <2>2, <2>5
<1> HIDE DEF c, one
<1>6. Carries(a, one, c)
  BY <1>3, <1>4 DEF Carries
<1>7. Sum(a, one) = Added(a, one, c)
  BY <1>1, <1>6, SumFacts
<1> QED BY <1>5, <1>7 DEF Added, one

(* Addition is associative, carry by carry.                                 *)
LEMMA SumAssociative ==
  ASSUME NEW a \in Block, NEW b \in Block, NEW d \in Block
  PROVE  Sum(Sum(a, b), d) = Sum(a, Sum(b, d))
<1> DEFINE ab == Sum(a, b)
           bd == Sum(b, d)
<1>1. ab \in Block /\ bd \in Block
  BY AddIsSum
<1>2. PICK c1 : Carries(a, b, c1)
  BY CarryCarries
<1>3. PICK c2 : Carries(ab, d, c2)
  BY <1>1, CarryCarries
<1>4. PICK c3 : Carries(b, d, c3)
  BY CarryCarries
<1>5. PICK c4 : Carries(a, bd, c4)
  BY <1>1, CarryCarries
<1>6. /\ ab = Added(a, b, c1) /\ Sum(ab, d) = Added(ab, d, c2)
      /\ bd = Added(b, d, c3) /\ Sum(a, bd) = Added(a, bd, c4)
  BY <1>1, <1>2, <1>3, <1>4, <1>5, SumFacts
<1> HIDE DEF ab, bd
<1> DEFINE S == {k \in 0 .. 16 : c1[k] + c2[k] = c3[k] + c4[k]}
<1>7. 0 \in S
  BY <1>2, <1>3, <1>4, <1>5 DEF Carries
<1>8. ASSUME NEW k \in Index, k \in S
      PROVE  /\ k + 1 \in S
             /\ (ab[k] + d[k] + c2[k]) % 256 = (a[k] + bd[k] + c4[k]) % 256
  <2>1. /\ a[k] \in 0 .. 255 /\ b[k] \in 0 .. 255 /\ d[k] \in 0 .. 255
        /\ ab[k] \in 0 .. 255 /\ bd[k] \in 0 .. 255 /\ k \in 0 .. 16 /\ k + 1 \in 0 .. 16
    <3>1. /\ a[k] \in 0 .. 255 /\ b[k] \in 0 .. 255 /\ d[k] \in 0 .. 255
          /\ k \in 0 .. 16 /\ k + 1 \in 0 .. 16
      BY ByteAt, PlaceOf
    <3>2. ab[k] \in 0 .. 255
      BY <1>1, ByteAt
    <3>3. bd[k] \in 0 .. 255
      BY <1>1, ByteAt
    <3> QED BY <3>1, <3>2, <3>3, Zenon
  <2>2. /\ c1[k] \in 0 .. 1 /\ c2[k] \in 0 .. 1 /\ c3[k] \in 0 .. 1 /\ c4[k] \in 0 .. 1
    BY <1>2, <1>3, <1>4, <1>5, <2>1 DEF Carries
  <2>3. /\ c1[k + 1] = (a[k] + b[k] + c1[k]) \div 256
        /\ c2[k + 1] = (ab[k] + d[k] + c2[k]) \div 256
        /\ c3[k + 1] = (b[k] + d[k] + c3[k]) \div 256
        /\ c4[k + 1] = (a[k] + bd[k] + c4[k]) \div 256
    BY <1>2, <1>3, <1>4, <1>5 DEF Carries
  <2>4. /\ ab[k] = (a[k] + b[k] + c1[k]) % 256
        /\ bd[k] = (b[k] + d[k] + c3[k]) % 256
    BY <1>6 DEF Added
  <2>5. c1[k] + c2[k] = c3[k] + c4[k]
    BY <1>8
  <2> DEFINE x == a[k]
             y == b[k]
             z == d[k]
             u == ab[k]
             v == bd[k]
             p1 == c1[k]
             p2 == c2[k]
             p3 == c3[k]
             p4 == c4[k]
  <2>6. /\ (x + y + p1) \div 256 + (u + z + p2) \div 256 = (y + z + p3) \div 256 + (x + v + p4) \div 256
        /\ (u + z + p2) % 256 = (x + v + p4) % 256
    <3>1. /\ x \in 0 .. 255 /\ y \in 0 .. 255 /\ z \in 0 .. 255 /\ u \in 0 .. 255 /\ v \in 0 .. 255
          /\ p1 \in 0 .. 1 /\ p2 \in 0 .. 1 /\ p3 \in 0 .. 1 /\ p4 \in 0 .. 1
          /\ u = (x + y + p1) % 256 /\ v = (y + z + p3) % 256 /\ p1 + p2 = p3 + p4
      BY <2>1, <2>2, <2>4, <2>5, Zenon
    <3> HIDE DEF x, y, z, u, v, p1, p2, p3, p4
    <3> QED BY <3>1
  <2>7. /\ c1[k + 1] + c2[k + 1] = c3[k + 1] + c4[k + 1]
        /\ (ab[k] + d[k] + c2[k]) % 256 = (a[k] + bd[k] + c4[k]) % 256
    BY <2>3, <2>6, Zenon
  <2> QED BY <2>1, <2>7
<1> HIDE DEF S
<1>9. \A k \in Index : k \in S
  BY <1>7, <1>8, HandedOn DEF Index
<1>10. \A k \in Index : (ab[k] + d[k] + c2[k]) % 256 = (a[k] + bd[k] + c4[k]) % 256
  BY <1>8, <1>9
<1>11. Sum(ab, d) = Sum(a, bd)
  BY <1>6, <1>10 DEF Added
<1> QED BY <1>11 DEF ab, bd

(* The next number is one more, as long as it is one of four bytes.         *)
LEMMA NextNumber ==
  ASSUME NEW n \in Nat, IsU32(n + 1)
  PROVE  Number(n + 1) = Sum(Number(n), Number(1))
<1> DEFINE a == Number(n)
           Next(k) == (a[k] + IF \A m \in 0 .. (k - 1) : a[m] = 255 THEN 1 ELSE 0) % 256
<1>1. n \in Nat
  OBVIOUS
<1>2. 256^0 = 1 /\ 256^1 = 256 /\ 256^2 = 65536 /\ 256^3 = 16777216
  OBVIOUS
<1>3. n \div 16777216 < 256 /\ (n + 1) \div 16777216 < 256
  BY DEF IsU32
<1> DEFINE b0 == Digit(n, 0)
           b1 == Digit(n, 1)
           b2 == Digit(n, 2)
           b3 == Digit(n, 3)
           r0 == Digit(n + 1, 0)
           r1 == Digit(n + 1, 1)
           r2 == Digit(n + 1, 2)
           r3 == Digit(n + 1, 3)
<1>4. r0 = (b0 + 1) % 256 /\ (b0 = 255 => r1 = (b1 + 1) % 256) /\ (b0 # 255 => r1 = (b1 + 0) % 256)
  BY <1>2 DEF Digit
<1>5. IF b0 = 255 /\ b1 = 255 THEN r2 = (b2 + 1) % 256 ELSE r2 = (b2 + 0) % 256
  BY <1>2 DEF Digit
<1>6. IF b0 = 255 /\ b1 = 255 /\ b2 = 255 THEN r3 = (b3 + 1) % 256 ELSE r3 = (b3 + 0) % 256
  BY <1>2, SMTT(60) DEF Digit
<1>7. ~(b0 = 255 /\ b1 = 255 /\ b2 = 255 /\ b3 = 255)
  BY <1>2, <1>3 DEF Digit
<1>8. /\ a[0] = b0 /\ a[1] = b1 /\ a[2] = b2 /\ a[3] = b3
      /\ \A k \in Index : k >= 4 => a[k] = 0
  BY <1>1, NumberBytes
<1>9. n + 1 \in Nat
  OBVIOUS
<1> DEFINE r == Number(n + 1)
<1>10. /\ r[0] = r0 /\ r[1] = r1 /\ r[2] = r2 /\ r[3] = r3
       /\ \A k \in Index : k >= 4 => r[k] = 0
  BY NumberBytes, <1>9
<1>11. Sum(a, Number(1)) = [k \in Index |-> Next(k)]
  BY NumberFacts, OneMore
<1>12. r = [k \in Index |-> r[k]]
  BY <1>9, NumberFacts DEF Block
<1>13. \A k : /\ (\A m \in 0 .. (k - 1) : a[m] = 255) => Next(k) = (a[k] + 1) % 256
              /\ ~(\A m \in 0 .. (k - 1) : a[m] = 255) => Next(k) = (a[k] + 0) % 256
  BY Zenon
<1> HIDE DEF a, r, Next, b0, b1, b2, b3, r0, r1, r2, r3
<1>14. ASSUME NEW k \in Index  PROVE r[k] = Next(k)
  <2>1. CASE k = 0
    <3>1. \A m : ~(m \in 0 .. (0 - 1))
      OBVIOUS
    <3>2. Next(0) = (b0 + 1) % 256
      BY <1>8, <1>13, <3>1, Zenon
    <3> QED BY <1>10, <1>4, <2>1, <3>2, Zenon
  <2>2. CASE k = 1
    <3>1. \A m : m \in 0 .. (1 - 1) <=> m = 0
      OBVIOUS
    <3>2. (\A m \in 0 .. (1 - 1) : a[m] = 255) <=> b0 = 255
      BY <1>8, <3>1
    <3>3. IF b0 = 255 THEN Next(1) = (b1 + 1) % 256 ELSE Next(1) = (b1 + 0) % 256
      BY <1>13, <1>8, <3>2, ZenonT(60)
    <3> QED BY <1>10, <1>4, <2>2, <3>3, Zenon
  <2>3. CASE k = 2
    <3>1. \A m : m \in 0 .. (2 - 1) <=> m = 0 \/ m = 1
      OBVIOUS
    <3>2. (\A m \in 0 .. (2 - 1) : a[m] = 255) <=> b0 = 255 /\ b1 = 255
      BY <1>8, <3>1
    <3>3. IF b0 = 255 /\ b1 = 255 THEN Next(2) = (b2 + 1) % 256 ELSE Next(2) = (b2 + 0) % 256
      BY <1>13, <1>8, <3>2, ZenonT(60)
    <3> QED BY <1>10, <1>5, <2>3, <3>3, Zenon
  <2>4. CASE k = 3
    <3>1. \A m : m \in 0 .. (3 - 1) <=> m = 0 \/ m = 1 \/ m = 2
      OBVIOUS
    <3>2. (\A m \in 0 .. (3 - 1) : a[m] = 255) <=> b0 = 255 /\ b1 = 255 /\ b2 = 255
      BY <1>8, <3>1
    <3>3. IF b0 = 255 /\ b1 = 255 /\ b2 = 255 THEN Next(3) = (b3 + 1) % 256 ELSE Next(3) = (b3 + 0) % 256
      BY <1>13, <1>8, <3>2, ZenonT(60)
    <3> QED BY <1>10, <1>6, <2>4, <3>3, Zenon
  <2>5. CASE k >= 4
    <3>1. 0 \in 0 .. (k - 1) /\ 1 \in 0 .. (k - 1) /\ 2 \in 0 .. (k - 1) /\ 3 \in 0 .. (k - 1)
      BY <2>5 DEF Index
    <3>2. ~(a[0] = 255 /\ a[1] = 255 /\ a[2] = 255 /\ a[3] = 255)
      BY <1>8, <1>7, Zenon
    <3>3. ~\A m \in 0 .. (k - 1) : a[m] = 255
      BY <3>1, <3>2
    <3>4. Next(k) = (a[k] + 0) % 256
      BY <1>13, <3>3, Zenon
    <3>5. a[k] = 0 /\ r[k] = 0
      BY <1>8, <1>10, <2>5
    <3> QED BY <3>4, <3>5
  <2> QED BY <2>1, <2>2, <2>3, <2>4, <2>5 DEF Index
<1>15. r = [k \in Index |-> Next(k)]
  BY <1>12, <1>14
<1> QED BY <1>11, <1>15 DEF a, r

(* Starting later is counting on.                                           *)
LEMMA SumNext ==
  ASSUME NEW a \in Block, NEW n \in Nat, IsU32(n + 1)
  PROVE  u128_add32(Sum(a, Number(n)), 1) = Sum(a, Number(n + 1))
<1>1. Number(n) \in Block /\ Number(1) \in Block /\ Sum(a, Number(n)) \in Block
  BY NumberFacts, AddIsSum
<1>2. u128_add32(Sum(a, Number(n)), 1) = Sum(Sum(a, Number(n)), Number(1))
  BY <1>1, NumberFacts, AddIsSum
<1> QED BY <1>1, <1>2, NextNumber, SumAssociative

(* Counting on by nothing.                                                  *)
LEMMA SumZero ==
  ASSUME NEW a \in Block
  PROVE  Sum(a, Number(0)) = a
<1> DEFINE z == Number(0)
           c == [k \in 0 .. 16 |-> 0]
<1>1. z \in Block
  BY NumberFacts
<1>2. \A k \in Index : z[k] = 0
  <2>1. \A d \in Nat \ {0} : (0 \div d) % 256 = 0
    OBVIOUS
  <2>2. 256^0 = 1 /\ 256^1 = 256 /\ 256^2 = 65536 /\ 256^3 = 16777216
    OBVIOUS
  <2>3. Digit(0, 0) = 0 /\ Digit(0, 1) = 0 /\ Digit(0, 2) = 0 /\ Digit(0, 3) = 0
    BY <2>1, <2>2 DEF Digit
  <2>4. \A k \in Index : k = 0 \/ k = 1 \/ k = 2 \/ k = 3 \/ k >= 4
    BY DEF Index
  <2> HIDE DEF z
  <2>5. z[0] = 0 /\ z[1] = 0 /\ z[2] = 0 /\ z[3] = 0 /\ \A k \in Index : k >= 4 => z[k] = 0
    BY <2>3, NumberBytes DEF z
  <2> QED BY <2>4, <2>5, Zenon
<1> HIDE DEF z
<1>3. \A k \in Index : a[k] \in 0 .. 255
  BY DEF Block, Byte
<1>4. \A x \in 0 .. 255 : x + 0 + 0 = x /\ x \div 256 = 0 /\ x % 256 = x
  OBVIOUS
<1>5. \A k \in Index : (a[k] + z[k] + 0) \div 256 = 0 /\ (a[k] + z[k] + 0) % 256 = a[k]
  BY <1>2, <1>3, <1>4
<1>6. \A k \in Index : c[k] = 0 /\ c[k + 1] = 0
  BY DEF Index
<1>7. Carries(a, z, c)
  BY <1>5, <1>6 DEF Carries
<1>8. Sum(a, z) = Added(a, z, c)
  BY <1>1, <1>7, SumFacts
<1>9. \A k \in Index : (a[k] + z[k] + c[k]) % 256 = a[k]
  BY <1>5, <1>6
<1>10. Added(a, z, c) = a
  BY <1>9 DEF Added, Block
<1> QED BY <1>8, <1>10 DEF z

-----------------------------------------------------------------------------
(* The other order of bytes, and counting in it.                            *)
LEMMA SwapFacts ==
  ASSUME NEW a
  PROVE  u128_swap(a) = [i \in Index |-> a[15 - i]]
  BY TableIs DEF u128_swap

LEMMA SwapsBack ==
  ASSUME NEW a \in Block
  PROVE  u128_swap(a) \in Block /\ u128_swap(u128_swap(a)) = a
<1>1. \A i \in Index : 15 - i \in Index /\ 15 - (15 - i) = i
  BY DEF Index
<1>2. u128_swap(a) = [i \in Index |-> a[15 - i]]
  BY SwapFacts
<1>3. u128_swap(a) \in Block
  BY <1>1, <1>2 DEF Block
<1>4. u128_swap(u128_swap(a)) = [i \in Index |-> u128_swap(a)[15 - i]]
  BY SwapFacts
<1>5. \A i \in Index : u128_swap(a)[15 - i] = a[i]
  BY <1>1, <1>2
<1> QED BY <1>3, <1>4, <1>5 DEF Block

LEMMA CountSwapped ==
  ASSUME NEW a \in Block
  PROVE  [i \in Index |-> (u128_swap(a)[i] + IF Ones(u128_swap(a), (i + 1) .. 15) THEN 1 ELSE 0) % 256]
           = u128_swap(u128_add32(a, 1))
<1> DEFINE b == u128_swap(a)
           Full(k) == \A m \in 0 .. (k - 1) : a[m] = 255
           s == u128_add32(a, 1)
<1>1. \A i \in Index : b[i] = a[15 - i] /\ 15 - i \in Index
  BY SwapFacts DEF Index
<1>2. \A k \in Index : s[k] = (a[k] + IF Full(k) THEN 1 ELSE 0) % 256
  <2>1. s = Sum(a, Number(1))
    BY NumberFacts, AddIsSum
  <2> QED BY <2>1, OneMore
<1>3. \A i \in Index : Ones(b, (i + 1) .. 15) <=> Full(15 - i)
  <2> SUFFICES ASSUME NEW i \in Index  PROVE Ones(b, (i + 1) .. 15) <=> Full(15 - i)
    OBVIOUS
  <2> HIDE DEF b
  <2>1. ASSUME NEW j \in (i + 1) .. 15  PROVE 15 - j \in 0 .. ((15 - i) - 1) /\ b[j] = a[15 - j]
    BY <1>1 DEF Index
  <2>2. ASSUME NEW m \in 0 .. ((15 - i) - 1)  PROVE 15 - m \in (i + 1) .. 15 /\ 15 - (15 - m) = m
    BY DEF Index
  <2>3. ASSUME Full(15 - i)  PROVE Ones(b, (i + 1) .. 15)
    BY <2>1, <2>3 DEF Ones
  <2>4. ASSUME Ones(b, (i + 1) .. 15)  PROVE Full(15 - i)
    BY <2>1, <2>2, <2>4 DEF Ones
  <2> QED BY <2>3, <2>4
<1>4. u128_swap(s) = [i \in Index |-> s[15 - i]]
  BY SwapFacts
<1> HIDE DEF b, s, Full
<1>5. ASSUME NEW i \in Index
      PROVE  (b[i] + IF Ones(b, (i + 1) .. 15) THEN 1 ELSE 0) % 256 = s[15 - i]
  <2>1. b[i] = a[15 - i] /\ 15 - i \in Index /\ (Ones(b, (i + 1) .. 15) <=> Full(15 - i))
    BY <1>1, <1>3
  <2>2. s[15 - i] = (a[15 - i] + IF Full(15 - i) THEN 1 ELSE 0) % 256
    BY <1>2, <2>1
  <2> QED BY <2>1, <2>2
<1>6. [i \in Index |-> (b[i] + IF Ones(b, (i + 1) .. 15) THEN 1 ELSE 0) % 256] = u128_swap(s)
  BY <1>4, <1>5
<1> QED BY <1>6 DEF b, s

-----------------------------------------------------------------------------
(* Contexts.                                                                *)
IsContext(c) == {"aes", "ctr", "mac", "S0"} \subseteq DOMAIN c

LEMMA SetCtrFacts ==
  ASSUME NEW c, IsContext(c), NEW n
  PROVE  /\ IsContext(dsi_set_ctr(c, n)) /\ dsi_set_ctr(c, n).aes = c.aes
         /\ dsi_set_ctr(c, n).ctr = u128_swap(n)
  BY DEF IsContext, dsi_set_ctr

LEMMA SetKeyFacts ==
  ASSUME NEW c, IsContext(c), NEW n
  PROVE  IsContext(dsi_set_key(c, n)) /\ dsi_set_key(c, n).ctr = c.ctr
  BY DEF IsContext, dsi_set_key

LEMMA AfterFacts ==
  ASSUME NEW c, IsContext(c)
  PROVE  /\ IsContext(AfterCtrBlock(c)) /\ AfterCtrBlock(c).aes = c.aes
         /\ AfterCtrBlock(c).ctr = [i \in Index |-> (c.ctr[i] + IF Ones(c.ctr, (i + 1) .. 15) THEN 1 ELSE 0) % 256]
  BY DEF IsContext, AfterCtrBlock, dsi_add_ctr

(* A counter of the context that stands at the counter n moves to the next. *)
LEMMA ContextCounts ==
  ASSUME NEW c, IsContext(c), NEW n \in Block, c.ctr = u128_swap(n)
  PROVE  AfterCtrBlock(c).ctr = u128_swap(u128_add32(n, 1))
  BY AfterFacts, CountSwapped

(* A block that was encrypted at the counter n.                             *)
EncryptedAt(n, aes, content, block) ==
  \A stream \in {aes_crypt_ecb(aes, "encrypt", [j \in Index |-> n[15 - j]])} :
    \A j \in Index : block[j] = Xor(stream[15 - j], content[j])

LEMMA BlockFacts ==
  ASSUME NEW c, NEW n, c.ctr = u128_swap(n), NEW content
  PROVE  EncryptedAt(n, c.aes, content, CtrBlock(c, content))
<1> DEFINE stream == aes_crypt_ecb(c.aes, "encrypt", [j \in Index |-> n[15 - j]])
<1>1. u128_swap(n) = [j \in Index |-> n[15 - j]]
  BY SwapFacts
<1>2. aes_crypt_ecb(c.aes, "encrypt", c.ctr) = stream
  BY <1>1
<1> HIDE DEF stream
<1>3. u128_swap(stream) = [j \in Index |-> stream[15 - j]]
  BY SwapFacts
<1>4. CtrBlock(c, content) = [j \in Index |-> Xor(u128_swap(stream)[j], content[j])]
  BY <1>2, TableIs DEF CtrBlock, Stream, XorBlock
<1>5. \A j \in Index : CtrBlock(c, content)[j] = Xor(stream[15 - j], content[j])
  BY <1>3, <1>4
<1> QED BY <1>5 DEF stream, EncryptedAt

-----------------------------------------------------------------------------
(* Positions are of four bytes.                                             *)
LEMMA Smaller ==
  ASSUME NEW n \in Nat, NEW m \in Nat, m <= n, IsU32(n)
  PROVE  IsU32(m)
<1>1. m \div 16777216 <= n \div 16777216
  OBVIOUS
<1>2. m \div 16777216 \in Int /\ n \div 16777216 \in Int
  OBVIOUS
<1>3. n \div 16777216 < 256
  BY DEF IsU32
<1>4. \A x, y \in Int : x <= y /\ y < 256 => x < 256
  OBVIOUS
<1>5. m \div 16777216 < 256
  BY <1>1, <1>2, <1>3, <1>4
<1> QED BY <1>5 DEF IsU32

Most == CHOOSE m \in Counts \cup {0} : IsU32(CALLS * m) /\ \A count \in Counts : count <= m

LEMMA MostFacts == /\ Most \in Nat /\ IsU32(CALLS * Most) /\ \A count \in Counts : count <= Most
<1>1. \E m \in Counts \cup {0} : IsU32(CALLS * m) /\ \A count \in Counts : count <= m
  BY PositionAssumption
<1>2. /\ Most \in Counts \cup {0} /\ IsU32(CALLS * Most) /\ \A count \in Counts : count <= Most
  BY <1>1, Zenon DEF Most
<1> QED BY <1>2, PositionAssumption

(* The counter of the second boot stage is a block.                         *)
LEMMA Boot2CounterFacts ==
  ASSUME NEW n \in Nat
  PROVE  Boot2Counter(n) \in Block
<1> DEFINE b(j) == (n \div 256^j) % 256
           Negated(j) == (255 - b(j) + IF \A k \in 0 .. (j - 1) : b(k) = 0 THEN 1 ELSE 0) % 256
<1>1. Boot2Counter(n) = [i \in Index |-> IF i < 4 THEN b(i) ELSE IF i < 8 THEN Negated(i - 4)
                                         ELSE IF i < 12 THEN 255 - b(i - 8) ELSE 0]
  BY DEF Boot2Counter
<1>2. \A j \in 0 .. 3 : b(j) \in Byte
  <2>1. 256^0 = 1 /\ 256^1 = 256 /\ 256^2 = 65536 /\ 256^3 = 16777216
    OBVIOUS
  <2>2. \A j \in 0 .. 3 : j = 0 \/ j = 1 \/ j = 2 \/ j = 3
    OBVIOUS
  <2>3. n \div 1 \in Int /\ n \div 256 \in Int /\ n \div 65536 \in Int /\ n \div 16777216 \in Int
    OBVIOUS
  <2>4. n \div 256^0 \in Int /\ n \div 256^1 \in Int /\ n \div 256^2 \in Int /\ n \div 256^3 \in Int
    BY <2>1, <2>3
  <2>5. \A j \in 0 .. 3 : n \div 256^j \in Int
    BY <2>2, <2>4, ZenonT(60)
  <2> QED BY <2>5, LowByte, Zenon
<1> HIDE DEF b
<1>3. \A j \in 0 .. 3 : Negated(j) \in Byte /\ 255 - b(j) \in Byte
  BY <1>2 DEF Byte
<1> HIDE DEF Negated
<1>4. ASSUME NEW i \in Index
      PROVE  (IF i < 4 THEN b(i) ELSE IF i < 8 THEN Negated(i - 4)
                ELSE IF i < 12 THEN 255 - b(i - 8) ELSE 0) \in Byte
  <2>1. CASE i < 4
    BY <1>2, <2>1 DEF Index
  <2>2. CASE ~(i < 4) /\ i < 8
    <3>1. i - 4 \in 0 .. 3
      BY <2>2 DEF Index
    <3> QED BY <1>3, <2>2, <3>1
  <2>3. CASE ~(i < 4) /\ ~(i < 8) /\ i < 12
    <3>1. i - 8 \in 0 .. 3
      BY <2>3 DEF Index
    <3> QED BY <1>3, <2>3, <3>1
  <2>4. CASE ~(i < 4) /\ ~(i < 8) /\ ~(i < 12)
    BY <2>4 DEF Byte
  <2> QED BY <2>1, <2>2, <2>3, <2>4
<1> QED BY <1>1, <1>4 DEF Block

-----------------------------------------------------------------------------
(* The invariant: where every counter stands.  Once the digest is there,    *)
(* nand_ctr_iv is it.  The counter of a call on the chip stands at the      *)
(* position of the next block (dsi_nand_crypt_1 has one block and leaves it *)
(* at the first), that of the second boot stage at the blocks since it was  *)
(* set, and in an area of the launcher the context itself has counted from  *)
(* the header's counter on.  Positions stay within four bytes, because what *)
(* all the calls together can ask for does.                                 *)
Digest == [j \in Index |-> console.digest[j + 1]]
Ready  == cryptPc \in {"idle", "loop"}
Boot2Left == IF cryptPc = "loop" /\ call.kind = "boot2" THEN call.count - done ELSE 0

ContextInv == console \in Consoles /\ IsContext(nand_ctx) /\ IsContext(boot2_ctx) /\ IsContext(ctx)
DigestInv  == Ready => nand_ctr_iv = Digest
Boot2Inv   ==
  /\ boot2From \in Int /\ boot2Done \in Nat
  /\ boot2From >= 0 => boot2_ctr = Sum(Boot2Counter(boot2From), Number(boot2Done))
  /\ ~Ready => boot2From < 0
BudgetInv  == calls \in 0 .. CALLS /\ boot2Done + Boot2Left <= calls * Most
CallInv    ==
  cryptPc = "loop" =>
    /\ call.kind \in {"nand", "nand_1", "boot2", "modcrypt"}
    /\ call.offset \in Nat /\ call.count \in Nat /\ done \in 0 .. call.count
    /\ call.kind # "boot2" => IsU32(call.offset + call.count)
    /\ call.kind = "boot2" => boot2From >= 0
    /\ call.kind = "nand_1" => call.count = 1
    /\ call.kind = "modcrypt" => call.offset = 0 /\ call.header.ctr[call.area] \in Block
    /\ \E S : out \in Seq(S) /\ Len(out) = done
CounterInv ==
  cryptPc = "loop" =>
    /\ call.kind = "nand" => ctr = Sum(Digest, Number(call.offset + done))
    /\ call.kind = "nand_1" => ctr = Sum(Digest, Number(call.offset))
    /\ call.kind = "modcrypt" => ctx.ctr = u128_swap(Sum(call.header.ctr[call.area], Number(done)))

PositionInv == ContextInv /\ DigestInv /\ Boot2Inv /\ BudgetInv /\ CallInv /\ CounterInv

LEMMA DigestFacts == ASSUME ContextInv PROVE Digest \in Block
  BY IdentityAssumption DEF ContextInv, Digest, Block, Index

(* What the next block of the second boot stage needs.                      *)
LEMMA Boot2Next ==
  ASSUME Boot2Inv, BudgetInv, CallInv, cryptPc = "loop", call.kind = "boot2", done < call.count
  PROVE  IsU32(boot2Done + 1)
<1>1. boot2Done + (call.count - done) <= calls * Most
  BY DEF BudgetInv, Boot2Left
<1>2. boot2Done \in Nat /\ call.count \in Nat /\ done \in Nat
  BY DEF Boot2Inv, CallInv
<1>3. calls \in Nat /\ CALLS \in Nat /\ calls <= CALLS /\ Most \in Nat
  BY PositionAssumption, MostFacts DEF BudgetInv
<1>4. \A c, d, m \in Nat : c <= d => c * m <= d * m
  OBVIOUS
<1>5. \A c, m \in Nat : c * m \in Nat
  OBVIOUS
<1>6. calls * Most <= CALLS * Most /\ calls * Most \in Nat /\ CALLS * Most \in Nat
  BY <1>3, <1>4, <1>5
<1>7. boot2Done + 1 \in Nat
  BY <1>2
<1>8. \A b, c, d, m, n \in Nat : b + (c - d) <= m /\ d < c /\ m <= n => b + 1 <= n
  OBVIOUS
<1>9. boot2Done + 1 <= CALLS * Most
  BY <1>1, <1>2, <1>6, <1>8
<1> QED BY <1>6, <1>7, <1>9, MostFacts, Smaller

LEMMA PositionInit == DsiInit => PositionInv
<1> SUFFICES ASSUME DsiInit  PROVE PositionInv
  OBVIOUS
<1>1. IsContext(NoContext)
  BY DEF IsContext, NoContext
<1>2. ContextInv
  BY <1>1 DEF DsiInit, ContextInv
<1>3. DigestInv /\ Boot2Inv /\ CallInv /\ CounterInv
  BY DEF DsiInit, DigestInv, Boot2Inv, CallInv, CounterInv, Ready
<1>4. BudgetInv
  <2>1. 0 * Most = 0 /\ CALLS \in Nat
    BY MostFacts, PositionAssumption
  <2> QED BY <2>1 DEF DsiInit, BudgetInv, Boot2Left
<1> QED BY <1>2, <1>3, <1>4 DEF PositionInv

(* What no action of the start can disturb.                                 *)
LEMMA PositionStart ==
  ASSUME PositionInv, ~Ready, ~Ready',
         UNCHANGED <<console, boot2From, boot2Done, calls, ctx, boot2_ctr>>,
         IsContext(nand_ctx)', IsContext(boot2_ctx)'
  PROVE  PositionInv'
<1>1. ContextInv' /\ DigestInv' /\ Boot2Inv'
  BY DEF PositionInv, ContextInv, DigestInv, Boot2Inv, Ready
<1>2. BudgetInv'
  BY DEF PositionInv, BudgetInv, Boot2Left, Ready
<1>3. CallInv' /\ CounterInv'
  BY DEF CallInv, CounterInv, Ready
<1> QED BY <1>1, <1>2, <1>3 DEF PositionInv

LEMMA PositionReady ==
  ASSUME PositionInv, ReadIdentity \/ SetNandKey \/ SetEsKey \/ SetBoot2Key \/ SetCounter
  PROVE  PositionInv'
<1>1. IsContext(nand_ctx) /\ IsContext(boot2_ctx)
  BY DEF PositionInv, ContextInv
<1>2. CASE ReadIdentity
  <2>1. /\ ~Ready /\ ~Ready' /\ IsContext(nand_ctx)' /\ IsContext(boot2_ctx)'
        /\ UNCHANGED <<console, boot2From, boot2Done, calls, ctx, boot2_ctr>>
    BY <1>1, <1>2 DEF ReadIdentity, Ready, callVars
  <2> QED BY <2>1, PositionStart
<1>3. CASE SetNandKey
  <2>1. PICK k : nand_ctx' = dsi_set_key(nand_ctx, k)
    BY <1>3 DEF SetNandKey
  <2>2. IsContext(nand_ctx)'
    BY <1>1, <2>1, SetKeyFacts
  <2>3. /\ ~Ready /\ ~Ready' /\ IsContext(boot2_ctx)'
        /\ UNCHANGED <<console, boot2From, boot2Done, calls, ctx, boot2_ctr>>
    BY <1>1, <1>3 DEF SetNandKey, Ready, callVars
  <2> QED BY <2>2, <2>3, PositionStart
<1>4. CASE SetEsKey
  <2>1. /\ ~Ready /\ ~Ready' /\ IsContext(nand_ctx)' /\ IsContext(boot2_ctx)'
        /\ UNCHANGED <<console, boot2From, boot2Done, calls, ctx, boot2_ctr>>
    BY <1>1, <1>4 DEF SetEsKey, Ready, callVars
  <2> QED BY <2>1, PositionStart
<1>5. CASE SetBoot2Key
  <2>1. IsContext(boot2_ctx)'
    BY <1>1, <1>5, SetKeyFacts DEF SetBoot2Key
  <2>2. /\ ~Ready /\ ~Ready' /\ IsContext(nand_ctx)'
        /\ UNCHANGED <<console, boot2From, boot2Done, calls, ctx, boot2_ctr>>
    BY <1>1, <1>5 DEF SetBoot2Key, Ready, callVars
  <2> QED BY <2>1, <2>2, PositionStart
<1>6. CASE SetCounter
  <2>1. /\ ~Ready /\ cryptPc' = "idle" /\ nand_ctr_iv' = Digest
        /\ UNCHANGED <<console, boot2From, boot2Done, calls, ctx, nand_ctx, boot2_ctx>>
    BY <1>6 DEF SetCounter, Ready, Digest, callVars
  <2>2. ContextInv' /\ DigestInv' /\ Boot2Inv'
    BY <2>1 DEF PositionInv, ContextInv, DigestInv, Boot2Inv, Ready, Digest
  <2>3. BudgetInv'
    BY <2>1 DEF PositionInv, BudgetInv, Boot2Left, Ready
  <2>4. CallInv' /\ CounterInv'
    BY <2>1 DEF CallInv, CounterInv
  <2> QED BY <2>2, <2>3, <2>4 DEF PositionInv
<1> QED BY <1>2, <1>3, <1>4, <1>5, <1>6

LEMMA Appended ==
  ASSUME NEW s, NEW n \in Nat, \E S : s \in Seq(S) /\ Len(s) = n, NEW x
  PROVE  (\E S : Append(s, x) \in Seq(S) /\ Len(Append(s, x)) = n + 1) /\ Append(s, x)[n + 1] = x
<1>1. PICK S : s \in Seq(S) /\ Len(s) = n
  OBVIOUS
<1> DEFINE T == S \cup {x}
<1>2. s \in Seq(T) /\ x \in T
  BY <1>1
<1> HIDE DEF T
<1>3. Append(s, x) \in Seq(T) /\ Len(Append(s, x)) = n + 1 /\ Append(s, x)[n + 1] = x
  BY <1>1, <1>2
<1> QED BY <1>3

LEMMA PositionCall ==
  ASSUME PositionInv, CryptCall
  PROVE  PositionInv'
<1>1. PICK kind \in {"nand", "nand_1", "boot2"}, offset \in Offsets, count \in Counts, content \in Contents :
        /\ kind = "nand_1" => count = 1
        /\ kind = "boot2" => boot2From >= 0 /\ offset = 0
        /\ call' = Call(kind, offset, count, content)
        /\ ctr' = IF kind = "boot2" THEN ctr ELSE FromBlock(offset)
  BY DEF CryptCall
<1>2. /\ cryptPc = "idle" /\ cryptPc' = "loop" /\ calls < CALLS /\ calls' = calls + 1
      /\ done' = 0 /\ out' = <<>>
      /\ UNCHANGED <<console, nand_ctr_iv, boot2_ctx, nand_ctx, ctx, boot2_ctr, boot2From, boot2Done>>
  BY DEF CryptCall, keyVars
<1>3. call'.kind = kind /\ call'.offset = offset /\ call'.count = count
  BY <1>1 DEF Call
<1>4. offset \in Nat /\ count \in Nat /\ IsU32(offset + count) /\ count <= Most /\ Most \in Nat
  BY PositionAssumption, MostFacts
<1>5. ContextInv' /\ DigestInv' /\ Boot2Inv'
  BY <1>2 DEF PositionInv, ContextInv, DigestInv, Boot2Inv, Ready, Digest
<1>6. BudgetInv'
  <2>1. calls \in Nat /\ calls' \in 0 .. CALLS /\ boot2Done \in Nat /\ boot2Done <= calls * Most
    BY <1>2, PositionAssumption DEF PositionInv, BudgetInv, Boot2Inv, Boot2Left
  <2>2. \A c, m \in Nat : (c + 1) * m = c * m + m /\ c * m \in Nat
    OBVIOUS
  <2>3. calls' * Most = calls * Most + Most /\ calls * Most \in Nat
    BY <1>2, <1>4, <2>1, <2>2
  <2>4. Boot2Left' \in Nat /\ Boot2Left' <= Most
    BY <1>2, <1>3, <1>4 DEF Boot2Left
  <2>5. \A b, l, c, m \in Nat : b <= c /\ l <= m => b + l <= c + m
    OBVIOUS
  <2>6. boot2Done' + Boot2Left' <= calls' * Most
    BY <1>2, <1>4, <2>1, <2>3, <2>4, <2>5
  <2> QED BY <2>1, <2>6 DEF BudgetInv
<1>7. CallInv'
  <2>1. out' \in Seq({}) /\ Len(out') = done'
    BY <1>2
  <2>2. done' \in 0 .. call'.count
    BY <1>2, <1>3, <1>4
  <2> QED BY <1>1, <1>2, <1>3, <1>4, <2>1, <2>2 DEF CallInv
<1>8. CounterInv'
  <2>1. Digest \in Block /\ Digest' = Digest /\ nand_ctr_iv = Digest
    BY <1>2, DigestFacts DEF PositionInv, DigestInv, Ready, Digest
  <2>2. FromBlock(offset) = Sum(Digest, Number(offset))
    BY <1>4, <2>1, NumberFacts, AddIsSum DEF FromBlock
  <2>3. offset + 0 = offset
    BY <1>4
  <2> QED BY <1>1, <1>2, <1>3, <2>1, <2>2, <2>3 DEF CounterInv
<1> QED BY <1>5, <1>6, <1>7, <1>8 DEF PositionInv

LEMMA PositionArea ==
  ASSUME PositionInv, BeginArea
  PROVE  PositionInv'
<1>0. PICK header \in Headers, area \in 1 .. 2, content \in Contents :
        /\ call' = [Call("modcrypt", 0, header.len[area] \div 16, content)
                      EXCEPT !.header = header, !.area = area]
        /\ \E k : ctx' = dsi_set_ctr(dsi_set_key(ctx, k), header.ctr[area])
  BY DEF BeginArea
<1>1. PICK k :
        /\ call' = [Call("modcrypt", 0, header.len[area] \div 16, content)
                      EXCEPT !.header = header, !.area = area]
        /\ ctx' = dsi_set_ctr(dsi_set_key(ctx, k), header.ctr[area])
  BY <1>0
<1>2. /\ cryptPc = "idle" /\ cryptPc' = "loop" /\ calls < CALLS /\ calls' = calls + 1
      /\ done' = 0 /\ out' = <<>>
      /\ UNCHANGED <<console, nand_ctr_iv, boot2_ctx, nand_ctx, boot2_ctr, boot2From, boot2Done>>
  BY DEF BeginArea
<1>3. /\ call'.kind = "modcrypt" /\ call'.offset = 0 /\ call'.count = header.len[area] \div 16
      /\ call'.header = header /\ call'.area = area
  BY <1>1 DEF Call
<1>4. header.ctr[area] \in Block /\ header.len[area] \in Nat /\ IsU32(header.len[area])
  <2>1. header \in [debug : BOOLEAN, first : Block, key_y : Block, ctr : Block \X Block, len : Nat \X Nat]
    BY HeaderAssumption
  <2>2. header.ctr \in Block \X Block /\ header.len \in Nat \X Nat /\ (area = 1 \/ area = 2)
    BY <2>1
  <2>3. header.ctr[area] \in Block /\ header.len[area] \in Nat
    BY <2>2
  <2> QED BY <2>3, HeaderAssumption
<1>5. call'.count \in Nat /\ IsU32(call'.offset + call'.count)
  <2>1. \A n \in Nat : n \div 16 \in Nat /\ 0 + (n \div 16) \in Nat /\ 0 + (n \div 16) <= n
    OBVIOUS
  <2> QED BY <1>3, <1>4, <2>1, Smaller
<1>6. ContextInv' /\ DigestInv' /\ Boot2Inv'
  <2>1. IsContext(ctx')
    BY <1>1, SetCtrFacts, SetKeyFacts DEF PositionInv, ContextInv
  <2>2. IsContext(nand_ctx)' /\ IsContext(boot2_ctx)'
    BY <1>2 DEF PositionInv, ContextInv
  <2>3. ContextInv'
    BY <1>2, <2>1, <2>2 DEF PositionInv, ContextInv
  <2> QED BY <1>2, <2>3 DEF PositionInv, DigestInv, Boot2Inv, Ready, Digest
<1>7. BudgetInv'
  <2>1. calls \in Nat /\ calls' \in 0 .. CALLS /\ boot2Done \in Nat /\ boot2Done <= calls * Most /\ Most \in Nat
    BY <1>2, PositionAssumption, MostFacts DEF PositionInv, BudgetInv, Boot2Inv, Boot2Left
  <2>2. \A c, m \in Nat : (c + 1) * m = c * m + m /\ c * m \in Nat
    OBVIOUS
  <2>3. calls' * Most = calls * Most + Most /\ calls * Most \in Nat
    BY <1>2, <2>1, <2>2
  <2>4. Boot2Left' = 0
    BY <1>3 DEF Boot2Left
  <2>5. boot2Done' + Boot2Left' <= calls' * Most
    BY <1>2, <2>1, <2>3, <2>4
  <2> QED BY <2>1, <2>5 DEF BudgetInv
<1>8. CallInv'
  <2>1. out' \in Seq({}) /\ Len(out') = done'
    BY <1>2
  <2>2. done' \in 0 .. call'.count
    BY <1>2, <1>5
  <2> QED BY <1>3, <1>4, <1>5, <2>1, <2>2 DEF CallInv
<1>9. CounterInv'
  <2>1. ctx'.ctr = u128_swap(header.ctr[area])
    <3>1. IsContext(dsi_set_key(ctx, k))
      BY SetKeyFacts DEF PositionInv, ContextInv
    <3> QED BY <1>1, <3>1, SetCtrFacts
  <2>2. Sum(header.ctr[area], Number(0)) = header.ctr[area]
    BY <1>4, SumZero
  <2> QED BY <1>2, <1>3, <2>1, <2>2 DEF CounterInv
<1> QED BY <1>6, <1>7, <1>8, <1>9 DEF PositionInv

LEMMA PositionSetCtr ==
  ASSUME PositionInv, Boot2SetCtr
  PROVE  PositionInv'
<1>1. PICK size_r \in Sizes : boot2_ctr' = Boot2Counter(size_r) /\ boot2From' = size_r
  BY DEF Boot2SetCtr
<1>2. /\ cryptPc = "idle" /\ cryptPc' = "idle" /\ calls < CALLS /\ calls' = calls + 1 /\ boot2Done' = 0
      /\ UNCHANGED <<console, nand_ctr_iv, boot2_ctx, nand_ctx, ctx>>
  BY DEF Boot2SetCtr, keyVars
<1>3. size_r \in Nat
  BY PositionAssumption
<1>4. ContextInv' /\ DigestInv'
  BY <1>2 DEF PositionInv, ContextInv, DigestInv, Ready, Digest
<1>5. Boot2Inv'
  <2>1. Sum(Boot2Counter(size_r), Number(0)) = Boot2Counter(size_r)
    BY <1>3, Boot2CounterFacts, SumZero
  <2> QED BY <1>1, <1>2, <1>3, <2>1 DEF Boot2Inv, Ready
<1>6. BudgetInv'
  <2>1. calls' \in 0 .. CALLS /\ calls' \in Nat /\ Most \in Nat
    BY <1>2, PositionAssumption, MostFacts DEF PositionInv, BudgetInv
  <2>2. \A c, m \in Nat : 0 + 0 <= c * m
    OBVIOUS
  <2>3. Boot2Left' = 0
    BY <1>2 DEF Boot2Left
  <2>4. boot2Done' + Boot2Left' <= calls' * Most
    BY <1>2, <2>1, <2>2, <2>3
  <2> QED BY <2>1, <2>4 DEF BudgetInv
<1>7. CallInv' /\ CounterInv'
  BY <1>2 DEF CallInv, CounterInv
<1> QED BY <1>4, <1>5, <1>6, <1>7 DEF PositionInv

LEMMA PositionReturn ==
  ASSUME PositionInv, CryptReturn
  PROVE  PositionInv'
<1>1. /\ cryptPc = "loop" /\ cryptPc' = "idle" /\ done = call.count
      /\ UNCHANGED <<console, nand_ctr_iv, boot2_ctx, nand_ctx, ctx, boot2_ctr, boot2From, boot2Done, calls>>
  BY DEF CryptReturn, keyVars
<1>2. ContextInv' /\ DigestInv' /\ Boot2Inv'
  BY <1>1 DEF PositionInv, ContextInv, DigestInv, Boot2Inv, Ready, Digest
<1>3. BudgetInv'
  <2>1. call.count \in Nat
    BY <1>1 DEF PositionInv, CallInv
  <2>2. Boot2Left = 0 /\ Boot2Left' = 0
    BY <1>1, <2>1 DEF Boot2Left
  <2> QED BY <1>1, <2>2 DEF PositionInv, BudgetInv
<1>4. CallInv' /\ CounterInv'
  BY <1>1 DEF CallInv, CounterInv
<1> QED BY <1>2, <1>3, <1>4 DEF PositionInv

(* The blocks.                                                              *)
LEMMA PositionBlock ==
  ASSUME PositionInv, NandBlock \/ Boot2Block \/ AreaBlock
  PROVE  CallInv' /\ DigestInv'
<1>1. /\ cryptPc = "loop" /\ cryptPc' = "loop" /\ call' = call /\ done < call.count /\ done' = done + 1
      /\ UNCHANGED <<console, nand_ctr_iv, boot2From>>
      /\ \E x : out' = Append(out, x)
  <2>1. CASE NandBlock
    BY <2>1 DEF NandBlock, keyVars
  <2>2. CASE Boot2Block
    BY <2>2 DEF Boot2Block
  <2>3. CASE AreaBlock
    BY <2>3 DEF AreaBlock, keyVars
  <2> QED BY <2>1, <2>2, <2>3
<1>2. /\ call.count \in Nat /\ done \in Nat /\ done' \in 0 .. call.count
      /\ \E S : out \in Seq(S) /\ Len(out) = done
  BY <1>1 DEF PositionInv, CallInv
<1>3. \E S : out' \in Seq(S) /\ Len(out') = done'
  <2>1. PICK x : out' = Append(out, x)
    BY <1>1
  <2>2. \E S : Append(out, x) \in Seq(S) /\ Len(Append(out, x)) = done + 1
    BY <1>2, Appended, Zenon
  <2> QED BY <1>1, <2>1, <2>2
<1>4. CallInv'
  BY <1>1, <1>2, <1>3 DEF PositionInv, CallInv
<1>5. DigestInv'
  BY <1>1 DEF PositionInv, DigestInv, Ready, Digest
<1> QED BY <1>4, <1>5

LEMMA PositionNand ==
  ASSUME PositionInv, NandBlock
  PROVE  PositionInv'
<1>1. PICK set \in {dsi_set_ctr(nand_ctx, ctr)} : nand_ctx' = AfterCtrBlock(set)
  BY DEF NandBlock
<1>2. /\ cryptPc = "loop" /\ cryptPc' = "loop" /\ call' = call /\ call.kind \in {"nand", "nand_1"}
      /\ done < call.count /\ done' = done + 1
      /\ UNCHANGED <<console, nand_ctr_iv, boot2_ctx, ctx, boot2_ctr, boot2From, boot2Done, calls>>
      /\ ctr' = IF call.kind = "nand" THEN u128_add32(ctr, 1) ELSE ctr
  BY DEF NandBlock, keyVars
<1>3. ContextInv'
  <2>1. IsContext(nand_ctx)'
    BY <1>1, SetCtrFacts, AfterFacts DEF PositionInv, ContextInv
  <2> QED BY <1>2, <2>1 DEF PositionInv, ContextInv
<1>4. Boot2Inv' /\ BudgetInv'
  BY <1>2 DEF PositionInv, Boot2Inv, BudgetInv, Boot2Left, Ready
<1>5. /\ call.offset \in Nat /\ call.count \in Nat /\ done \in Nat
      /\ IsU32(call.offset + call.count)
      /\ call.kind = "nand" => ctr = Sum(Digest, Number(call.offset + done))
      /\ call.kind = "nand_1" => ctr = Sum(Digest, Number(call.offset))
  BY <1>2 DEF PositionInv, CallInv, CounterInv
<1>6. IsU32((call.offset + done) + 1) /\ call.offset + done \in Nat /\ call.offset + done' = (call.offset + done) + 1
  <2>1. \A o, d, c \in Nat : d < c => (o + d) + 1 <= o + c /\ (o + d) + 1 \in Nat /\ o + c \in Nat /\ o + d \in Nat
                                   /\ o + (d + 1) = (o + d) + 1
    OBVIOUS
  <2> QED BY <1>2, <1>5, <2>1, Smaller
<1>7. CounterInv'
  <2>1. Digest \in Block /\ Digest' = Digest
    BY <1>2, DigestFacts DEF PositionInv, Digest
  <2>2. call.kind = "nand" => ctr' = Sum(Digest, Number(call.offset + done'))
    BY <1>2, <1>5, <1>6, <2>1, SumNext
  <2> QED BY <1>2, <1>5, <2>1, <2>2 DEF CounterInv
<1> QED BY <1>3, <1>4, <1>7, PositionBlock DEF PositionInv

LEMMA PositionBoot2 ==
  ASSUME PositionInv, Boot2Block
  PROVE  PositionInv'
<1>1. PICK set \in {dsi_set_ctr(boot2_ctx, boot2_ctr)} : boot2_ctx' = AfterCtrBlock(set)
  BY DEF Boot2Block
<1>2. /\ cryptPc = "loop" /\ cryptPc' = "loop" /\ call' = call /\ call.kind = "boot2"
      /\ done < call.count /\ done' = done + 1 /\ boot2Done' = boot2Done + 1
      /\ UNCHANGED <<console, nand_ctr_iv, nand_ctx, ctx, boot2From, calls>>
      /\ boot2_ctr' = u128_add32(boot2_ctr, 1)
  BY DEF Boot2Block
<1>3. ContextInv'
  <2>1. IsContext(boot2_ctx)'
    BY <1>1, SetCtrFacts, AfterFacts DEF PositionInv, ContextInv
  <2> QED BY <1>2, <2>1 DEF PositionInv, ContextInv
<1>4. /\ boot2From \in Nat /\ boot2Done \in Nat /\ call.count \in Nat /\ done \in Nat
      /\ boot2_ctr = Sum(Boot2Counter(boot2From), Number(boot2Done))
  BY <1>2 DEF PositionInv, Boot2Inv, CallInv
<1>5. IsU32(boot2Done + 1)
  BY <1>2, Boot2Next DEF PositionInv
<1>6. boot2_ctr' = Sum(Boot2Counter(boot2From), Number(boot2Done + 1))
  BY <1>2, <1>4, <1>5, Boot2CounterFacts, SumNext
<1>7. Boot2Inv'
  BY <1>2, <1>4, <1>6 DEF Boot2Inv, Ready
<1>8. BudgetInv'
  <2>1. Boot2Left = call.count - done /\ Boot2Left' = call.count - (done + 1)
    BY <1>2 DEF Boot2Left
  <2>2. \A b, c, d \in Nat : (b + 1) + (c - (d + 1)) = b + (c - d)
    OBVIOUS
  <2>3. boot2Done' + Boot2Left' = boot2Done + Boot2Left
    BY <1>2, <1>4, <2>1, <2>2
  <2> QED BY <1>2, <2>3 DEF PositionInv, BudgetInv
<1>9. CounterInv'
  BY <1>2 DEF CounterInv
<1> QED BY <1>3, <1>7, <1>8, <1>9, PositionBlock DEF PositionInv

LEMMA PositionAreaBlock ==
  ASSUME PositionInv, AreaBlock
  PROVE  PositionInv'
<1>1. /\ cryptPc = "loop" /\ cryptPc' = "loop" /\ call' = call /\ call.kind = "modcrypt"
      /\ done < call.count /\ done' = done + 1 /\ ctx' = AfterCtrBlock(ctx)
      /\ UNCHANGED <<console, nand_ctr_iv, nand_ctx, boot2_ctx, boot2_ctr, boot2From, boot2Done, calls>>
  BY DEF AreaBlock, keyVars
<1>2. ContextInv'
  <2>1. IsContext(ctx)'
    BY <1>1, AfterFacts DEF PositionInv, ContextInv
  <2> QED BY <1>1, <2>1 DEF PositionInv, ContextInv
<1>3. Boot2Inv' /\ BudgetInv'
  BY <1>1 DEF PositionInv, Boot2Inv, BudgetInv, Boot2Left, Ready
<1> DEFINE from == call.header.ctr[call.area]
<1>4. /\ call.count \in Nat /\ done \in Nat /\ IsU32(call.offset + call.count) /\ call.offset = 0
      /\ from \in Block /\ ctx.ctr = u128_swap(Sum(from, Number(done)))
  BY <1>1 DEF PositionInv, CallInv, CounterInv
<1>5. IsU32(done + 1)
  <2>1. done + 1 \in Nat /\ 0 + call.count \in Nat /\ done + 1 <= 0 + call.count
    BY <1>1, <1>4
  <2> QED BY <1>4, <2>1, Smaller
<1> HIDE DEF from
<1>6. ctx'.ctr = u128_swap(Sum(from, Number(done + 1)))
  <2>1. Sum(from, Number(done)) \in Block
    BY <1>4, NumberFacts, AddIsSum
  <2>2. ctx'.ctr = u128_swap(u128_add32(Sum(from, Number(done)), 1))
    BY <1>1, <1>4, <2>1, ContextCounts DEF PositionInv, ContextInv
  <2> QED BY <1>4, <1>5, <2>2, SumNext
<1>7. CounterInv'
  BY <1>1, <1>6 DEF CounterInv, from
<1> QED BY <1>2, <1>3, <1>7, PositionBlock DEF PositionInv

LEMMA PositionStep == PositionInv /\ [DsiNext]_dsiVars => PositionInv'
<1> SUFFICES ASSUME PositionInv, [DsiNext]_dsiVars  PROVE PositionInv'
  OBVIOUS
<1>1. CASE UNCHANGED dsiVars
  BY <1>1 DEF dsiVars, keyVars, PositionInv, ContextInv, DigestInv, Boot2Inv, BudgetInv, Boot2Left, CallInv,
              CounterInv, Ready, Digest
<1>2. CASE DsiNext
  BY <1>2, PositionReady, PositionCall, PositionArea, PositionNand, PositionBoot2, PositionAreaBlock,
     PositionReturn, PositionSetCtr DEF DsiNext
<1> QED BY <1>1, <1>2

LEMMA PositionKept == DsiSpec => []PositionInv
  BY PositionInit, PositionStep, PTL DEF DsiSpec

(* The block that was done last was done right: StreamIsPositional, case by *)
(* case.                                                                    *)
LastBlock ==
  (cryptPc = "loop" /\ done > 0) =>
    /\ call.kind = "boot2" =>
         EncryptedAt(Sum(Boot2Counter(boot2From), Number(boot2Done - 1)), boot2_ctx.aes, call.content, out[done])
    /\ call.kind = "modcrypt" =>
         EncryptedAt(Sum(call.header.ctr[call.area], Number(call.offset + done - 1)), ctx.aes, call.content,
                     out[done])
    /\ call.kind \notin {"boot2", "modcrypt"} =>
         EncryptedAt(Sum(Digest, Number(call.offset + done - 1)), nand_ctx.aes, call.content, out[done])

LEMMA LastBlockShows == LastBlock => StreamIsPositional
<1> SUFFICES ASSUME LastBlock, cryptPc = "loop", done > 0  PROVE StreamIsPositional
  BY DEF StreamIsPositional
<1>1. CASE call.kind = "boot2"
  BY <1>1 DEF LastBlock, StreamIsPositional, EncryptedAt
<1>2. CASE call.kind = "modcrypt"
  BY <1>2 DEF LastBlock, StreamIsPositional, EncryptedAt
<1>3. CASE call.kind \notin {"boot2", "modcrypt"}
  BY <1>3 DEF LastBlock, StreamIsPositional, EncryptedAt, Digest
<1> QED BY <1>1, <1>2, <1>3

LEMMA StreamStep ==
  ASSUME PositionInv, LastBlock, [DsiNext]_dsiVars
  PROVE  LastBlock'
<1>1. CASE UNCHANGED dsiVars
  BY <1>1 DEF dsiVars, keyVars, LastBlock, Digest
<1>2. CASE NandBlock
  <2>1. PICK set \in {dsi_set_ctr(nand_ctx, ctr)} :
          out' = Append(out, CtrBlock(set, call.content)) /\ nand_ctx' = AfterCtrBlock(set)
    BY <1>2 DEF NandBlock
  <2>2. /\ cryptPc = "loop" /\ cryptPc' = "loop" /\ call' = call /\ call.kind \in {"nand", "nand_1"}
        /\ done < call.count /\ done' = done + 1 /\ console' = console
    BY <1>2 DEF NandBlock, keyVars
  <2>3. /\ call.offset \in Nat /\ call.count \in Nat /\ done \in Nat
        /\ \E S : out \in Seq(S) /\ Len(out) = done
        /\ call.kind = "nand" => ctr = Sum(Digest, Number(call.offset + done))
        /\ call.kind = "nand_1" => ctr = Sum(Digest, Number(call.offset)) /\ call.count = 1
    BY <2>2 DEF PositionInv, CallInv, CounterInv
  <2>4. ctr = Sum(Digest, Number(call.offset + done' - 1))
    <3>1. call.offset + done' - 1 = call.offset + done
      BY <2>2, <2>3
    <3>2. call.kind = "nand_1" => call.offset + done = call.offset
      BY <2>2, <2>3
    <3> QED BY <2>2, <2>3, <3>1, <3>2
  <2>5. IsContext(nand_ctx)
    BY DEF PositionInv, ContextInv
  <2>6. IsContext(set) /\ set.ctr = u128_swap(ctr)
    BY <2>5, SetCtrFacts
  <2>7. nand_ctx'.aes = set.aes
    BY <2>1, <2>6, AfterFacts
  <2>8. out'[done'] = CtrBlock(set, call.content)
    BY <2>1, <2>2, <2>3, Appended
  <2>9. EncryptedAt(ctr, set.aes, call.content, CtrBlock(set, call.content))
    BY <2>6, BlockFacts
  <2>10. EncryptedAt(ctr, nand_ctx'.aes, call.content, out'[done'])
    BY <2>7, <2>8, <2>9, Zenon
  <2> HIDE DEF Digest
  <2>11. EncryptedAt(Sum(Digest', Number(call.offset + done' - 1)), nand_ctx'.aes, call.content, out'[done'])
    BY <2>2, <2>4, <2>10, Zenon DEF Digest
  <2> QED BY <2>2, <2>11 DEF LastBlock
<1>3. CASE Boot2Block
  <2>1. PICK set \in {dsi_set_ctr(boot2_ctx, boot2_ctr)} :
          out' = Append(out, CtrBlock(set, call.content)) /\ boot2_ctx' = AfterCtrBlock(set)
    BY <1>3 DEF Boot2Block
  <2>2. /\ cryptPc = "loop" /\ cryptPc' = "loop" /\ call' = call /\ call.kind = "boot2"
        /\ done < call.count /\ done' = done + 1 /\ boot2Done' = boot2Done + 1 /\ boot2From' = boot2From
    BY <1>3 DEF Boot2Block
  <2>3. /\ done \in Nat /\ boot2Done \in Nat
        /\ \E S : out \in Seq(S) /\ Len(out) = done
        /\ boot2_ctr = Sum(Boot2Counter(boot2From), Number(boot2Done))
    BY <2>2 DEF PositionInv, CallInv, Boot2Inv
  <2>4. boot2_ctr = Sum(Boot2Counter(boot2From), Number(boot2Done' - 1))
    <3>1. boot2Done' - 1 = boot2Done
      BY <2>2, <2>3
    <3> QED BY <2>3, <3>1
  <2>5. IsContext(boot2_ctx)
    BY DEF PositionInv, ContextInv
  <2>6. IsContext(set) /\ set.ctr = u128_swap(boot2_ctr)
    BY <2>5, SetCtrFacts
  <2>7. boot2_ctx'.aes = set.aes
    BY <2>1, <2>6, AfterFacts
  <2>8. out'[done'] = CtrBlock(set, call.content)
    BY <2>1, <2>2, <2>3, Appended
  <2>9. EncryptedAt(boot2_ctr, set.aes, call.content, CtrBlock(set, call.content))
    BY <2>6, BlockFacts
  <2>10. EncryptedAt(boot2_ctr, boot2_ctx'.aes, call.content, out'[done'])
    BY <2>7, <2>8, <2>9, Zenon
  <2>11. EncryptedAt(Sum(Boot2Counter(boot2From'), Number(boot2Done' - 1)), boot2_ctx'.aes, call.content, out'[done'])
    BY <2>2, <2>4, <2>10, Zenon
  <2> QED BY <2>2, <2>11 DEF LastBlock
<1>4. CASE AreaBlock
  <2>1. /\ cryptPc = "loop" /\ cryptPc' = "loop" /\ call' = call /\ call.kind = "modcrypt"
        /\ done < call.count /\ done' = done + 1
        /\ out' = Append(out, CtrBlock(ctx, call.content)) /\ ctx' = AfterCtrBlock(ctx)
    BY <1>4 DEF AreaBlock
  <2> DEFINE from == call.header.ctr[call.area]
             n == Sum(from, Number(done))
  <2>2. /\ call.offset = 0 /\ done \in Nat
        /\ \E S : out \in Seq(S) /\ Len(out) = done
        /\ ctx.ctr = u128_swap(n)
    BY <2>1 DEF PositionInv, CallInv, CounterInv
  <2>3. n = Sum(from, Number(call.offset + done' - 1))
    <3>1. call.offset + done' - 1 = done
      BY <2>1, <2>2
    <3> QED BY <3>1
  <2> HIDE DEF n, from
  <2>4. IsContext(ctx)
    BY DEF PositionInv, ContextInv
  <2>5. ctx'.aes = ctx.aes
    BY <2>1, <2>4, AfterFacts
  <2>6. out'[done'] = CtrBlock(ctx, call.content)
    BY <2>1, <2>2, Appended
  <2>7. EncryptedAt(n, ctx.aes, call.content, CtrBlock(ctx, call.content))
    BY <2>2, BlockFacts
  <2>8. EncryptedAt(n, ctx'.aes, call.content, out'[done'])
    BY <2>5, <2>6, <2>7, Zenon
  <2>9. EncryptedAt(Sum(from, Number(call.offset + done' - 1)), ctx'.aes, call.content, out'[done'])
    BY <2>3, <2>8, Zenon
  <2>10. EncryptedAt(Sum(call'.header.ctr[call'.area], Number(call'.offset + done' - 1)), ctx'.aes, call'.content,
                     out'[done'])
    BY <2>1, <2>9, Zenon DEF from
  <2>11. call'.kind = "modcrypt"
    BY <2>1
  <2> QED BY <2>10, <2>11 DEF LastBlock
<1>5. CASE CryptCall \/ BeginArea \/ CryptReturn \/ Boot2SetCtr
  <2>1. cryptPc' = "loop" => done' = 0
    BY <1>5 DEF CryptCall, BeginArea, CryptReturn, Boot2SetCtr
  <2> QED BY <2>1 DEF LastBlock
<1>6. CASE ReadIdentity \/ SetNandKey \/ SetEsKey \/ SetBoot2Key \/ SetCounter
  <2>1. cryptPc' # "loop"
    BY <1>6 DEF ReadIdentity, SetNandKey, SetEsKey, SetBoot2Key, SetCounter
  <2> QED BY <2>1 DEF LastBlock
<1> QED BY <1>1, <1>2, <1>3, <1>4, <1>5, <1>6 DEF DsiNext

(* THEOREM (gm9i/crypto.c:61-125, main.cpp:66-93, 251-268).  What a block   *)
(* of NAND, of the second boot stage or of the launcher is encrypted with   *)
(* depends on the keys and on its position only, for every console, every   *)
(* header and any calls in any order: every byte of the counter is right,   *)
(* over every carry, however the calls cut the chip into pieces.            *)
THEOREM StreamDependsOnPosition == DsiSpec => []StreamIsPositional
<1>1. DsiInit => LastBlock
  BY DEF DsiInit, LastBlock
<1>2. PositionInv /\ LastBlock /\ [DsiNext]_dsiVars => LastBlock'
  BY StreamStep
<1> QED BY <1>1, <1>2, PositionKept, LastBlockShows, PTL DEF DsiSpec

(* THEOREM (twltool/dsi.c:18-49, crypto.c:88-101).  The counter of the      *)
(* caller and that of the context, which count in opposite orders of bytes  *)
(* and with different code, agree after every block.                        *)
THEOREM TwoCountersAgree == DsiSpec => []CountersAgree
<1>1. DsiInit => CountersAgree
  BY DEF DsiInit, CountersAgree
<1>2. ASSUME PositionInv, CountersAgree, [DsiNext]_dsiVars  PROVE CountersAgree'
  <2>1. CASE UNCHANGED dsiVars
    BY <1>2, <2>1 DEF dsiVars, keyVars, CountersAgree
  <2>2. CASE NandBlock
    <3>1. PICK set \in {dsi_set_ctr(nand_ctx, ctr)} : nand_ctx' = AfterCtrBlock(set)
      BY <2>2 DEF NandBlock
    <3>2. /\ cryptPc = "loop" /\ call' = call /\ call.kind \in {"nand", "nand_1"}
          /\ call.kind = "nand" => ctr' = u128_add32(ctr, 1)
      BY <2>2 DEF NandBlock
    <3>3. IsContext(nand_ctx) /\ Digest \in Block
      BY <1>2, DigestFacts DEF PositionInv, ContextInv
    <3>4. IsContext(set) /\ set.ctr = u128_swap(ctr)
      BY <3>3, SetCtrFacts
    <3>5. call.kind = "nand" => ctr \in Block
      <4>1. ASSUME call.kind = "nand"  PROVE ctr \in Block
        <5>1. /\ ctr = Sum(Digest, Number(call.offset + done))
              /\ call.offset \in Nat /\ call.count \in Nat /\ done \in 0 .. call.count
          BY <1>2, <3>2, <4>1 DEF PositionInv, CallInv, CounterInv
        <5>2. call.offset + done \in Nat
          BY <5>1
        <5> QED BY <3>3, <5>1, <5>2, NumberFacts, AddIsSum
      <4> QED BY <4>1
    <3>6. call.kind = "nand" => nand_ctx'.ctr = u128_swap(ctr')
      BY <3>1, <3>2, <3>4, <3>5, ContextCounts
    <3> QED BY <3>2, <3>6 DEF CountersAgree
  <2>3. CASE Boot2Block
    <3>1. PICK set \in {dsi_set_ctr(boot2_ctx, boot2_ctr)} : boot2_ctx' = AfterCtrBlock(set)
      BY <2>3 DEF Boot2Block
    <3>2. cryptPc = "loop" /\ call' = call /\ call.kind = "boot2" /\ boot2_ctr' = u128_add32(boot2_ctr, 1)
      BY <2>3 DEF Boot2Block
    <3>3. IsContext(boot2_ctx)
      BY <1>2 DEF PositionInv, ContextInv
    <3>4. IsContext(set) /\ set.ctr = u128_swap(boot2_ctr)
      BY <3>3, SetCtrFacts
    <3>5. /\ boot2From \in Nat /\ boot2Done \in Nat
          /\ boot2_ctr = Sum(Boot2Counter(boot2From), Number(boot2Done))
      BY <1>2, <3>2 DEF PositionInv, CallInv, Boot2Inv
    <3>6. boot2_ctr \in Block
      BY <3>5, Boot2CounterFacts, NumberFacts, AddIsSum
    <3>7. boot2_ctx'.ctr = u128_swap(boot2_ctr')
      BY <3>1, <3>2, <3>4, <3>6, ContextCounts
    <3> QED BY <3>2, <3>7 DEF CountersAgree
  <2>4. CASE AreaBlock
    <3>1. call.kind = "modcrypt" /\ call' = call
      BY <2>4 DEF AreaBlock
    <3> QED BY <3>1 DEF CountersAgree
  <2>5. CASE CryptCall \/ BeginArea \/ CryptReturn \/ Boot2SetCtr
    <3>1. cryptPc' = "loop" => done' = 0
      BY <2>5 DEF CryptCall, BeginArea, CryptReturn, Boot2SetCtr
    <3> QED BY <3>1 DEF CountersAgree
  <2>6. CASE ReadIdentity \/ SetNandKey \/ SetEsKey \/ SetBoot2Key \/ SetCounter
    <3>1. cryptPc' # "loop"
      BY <2>6 DEF ReadIdentity, SetNandKey, SetEsKey, SetBoot2Key, SetCounter
    <3> QED BY <3>1 DEF CountersAgree
  <2> QED BY <1>2, <2>1, <2>2, <2>3, <2>4, <2>5, <2>6 DEF DsiNext
<1> QED BY <1>1, <1>2, PositionKept, PTL DEF DsiSpec

-----------------------------------------------------------------------------
(* Rotation by 42 bits: five bytes and two bits.                            *)
LEMMA ByteBits ==
  ASSUME NEW x \in Byte
  PROVE  /\ 4 * Bit(x, 0) + 8 * Bit(x, 1) + 16 * Bit(x, 2) + 32 * Bit(x, 3) + 64 * Bit(x, 4) + 128 * Bit(x, 5)
              = (x * 4) % 256
         /\ Bit(x, 6) + 2 * Bit(x, 7) = x \div 64
         /\ \A k \in 0 .. 7 : Bit(x, k) \in 0 .. 1
<1>1. x \in 0 .. 255
  BY DEF Byte
<1>2. /\ 2^0 = 1 /\ 2^1 = 2 /\ 2^2 = 4 /\ 2^3 = 8 /\ 2^4 = 16 /\ 2^5 = 32 /\ 2^6 = 64 /\ 2^7 = 128
  OBVIOUS
<1>3. /\ Bit(x, 0) = x % 2 /\ Bit(x, 1) = (x \div 2) % 2 /\ Bit(x, 2) = (x \div 4) % 2
      /\ Bit(x, 3) = (x \div 8) % 2 /\ Bit(x, 4) = (x \div 16) % 2 /\ Bit(x, 5) = (x \div 32) % 2
      /\ Bit(x, 6) = (x \div 64) % 2 /\ Bit(x, 7) = (x \div 128) % 2
  BY <1>1, <1>2 DEF Bit
<1>4. 4 * (x % 2) + 8 * ((x \div 2) % 2) + 16 * ((x \div 4) % 2) + 32 * ((x \div 8) % 2)
        + 64 * ((x \div 16) % 2) + 128 * ((x \div 32) % 2) = (x * 4) % 256
  BY <1>1
<1>5. ((x \div 64) % 2) + 2 * ((x \div 128) % 2) = x \div 64
  BY <1>1
<1>6. \A n \in Int : n % 2 \in 0 .. 1
  OBVIOUS
<1>7. x \in Int /\ x \div 2 \in Int /\ x \div 4 \in Int /\ x \div 8 \in Int /\ x \div 16 \in Int /\ x \div 32 \in Int
      /\ x \div 64 \in Int /\ x \div 128 \in Int
  BY <1>1
<1>8. \A k \in 0 .. 7 : k = 0 \/ k = 1 \/ k = 2 \/ k = 3 \/ k = 4 \/ k = 5 \/ k = 6 \/ k = 7
  OBVIOUS
<1>9. \A k \in 0 .. 7 : Bit(x, k) \in 0 .. 1
  BY <1>3, <1>6, <1>7, <1>8
<1> QED BY <1>3, <1>4, <1>5, <1>9

LEMMA RotateLeft ==
  ASSUME NEW s
  PROVE  u128_lrot(s, 42) =
           [i \in Index |-> ((s[(i + 11) % 16] * 4) % 256) + s[(i + 10) % 16] \div 64]
<1>1. 42 \div 8 = 5 /\ 42 % 8 = 2 /\ 5 % 16 = 5 /\ 2^2 = 4 /\ 2^(8 - 2) = 64
  OBVIOUS
<1>2. \A i \in Index : (i + 16 - 5) % 16 = (i + 11) % 16 /\ (((i + 11) % 16) + 15) % 16 = (i + 10) % 16
  BY DEF Index
<1>3. u128_lrot(s, 42) =
        [i \in Index |-> ShiftedIn(s[(i + 16 - ((42 \div 8) % 16)) % 16],
                                   s[(((i + 16 - ((42 \div 8) % 16)) % 16) + 15) % 16], 42 % 8)]
  BY TableIs DEF u128_lrot
<1>4. \A high, low : ShiftedIn(high, low, 2) = ((high * 4) % 256) + low \div 64
  BY <1>1 DEF ShiftedIn
<1>5. \A i \in Index : ShiftedIn(s[(i + 16 - ((42 \div 8) % 16)) % 16],
                                 s[(((i + 16 - ((42 \div 8) % 16)) % 16) + 15) % 16], 42 % 8)
                         = ((s[(i + 11) % 16] * 4) % 256) + s[(i + 10) % 16] \div 64
  BY <1>1, <1>2, <1>4
<1> QED BY <1>3, <1>5

(* Where the bits of a byte come from.                                      *)
LEMMA Places ==
  ASSUME NEW j \in Index
  PROVE  /\ (8 * j + 128 - 42) % 128 = 8 * ((j + 10) % 16) + 6
         /\ (8 * j + 1 + 128 - 42) % 128 = 8 * ((j + 10) % 16) + 7
         /\ (8 * j + 2 + 128 - 42) % 128 = 8 * ((j + 11) % 16) + 0
         /\ (8 * j + 3 + 128 - 42) % 128 = 8 * ((j + 11) % 16) + 1
         /\ (8 * j + 4 + 128 - 42) % 128 = 8 * ((j + 11) % 16) + 2
         /\ (8 * j + 5 + 128 - 42) % 128 = 8 * ((j + 11) % 16) + 3
         /\ (8 * j + 6 + 128 - 42) % 128 = 8 * ((j + 11) % 16) + 4
         /\ (8 * j + 7 + 128 - 42) % 128 = 8 * ((j + 11) % 16) + 5
<1>1. j \in 0 .. 15
  BY DEF Index
<1>2. /\ (8 * j + 128 - 42) % 128 = 8 * ((j + 10) % 16) + 6
      /\ (8 * j + 1 + 128 - 42) % 128 = 8 * ((j + 10) % 16) + 7
  BY <1>1
<1>3. /\ (8 * j + 2 + 128 - 42) % 128 = 8 * ((j + 11) % 16) + 0
      /\ (8 * j + 3 + 128 - 42) % 128 = 8 * ((j + 11) % 16) + 1
      /\ (8 * j + 4 + 128 - 42) % 128 = 8 * ((j + 11) % 16) + 2
  BY <1>1
<1>4. /\ (8 * j + 5 + 128 - 42) % 128 = 8 * ((j + 11) % 16) + 3
      /\ (8 * j + 6 + 128 - 42) % 128 = 8 * ((j + 11) % 16) + 4
      /\ (8 * j + 7 + 128 - 42) % 128 = 8 * ((j + 11) % 16) + 5
  BY <1>1
<1> QED BY <1>2, <1>3, <1>4

(* The rotated sum, bit by bit.                                             *)
LEMMA RotateBits ==
  ASSUME NEW s \in Block
  PROVE  LET Place(b) == (b + 128 - 42) % 128
             KeyBit(b) == Bit(s[Place(b) \div 8], Place(b) % 8)
             KeyByte(j) == KeyBit(8 * j) + 2 * KeyBit(8 * j + 1) + 4 * KeyBit(8 * j + 2) + 8 * KeyBit(8 * j + 3)
                            + 16 * KeyBit(8 * j + 4) + 32 * KeyBit(8 * j + 5) + 64 * KeyBit(8 * j + 6)
                            + 128 * KeyBit(8 * j + 7)
         IN  [j \in Index |-> KeyByte(j)] = u128_lrot(s, 42)
<1> DEFINE Place(b) == (b + 128 - 42) % 128
           KeyBit(b) == Bit(s[Place(b) \div 8], Place(b) % 8)
           KeyByte(j) == KeyBit(8 * j) + 2 * KeyBit(8 * j + 1) + 4 * KeyBit(8 * j + 2) + 8 * KeyBit(8 * j + 3)
                          + 16 * KeyBit(8 * j + 4) + 32 * KeyBit(8 * j + 5) + 64 * KeyBit(8 * j + 6)
                          + 128 * KeyBit(8 * j + 7)
<1>1. ASSUME NEW j \in Index
      PROVE  KeyByte(j) = ((s[(j + 11) % 16] * 4) % 256) + s[(j + 10) % 16] \div 64
  <2> DEFINE hi == s[(j + 11) % 16]
             lo == s[(j + 10) % 16]
             h  == (j + 11) % 16
             l  == (j + 10) % 16
  <2>1. h \in Index /\ l \in Index
    BY DEF Index
  <2>2. hi \in Byte /\ lo \in Byte
    BY <2>1 DEF Block
  <2>3. /\ Place(8 * j) = 8 * l + 6 /\ Place(8 * j + 1) = 8 * l + 7
        /\ Place(8 * j + 2) = 8 * h + 0 /\ Place(8 * j + 3) = 8 * h + 1 /\ Place(8 * j + 4) = 8 * h + 2
        /\ Place(8 * j + 5) = 8 * h + 3 /\ Place(8 * j + 6) = 8 * h + 4 /\ Place(8 * j + 7) = 8 * h + 5
    BY Places, ZenonT(60)
  <2>11. hi = s[h] /\ lo = s[l]
    BY Zenon
  <2> HIDE DEF Place, h, l, hi, lo
  <2>4. \A i \in Index, t \in 0 .. 7 : (8 * i + t) \div 8 = i /\ (8 * i + t) % 8 = t
    BY DEF Index
  <2>5. /\ \A t \in 0 .. 7 : Bit(s[(8 * h + t) \div 8], (8 * h + t) % 8) = Bit(hi, t)
        /\ \A t \in 0 .. 7 : Bit(s[(8 * l + t) \div 8], (8 * l + t) % 8) = Bit(lo, t)
    BY <2>1, <2>4, <2>11, Zenon
  <2>6. /\ KeyBit(8 * j) = Bit(lo, 6) /\ KeyBit(8 * j + 1) = Bit(lo, 7)
        /\ KeyBit(8 * j + 2) = Bit(hi, 0) /\ KeyBit(8 * j + 3) = Bit(hi, 1) /\ KeyBit(8 * j + 4) = Bit(hi, 2)
        /\ KeyBit(8 * j + 5) = Bit(hi, 3) /\ KeyBit(8 * j + 6) = Bit(hi, 4) /\ KeyBit(8 * j + 7) = Bit(hi, 5)
    <3>1. 0 \in 0 .. 7 /\ 1 \in 0 .. 7 /\ 2 \in 0 .. 7 /\ 3 \in 0 .. 7 /\ 4 \in 0 .. 7 /\ 5 \in 0 .. 7
          /\ 6 \in 0 .. 7 /\ 7 \in 0 .. 7
      OBVIOUS
    <3>2. KeyBit(8 * j) = Bit(lo, 6) /\ KeyBit(8 * j + 1) = Bit(lo, 7)
      BY <2>3, <2>5, <3>1, Zenon
    <3>3. KeyBit(8 * j + 2) = Bit(hi, 0) /\ KeyBit(8 * j + 3) = Bit(hi, 1) /\ KeyBit(8 * j + 4) = Bit(hi, 2)
      BY <2>3, <2>5, <3>1, Zenon
    <3>4. KeyBit(8 * j + 5) = Bit(hi, 3) /\ KeyBit(8 * j + 6) = Bit(hi, 4) /\ KeyBit(8 * j + 7) = Bit(hi, 5)
      BY <2>3, <2>5, <3>1, Zenon
    <3> QED BY <3>2, <3>3, <3>4
  <2> HIDE DEF KeyBit
  <2> DEFINE b0 == Bit(hi, 0)
             b1 == Bit(hi, 1)
             b2 == Bit(hi, 2)
             b3 == Bit(hi, 3)
             b4 == Bit(hi, 4)
             b5 == Bit(hi, 5)
             b6 == Bit(lo, 6)
             b7 == Bit(lo, 7)
  <2>7. KeyByte(j) = b6 + 2 * b7 + 4 * b0 + 8 * b1 + 16 * b2 + 32 * b3 + 64 * b4 + 128 * b5
    BY <2>6, Zenon
  <2>8. /\ 4 * b0 + 8 * b1 + 16 * b2 + 32 * b3 + 64 * b4 + 128 * b5 = (hi * 4) % 256
        /\ b6 + 2 * b7 = lo \div 64
        /\ b0 \in 0 .. 1 /\ b1 \in 0 .. 1 /\ b2 \in 0 .. 1 /\ b3 \in 0 .. 1 /\ b4 \in 0 .. 1 /\ b5 \in 0 .. 1
        /\ b6 \in 0 .. 1 /\ b7 \in 0 .. 1
    <3>1. 0 \in 0 .. 7 /\ 1 \in 0 .. 7 /\ 2 \in 0 .. 7 /\ 3 \in 0 .. 7 /\ 4 \in 0 .. 7 /\ 5 \in 0 .. 7
          /\ 6 \in 0 .. 7 /\ 7 \in 0 .. 7
      OBVIOUS
    <3> QED BY <2>2, <3>1, ByteBits, ZenonT(60)
  <2> HIDE DEF b0, b1, b2, b3, b4, b5, b6, b7, KeyByte
  <2>9. b6 + 2 * b7 + 4 * b0 + 8 * b1 + 16 * b2 + 32 * b3 + 64 * b4 + 128 * b5
          = (4 * b0 + 8 * b1 + 16 * b2 + 32 * b3 + 64 * b4 + 128 * b5) + (b6 + 2 * b7)
    BY <2>8
  <2>10. KeyByte(j) = ((hi * 4) % 256) + lo \div 64
    BY <2>7, <2>8, <2>9, Zenon
  <2> QED BY <2>10, Zenon DEF hi, lo
<1> HIDE DEF KeyByte
<1>2. [j \in Index |-> KeyByte(j)] = [i \in Index |-> ((s[(i + 11) % 16] * 4) % 256) + s[(i + 10) % 16] \div 64]
  BY <1>1, Zenon
<1>3. [j \in Index |-> KeyByte(j)] = u128_lrot(s, 42)
  BY <1>2, RotateLeft, Zenon
<1> QED BY <1>3, Zenon DEF KeyByte

(* Turning back.                                                            *)
LEMMA RotateBack ==
  ASSUME NEW s \in Block
  PROVE  u128_lrot(s, 42) \in Block /\ u128_rrot(u128_lrot(s, 42), 42) = s
<1> DEFINE r == u128_lrot(s, 42)
           R(h, l) == ((s[h] * 4) % 256) + s[l] \div 64
<1>1. \A i \in Index : r[i] = R((i + 11) % 16, (i + 10) % 16)
  BY RotateLeft
<1>2. r = [i \in Index |-> r[i]]
  BY RotateLeft
<1>3. \A i \in Index : (i + 11) % 16 \in Index /\ (i + 10) % 16 \in Index /\ (i + 5) % 16 \in Index /\ (i + 6) % 16 \in Index
  BY DEF Index
<1>4. \A i \in Index : /\ (((i + 5) % 16) + 11) % 16 = i /\ (((i + 6) % 16) + 10) % 16 = i
                       /\ (((i + 5) % 16) + 10) % 16 = (i + 15) % 16 /\ (((i + 6) % 16) + 11) % 16 = (i + 1) % 16
                       /\ (i + 15) % 16 \in Index /\ (i + 1) % 16 \in Index
  BY DEF Index
<1>5. \A k \in Index : s[k] \in 0 .. 255
  BY DEF Block, Byte
<1>6. \A h, l \in Index : R(h, l) \in Byte
  <2>1. \A x, y \in Byte : ((x * 4) % 256) + y \div 64 \in Byte
    BY DEF Byte
  <2>2. \A k \in Index : s[k] \in Byte
    BY DEF Block
  <2> QED BY <2>1, <2>2, Zenon
<1> HIDE DEF r, R
<1>7. \A i \in Index : r[i] \in Byte
  BY <1>1, <1>3, <1>6
<1>8. r \in Block
  BY <1>2, <1>7 DEF Block
<1>9. 42 \div 8 = 5 /\ 42 % 8 = 2 /\ 2^2 = 4 /\ 2^(8 - 2) = 64
  OBVIOUS
<1>10. u128_rrot(r, 42) = [i \in Index |-> r[(i + 5) % 16] \div 4 + ((r[(((i + 5) % 16) + 1) % 16] * 64) % 256)]
  BY <1>9, TableIs DEF u128_rrot
<1>11. ASSUME NEW i \in Index
       PROVE  r[(i + 5) % 16] \div 4 + ((r[(((i + 5) % 16) + 1) % 16] * 64) % 256) = s[i]
  <2>1. (((i + 5) % 16) + 1) % 16 = (i + 6) % 16
    BY DEF Index
  <2>2. r[(i + 5) % 16] = R(i, (i + 15) % 16)
    BY <1>1, <1>3, <1>4
  <2>3. r[(i + 6) % 16] = R((i + 1) % 16, i)
    BY <1>1, <1>3, <1>4
  <2> DEFINE x == s[i]
             y == s[(i + 1) % 16]
             z == s[(i + 15) % 16]
  <2>4. x \in 0 .. 255 /\ y \in 0 .. 255 /\ z \in 0 .. 255
    BY <1>4, <1>5
  <2>5. R(i, (i + 15) % 16) = ((x * 4) % 256) + z \div 64 /\ R((i + 1) % 16, i) = ((y * 4) % 256) + x \div 64
    BY Zenon DEF R
  <2> HIDE DEF x, y, z
  <2>6. (((x * 4) % 256) + z \div 64) \div 4 + (((((y * 4) % 256) + x \div 64) * 64) % 256) = x
    BY <2>4
  <2>7. r[(i + 5) % 16] \div 4 + ((r[(i + 6) % 16] * 64) % 256) = x
    BY <2>2, <2>3, <2>5, <2>6, ZenonT(60)
  <2> QED BY <2>1, <2>7, Zenon DEF x
<1>13. u128_rrot(r, 42) = [i \in Index |-> s[i]]
  BY <1>10, <1>11, ZenonT(60)
<1>14. u128_rrot(r, 42) = s
  BY <1>13 DEF Block
<1> QED BY <1>8, <1>14 DEF r

(* Subtraction takes back what addition brought: what is borrowed is what   *)
(* was carried.                                                             *)
LEMMA SubAdd ==
  ASSUME NEW a \in Block, NEW b \in Block
  PROVE  u128_sub(u128_add(a, b), b) = a
<1>1. PICK c : Carries(a, b, c)
  BY CarryCarries
<1> DEFINE s == Added(a, b, c)
<1>2. u128_add(a, b) = s /\ s \in Block
  BY <1>1, SumFacts
<1> DEFINE P(d) == d = [i \in 0 .. 16 |-> IF i = 0 THEN 0
                                          ELSE IF s[i - 1] - b[i - 1] - d[i - 1] < 0 THEN 1 ELSE 0]
           borrow == CHOOSE d : P(d)
<1>3. u128_sub(s, b) = [i \in Index |-> (s[i] - b[i] - borrow[i]) % 256]
  BY TableIs DEF u128_sub
<1>4. ASSUME NEW k \in Index
      PROVE  /\ c[k + 1] = IF s[k] - b[k] - c[k] < 0 THEN 1 ELSE 0
             /\ (s[k] - b[k] - c[k]) % 256 = a[k]
  <2> DEFINE x == a[k]
             y == b[k]
             z == c[k]
  <2>1. x \in 0 .. 255 /\ y \in 0 .. 255 /\ z \in 0 .. 1
    <3>1. \A i \in 0 .. 16 : c[i] \in 0 .. 1
      BY <1>1 DEF Carries
    <3> QED BY <3>1, ByteAt, PlaceOf, ZenonT(60)
  <2>2. s[k] = (x + y + z) % 256 /\ c[k + 1] = (x + y + z) \div 256
    BY <1>1 DEF Added, Carries
  <2> HIDE DEF x, y, z, s
  <2>3. /\ (x + y + z) \div 256 = IF ((x + y + z) % 256) - y - z < 0 THEN 1 ELSE 0
        /\ (((x + y + z) % 256) - y - z) % 256 = x
    BY <2>1
  <2>4. c[k + 1] = IF s[k] - y - z < 0 THEN 1 ELSE 0
    BY <2>2, <2>3, Zenon
  <2>5. (s[k] - y - z) % 256 = x
    BY <2>2, <2>3, Zenon
  <2> QED BY <2>4, <2>5, Zenon DEF x, y, z
<1> HIDE DEF s
<1>5. c[0] = 0 /\ DOMAIN c = 0 .. 16 /\ c = [i \in 0 .. 16 |-> c[i]]
  BY <1>1 DEF Carries
<1>6. P(c)
  <2>1. \A i \in 0 .. 16 : c[i] = IF i = 0 THEN 0 ELSE IF s[i - 1] - b[i - 1] - c[i - 1] < 0 THEN 1 ELSE 0
    <3> SUFFICES ASSUME NEW i \in 1 .. 16
                 PROVE  c[i] = IF s[i - 1] - b[i - 1] - c[i - 1] < 0 THEN 1 ELSE 0
      BY <1>5
    <3>1. i - 1 \in Index /\ (i - 1) + 1 = i
      BY DEF Index
    <3> QED BY <1>4, <3>1, ZenonT(60)
  <2> QED BY <1>5, <2>1, Zenon
<1> HIDE DEF P
<1>7. P(borrow)
  BY <1>6, Zenon
<1> HIDE DEF borrow
<1>8. ASSUME NEW d, P(d)
      PROVE  /\ d[0] = 0 /\ d = [i \in 0 .. 16 |-> d[i]]
             /\ \A k \in Index : d[k + 1] = IF s[k] - b[k] - d[k] < 0 THEN 1 ELSE 0
  <2>1. \A i \in 0 .. 16 : d[i] = IF i = 0 THEN 0 ELSE IF s[i - 1] - b[i - 1] - d[i - 1] < 0 THEN 1 ELSE 0
    BY <1>8, Zenon DEF P
  <2>2. \A k \in Index : k + 1 \in 0 .. 16 /\ k + 1 # 0 /\ (k + 1) - 1 = k
    BY DEF Index
  <2>3. d[0] = 0
    BY <2>1
  <2>4. \A k \in Index : d[k + 1] = IF s[k] - b[k] - d[k] < 0 THEN 1 ELSE 0
    <3> TAKE k \in Index
    <3>1. d[k + 1] = IF k + 1 = 0 THEN 0
                     ELSE IF s[(k + 1) - 1] - b[(k + 1) - 1] - d[(k + 1) - 1] < 0 THEN 1 ELSE 0
      BY <2>1, <2>2, Zenon
    <3> QED BY <2>2, <3>1, Zenon
  <2>5. d = [i \in 0 .. 16 |-> d[i]]
    <3> DEFINE g == [i \in 0 .. 16 |-> IF i = 0 THEN 0
                                       ELSE IF s[i - 1] - b[i - 1] - d[i - 1] < 0 THEN 1 ELSE 0]
    <3>1. d = g
      BY <1>8, Zenon DEF P
    <3>2. g = [i \in 0 .. 16 |-> g[i]]
      BY Zenon
    <3> HIDE DEF g
    <3> QED BY <3>1, <3>2
  <2> QED BY <2>3, <2>4, <2>5
<1> DEFINE S == {k \in 0 .. 16 : borrow[k] = c[k]}
<1>9. 0 \in S
  BY <1>5, <1>7, <1>8
<1>10. \A k \in Index : k \in S => k + 1 \in S
  <2> SUFFICES ASSUME NEW k \in Index, borrow[k] = c[k]  PROVE k + 1 \in S
    OBVIOUS
  <2>1. borrow[k + 1] = c[k + 1]
    BY <1>4, <1>7, <1>8, ZenonT(60)
  <2>2. k + 1 \in 0 .. 16
    BY DEF Index
  <2> QED BY <2>1, <2>2
<1> HIDE DEF S
<1>11. 0 .. 16 \subseteq S
  BY <1>9, <1>10, HandedOn
<1>12. \A k \in Index : borrow[k] = c[k]
  BY <1>11 DEF S, Index
<1>13. \A k \in Index : (s[k] - b[k] - borrow[k]) % 256 = a[k]
  BY <1>4, <1>12, ZenonT(60)
<1>14. u128_sub(s, b) = [k \in Index |-> a[k]]
  BY <1>3, <1>13, ZenonT(60)
<1>15. u128_sub(s, b) = a
  BY <1>14 DEF Block
<1> QED BY <1>2, <1>15, Zenon

-----------------------------------------------------------------------------
(* The constants and what a key is made of are blocks.                      *)
LEMMA TupleBlock ==
  ASSUME NEW s, \A k \in 1 .. 16 : s[k] \in Byte
  PROVE  Bytes16(s) \in Block
<1>1. \A i \in Index : i + 1 \in 1 .. 16
  BY DEF Index
<1>2. Bytes16(s) = [i \in Index |-> s[i + 1]]
  BY TableIs DEF Bytes16
<1> QED BY <1>1, <1>2 DEF Block

LEMMA KeyConstants ==
  DSi_KEY_MAGIC \in Block /\ DSi_NAND_KEY_Y \in Block /\ DSi_ES_KEY_Y \in Block
<1>1. \A k \in 1 .. 16 : k = 1 \/ k = 2 \/ k = 3 \/ k = 4 \/ k = 5 \/ k = 6 \/ k = 7 \/ k = 8 \/ k = 9 \/ k = 10
                        \/ k = 11 \/ k = 12 \/ k = 13 \/ k = 14 \/ k = 15 \/ k = 16
  OBVIOUS
<1>2. DSi_KEY_MAGIC \in Block
  <2> DEFINE s == <<\h79, \h3e, \h4f, \h1a, \h5f, \h0f, \h68, \h2a, \h58, \h02, \h59, \h29, \h4e, \hfb, \hfe, \hff>>
  <2>1. \A k \in 1 .. 16 : s[k] \in Byte
    BY <1>1 DEF Byte
  <2> HIDE DEF s
  <2>2. Bytes16(s) \in Block
    BY <2>1, TupleBlock
  <2> QED BY <2>2 DEF DSi_KEY_MAGIC, s
<1>3. DSi_NAND_KEY_Y \in Block
  <2> DEFINE s == <<\h76, \hdc, \hb9, \h0a, \hd3, \hc4, \h4d, \hbd, \h1d, \hdd, \h2d, \h20, \h05, \h00, \ha0, \he1>>
  <2>1. \A k \in 1 .. 16 : s[k] \in Byte
    BY <1>1 DEF Byte
  <2> HIDE DEF s
  <2>2. Bytes16(s) \in Block
    BY <2>1, TupleBlock
  <2> QED BY <2>2 DEF DSi_NAND_KEY_Y, s
<1>4. DSi_ES_KEY_Y \in Block
  <2> DEFINE s == <<\he5, \hcc, \h5a, \h8b, \h56, \hd0, \hc9, \h72, \h9c, \h17, \he8, \hdc, \h39, \h12, \h36, \ha9>>
  <2>1. \A k \in 1 .. 16 : s[k] \in Byte
    BY <1>1 DEF Byte
  <2> HIDE DEF s
  <2>2. Bytes16(s) \in Block
    BY <2>1, TupleBlock
  <2> QED BY <2>2 DEF DSi_ES_KEY_Y, s
<1> QED BY <1>2, <1>3, <1>4

(* f_xy.c makes of X and Y the key the AES engine makes, and the reverse    *)
(* makes of it what went in.                                                *)
LEMMA KeyFacts ==
  ASSUME NEW x \in Block, NEW y \in Block
  PROVE  F_XY(x, y) = NormalKey(x, y) /\ u128_xor(F_XY_reverse(F_XY(x, y)), y) = x
<1> DEFINE v == u128_xor(x, y)
           s == u128_add(v, DSi_KEY_MAGIC)
<1>1. v \in Block /\ v = Table(XorBlock(x, y)) /\ u128_xor(v, y) = x
  <2>1. v = XorBlock(x, y)
    BY DEF u128_xor
  <2> QED BY <2>1, XorBlockFacts, TableIs
<1>2. s \in Block /\ s = Sum(v, DSi_KEY_MAGIC)
  BY <1>1, KeyConstants, AddIsSum
<1>3. F_XY(x, y) = u128_lrot(s, 42)
  BY DEF F_XY
<1>4. NormalKey(x, y) = u128_lrot(s, 42)
  BY <1>1, <1>2, RotateBits, TableIs DEF NormalKey
<1>5. F_XY_reverse(F_XY(x, y)) = v
  <2>1. u128_rrot(F_XY(x, y), 42) = s
    BY <1>2, <1>3, RotateBack
  <2>2. u128_sub(s, DSi_KEY_MAGIC) = v
    BY <1>1, KeyConstants, SubAdd
  <2> QED BY <2>1, <2>2, Zenon DEF F_XY_reverse
<1> QED BY <1>1, <1>3, <1>4, <1>5

(* Four words make a block, and its first and last are found again.         *)
LEMMA PutWordsFacts ==
  ASSUME NEW a \in Word, NEW b \in Word, NEW c \in Word, NEW d \in Word
  PROVE  /\ PutWords(<<a, b, c, d>>) \in Block
         /\ WordOf(PutWords(<<a, b, c, d>>), 0) = a
         /\ WordOf(PutWords(<<a, b, c, d>>), 12) = d
<1> DEFINE x == <<a, b, c, d>>
           p == PutWords(x)
<1>1. p = [i \in Index |-> x[(i \div 4) + 1][(i % 4) + 1]]
  BY TableIs DEF PutWords
<1>2. \A i \in Index : (i \div 4) + 1 \in 1 .. 4 /\ (i % 4) + 1 \in 1 .. 4
  BY DEF Index
<1>3. \A m, n \in 1 .. 4 : x[m][n] \in Byte
  <2>1. \A n \in 1 .. 4 : a[n] \in Byte /\ b[n] \in Byte /\ c[n] \in Byte /\ d[n] \in Byte
    BY DEF Word
  <2>2. \A m \in 1 .. 4 : x[m] = a \/ x[m] = b \/ x[m] = c \/ x[m] = d
    OBVIOUS
  <2> QED BY <2>1, <2>2
<1>4. x[1] = a /\ x[4] = d
  OBVIOUS
<1> HIDE DEF x
<1>5. p \in Block
  <2>1. \A i \in Index : x[(i \div 4) + 1][(i % 4) + 1] \in Byte
    BY <1>2, <1>3, Zenon
  <2> QED BY <1>1, <2>1 DEF Block
<1>6. /\ 0 \in Index /\ 1 \in Index /\ 2 \in Index /\ 3 \in Index
      /\ 12 \in Index /\ 13 \in Index /\ 14 \in Index /\ 15 \in Index
      /\ 0 + 1 = 1 /\ 0 + 2 = 2 /\ 0 + 3 = 3 /\ 12 + 1 = 13 /\ 12 + 2 = 14 /\ 12 + 3 = 15
      /\ (0 \div 4) + 1 = 1 /\ (1 \div 4) + 1 = 1 /\ (2 \div 4) + 1 = 1 /\ (3 \div 4) + 1 = 1
      /\ (12 \div 4) + 1 = 4 /\ (13 \div 4) + 1 = 4 /\ (14 \div 4) + 1 = 4 /\ (15 \div 4) + 1 = 4
      /\ (0 % 4) + 1 = 1 /\ (1 % 4) + 1 = 2 /\ (2 % 4) + 1 = 3 /\ (3 % 4) + 1 = 4
      /\ (12 % 4) + 1 = 1 /\ (13 % 4) + 1 = 2 /\ (14 % 4) + 1 = 3 /\ (15 % 4) + 1 = 4
  BY DEF Index
<1>7. p[0] = a[1] /\ p[1] = a[2] /\ p[2] = a[3] /\ p[3] = a[4]
  BY <1>1, <1>4, <1>6
<1>8. p[12] = d[1] /\ p[13] = d[2] /\ p[14] = d[3] /\ p[15] = d[4]
  BY <1>1, <1>4, <1>6
<1>9. \A w \in Word : w = <<w[1], w[2], w[3], w[4]>>
  BY DEF Word
<1> HIDE DEF p
<1>10. WordOf(p, 0) = <<a[1], a[2], a[3], a[4]>>
  BY <1>6, <1>7 DEF WordOf
<1>11. WordOf(p, 12) = <<d[1], d[2], d[3], d[4]>>
  BY <1>6, <1>8 DEF WordOf
<1>12. WordOf(p, 0) = a /\ WordOf(p, 12) = d
  BY <1>9, <1>10, <1>11
<1> QED BY <1>5, <1>12 DEF p, x

LEMMA XorWordFacts ==
  ASSUME NEW v \in Word, NEW w \in Word
  PROVE  XorWord(v, w) \in Word
<1>1. XorWord(v, w) = [k \in 1 .. 4 |-> Xor(v[k], w[k])]
  BY TableIs DEF XorWord
<1>2. \A k \in 1 .. 4 : Xor(v[k], w[k]) \in Byte
  BY XorFacts DEF Word
<1> QED BY <1>1, <1>2 DEF Word

LEMMA SeedWord ==
  ASSUME NEW a \in Byte, NEW b \in Byte, NEW c \in Byte, NEW d \in Byte
  PROVE  Seed(a, b, c, d) \in Word
  BY DEF Seed, Word

(* Every mode starts from four words, and the NAND key's X holds the two of *)
(* the identity as its first and last.                                      *)
LEMMA KeyXFacts ==
  ASSUME NEW id \in Word \X Word
  PROVE  /\ \A mode \in {"NAND", "NAND_3DS", "ES"} : PutWords(KeyX(id, mode)) \in Block
         /\ WordOf(PutWords(KeyX(id, "NAND")), 0) = id[1]
         /\ WordOf(PutWords(KeyX(id, "NAND")), 12) = id[2]
<1>1. id[1] \in Word /\ id[2] \in Word
  OBVIOUS
<1>2. /\ \h24 \in Byte /\ \hee \in Byte /\ \h69 \in Byte /\ \h06 \in Byte
      /\ \he6 \in Byte /\ \h5b \in Byte /\ \h60 \in Byte /\ \h1d \in Byte
  BY DEF Byte
<1>3. /\ \hb3 \in Byte /\ \h58 \in Byte /\ \ha6 \in Byte /\ \haf \in Byte
      /\ \h54 \in Byte /\ \h4e \in Byte /\ \h49 \in Byte /\ \h4f \in Byte /\ \h44 \in Byte /\ \h45 \in Byte
      /\ \h08 \in Byte /\ \hc2 \in Byte /\ \h67 \in Byte /\ \hb7 \in Byte
  BY DEF Byte
<1>4. /\ \h00 \in Byte /\ \h4a \in Byte /\ \hc8 \in Byte /\ \h0c \in Byte /\ \h4b \in Byte /\ \h72 \in Byte
  BY DEF Byte
<1>5. /\ PutWords(KeyX(id, "NAND")) \in Block
      /\ WordOf(PutWords(KeyX(id, "NAND")), 0) = id[1]
      /\ WordOf(PutWords(KeyX(id, "NAND")), 12) = id[2]
  <2> DEFINE b == XorWord(id[1], Seed(\h24, \hee, \h69, \h06))
             c == XorWord(id[2], Seed(\he6, \h5b, \h60, \h1d))
  <2>1. b \in Word /\ c \in Word
    BY <1>1, <1>2, SeedWord, XorWordFacts
  <2>2. KeyX(id, "NAND") = <<id[1], b, c, id[2]>>
    BY DEF KeyX
  <2> HIDE DEF b, c
  <2> QED BY <1>1, <2>1, <2>2, PutWordsFacts
<1>6. PutWords(KeyX(id, "NAND_3DS")) \in Block
  <2> DEFINE first == XorWord(id[1], Seed(\hb3, \h58, \ha6, \haf))
             a == [first EXCEPT ![4] = (@ % 128) + 128]
             b == Seed(\h54, \h4e, \h49, \h4e)
             c == Seed(\h4f, \h44, \h4e, \h45)
             d == XorWord(id[2], Seed(\h08, \hc2, \h67, \hb7))
  <2>1. first \in Word /\ b \in Word /\ c \in Word /\ d \in Word
    BY <1>1, <1>3, SeedWord, XorWordFacts, SMTT(60)
  <2>2. a \in Word
    <3> HIDE DEF first
    <3>1. first[4] \in Byte
      BY <2>1 DEF Word
    <3>2. (first[4] % 128) + 128 \in Byte
      BY <3>1 DEF Byte
    <3> QED BY <2>1, <3>2 DEF Word
  <2>3. KeyX(id, "NAND_3DS") = <<a, b, c, d>>
    BY DEF KeyX
  <2> HIDE DEF first, a, b, c, d
  <2> QED BY <2>1, <2>2, <2>3, PutWordsFacts
<1>7. PutWords(KeyX(id, "ES")) \in Block
  <2> DEFINE a == Seed(\h4e, \h00, \h00, \h4a)
             b == Seed(\h4a, \h00, \h00, \h4e)
             c == XorWord(id[2], Seed(\hc8, \h0c, \h4b, \h72))
  <2>1. a \in Word /\ b \in Word /\ c \in Word
    BY <1>1, <1>3, <1>4, SeedWord, XorWordFacts, SMTT(60)
  <2>2. KeyX(id, "ES") = <<a, b, c, id[1]>>
    BY DEF KeyX
  <2> HIDE DEF a, b, c
  <2> QED BY <1>1, <2>1, <2>2, PutWordsFacts
<1> QED BY <1>5, <1>6, <1>7

LEMMA KeyYFacts == \A mode \in {"NAND", "NAND_3DS", "ES"} : KeyY(mode) \in Block
  BY KeyConstants DEF KeyY

LEMMA GeneratedKey ==
  ASSUME NEW id \in Word \X Word, NEW mode \in {"NAND", "NAND_3DS", "ES"}
  PROVE  generate_key(id, mode) = NormalKey(PutWords(KeyX(id, mode)), KeyY(mode))
<1>1. PutWords(KeyX(id, mode)) \in Block /\ KeyY(mode) \in Block
  BY KeyXFacts, KeyYFacts
<1> QED BY <1>1, KeyFacts DEF generate_key

(* The identity comes back out of the key that was made of it.              *)
LEMMA IdentityComesBack ==
  ASSUME NEW id \in Word \X Word
  PROVE  getConsoleID(NormalKey(PutWords(KeyX(id, "NAND")), DSi_NAND_KEY_Y)) = id
<1> DEFINE x == PutWords(KeyX(id, "NAND"))
           k == NormalKey(x, DSi_NAND_KEY_Y)
           r == u128_xor(F_XY_reverse(k), DSi_NAND_KEY_Y)
<1>1. x \in Block /\ WordOf(x, 0) = id[1] /\ WordOf(x, 12) = id[2]
  BY KeyXFacts
<1> HIDE DEF x
<1>2. r = x
  <2>1. k = F_XY(x, DSi_NAND_KEY_Y)
    BY <1>1, KeyConstants, KeyFacts
  <2> QED BY <1>1, <2>1, KeyConstants, KeyFacts
<1>3. getConsoleID(k) = CHOOSE y \in {<<WordOf(z, 0), WordOf(z, 12)>> : z \in {r}} : TRUE
  BY DEF getConsoleID, With
<1> HIDE DEF k, r
<1>4. getConsoleID(k) = <<WordOf(r, 0), WordOf(r, 12)>>
  BY <1>3
<1>5. <<id[1], id[2]>> = id
  OBVIOUS
<1>6. getConsoleID(k) = id
  BY <1>1, <1>2, <1>4, <1>5
<1> QED BY <1>6 DEF k, x

LEMMA LauncherKey ==
  ASSUME NEW header \in Headers, ~header.debug
  PROVE  ModcryptKey(header) = NormalKey(keyp(header.first), header.key_y)
<1>1. header.first \in Block /\ header.key_y \in Block
  BY HeaderAssumption
<1> DEFINE first == header.first
           N == <<\h4e, \h69, \h6e, \h74, \h65, \h6e, \h64, \h6f>>
<1>2. keyp(first) = [j \in Index |-> IF j < 8 THEN N[j + 1] ELSE IF j < 12 THEN first[j + 4] ELSE first[27 - j]]
  BY DEF keyp
<1>3. \A k \in 1 .. 8 : N[k] \in Byte
  <2>1. \A k \in 1 .. 8 : k = 1 \/ k = 2 \/ k = 3 \/ k = 4 \/ k = 5 \/ k = 6 \/ k = 7 \/ k = 8
    OBVIOUS
  <2> QED BY <2>1 DEF Byte
<1> HIDE DEF N, first
<1>4. \A j \in Index : /\ j < 8 => j + 1 \in 1 .. 8
                       /\ ~(j < 8) /\ j < 12 => j + 4 \in Index
                       /\ ~(j < 8) /\ ~(j < 12) => 27 - j \in Index
  BY DEF Index
<1>5. \A i \in Index : first[i] \in Byte
  BY <1>1 DEF Block, first
<1>6. \A j \in Index : (IF j < 8 THEN N[j + 1] ELSE IF j < 12 THEN first[j + 4] ELSE first[27 - j]) \in Byte
  BY <1>3, <1>4, <1>5
<1>7. keyp(first) \in Block
  BY <1>2, <1>6 DEF Block
<1>8. u128_xor(header.key_y, keyp(first)) = u128_xor(keyp(first), header.key_y)
  <2>1. \A a, b \in 0 .. 15 : Nibble(a, b) = Nibble(b, a)
    BY SMTT(60) DEF Nibble, XorNibble
  <2>2. ASSUME NEW a \in Byte, NEW b \in Byte  PROVE Xor(a, b) = Xor(b, a)
    <3>1. a \div 16 \in 0 .. 15 /\ b \div 16 \in 0 .. 15 /\ a % 16 \in 0 .. 15 /\ b % 16 \in 0 .. 15
      BY DEF Byte
    <3>2. Nibble(a \div 16, b \div 16) = Nibble(b \div 16, a \div 16) /\ Nibble(a % 16, b % 16) = Nibble(b % 16, a % 16)
      BY <2>1, <3>1, Zenon
    <3>3. \A c, d : Xor(c, d) = 16 * Nibble(c \div 16, d \div 16) + Nibble(c % 16, d % 16)
      BY DEF Xor, Nibble
    <3> QED BY <3>2, <3>3, Zenon
  <2> DEFINE y == header.key_y
             p == keyp(first)
  <2>3. \A i \in Index : y[i] \in Byte /\ p[i] \in Byte
    BY <1>1, <1>7 DEF Block
  <2>4. \A i \in Index : Xor(y[i], p[i]) = Xor(p[i], y[i])
    BY <2>2, <2>3
  <2>5. y \in Block /\ p \in Block
    BY <1>1, <1>7
  <2> HIDE DEF y, p
  <2>6. u128_xor(y, p) = [i \in Index |-> Xor(y[i], p[i])] /\ u128_xor(p, y) = [i \in Index |-> Xor(p[i], y[i])]
    BY <2>5, XorBlockFacts
  <2>7. u128_xor(y, p) = u128_xor(p, y)
    BY <2>4, <2>6
  <2> QED BY <2>7 DEF y, p
<1>9. ModcryptKey(header) = F_XY(keyp(first), header.key_y)
  BY <1>8 DEF ModcryptKey, F_XY, first
<1>10. F_XY(keyp(first), header.key_y) = NormalKey(keyp(first), header.key_y)
  BY <1>1, <1>7, KeyFacts
<1> QED BY <1>9, <1>10 DEF first

(* The invariant of the keys: the shared memory holds what the ARM7 found,  *)
(* the identity is read before a key is made of it, and the key of an area  *)
(* stays while its blocks are done.                                         *)
KeyInv ==
  /\ console \in Consoles
  /\ slot3 = NormalKey(PutWords(KeyX(console.id, "NAND")), DSi_NAND_KEY_Y)
  /\ cryptPc # "identity" => console_id = console.id
  /\ cryptPc = "eskey" => key = NormalKey(PutWords(KeyX(console_id, NandMode)), DSi_NAND_KEY_Y)
  /\ cryptPc = "boot2key" => key = NormalKey(PutWords(KeyX(console_id, "ES")), DSi_ES_KEY_Y)
  /\ (cryptPc = "loop" /\ call.kind = "modcrypt" /\ ~call.header.debug) =>
       key = NormalKey(keyp(call.header.first), call.header.key_y)

LEMMA KeyStep ==
  ASSUME KeyInv, [DsiNext]_dsiVars
  PROVE  KeyInv'
<1>1. CASE UNCHANGED dsiVars
  BY <1>1 DEF dsiVars, keyVars, KeyInv, NandMode
<1>2. console.id \in Word \X Word
  BY IdentityAssumption DEF KeyInv
<1>3. CASE ReadIdentity
  <2>1. console_id' = console.id
    BY <1>2, <1>3, IdentityComesBack DEF ReadIdentity, KeyInv
  <2> QED BY <1>3, <2>1 DEF ReadIdentity, KeyInv
<1>4. CASE SetNandKey
  <2>1. /\ key' = generate_key(console_id, NandMode) /\ cryptPc' = "eskey" /\ cryptPc = "nandkey"
        /\ console' = console /\ slot3' = slot3 /\ console_id' = console_id
    BY <1>4 DEF SetNandKey
  <2>2. console_id = console.id /\ NandMode \in {"NAND", "NAND_3DS", "ES"} /\ NandMode' = NandMode
        /\ KeyY(NandMode) = DSi_NAND_KEY_Y
    BY <2>1 DEF KeyInv, NandMode, KeyY
  <2>3. key' = NormalKey(PutWords(KeyX(console_id, NandMode)), DSi_NAND_KEY_Y)
    BY <1>2, <2>1, <2>2, GeneratedKey
  <2> QED BY <2>1, <2>2, <2>3 DEF KeyInv
<1>5. CASE SetEsKey
  <2>1. /\ key' = generate_key(console_id, "ES") /\ cryptPc' = "boot2key" /\ cryptPc = "eskey"
        /\ console' = console /\ slot3' = slot3 /\ console_id' = console_id
    BY <1>5 DEF SetEsKey
  <2>2. console_id = console.id /\ KeyY("ES") = DSi_ES_KEY_Y
    BY <2>1 DEF KeyInv, KeyY
  <2>3. key' = NormalKey(PutWords(KeyX(console_id, "ES")), DSi_ES_KEY_Y)
    BY <1>2, <2>1, <2>2, GeneratedKey
  <2> QED BY <2>1, <2>2, <2>3 DEF KeyInv
<1>6. CASE BeginArea
  <2>1. PICK header \in Headers, area \in 1 .. 2, content \in Contents :
          /\ call' = [Call("modcrypt", 0, header.len[area] \div 16, content)
                        EXCEPT !.header = header, !.area = area]
          /\ key' = ModcryptKey(header)
    BY <1>6 DEF BeginArea
  <2>2. call'.header = header
    BY <2>1 DEF Call
  <2>3. /\ cryptPc = "idle" /\ cryptPc' = "loop"
        /\ console' = console /\ slot3' = slot3 /\ console_id' = console_id
    BY <1>6 DEF BeginArea
  <2>4. ~call'.header.debug => key' = NormalKey(keyp(call'.header.first), call'.header.key_y)
    BY <2>1, <2>2, LauncherKey
  <2> QED BY <2>3, <2>4 DEF KeyInv
<1>7. CASE CryptCall
  <2>1. call'.kind # "modcrypt"
    BY <1>7 DEF CryptCall, Call
  <2>2. /\ cryptPc = "idle" /\ cryptPc' = "loop"
        /\ console' = console /\ slot3' = slot3 /\ console_id' = console_id
    BY <1>7 DEF CryptCall, keyVars
  <2> QED BY <2>1, <2>2 DEF KeyInv
<1>8. CASE NandBlock \/ Boot2Block \/ AreaBlock
  <2>1. /\ cryptPc = "loop" /\ cryptPc' = "loop" /\ call' = call
        /\ console' = console /\ slot3' = slot3 /\ console_id' = console_id /\ key' = key
    <3>1. CASE NandBlock
      BY <3>1 DEF NandBlock, keyVars
    <3>2. CASE Boot2Block
      BY <3>2 DEF Boot2Block
    <3>3. CASE AreaBlock
      BY <3>3 DEF AreaBlock, keyVars
    <3> QED BY <1>8, <3>1, <3>2, <3>3
  <2> QED BY <2>1 DEF KeyInv
<1>9. CASE SetBoot2Key \/ SetCounter \/ CryptReturn \/ Boot2SetCtr
  <2>1. /\ cryptPc # "identity" /\ cryptPc' \in {"digest", "idle"}
        /\ console' = console /\ slot3' = slot3 /\ console_id' = console_id
    BY <1>9 DEF SetBoot2Key, SetCounter, CryptReturn, Boot2SetCtr, keyVars
  <2> QED BY <2>1 DEF KeyInv
<1> QED BY <1>1, <1>3, <1>4, <1>5, <1>6, <1>7, <1>8, <1>9 DEF DsiNext

(* THEOREM (nandio.c:50-61, crypto.c:21-51, f_xy.c, main.cpp:222-243).      *)
(* Keys are those that the AES engine would make of the same X and Y,       *)
(* the identity that is recovered from the key of the ARM7 is the console's *)
(* own, and on a DSi the key made of it is that key again: for every        *)
(* identity and every launcher, over every carry, borrow and rotated bit.   *)
THEOREM KeysAreDefined == DsiSpec => []KeyIsDefined
<1>1. DsiInit => KeyInv
  BY DEF DsiInit, KeyInv
<1>2. KeyInv /\ [DsiNext]_dsiVars => KeyInv'
  BY KeyStep
<1>3. KeyInv => KeyIsDefined
  BY DEF KeyInv, KeyIsDefined, NandMode
<1> QED BY <1>1, <1>2, <1>3, PTL DEF DsiSpec

=============================================================================
