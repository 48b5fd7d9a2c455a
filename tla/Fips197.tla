------------------------------ MODULE Fips197 ------------------------------
(***************************************************************************)
(* What AES is, from the standard and not from the code: the state is a    *)
(* block by columns, and nothing is precomputed but the substitution.      *)
(***************************************************************************)
EXTENDS Bytes, Sequences

Double(x) == IF x < 128 THEN 2 * x ELSE Xor(2 * x - 256, 27)

(* The product with x of the bits of y from k upwards, p being that from    *)
(* the next bit upwards.                                                    *)
Product(x, y, k, p) == With(p, LAMBDA q : Xor(Double(q), IF Bit(y, k) = 1 THEN x ELSE 0))
Times(x, y) ==
  Product(x, y, 0, Product(x, y, 1, Product(x, y, 2, Product(x, y, 3,
  Product(x, y, 4, Product(x, y, 5, Product(x, y, 6, Product(x, y, 7, 0))))))))

(* x to the power of 254: from the power e to the power 2 * (e + 1), seven  *)
(* times.                                                                   *)
Square(y) == Times(y, y)
NextPower(x, p) == With(With(p, LAMBDA q : Times(q, x)), Square)
FieldInverse(x) ==
  NextPower(x, NextPower(x, NextPower(x, NextPower(x, NextPower(x, NextPower(x, NextPower(x, 1)))))))

AffineBit(b, i) ==
  (Bit(b, i) + Bit(b, (i + 4) % 8) + Bit(b, (i + 5) % 8) + Bit(b, (i + 6) % 8)
     + Bit(b, (i + 7) % 8) + Bit(99, i)) % 2
AffineByte(b) ==
  AffineBit(b, 0) + 2 * AffineBit(b, 1) + 4 * AffineBit(b, 2) + 8 * AffineBit(b, 3)
    + 16 * AffineBit(b, 4) + 32 * AffineBit(b, 5) + 64 * AffineBit(b, 6) + 128 * AffineBit(b, 7)
SubByte == Table([x \in Byte |-> With(FieldInverse(x), AffineByte)])

(* S is SubByte.                                                            *)
SubBytes(S, s) == Table([i \in Index |-> S[s[i]]])
ShiftRows(s) == [i \in Index |-> s[(i + 4 * (i % 4)) % 16]]
MixColumns(s) ==
  [i \in Index |->
     LET Row(k) == s[4 * (i \div 4) + ((i + k) % 4)]
     IN  Xor(Xor(Double(Row(0)), Xor(Double(Row(1)), Row(1))), Xor(Row(2), Row(3)))]

(* w is the expanded key, a sequence of words; round r uses four of them.   *)
AddRoundKey(s, w, r) ==
  Table([i \in Index |-> Xor(s[i], w[4 * r + (i \div 4) + 1][(i % 4) + 1])])

(* The state behind round r, from the one before it.                        *)
Round(S, w, Nr, r, s) ==
  With(ShiftRows(SubBytes(S, s)), LAMBDA t : AddRoundKey(IF r = Nr THEN t ELSE MixColumns(t), w, r))
CipherBy(S, w, Nr, block) ==
  LET state[r \in 0 .. Nr] ==
        IF r = 0 THEN AddRoundKey(block, w, 0)
        ELSE With(state[r - 1], LAMBDA s : Round(S, w, Nr, r, s))
  IN  state[Nr]
Cipher(w, Nr, block) == With(SubByte, LAMBDA S : CipherBy(S, w, Nr, block))

Rcon ==
  LET power[i \in 1 .. 10] == IF i = 1 THEN 1 ELSE Double(power[i - 1]) IN Table(power)
RotWordOf(v)    == <<v[2], v[3], v[4], v[1]>>
SubWordOf(S, v) == [k \in 1 .. 4 |-> S[v[k]]]

(* Is w the expansion of a key of Nk words?  Handed is what its word  *)
(* i is added to, v being the word before it.                               *)
Handed(S, Nk, i, v) ==
  IF i % Nk = 0 THEN XorWord(SubWordOf(S, RotWordOf(v)), <<Rcon[i \div Nk], 0, 0, 0>>)
  ELSE IF Nk > 6 /\ i % Nk = 4 THEN SubWordOf(S, v)
  ELSE v
IsExpansionBy(S, w, key, Nk) ==
  /\ Len(w) >= 4 * (Nk + 7)
  /\ \A i \in 0 .. (4 * (Nk + 7) - 1) :
       w[i + 1] = IF i < Nk THEN <<key[4 * i], key[4 * i + 1], key[4 * i + 2], key[4 * i + 3]>>
                  ELSE XorWord(w[i + 1 - Nk], Handed(S, Nk, i, w[i]))
IsKeyExpansion(w, key, Nk) == With(SubByte, LAMBDA S : IsExpansionBy(S, w, key, Nk))
=============================================================================
