------------------------------- MODULE Bytes -------------------------------
(* Bytes, words of four bytes and blocks of sixteen, as arm9/source works    *)
(* with them: a word is the tuple of its bytes, the least significant one    *)
(* first, so that no number in these modules exceeds the integers of TLC.    *)
EXTENDS Integers, TLC

Byte  == 0 .. 255
Index == 0 .. 15
Block == [Index -> Byte]

Bit(x, k) == (x \div 2^k) % 2

(* For TLC, which evaluates when it must: a table that was compared is      *)
(* evaluated once instead of at every use, and so is x for all its uses in  *)
(* Op.                                                                      *)
Table(f) == CHOOSE t \in {f} : t = t
With(x, Op(_)) == CHOOSE y \in {Op(z) : z \in {x}} : TRUE

(* Exclusive or, nibble by nibble.                                          *)
XorNibble ==
  <<<< 0,  1,  2,  3,  4,  5,  6,  7,  8,  9, 10, 11, 12, 13, 14, 15>>,
    << 1,  0,  3,  2,  5,  4,  7,  6,  9,  8, 11, 10, 13, 12, 15, 14>>,
    << 2,  3,  0,  1,  6,  7,  4,  5, 10, 11,  8,  9, 14, 15, 12, 13>>,
    << 3,  2,  1,  0,  7,  6,  5,  4, 11, 10,  9,  8, 15, 14, 13, 12>>,
    << 4,  5,  6,  7,  0,  1,  2,  3, 12, 13, 14, 15,  8,  9, 10, 11>>,
    << 5,  4,  7,  6,  1,  0,  3,  2, 13, 12, 15, 14,  9,  8, 11, 10>>,
    << 6,  7,  4,  5,  2,  3,  0,  1, 14, 15, 12, 13, 10, 11,  8,  9>>,
    << 7,  6,  5,  4,  3,  2,  1,  0, 15, 14, 13, 12, 11, 10,  9,  8>>,
    << 8,  9, 10, 11, 12, 13, 14, 15,  0,  1,  2,  3,  4,  5,  6,  7>>,
    << 9,  8, 11, 10, 13, 12, 15, 14,  1,  0,  3,  2,  5,  4,  7,  6>>,
    <<10, 11,  8,  9, 14, 15, 12, 13,  2,  3,  0,  1,  6,  7,  4,  5>>,
    <<11, 10,  9,  8, 15, 14, 13, 12,  3,  2,  1,  0,  7,  6,  5,  4>>,
    <<12, 13, 14, 15,  8,  9, 10, 11,  4,  5,  6,  7,  0,  1,  2,  3>>,
    <<13, 12, 15, 14,  9,  8, 11, 10,  5,  4,  7,  6,  1,  0,  3,  2>>,
    <<14, 15, 12, 13, 10, 11,  8,  9,  6,  7,  4,  5,  2,  3,  0,  1>>,
    <<15, 14, 13, 12, 11, 10,  9,  8,  7,  6,  5,  4,  3,  2,  1,  0>>>>
Xor(x, y) == 16 * XorNibble[(x \div 16) + 1][(y \div 16) + 1] + XorNibble[(x % 16) + 1][(y % 16) + 1]

XorWord(v, w)  == Table([k \in 1 .. 4 |-> Xor(v[k], w[k])])
XorBlock(a, b) == Table([i \in Index |-> Xor(a[i], b[i])])

ZeroBlock == [i \in Index |-> 0]
(* A block written as a tuple of sixteen bytes.                             *)
Bytes16(s) == Table([i \in Index |-> s[i + 1]])
=============================================================================
