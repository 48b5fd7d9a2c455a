-------------------------------- MODULE U128 --------------------------------
(***************************************************************************)
(* u128_math.c: numbers of 128 bits as sixteen bytes, the least            *)
(* significant first.  Where the code stores into its first argument the   *)
(* operator returns what is stored.                                        *)
(***************************************************************************)
EXTENDS Bytes

(* A byte shifted left keeps eight bits; the bits of its neighbour fill     *)
(* what became free, so `|` is a sum.                                       *)
ShiftedIn(high, low, bits) == ((high * 2^bits) % 256) + low \div 2^(8 - bits)

(* A mistake that KeyIsDefined would show: the bits that leave a byte come  *)
(* from the byte itself.                                                    *)
u128_lrot_itself(num, shift) ==
  LET from(i) == (i + 16 - ((shift \div 8) % 16)) % 16
  IN  Table([i \in Index |-> ShiftedIn(num[from(i)], num[from(i)], shift % 8)])
u128_lrot(num, shift) ==
  LET from(i) == (i + 16 - ((shift \div 8) % 16)) % 16
  IN  Table([i \in Index |-> ShiftedIn(num[from(i)], num[(from(i) + 15) % 16], shift % 8)])

u128_rrot(num, shift) ==
  LET from(i) == (i + shift \div 8) % 16
      bits    == shift % 8
  IN  Table([i \in Index |->
         num[from(i)] \div 2^bits + ((num[(from(i) + 1) % 16] * 2^(8 - bits)) % 256)])

u128_xor(a, b) == XorBlock(a, b)

(* carry[i] goes into byte i.                                               *)
u128_add(a, b) ==
  LET carry[i \in 0 .. 16] ==
        IF i = 0 THEN 0 ELSE (a[i - 1] + b[i - 1] + carry[i - 1]) \div 256
  IN  Table([i \in Index |-> (a[i] + b[i] + carry[i]) % 256])

(* b is a uint32_t.                                                         *)
u128_add32(a, b) ==
  u128_add(a, [i \in Index |-> IF i < 4 THEN (b \div 256^i) % 256 ELSE 0])

(* A negative difference has ones in its high byte, of which one is borrowed. *)
u128_sub(a, b) ==
  LET borrow[i \in 0 .. 16] ==
        IF i = 0 THEN 0
        ELSE IF a[i - 1] - b[i - 1] - borrow[i - 1] < 0 THEN 1 ELSE 0
  IN  Table([i \in Index |-> (a[i] - b[i] - borrow[i]) % 256])

u128_swap(in) == Table([i \in Index |-> in[15 - i]])
=============================================================================
