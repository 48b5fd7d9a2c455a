------------------------------- MODULE Bignum -------------------------------
(***************************************************************************)
(* polarssl/bignum.c as far as it is compiled (404-596, 598-669 and        *)
(* 1814-2450 are not): integers as a sign and limbs.  A number is          *)
(* [s, p]; its length is X->n, and no limbs are the null pointer.          *)
(*                                                                         *)
(* An operator returns [ret, x]: what the function returns and what it     *)
(* leaves in its first argument, after a failure too.  Where functions     *)
(* allow the same number twice, the model calls them so; the operators get *)
(* the argument X as it is and the others by value.  A store behind the    *)
(* limbs makes the number an Overrun.  calloc refuses the sizes of a set:   *)
(* a function may get much and then not get little, or be refused what it   *)
(* asks for after it has written a result.                                  *)
(***************************************************************************)
EXTENDS Bytes, Sequences, FiniteSets

CONSTANTS
  biL,        \* bits of a limb (32)
  biC,        \* bits of a char (8)
  MAX_LIMBS,  \* 10000
  ROUNDS,     \* bound: rounds of a loop that runs until a number is small
  Starts,     \* [regs, denied, calls]: numbers that calls begin with, the sizes
              \* that calloc does not give, how many calls (a bound)
  Buffers,    \* of mbedtls_mpi_read_binary
  Powers,     \* [E, N]: exponents and moduli
  MAX_BITS    \* bound: numbers that fit the integers of TLC

VARIABLE denied   \* limbs that calloc does not give

Half  == 2^(biL \div 2)
Base  == 2^biL
ciL   == biL \div biC
Limb  == 0 .. Base - 1
(* biL is even and not 0: a limb has two halves (MULADDC, mpi_mod_int).     *)
ASSUME BignumAssumption == Half \in Nat /\ Half >= 2 /\ Base = Half * Half /\ MAX_LIMBS \in Nat

ALLOC_FAILED     == -16
BAD_INPUT_DATA   == -4
NEGATIVE_VALUE   == -10
DIVISION_BY_ZERO == -12
BUFFER_TOO_SMALL == -8

Ok(x)       == [ret |-> 0, x |-> x]
Err(e, x)   == [ret |-> e, x |-> x]
(* MBEDTLS_MPI_CHK: the rest is skipped after a failure.                    *)
Then(r, Rest(_)) == With(r, LAMBDA v : IF v.ret # 0 THEN v ELSE Rest(v.x))
(* for (k = 1; k <= n; k++)                                                 *)
For(n, Round(_, _), x) == LET F[k \in 0 .. n] == IF k = 0 THEN x ELSE With(F[k - 1], LAMBDA v : Round(v, k)) IN F[n]

Greater(m, n) == IF m >= n THEN m ELSE n
Zeros(n)      == [k \in 1 .. n |-> 0]
PadLimbs(p, n)  == IF Len(p) >= n THEN p ELSE p \o Zeros(n - Len(p))
(* The limbs without the zeros on top; some loops keep at least one.        *)
Used(p)   == IF \E k \in DOMAIN p : p[k] # 0
             THEN CHOOSE k \in DOMAIN p : p[k] # 0 /\ \A m \in (k + 1) .. Len(p) : p[m] = 0
             ELSE 0
UsedOr1(p) == Greater(Used(p), 1)
Overrun    == <<-1>>

NewMpi     == [s |-> 1, p |-> <<>>]                     \* mbedtls_mpi_init, mbedtls_mpi_free
OneLimb(z) == [s |-> IF z < 0 THEN -1 ELSE 1, p |-> <<IF z < 0 THEN -z ELSE z>>]

-----------------------------------------------------------------------------
(* Memory *)

Grow(X, n) ==
  IF n > MAX_LIMBS \/ (Len(X.p) < n /\ n \in denied) THEN Err(ALLOC_FAILED, X)
  ELSE Ok([X EXCEPT !.p = PadLimbs(@, n)])

Shrink(X, n) ==
  LET m == Greater(UsedOr1(X.p), n)
  IN  IF Len(X.p) <= n THEN Grow(X, n)
      ELSE IF m \in denied THEN Err(ALLOC_FAILED, X)
      ELSE Ok([X EXCEPT !.p = SubSeq(@, 1, m)])

(* The limbs Y has at the bottom, zeros above.                              *)
CopyLimbs(x, p) == [x EXCEPT !.p = PadLimbs(p, Len(@))]
Copy(X, Y) ==
  IF Y.p = <<>> THEN Ok(NewMpi)
  ELSE LET m == UsedOr1(Y.p)
       IN  Then(Grow([X EXCEPT !.s = Y.s], m), LAMBDA x : Ok(CopyLimbs(x, SubSeq(Y.p, 1, m))))

SafeCondAssign(X, Y, assign) ==
  Then(Grow(X, Len(Y.p)),
       LAMBDA x : Ok(IF assign # 0 THEN CopyLimbs([x EXCEPT !.s = Y.s], Y.p) ELSE x))
(* Two numbers: [ret, x, y].                                                *)
SafeCondSwap(X, Y, swap) ==
  LET x == Grow(X, Len(Y.p))
      y == Grow(Y, Len(x.x.p))
  IN  IF x.ret # 0 THEN [ret |-> x.ret, x |-> x.x, y |-> Y]
      ELSE IF y.ret # 0 \/ swap = 0 THEN [ret |-> y.ret, x |-> x.x, y |-> y.x]
      ELSE [ret |-> 0, x |-> y.x, y |-> x.x]

Lset(X, z) ==
  Then(Grow(X, 1), LAMBDA x : Ok(CopyLimbs([x EXCEPT !.s = OneLimb(z).s], OneLimb(z).p)))

-----------------------------------------------------------------------------
(* Bits *)

GetBit(X, pos) == IF Len(X.p) * biL <= pos THEN 0 ELSE Bit(X.p[pos \div biL + 1], pos % biL)

SetBit(X, pos, val) ==
  LET off == pos \div biL + 1
      Put(x) == Ok([x EXCEPT !.p[off] = @ + (val - Bit(@, pos % biL)) * 2^(pos % biL)])
  IN  IF val \notin {0, 1} THEN Err(BAD_INPUT_DATA, X)
      ELSE IF Len(X.p) * biL > pos THEN Put(X)
      ELSE IF val = 0 THEN Ok(X)
      ELSE Then(Grow(X, off), Put)

BitsSet(X) == {k \in 0 .. (Len(X.p) * biL - 1) : GetBit(X, k) = 1}
Lsb(X)     == IF BitsSet(X) = {} THEN 0 ELSE CHOOSE k \in BitsSet(X) : \A m \in BitsSet(X) : k <= m

(* biL less mbedtls_clz: 0 for the limb 0.                                  *)
BitsOfLimb(x) == CHOOSE k \in 0 .. biL : x < 2^k /\ (k = 0 \/ 2^(k - 1) <= x)
Bitlen(X) ==
  IF X.p = <<>> THEN 0 ELSE (UsedOr1(X.p) - 1) * biL + BitsOfLimb(X.p[UsedOr1(X.p)])
SizeOf(X) == (Bitlen(X) + biC - 1) \div biC

(* Chars, the most significant first.                                       *)
ReadBinary(X, buf) ==
  LET lead == IF \E k \in DOMAIN buf : buf[k] # 0
              THEN (CHOOSE k \in DOMAIN buf : buf[k] # 0 /\ \A m \in 1 .. (k - 1) : buf[m] = 0) - 1
              ELSE Len(buf)
      n    == Len(buf) - lead
      Char(j) == IF j < n THEN buf[Len(buf) - j] * 2^((j % ciL) * biC) ELSE 0
      Chars[j \in Nat] == Char(j) + (IF j % ciL = ciL - 1 THEN 0 ELSE Chars[j + 1])
  IN  Then(Grow(X, (n + ciL - 1) \div ciL), LAMBDA x :
        Then(Lset(x, 0), LAMBDA y : Ok([y EXCEPT !.p = [k \in DOMAIN @ |-> Chars[(k - 1) * ciL]]])))
WriteBinary(X, buflen) ==
  IF buflen < SizeOf(X) THEN Err(BUFFER_TOO_SMALL, <<>>)
  ELSE Ok([k \in 1 .. buflen |->
             LET j == buflen - k
             IN  IF j < SizeOf(X) THEN (X.p[j \div ciL + 1] \div 2^((j % ciL) * biC)) % 2^biC ELSE 0])

(* What a limb gets from itself and from its neighbour.                     *)
ShiftL(X, count) ==
  LET v0   == count \div biL
      t1   == count % biL
      bits == Bitlen(X) + count
      Limbs(p) == [k \in DOMAIN p |-> IF k > v0 THEN p[k - v0] ELSE 0]
      Shifted(p) == [k \in DOMAIN p |->
        IF k <= v0 THEN p[k]
        ELSE ((p[k] * 2^t1) % Base) + (IF k = v0 + 1 THEN 0 ELSE p[k - 1] \div 2^(biL - t1))]
  IN  Then(IF Len(X.p) * biL < bits THEN Grow(X, (bits + biL - 1) \div biL) ELSE Ok(X),
           LAMBDA x : Ok([x EXCEPT !.p = Shifted(Limbs(@))]))
ShiftR(X, count) ==
  LET v0 == count \div biL
      v1 == count % biL
      n  == Len(X.p)
      Limbs(p) == [k \in DOMAIN p |-> IF k + v0 <= n THEN p[k + v0] ELSE 0]
      Shifted(p) == [k \in DOMAIN p |->
        (p[k] \div 2^v1) + (IF k = n THEN 0 ELSE (p[k + 1] * 2^(biL - v1)) % Base)]
  IN  IF v0 > n \/ (v0 = n /\ v1 > 0) THEN Lset(X, 0)
      ELSE Ok([X EXCEPT !.p = Shifted(Limbs(@))])

-----------------------------------------------------------------------------
(* Comparison *)

SignOf(n) == IF n > 0 THEN 1 ELSE IF n < 0 THEN -1 ELSE 0
CmpLimbs(p, q) ==
  IF Used(p) # Used(q) THEN SignOf(Used(p) - Used(q))
  ELSE With({k \in 1 .. Used(p) : p[k] # q[k]}, LAMBDA differ :
         IF differ = {} THEN 0
         ELSE With(CHOOSE k \in differ : \A m \in differ : m <= k, LAMBDA top : SignOf(p[top] - q[top])))
CmpAbs(X, Y) == CmpLimbs(X.p, Y.p)
CmpMpi(X, Y) ==
  IF Used(X.p) = 0 /\ Used(Y.p) = 0 THEN 0
  ELSE IF Used(X.p) > Used(Y.p) THEN X.s
  ELSE IF Used(X.p) < Used(Y.p) THEN -Y.s
  ELSE IF X.s # Y.s THEN X.s
  ELSE X.s * CmpLimbs(X.p, Y.p)
CmpInt(X, z) == CmpMpi(X, OneLimb(z))

-----------------------------------------------------------------------------
(* Addition and subtraction.  `same` says which of "A" and "B" is the       *)
(* number X.                                                                *)

Into(X, A, isX)  == IF isX THEN Ok(X) ELSE Copy(X, A)
(* A copy of an argument that X would overwrite.                            *)
Aside(A, isX, X) == IF isX /\ A.p # <<>> /\ UsedOr1(A.p) \in denied THEN Err(ALLOC_FAILED, X) ELSE Ok(X)

(* The carry out of limb k.  A mistake that ArithmeticIsExact would show:   *)
(* a limb that is all ones hands on no carry.                               *)
CarryLost(p, q, c) == IF p + q >= Base THEN 1 ELSE 0
Carry(p, q, c)     == IF p + q + c >= Base THEN 1 ELSE 0
(* y and what b uses of its limbs, and a limb more for the last carry.      *)
AddLimbs(y, b) ==
  LET o(k) == IF k <= Used(b) THEN b[k] ELSE 0
      c[k \in 0 .. Len(y.p)] == IF k = 0 THEN 0 ELSE Carry(y.p[k], o(k), c[k - 1])
      sum == [y EXCEPT !.p = [k \in DOMAIN @ |-> (@[k] + o(k) + c[k - 1]) % Base]]
  IN  IF c[Len(y.p)] = 0 THEN Ok(sum)
      ELSE Then(Grow(sum, Len(y.p) + 1), LAMBDA z : Ok([z EXCEPT !.p[Len(y.p) + 1] = 1]))
AddAbs(X, A, B, same) ==
  LET a == IF "B" \in same THEN B ELSE A      \* the arguments change places
      b == IF "B" \in same THEN A ELSE B
  IN  Then(Into(X, a, same # {}), LAMBDA x :
      Then(Grow([x EXCEPT !.s = 1], Used(b.p)), LAMBDA y : AddLimbs(y, b.p)))

(* d less the n limbs of s, with the borrow as far as it goes.              *)
SubHlp(n, s, d) ==
  LET o(k) == IF k <= n THEN s[k] ELSE 0
      c[k \in 0 .. Len(d)] == IF k = 0 THEN 0 ELSE IF d[k] - c[k - 1] < o(k) THEN 1 ELSE 0
  IN  IF n > Len(d) \/ c[Len(d)] # 0 THEN Overrun
      ELSE [k \in DOMAIN d |-> (d[k] - o(k) - c[k - 1]) % Base]
SubAbs(X, A, B, same) ==
  IF CmpAbs(A, B) < 0 THEN Err(NEGATIVE_VALUE, X)
  ELSE Then(Aside(B, "B" \in same, X), LAMBDA x :
       Then(Into(x, A, "A" \in same), LAMBDA y : Ok([s |-> 1, p |-> SubHlp(Used(B.p), B.p, y.p)])))

(* A and B, B with this sign.                                               *)
AddSigned(X, A, B, sign, same) ==
  LET swapped == {IF m = "A" THEN "B" ELSE "A" : m \in same}
  IN  IF A.s * sign > 0
      THEN Then(AddAbs(X, A, B, same), LAMBDA x : Ok([x EXCEPT !.s = A.s]))
      ELSE With(CmpAbs(A, B) >= 0, LAMBDA first :
             Then(IF first THEN SubAbs(X, A, B, same) ELSE SubAbs(X, B, A, swapped),
                  LAMBDA x : Ok([x EXCEPT !.s = IF first THEN A.s ELSE -A.s])))
AddMpi(X, A, B, same) == AddSigned(X, A, B, B.s, same)
SubMpi(X, A, B, same) == AddSigned(X, A, B, -B.s, same)
AddInt(X, A, b, same) == AddMpi(X, A, OneLimb(b), same)
SubInt(X, A, b, same) == SubMpi(X, A, OneLimb(b), same)

-----------------------------------------------------------------------------
(* Multiplication *)

(* One round of the assembler for Thumb: b * s + d + c from the products of  *)
(* halves.  The middle ones are split, and every addition to the low limb   *)
(* hands its carry to the high one.                                         *)
MULADDC(s, d, c, b) ==
  LET mid1 == (s % Half) * (b \div Half)
      mid2 == (s \div Half) * (b % Half)
      low  == (s % Half) * (b % Half) + c + ((mid1 * Half) % Base) + ((mid2 * Half) % Base) + d
  IN  [d |-> low % Base,
       c |-> ((s \div Half) * (b \div Half) + mid1 \div Half + mid2 \div Half + low \div Base) % Base]

(* b times the i limbs of s is added to d from limb off + 1 on; the loop    *)
(* for the carry touches one limb more, whether there is one or not.        *)
MulHlp(i, s, d, off, b) ==
  LET Round(v, k) == With(MULADDC(IF k <= i THEN s[k] ELSE 0, d[off + k], v.c, b), LAMBDA m :
                       [d |-> Append(v.d, m.d), c |-> m.c])
  IN  With(For(Len(d) - off, Round, [d |-> SubSeq(d, 1, off), c |-> 0]), LAMBDA r :
        IF off + i + 1 > Len(d) \/ r.c # 0 THEN Overrun ELSE r.d)
MulMpi(X, A, B, same) ==
  LET i == Used(A.p)
      j == Used(B.p)
      AddRow(p, k) == MulHlp(i, A.p, p, j - k, B.p[j - k + 1])
  IN  Then(Aside(A, "A" \in same, X), LAMBDA v :
      Then(Aside(B, "B" \in same, v), LAMBDA w :
      Then(Grow(w, i + j), LAMBDA x :
      Then(Lset(x, 0), LAMBDA y :
        Ok([s |-> A.s * B.s, p |-> For(j, AddRow, y.p)])))))
MulInt(X, A, b, same) == MulMpi(X, A, [s |-> 1, p |-> <<b>>], same)

-----------------------------------------------------------------------------
(* Division *)

(* mbedtls_int_div_int, with a type of two limbs (MBEDTLS_HAVE_UDBL).       *)
IntDivInt(u1, u0, d) == IF d = 0 \/ u1 >= d THEN Base - 1 ELSE (u1 * Base + u0) \div d

LimbAt(p, k) == IF k >= 0 THEN p[k + 1] ELSE 0
(* The greatest digit of the quotient, up to the estimate of its first      *)
(* limb, that two limbs of y and three of x allow.                          *)
Digit(x, y, i, t) ==
  LET estimate == IF x[i + 1] >= y[t + 1] THEN Base - 1 ELSE IntDivInt(x[i + 1], x[i], y[t + 1])
      two   == y[t + 1] * Base + LimbAt(y, t - 1)
      three == (x[i + 1] * Base + LimbAt(x, i - 1)) * Base + LimbAt(x, i - 2)
  IN  CHOOSE q \in 0 .. estimate : q * two <= three /\ (q = estimate \/ (q + 1) * two > three)

(* A loop, of at most ROUNDS rounds, over a result.                         *)
While(Goes(_), Round(_), r) ==
  For(ROUNDS, LAMBDA v, k : IF v.ret = 0 /\ Goes(v.x) THEN Round(v.x) ELSE v, r)

(* |A| shifted left: k > 0, or the bits of B fill its limb but for one.     *)
Normalized(A, k) ==
  Then(Copy(NewMpi, A), LAMBDA w : IF k > 0 THEN ShiftL([w EXCEPT !.s = 1], k) ELSE Ok([w EXCEPT !.s = 1]))

(* v is [rest, z, T1]: what is left of |A|, the quotient, a temporary.      *)
FirstDigit(v, above, k) ==
  Then(SubMpi(v.rest, v.rest, above, {"A"}), LAMBDA x : Ok([v EXCEPT !.rest = x, !.z[k] = @ + 1]))
(* Limb m of the quotient; an estimate that is one too many is taken back.  *)
NextDigit(v, y, m) ==
  LET Low == biL * (m - 1)
  IN  With(Digit(v.rest.p, y.p, m + Len(y.p) - 1, Len(y.p) - 1), LAMBDA q :
      Then(MulInt(v.T1, y, q, {}), LAMBDA product :
      Then(ShiftL(product, Low), LAMBDA part :
      Then(SubMpi(v.rest, v.rest, part, {"A"}), LAMBDA x :
        IF CmpInt(x, 0) >= 0 THEN Ok([rest |-> x, z |-> [v.z EXCEPT ![m] = q], T1 |-> part])
        ELSE Then(Copy(part, y), LAMBDA one :
             Then(ShiftL(one, Low), LAMBDA back :
             Then(AddMpi(x, x, back, {"A"}), LAMBDA up :
               Ok([rest |-> up, z |-> [v.z EXCEPT ![m] = q - 1], T1 |-> back]))))))))
DivLoop(x0, y, z0) ==
  LET top == Len(x0.p) - Len(y.p)
  IN  Then(ShiftL(y, biL * top), LAMBDA above :
      Then(While(LAMBDA v : CmpMpi(v.rest, above) >= 0, LAMBDA v : FirstDigit(v, above, top + 1),
                 Ok([rest |-> x0, z |-> z0, T1 |-> [s |-> 1, p |-> Zeros(3)]])), LAMBDA v :
        For(top, LAMBDA r, k : Then(r, LAMBDA w : NextDigit(w, y, top + 1 - k)), Ok(v))))

(* |A| / |B| for |A| >= |B|, the rest still shifted by k.                   *)
Divided(A, B, k) ==
  Then(Normalized(A, k), LAMBDA x : Then(Normalized(B, k), LAMBDA y :
  Then(Grow(NewMpi, Len(A.p) + 2), LAMBDA z :
    IF {2, 3} \cap denied # {} THEN Err(ALLOC_FAILED, z) ELSE DivLoop(x, y, z.p))))

(* Q and R are numbers, or NULL: [ret, q, r].  `same` says which of "A" and *)
(* "B" is the number Q: its sign is read when Q has been written.           *)
NULL == [s |-> 0, p |-> <<>>]
QuotientTo(Q, z, A, B, same) ==
  IF Q = NULL THEN Ok(NULL)
  ELSE Then(Copy(Q, [s |-> 1, p |-> z]), LAMBDA w :
         LET Sign(m, old) == IF m \in same THEN w.s ELSE old.s
         IN  Ok([w EXCEPT !.s = Sign("A", A) * Sign("B", B)]))
RestTo(R, rest, k, sign) ==
  IF R = NULL THEN Ok(NULL)
  ELSE Then(ShiftR(rest, k), LAMBDA w :
       Then(Copy(R, [w EXCEPT !.s = sign]), LAMBDA v : Ok(IF CmpInt(v, 0) = 0 THEN [v EXCEPT !.s = 1] ELSE v)))
DivMpi(Q, R, A, B, same) ==
  IF CmpInt(B, 0) = 0 THEN [ret |-> DIVISION_BY_ZERO, q |-> Q, r |-> R]
  ELSE With([small |-> CmpAbs(A, B) < 0, k |-> biL - 1 - (Bitlen(B) % biL)], LAMBDA c :
       With(IF c.small THEN Ok([z |-> <<0>>, rest |-> A]) ELSE Divided(A, B, c.k), LAMBDA d :
         IF d.ret # 0 THEN [ret |-> d.ret, q |-> Q, r |-> R]
         ELSE With(IF ~c.small THEN QuotientTo(Q, d.x.z, A, B, same)
                   ELSE IF Q = NULL THEN Ok(NULL) ELSE Lset(Q, 0), LAMBDA q :
                IF q.ret # 0 THEN [ret |-> q.ret, q |-> q.x, r |-> R]
                ELSE With(IF "A" \in same THEN q.x ELSE A, LAMBDA a :
                     With(IF ~c.small THEN RestTo(R, d.x.rest, c.k, a.s)
                          ELSE IF R = NULL THEN Ok(NULL) ELSE Copy(R, a), LAMBDA r :
                       [ret |-> r.ret, q |-> q.x, r |-> r.x])))))
DivInt(Q, R, A, b, same) == DivMpi(Q, R, A, OneLimb(b), same)

ModMpi(R, A, B) ==
  IF CmpInt(B, 0) < 0 THEN Err(NEGATIVE_VALUE, R)
  ELSE While(LAMBDA x : CmpMpi(x, B) >= 0, LAMBDA x : SubMpi(x, x, B, {"A"}),
         While(LAMBDA x : CmpInt(x, 0) < 0, LAMBDA x : AddMpi(x, x, B, {"A"}),
           With(DivMpi(NULL, R, A, B, {}), LAMBDA d : [ret |-> d.ret, x |-> d.r])))

(* x is a limb.  The limbs go in by halves; the shift of y drops what a     *)
(* limb does not hold.                                                      *)
ModInt(A, b) ==
  LET In(y, h) == (((y * Half) % Base) + h) % b
      n == Len(A.p)
      y == For(n, LAMBDA v, k : In(In(v, A.p[n + 1 - k] \div Half), A.p[n + 1 - k] % Half), 0)
  IN  IF b = 0 THEN Err(DIVISION_BY_ZERO, 0)
      ELSE IF b < 0 THEN Err(NEGATIVE_VALUE, 0)
      ELSE IF b = 1 THEN Ok(0)
      ELSE IF b = 2 THEN Ok(A.p[1] % 2)
      ELSE Ok(IF A.s < 0 /\ y # 0 THEN b - y ELSE y)

-----------------------------------------------------------------------------
(* Powers.  N is odd; n is the number of its limbs.                         *)

(* -1/N for the lowest limb: the first x is right in four bits, every round *)
(* doubles them.                                                            *)
MontgInit(N) ==
  LET m0 == N.p[1]
      rounds == Cardinality({k \in 0 .. biL : biL \div 2^k >= 8})
      Better(x, k) == (x * ((2 - m0 * x) % Base)) % Base
      x == For(rounds, Better, (m0 + 8 * Bit(m0 + 2, 2)) % Base)
  IN  (Base - x) % Base

(* A * B / Base^n mod N.  T has 2 * (n + 1) limbs and holds the old limbs of *)
(* A at the bottom in the end; the subtraction that changes nothing in A is  *)
(* there for the time it takes.                                              *)
MontMul(A, B, N, mm) ==
  LET n == Len(N.p)
      m == IF Len(B.p) < n THEN Len(B.p) ELSE n
      Row(T, k) ==
        LET u0 == A.p[k]
            u1 == ((T[k] + u0 * B.p[1]) * mm) % Base
        IN  With(MulHlp(n, N.p, MulHlp(m, B.p, T, k - 1, u0), k - 1, u1), LAMBDA sum :
              IF sum = Overrun THEN Overrun ELSE [sum EXCEPT ![k] = u0, ![n + k + 2] = 0])
      Low(T) == [k \in DOMAIN A.p |-> IF k <= n + 1 THEN T[n + k] ELSE A.p[k]]
      Reduced(T, d) == IF CmpLimbs(d, N.p) >= 0 THEN SubHlp(n, N.p, d)
                       ELSE IF SubHlp(n, d, T) = Overrun THEN Overrun ELSE d
  IN  With(For(n, Row, Zeros(2 * (n + 1))), LAMBDA T :
        [A EXCEPT !.p = IF T = Overrun THEN Overrun ELSE With(Low(T), LAMBDA d : Reduced(T, d))])

WindowSize(bits) == IF bits > 671 THEN 6 ELSE IF bits > 239 THEN 5 ELSE IF bits > 79 THEN 4
                    ELSE IF bits > 23 THEN 3 ELSE 1

(* The bits of E from the top, limb by limb.                                *)
ForBits(E, Round(_, _), x) ==
  For(Len(E.p), LAMBDA v, limb : For(biL, LAMBDA u, k : Round(u, GetBit(E, (Len(E.p) - limb + 1) * biL - k)), v), x)

(* `state` is 0 before the first bit that is set, 1 between windows and 2   *)
(* within one; a window takes wsize bits and one product.  What is left at  *)
(* the end is taken bit by bit.                                             *)
Scan(x0, E, W, wsize, Mont(_, _)) ==
  LET Square(x, k) == For(k, LAMBDA v, m : Mont(v, v), x)
      Take(v, ei) ==
        LET nbits == v.nbits + 1
            wbits == v.wbits + ei * 2^(wsize - nbits)
        IN  IF ei = 0 /\ v.state = 0 THEN v
            ELSE IF ei = 0 /\ v.state = 1 THEN [v EXCEPT !.x = Mont(@, @)]
            ELSE IF nbits < wsize THEN [v EXCEPT !.state = 2, !.nbits = nbits, !.wbits = wbits]
            ELSE [x |-> Mont(Square(v.x, wsize), W[wbits]), state |-> 1, nbits |-> 0, wbits |-> 0]
      Rest(x, bit) == With(Mont(x, x), LAMBDA y : IF bit = 1 THEN Mont(y, W[1]) ELSE y)
  IN  With(ForBits(E, Take, [x |-> x0, state |-> 0, nbits |-> 0, wbits |-> 0]), LAMBDA end :
        For(end.nbits, LAMBDA x, k : Rest(x, Bit(end.wbits, wsize - k)), end.x))

(* W1, and from the half of the window on: each is W1 times the last.       *)
Window(w1, wsize, Mont(_, _)) ==
  LET half == For(wsize - 1, LAMBDA v, k : Mont(v, v), w1)
      W[k \in Nat] == IF k = 1 THEN w1 ELSE IF k = 2^(wsize - 1) THEN half ELSE Mont(W[k - 1], w1)
  IN  W

(* Base^(2n) mod N.                                                         *)
SquareMod(N) ==
  Then(Lset(NewMpi, 1), LAMBDA x : Then(ShiftL(x, Len(N.p) * 2 * biL), LAMBDA y : ModMpi(y, y, N)))
(* X and what is computed before the powers: place for W[1] and T, |A|, RR. *)
(* A failure leaves X grown.                                                *)
Prepared(X, A, N, cached) ==
  LET After(f, x, Rest(_)) == With(f, LAMBDA v : IF v.ret # 0 THEN Err(v.ret, x) ELSE Rest(v.x))
  IN  Then(Grow(X, Len(N.p) + 1), LAMBDA x :
      After(Grow(NewMpi, Len(N.p) + 1), x, LAMBDA w :
      After(Grow(NewMpi, 2 * (Len(N.p) + 1)), x, LAMBDA T :
      After(IF A.s = -1 THEN Copy(NewMpi, A) ELSE Ok(A), x, LAMBDA a :
      After(IF cached.p # <<>> THEN Ok(cached) ELSE SquareMod(N), x, LAMBDA RR :
        Ok([x |-> x, w |-> w, a |-> [a EXCEPT !.s = 1], RR |-> RR]))))))
FirstPower(w, a, N) == IF CmpMpi(a, N) >= 0 THEN ModMpi(w, a, N) ELSE Copy(w, a)

(* A caller may keep RR in `cached`, NULL when it does not, and has it      *)
(* filled at first.  [ret, x, cached].                                      *)
ExpMod(X, A, E, N, cached) ==
  LET Mont(x, y) == With(x, LAMBDA u : With(y, LAMBDA v : MontMul(u, v, N, MontgInit(N))))
      Power(x, w, wsize) == Mont(Scan(x, E, Window(w, wsize, Mont), wsize, Mont), OneLimb(1))
      Raised(p) ==
        With(FirstPower(p.w, p.a, N), LAMBDA w : IF w.ret # 0 THEN Err(w.ret, p.x) ELSE
        Then(Copy(p.x, p.RR), LAMBDA x :
        With(Power(Mont(x, OneLimb(1)), Mont(w.x, p.RR), WindowSize(Bitlen(E))), LAMBDA power :
          IF A.s = -1 /\ GetBit(E, 0) = 1
          THEN With([power EXCEPT !.s = -1], LAMBDA z : AddMpi(z, N, z, {"B"}))
          ELSE Ok(power))))
  IN  IF CmpInt(N, 0) < 0 \/ N.p[1] % 2 = 0 \/ CmpInt(E, 0) < 0 THEN [ret |-> BAD_INPUT_DATA, x |-> X, cached |-> cached]
      ELSE With(Prepared(X, A, N, cached), LAMBDA p :
             IF p.ret # 0 THEN [ret |-> p.ret, x |-> p.x, cached |-> cached]
             ELSE With(Raised(p.x), LAMBDA r :
                    [ret |-> r.ret, x |-> r.x, cached |-> IF cached = NULL THEN NULL ELSE p.x.RR]))

-----------------------------------------------------------------------------
(* Three numbers on which the functions are called, X the one that most of  *)
(* them write, or A or B when a caller uses a number twice.                 *)

VARIABLES
  regs,      \* "X", "A" and "B"
  RRs,       \* what the caller has kept for each modulus
  did,       \* history: the last call, [f, x, y, u, v, ret]: destinations, the
             \* values of the arguments, result
  bigCalls   \* calls to be made yet

bignumVars == <<denied, regs, RRs, did, bigCalls>>

Magnitude(p) ==
  LET F[k \in 0 .. Len(p)] == IF k = 0 THEN 0 ELSE Base * F[k - 1] + p[Len(p) + 1 - k]
  IN  F[Len(p)]
Value(X) == X.s * Magnitude(X.p)
Nothing  == [f |-> "none", x |-> "none", y |-> "none", u |-> 0, v |-> 0, ret |-> 0]
(* One result goes to x.                                                    *)
Do(f, x, u, v, r) ==
  /\ bigCalls > 0 /\ bigCalls' = bigCalls - 1
  /\ \E result \in {r} :
       /\ regs' = [regs EXCEPT ![x] = result.x]
       /\ did' = [f |-> f, x |-> x, y |-> "none", u |-> u, v |-> v, ret |-> result.ret]
Val(m)  == Value(regs[m])
Fits(bits) == bits <= MAX_BITS
Moduli  == {c.N : c \in Powers}
Same(x, a, b) == {m \in {"A", "B"} : x = IF m = "A" THEN a ELSE b}

BignumInit ==
  /\ \E start \in Starts : denied = start.denied /\ regs = start.regs /\ bigCalls = start.calls
  /\ RRs = [N \in Moduli |-> NewMpi]
  /\ did = Nothing

MemoryCall ==
  /\ \/ \E k \in {0, 3, MAX_LIMBS + 1} :
          \/ Do("grow", "A", Val("A"), k, Grow(regs["A"], k))
          \/ regs["A"].p # <<>> /\ Do("shrink", "A", Val("A"), k, Shrink(regs["A"], k))
     \/ Do("free", "A", 0, 0, Ok(NewMpi))
     \/ \E x \in {"X", "B"} : Do("copy", x, Val("A"), 0, Copy(regs[x], regs["A"]))
     \/ \E c \in {0, 1, 128} :
          Do("assign", "X", IF c = 0 THEN Val("X") ELSE Val("A"), 0, SafeCondAssign(regs["X"], regs["A"], c))
     \/ \E z \in {0, 1 - Base \div 2, 100} : Do("set", "X", z, 0, Lset(regs["X"], z))
     \/ \E k \in {0, biL - 1, biL, 2 * biL + 1}, v \in 0 .. 2 :
          Do("set_bit", "A", Val("A"), [pos |-> k, val |-> v], SetBit(regs["A"], k, v))
     \/ \E buf \in Buffers : Do("read", "X", buf, 0, ReadBinary(regs["X"], buf))
  /\ UNCHANGED <<denied, RRs>>

Exchange ==
  /\ bigCalls > 0 /\ bigCalls' = bigCalls - 1
  /\ \/ /\ regs' = [regs EXCEPT !["A"] = regs["B"], !["B"] = regs["A"]]          \* mbedtls_mpi_swap
        /\ did' = [f |-> "swap", x |-> "A", y |-> "B", u |-> Val("A"), v |-> Val("B"), ret |-> 0]
     \/ \E c \in {0, 255} :
          LET r == SafeCondSwap(regs["A"], regs["B"], c)
          IN  /\ regs' = [regs EXCEPT !["A"] = r.x, !["B"] = r.y]
              /\ did' = [f |-> IF c = 0 THEN "keep" ELSE "swap", x |-> "A", y |-> "B",
                         u |-> Val("A"), v |-> Val("B"), ret |-> r.ret]
  /\ UNCHANGED <<denied, RRs>>

ShiftCall ==
  /\ \E k \in {0, 1, biL - 1, biL, 2 * biL + 3} :
       \/ Fits(Bitlen(regs["A"]) + k) /\ Do("shift_l", "A", Val("A"), k, ShiftL(regs["A"], k))
       \/ Do("shift_r", "A", Val("A"), k, ShiftR(regs["A"], k))
  /\ UNCHANGED <<denied, RRs>>

(* <<destination, A, B>> *)
Aliases == {<<"X", "A", "B">>, <<"A", "A", "B">>, <<"B", "A", "B">>, <<"A", "A", "A">>}
AddCall ==
  /\ \E m \in Aliases :
       LET x == regs[m[1]]
           a == regs[m[2]]
           b == regs[m[3]]
           same == Same(m[1], m[2], m[3])
       IN  \/ Do("add_abs", m[1], Value(a), Value(b), AddAbs(x, a, b, same))
           \/ Do("sub_abs", m[1], Value(a), Value(b), SubAbs(x, a, b, same))
           \/ Do("add", m[1], Value(a), Value(b), AddMpi(x, a, b, same))
           \/ Do("sub", m[1], Value(a), Value(b), SubMpi(x, a, b, same))
           \/ /\ Fits(Bitlen(a) + Bitlen(b))
              /\ Do("mul", m[1], Value(a), Value(b), MulMpi(x, a, b, same))
  /\ UNCHANGED <<denied, RRs>>
IntCall ==
  /\ \E x \in {"X", "A"}, z \in {0, 1, -100, Base \div 2 - 1} :
       LET a == regs["A"]
           same == Same(x, "A", "B")
       IN  \/ Do("add", x, Val("A"), z, AddInt(regs[x], a, z, same))
           \/ Do("sub", x, Val("A"), z, SubInt(regs[x], a, z, same))
           \/ /\ Fits(Bitlen(a) + biL)
              /\ Do("mul", x, Val("A"), z % Base, MulInt(regs[x], a, z % Base, same))
  /\ UNCHANGED <<denied, RRs>>

(* A caller may take the rest alone, or the quotient, and either into A or  *)
(* B.                                                                       *)
Divide(q, r, v, Div(_, _, _)) ==
  LET At(m) == IF m = "none" THEN NULL ELSE regs[m]
  IN  /\ bigCalls > 0 /\ bigCalls' = bigCalls - 1
      /\ \E d \in {Div(At(q), At(r), {q} \cap {"A", "B"})} :
           /\ regs' = [m \in DOMAIN regs |-> IF m = q THEN d.q ELSE IF m = r THEN d.r ELSE regs[m]]
           /\ did' = [f |-> "div", x |-> q, y |-> r, u |-> Val("A"), v |-> v, ret |-> d.ret]
DivCall ==
  /\ \E q, r \in {"none", "X", "A", "B"} :
       q # r /\ Divide(q, r, Val("B"), LAMBDA Q, R, same : DivMpi(Q, R, regs["A"], regs["B"], same))
  /\ UNCHANGED <<denied, RRs>>
DivIntCall ==
  /\ \E q, r \in {"none", "X", "A"}, b \in {0, 3, -100} :
       q # r /\ Divide(q, r, b, LAMBDA Q, R, same : DivInt(Q, R, regs["A"], b, same))
  /\ UNCHANGED <<denied, RRs>>
ModCall ==
  /\ \/ \E x \in {"X", "A"} : Do("mod", x, Val("A"), Val("B"), ModMpi(regs[x], regs["A"], regs["B"]))
     \/ \E b \in {-1, 0, 1, 2, 3, 2^(biL \div 2)} :
          LET r == ModInt(regs["A"], b)
          IN  regs["A"].p # <<>> /\ Do("mod", "X", Val("A"), b, [ret |-> r.ret, x |-> IF r.ret = 0 THEN OneLimb(r.x) ELSE regs["X"]])
  /\ UNCHANGED <<denied, RRs>>
(* A number without limbs would be dereferenced.                            *)
ExpCall ==
  /\ bigCalls > 0 /\ regs["A"].p # <<>>
  /\ \E x \in {"X", "A"}, c \in Powers, kept \in BOOLEAN :
       \E r \in {ExpMod(regs[x], regs["A"], c.E, c.N, IF kept THEN RRs[c.N] ELSE NULL)} :
         /\ Do("exp", x, Val("A"), c, r)
         /\ RRs' = IF kept THEN [RRs EXCEPT ![c.N] = r.cached] ELSE RRs
  /\ UNCHANGED denied

BignumNext == MemoryCall \/ Exchange \/ ShiftCall \/ AddCall \/ IntCall \/ DivCall \/ DivIntCall
              \/ ModCall \/ ExpCall
BignumSpec == BignumInit /\ [][BignumNext]_bignumVars

-----------------------------------------------------------------------------
(* Properties *)

Abs(z)        == IF z < 0 THEN -z ELSE z
(* The quotient in x.  Where x is the dividend or the divisor, its sign is  *)
(* lost, and a dividend that is lost leaves its rest the sign of the        *)
(* quotient, or nothing when it was the rest itself.                        *)
Quotient(x, u, v) ==
  (IF x = "A" THEN 1 ELSE SignOf(u)) * (IF x = "B" THEN 1 ELSE SignOf(v)) * (Abs(u) \div Abs(v))
Remainder(x, u, v) ==
  IF x # "A" THEN SignOf(u) * (Abs(u) % Abs(v))
  ELSE IF Abs(u) < Abs(v) THEN 0 ELSE SignOf(v) * (Abs(u) % Abs(v))
PowerMod(z, E, m) ==
  ForBits(E, LAMBDA h, bit : (((h * h) % m) * (IF bit = 1 THEN z % m ELSE 1)) % m, 1 % m)
(* What x holds after a call that returned 0.                               *)
Exact(f, x, y, u, v) ==
  CASE f \in {"none", "grow", "shrink", "free", "copy", "assign", "set"} -> x = "none" \/ Val(x) = u
    [] f = "swap"    -> Val("A") = v /\ Val("B") = u
    [] f = "keep"    -> Val("A") = u /\ Val("B") = v
    [] f = "set_bit" -> LET old == (Abs(u) \div 2^v.pos) % 2
                        IN  Abs(Val(x)) = Abs(u) + (v.val - old) * 2^v.pos
    [] f = "read"    -> WriteBinary(regs[x], Len(u)).x = u
    [] f = "shift_l" -> Val(x) = u * 2^v
    [] f = "shift_r" -> Val(x) = SignOf(u) * (Abs(u) \div 2^v)
    [] f = "add_abs" -> Val(x) = Abs(u) + Abs(v)
    [] f = "sub_abs" -> Val(x) = Abs(u) - Abs(v)
    [] f = "add"     -> Val(x) = u + v
    [] f = "sub"     -> Val(x) = u - v
    [] f = "mul"     -> Val(x) = u * v
    [] f = "div"     -> /\ x = "none" \/ Val(x) = Quotient(x, u, v)
                        /\ y = "none" \/ Val(y) = Remainder(x, u, v)
    [] f = "mod"     -> Val(x) = u % v
    [] f = "exp"     -> LET m == Value(v.N)
                        IN  /\ Val(x) % m = PowerMod(u, v.E, m)
                            /\ Val(x) \in 0 .. (IF u <= 0 THEN m ELSE m - 1)   \* N for 0, see below
(* Which arguments are refused.                                             *)
Refused(f, u, v) ==
  CASE f \in {"div", "mod"} /\ v = 0 -> DIVISION_BY_ZERO
    [] f = "mod" /\ v < 0 -> NEGATIVE_VALUE
    [] f = "sub_abs" /\ Abs(u) < Abs(v) -> NEGATIVE_VALUE
    [] f = "set_bit" /\ v.val \notin {0, 1} -> BAD_INPUT_DATA
    [] f = "exp" /\ (Value(v.N) < 0 \/ Value(v.N) % 2 = 0 \/ (v.E.s < 0 /\ Used(v.E.p) > 0)) -> BAD_INPUT_DATA
    [] f \in {"grow", "shrink"} /\ v > MAX_LIMBS -> ALLOC_FAILED
    [] OTHER -> 0
(* The functions that only look.                                            *)
LooksRight(X) ==
  LET v == Abs(Value(X))
  IN  /\ v < 2^Bitlen(X) /\ (Bitlen(X) = 0 \/ 2^(Bitlen(X) - 1) <= v)
      /\ v # 0 => v % 2^Lsb(X) = 0 /\ v % 2^(Lsb(X) + 1) # 0
      /\ \A z \in {0, 1, -100} : CmpInt(X, z) = SignOf(Value(X) - z)

(* bignum.c:82-1813.  Numbers carry limbs that mean nothing, zeros with     *)
(* a sign, and space of earlier results; the destination may be an          *)
(* argument, and memory may be refused for some sizes and given for others, *)
(* so that a function fails after it has begun to write.  A function that   *)
(* returns 0 has computed what integers give, but for the signs that a      *)
(* division loses when its quotient replaces an argument (1414-1415, 1421), *)
(* and stayed within the limbs; it refuses what it cannot compute and       *)
(* nothing else, unless memory is short.                                    *)
ArithmeticIsExact ==
  /\ \A m \in DOMAIN regs : /\ regs[m].s \in {-1, 1}
                            /\ \A k \in DOMAIN regs[m].p : regs[m].p[k] \in Limb
                            /\ LooksRight(regs[m])
  /\ CmpMpi(regs["A"], regs["B"]) = SignOf(Val("A") - Val("B"))
  /\ CmpAbs(regs["A"], regs["B"]) = SignOf(Abs(Val("A")) - Abs(Val("B")))
  /\ did.ret = 0 => Exact(did.f, did.x, did.y, did.u, did.v)
  /\ Refused(did.f, did.u, did.v) # 0 => did.ret \in {Refused(did.f, did.u, did.v), ALLOC_FAILED}
  /\ did.ret # 0 => did.ret = Refused(did.f, did.u, did.v) \/ (did.ret = ALLOC_FAILED /\ denied # {})
=============================================================================
