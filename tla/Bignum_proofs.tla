--------------------------- MODULE Bignum_proofs ---------------------------
(***************************************************************************)
(* Proofs about Bignum: comparison, addition, subtraction and              *)
(* multiplication compute what they are named for, on numbers of every     *)
(* length, for limbs of every even number of bits, whatever arguments are  *)
(* the destination and whatever memory there is.                           *)
(*                                                                         *)
(* A loop over limbs is a recursive function; Recursion shows that it has  *)
(* its values, InductionUp and InductionDown carry facts along the limbs.  *)
(* What the limbs are worth is compared from the top limb down, as weights *)
(* (Weighs): that needs no powers of the base, but where the product is    *)
(* shown to fit its limbs (PlaceValues).                                   *)
(***************************************************************************)
EXTENDS Bignum, SequenceTheorems, WellFoundedInduction, TLAPS

-----------------------------------------------------------------------------
(* Induction and recursion over 0 .. n, in the form of sets and functions.  *)
LEMMA InductionUp ==
  ASSUME NEW n \in Nat, NEW S, 0 \in S, \A k \in 1 .. n : k - 1 \in S => k \in S
  PROVE  \A k \in 0 .. n : k \in S
<1> DEFINE Less == {pair \in Nat \X Nat : pair[1] < pair[2]}
           Bad == {k \in 0 .. n : k \notin S}
<1>1. IsWellFoundedOn(Less, Nat)
  BY NatLessThanWellFounded DEF OpToRel
<1> SUFFICES ASSUME Bad # {}  PROVE FALSE
  OBVIOUS
<1>2. Bad \in SUBSET Nat
  OBVIOUS
<1>3. PICK x \in Bad : \A y \in Bad : ~(<<y, x>> \in Less)
  <2> HIDE DEF Less, Bad
  <2> QED BY <1>1, <1>2, WFMin
<1>4. x \in 1 .. n /\ x - 1 \in 0 .. n /\ <<x - 1, x>> \in Less
  OBVIOUS
<1>5. x - 1 \notin Bad
  BY <1>3, <1>4
<1> QED BY <1>3, <1>4, <1>5

(* The same from n down to 0.                                               *)
LEMMA InductionDown ==
  ASSUME NEW n \in Nat, NEW S, n \in S, \A k \in 1 .. n : k \in S => k - 1 \in S
  PROVE  \A k \in 0 .. n : k \in S
<1> DEFINE T == {k \in 0 .. n : n - k \in S}
<1>1. 0 \in T
  OBVIOUS
<1>2. ASSUME NEW k \in 1 .. n, k - 1 \in T  PROVE k \in T
  <2>1. n - (k - 1) \in 1 .. n /\ n - (k - 1) \in S /\ n - (k - 1) - 1 = n - k
    BY <1>2
  <2> QED BY <2>1
<1> HIDE DEF T
<1>3. \A k \in 0 .. n : k \in T
  BY <1>1, <1>2, InductionUp
<1>4. ASSUME NEW k \in 0 .. n  PROVE k \in S
  <2>1. n - k \in T /\ n - (n - k) = k
    BY <1>3
  <2> QED BY <2>1 DEF T
<1> QED BY <1>4

(* G gives the value of f at a place from the one before.                   *)
Solves(f, n, a, G) == f[0] = a /\ \A k \in 1 .. n : f[k] = G[<<k, f[k - 1]>>]

(* A recursion whose values stay in a set has a solution.                   *)
LEMMA Recursion ==
  ASSUME NEW n \in Nat, NEW V, NEW a \in V, NEW G \in [(1 .. n) \X V -> V]
  PROVE  \E f \in [0 .. n -> V] : Solves(f, n, a, G)
<1> DEFINE S == {m \in 0 .. n : \E f \in [0 .. m -> V] : Solves(f, m, a, G)}
<1>1. 0 \in S
  <2> DEFINE f == [k \in 0 .. 0 |-> a]
  <2>1. f \in [0 .. 0 -> V] /\ Solves(f, 0, a, G)
    BY DEF Solves
  <2> QED BY <2>1
<1>2. ASSUME NEW m \in 1 .. n, m - 1 \in S  PROVE m \in S
  <2>1. PICK f \in [0 .. (m - 1) -> V] : Solves(f, m - 1, a, G)
    BY <1>2
  <2> DEFINE x == G[<<m, f[m - 1]>>]
             g == [k \in 0 .. m |-> IF k = m THEN x ELSE f[k]]
  <2>2. x \in V
    OBVIOUS
  <2>3. g \in [0 .. m -> V]
    <3> HIDE DEF x
    <3>1. ASSUME NEW k \in 0 .. m  PROVE (IF k = m THEN x ELSE f[k]) \in V
      <4>1. CASE k = m
        BY <2>2, <4>1
      <4>2. CASE k # m
        <5>1. k \in 0 .. (m - 1)
          BY <4>2
        <5> QED BY <2>1, <4>2, <5>1
      <4> QED BY <4>1, <4>2
    <3> QED BY <3>1
  <2>4. g[0] = a
    BY <2>1 DEF Solves
  <2>5. ASSUME NEW k \in 1 .. m  PROVE g[k] = G[<<k, g[k - 1]>>]
    <3>1. CASE k = m
      <4>1. g[m] = x /\ g[m - 1] = f[m - 1]
        <5>1. m \in 0 .. m /\ m - 1 \in 0 .. m /\ m - 1 # m
          OBVIOUS
        <5> HIDE DEF x
        <5> QED BY <5>1
      <4> HIDE DEF g
      <4> QED BY <3>1, <4>1
    <3>2. CASE k # m
      <4>1. k \in 1 .. (m - 1) /\ g[k] = f[k] /\ g[k - 1] = f[k - 1]
        BY <3>2
      <4> HIDE DEF g
      <4> QED BY <2>1, <4>1 DEF Solves
    <3> QED BY <3>1, <3>2
  <2> HIDE DEF g
  <2> QED BY <2>3, <2>4, <2>5 DEF Solves
<1> HIDE DEF S
<1>3. n \in S
  BY <1>1, <1>2, InductionUp
<1> QED BY <1>3 DEF S

-----------------------------------------------------------------------------
(* The base, and numbers as the weights of their limbs.                     *)
LEMMA BaseIs == Base \in Nat /\ Base >= 2 /\ 0 \in Limb /\ 1 \in Limb /\ Limb \subseteq Nat /\ Limb = 0 .. (Base - 1)
<1>1. Half \in Nat /\ Half >= 2 /\ Base = Half * Half
  BY BignumAssumption
<1>2. \A h \in Nat : h >= 2 => h * h \in Nat /\ h * h >= 2
  OBVIOUS
<1>3. Base \in Nat /\ Base >= 2
  BY <1>1, <1>2
<1> QED BY <1>3 DEF Limb

(* A digit further up, and a limb with the zeros above a number.            *)
Up(x) == Base * x
At(p, k) == IF k \in DOMAIN p THEN p[k] ELSE 0
(* w is the value of the limbs of p above each place, to m places.          *)
Weighs(p, m, w) ==
  /\ w \in [0 .. m -> Nat]
  /\ w[m] = 0
  /\ \A k \in 1 .. m : w[k - 1] = Up(w[k]) + At(p, k)

(* A digit more: what the provers need to know of multiples of the base.    *)
LEMMA Scaling ==
  ASSUME NEW x \in Nat, NEW y \in Nat
  PROVE  /\ Up(x) \in Nat /\ Up(x + y) = Up(x) + Up(y)
         /\ x <= y => Up(x) <= Up(y)
         /\ Up(x + 1) = Up(x) + Base /\ Up(0) = 0 /\ Up(1) = Base
<1>1. Base \in Nat
  BY BaseIs
<1>2. \A b \in Nat, d \in Nat, e \in Nat : b * d \in Nat /\ b * (d + e) = b * d + b * e /\ b * (d + 1) = b * d + b
  OBVIOUS
<1>3. Up(x) \in Nat /\ Up(x + y) = Up(x) + Up(y) /\ Up(x + 1) = Up(x) + Base
  BY <1>1, <1>2 DEF Up
<1>4. ASSUME x <= y  PROVE Up(x) <= Up(y)
  <2>1. y - x \in Nat /\ x + (y - x) = y
    BY <1>4
  <2>2. Up(x + (y - x)) = Up(x) + Up(y - x) /\ Up(y - x) \in Nat
    BY <1>1, <1>2, <2>1 DEF Up
  <2> QED BY <2>1, <2>2, <1>3
<1>5. Up(0) = 0 /\ Up(1) = Base
  BY <1>1 DEF Up
<1> QED BY <1>3, <1>4, <1>5

(* Every number has weights: Magnitude adds its limbs up from the top.      *)
LEMMA OwnWeights ==
  ASSUME NEW p \in Seq(Limb)
  PROVE  \E w : Weighs(p, Len(p), w) /\ Magnitude(p) = w[0]
<1> DEFINE n == Len(p)
           G == [x \in (1 .. n) \X Nat |-> Base * x[2] + p[n + 1 - x[1]]]
           Eq(f) == f = [k \in 0 .. n |-> IF k = 0 THEN 0 ELSE Base * f[k - 1] + p[n + 1 - k]]
<1>1. n \in Nat
  OBVIOUS
<1>2. \A k \in 1 .. n : p[k] \in Nat
  BY BaseIs
<1>3. \A a \in Nat, b \in Nat : Base * a + b \in Nat
  BY BaseIs
<1> HIDE DEF n
<1>4. G \in [(1 .. n) \X Nat -> Nat]
  <2>1. ASSUME NEW x \in (1 .. n) \X Nat  PROVE Base * x[2] + p[n + 1 - x[1]] \in Nat
    <3>1. n + 1 - x[1] \in 1 .. n /\ x[2] \in Nat
      BY <1>1
    <3> QED BY <3>1, <1>2, <1>3
  <2> QED BY <2>1
<1>5. PICK f \in [0 .. n -> Nat] : Solves(f, n, 0, G)
  <2> HIDE DEF G
  <2> QED BY <1>1, <1>4, Recursion
<1>6. Eq(f)
  <2>1. ASSUME NEW k \in 0 .. n  PROVE f[k] = IF k = 0 THEN 0 ELSE Base * f[k - 1] + p[n + 1 - k]
    <3>1. CASE k = 0
      BY <1>5, <3>1 DEF Solves
    <3>2. CASE k \in 1 .. n
      <4>1. f[k] = G[<<k, f[k - 1]>>]
        <5> HIDE DEF G
        <5> QED BY <1>5, <3>2 DEF Solves
      <4>2. <<k, f[k - 1]>> \in (1 .. n) \X Nat /\ k # 0
        BY <3>2, <1>1
      <4> QED BY <4>1, <4>2
    <3> QED BY <3>1, <3>2
  <2>2. f = [k \in 0 .. n |-> f[k]]
    OBVIOUS
  <2> QED BY <2>1, <2>2
<1>7. Magnitude(p) = (CHOOSE g : Eq(g))[n]
  BY DEF Magnitude, n
<1> DEFINE g == CHOOSE h : Eq(h)
<1>8. Eq(g)
  BY <1>6
<1> HIDE DEF g
<1>9. g[0] = 0 /\ \A k \in 1 .. n : g[k] = Base * g[k - 1] + p[n + 1 - k]
  BY <1>1, <1>8
<1>10. \A k \in 0 .. n : g[k] \in Nat
  <2> DEFINE S == {k \in 0 .. n : g[k] \in Nat}
  <2>1. 0 \in S
    BY <1>1, <1>9
  <2>2. ASSUME NEW k \in 1 .. n, k - 1 \in S  PROVE k \in S
    <3>1. g[k - 1] \in Nat /\ p[n + 1 - k] \in Nat
      BY <2>2, <1>1, <1>2
    <3>2. Base * g[k - 1] + p[n + 1 - k] \in Nat
      BY <3>1, <1>3
    <3> QED BY <3>2, <1>9
  <2> HIDE DEF S
  <2>3. \A k \in 0 .. n : k \in S
    BY <1>1, <2>1, <2>2, InductionUp
  <2> QED BY <2>3 DEF S
<1> DEFINE w == [k \in 0 .. n |-> g[n - k]]
<1>11. w \in [0 .. n -> Nat] /\ w[n] = 0 /\ w[0] = g[n]
  <2>1. \A k \in 0 .. n : n - k \in 0 .. n
    BY <1>1
  <2>2. n - n = 0 /\ n - 0 = n /\ n \in 0 .. n /\ 0 \in 0 .. n
    BY <1>1
  <2>3. w \in [0 .. n -> Nat]
    BY <2>1, <1>10
  <2>4. w[n] = g[n - n] /\ w[0] = g[n - 0]
    BY <2>2
  <2> HIDE DEF w
  <2> QED BY <2>2, <2>3, <2>4, <1>9
<1>12. ASSUME NEW k \in 1 .. n  PROVE w[k - 1] = Up(w[k]) + At(p, k)
  <2>1. n - (k - 1) \in 1 .. n /\ n - (k - 1) - 1 = n - k /\ n + 1 - (n - (k - 1)) = k
    BY <1>1
  <2>2. g[n - (k - 1)] = Base * g[n - k] + p[k]
    BY <1>9, <2>1
  <2>3. At(p, k) = p[k]
    <3>1. DOMAIN p = 1 .. n
      BY DEF n
    <3> HIDE DEF n
    <3> QED BY <3>1 DEF At
  <2> QED BY <2>2, <2>3, <1>1 DEF Up
<1>13. Weighs(p, Len(p), w)
  <2> HIDE DEF w
  <2> QED BY <1>11, <1>12 DEF Weighs, n
<1> QED BY <1>7, <1>11, <1>13 DEF g

(* The limbs of a number, and zeros above.                                  *)
LEMMA LimbsAre ==
  ASSUME NEW p \in Seq(Limb)
  PROVE  /\ Len(p) \in Nat /\ DOMAIN p = 1 .. Len(p)
         /\ \A k \in Int : At(p, k) \in Limb /\ At(p, k) \in Nat /\ At(p, k) < Base
         /\ \A k \in 1 .. Len(p) : At(p, k) = p[k]
         /\ \A k \in Int : k > Len(p) => At(p, k) = 0
<1>1. Len(p) \in Nat /\ DOMAIN p = 1 .. Len(p) /\ \A k \in 1 .. Len(p) : p[k] \in Limb
  OBVIOUS
<1>2. \A k \in Int : At(p, k) \in Limb
  BY <1>1, BaseIs DEF At
<1>3. \A x \in Limb : x \in Nat /\ x < Base
  BY BaseIs
<1> QED BY <1>1, <1>2, <1>3 DEF At

(* A number has weights to any number of places that holds its limbs.       *)
LEMMA WeightsExist ==
  ASSUME NEW p \in Seq(Limb), NEW m \in Nat, m >= Len(p)
  PROVE  \E w : Weighs(p, m, w) /\ Magnitude(p) = w[0]
<1> DEFINE n == Len(p)
<1>1. PICK w : Weighs(p, n, w) /\ Magnitude(p) = w[0]
  BY OwnWeights
<1> DEFINE v == [k \in 0 .. m |-> IF k <= n THEN w[k] ELSE 0]
<1>2. n \in Nat /\ n <= m
  OBVIOUS
<1>3. w \in [0 .. n -> Nat] /\ w[n] = 0 /\ \A k \in 1 .. n : w[k - 1] = Up(w[k]) + At(p, k)
  BY <1>1 DEF Weighs
<1>4. \A k \in Int : k > n => At(p, k) = 0
  BY LimbsAre
<1> HIDE DEF n
<1>5. v \in [0 .. m -> Nat] /\ v[0] = w[0]
  BY <1>2, <1>3
<1>6. v[m] = 0
  BY <1>2, <1>3
<1>7. ASSUME NEW k \in 1 .. m  PROVE v[k - 1] = Up(v[k]) + At(p, k)
  <2>1. CASE k <= n
    BY <2>1, <1>2, <1>3
  <2>2. CASE k > n
    <3>1. v[k] = 0 /\ At(p, k) = 0
      BY <2>2, <1>2, <1>4
    <3>2. v[k - 1] = 0
      <4>1. CASE k - 1 <= n
        <5>1. k - 1 = n
          BY <2>2, <1>2, <4>1
        <5> QED BY <5>1, <1>2, <1>3
      <4>2. CASE k - 1 > n
        BY <4>2, <1>2
      <4> QED BY <4>1, <4>2, <1>2
    <3>3. Up(0) = 0
      BY Scaling
    <3> QED BY <3>1, <3>2, <3>3
  <2> QED BY <2>1, <2>2, <1>2
<1> HIDE DEF v
<1>8. Weighs(p, m, v)
  BY <1>5, <1>6, <1>7 DEF Weighs
<1> QED BY <1>1, <1>5, <1>8

(* There is one such w.                                                     *)
LEMMA WeightsUnique ==
  ASSUME NEW p \in Seq(Limb), NEW m \in Nat, m >= Len(p), NEW w, Weighs(p, m, w)
  PROVE  Magnitude(p) = w[0] /\ Magnitude(p) \in Nat
<1>1. PICK v : Weighs(p, m, v) /\ Magnitude(p) = v[0]
  BY WeightsExist
<1> DEFINE S == {k \in 0 .. m : v[k] = w[k]}
<1>3. m \in S
  BY <1>1 DEF Weighs
<1>4. ASSUME NEW k \in 1 .. m, k \in S  PROVE k - 1 \in S
  <2>1. v[k] = w[k] /\ k - 1 \in 0 .. m
    BY <1>4
  <2>2. v[k - 1] = Up(v[k]) + At(p, k) /\ w[k - 1] = Up(w[k]) + At(p, k)
    BY <1>1 DEF Weighs
  <2> QED BY <2>1, <2>2
<1> HIDE DEF S
<1>5. 0 \in S
  BY <1>3, <1>4, InductionDown
<1>6. w[0] \in Nat
  BY DEF Weighs
<1> QED BY <1>1, <1>5, <1>6 DEF S

(* Equal limbs, whatever zeros are above them, are equal numbers.           *)
LEMMA SameLimbs ==
  ASSUME NEW p \in Seq(Limb), NEW q \in Seq(Limb), NEW m \in Nat, m >= Len(p), m >= Len(q),
         \A k \in 1 .. m : At(p, k) = At(q, k)
  PROVE  Magnitude(p) = Magnitude(q)
<1>1. PICK w : Weighs(p, m, w) /\ Magnitude(p) = w[0]
  BY WeightsExist
<1>2. Weighs(q, m, w)
  BY <1>1 DEF Weighs
<1> QED BY <1>1, <1>2, WeightsUnique

(* Weights, spelled out for one place.                                      *)
LEMMA WeightIs ==
  ASSUME NEW p, NEW m \in Nat, NEW w, Weighs(p, m, w), NEW k \in 1 .. m
  PROVE  /\ k \in Nat /\ k - 1 \in 0 .. m /\ k \in 0 .. m /\ w[k] \in Nat /\ w[k - 1] \in Nat /\ w[0] \in Nat
         /\ w[k - 1] = Up(w[k]) + At(p, k)
<1>1. w \in [0 .. m -> Nat] /\ w[k - 1] = Up(w[k]) + At(p, k)
  BY DEF Weighs
<1>2. k \in Nat /\ k - 1 \in 0 .. m /\ k \in 0 .. m /\ 0 \in 0 .. m
  OBVIOUS
<1>3. w[k] \in Nat /\ w[k - 1] \in Nat /\ w[0] \in Nat
  BY <1>1, <1>2
<1> QED BY <1>1, <1>2, <1>3

(* Weights at both ends.                                                    *)
LEMMA WeightEnds ==
  ASSUME NEW p, NEW m \in Nat, NEW w, Weighs(p, m, w)
  PROVE  w[0] \in Nat /\ w[m] = 0 /\ 0 \in 0 .. m /\ m \in 0 .. m
<1>1. w \in [0 .. m -> Nat] /\ w[m] = 0
  BY DEF Weighs
<1> QED BY <1>1

(* What a limb adds to those above it.                                      *)
Place(w, p, k) ==
  /\ w[k] \in Nat /\ w[k - 1] \in Nat /\ At(p, k) \in Nat /\ At(p, k) < Base
  /\ w[k - 1] = Up(w[k]) + At(p, k)

(* One limb, or the zero above them.                                        *)
LEMMA LimbIs ==
  ASSUME NEW p \in Seq(Limb), NEW k \in Int
  PROVE  /\ At(p, k) \in Limb /\ At(p, k) \in Nat /\ At(p, k) < Base /\ Base \in Nat
         /\ k \in 1 .. Len(p) => At(p, k) = p[k]
         /\ k > Len(p) => At(p, k) = 0
  BY LimbsAre, BaseIs

(* A digit more for sums.                                                   *)
LEMMA ScaledSum ==
  ASSUME NEW x \in Nat, NEW y \in Nat, NEW z \in Nat
  PROVE  /\ Up(x) \in Nat /\ Up(y) \in Nat /\ Up(z) \in Nat
         /\ Up((x + y) + z) = Up(x) + Up(y) + Up(z)
         /\ x + y + 1 <= z => Up(x) + Up(y) + Base <= Up(z)
<1>1. Up(x) \in Nat /\ Up(y) \in Nat /\ Up(z) \in Nat
  BY Scaling
<1>2. x + y \in Nat /\ (x + y) + 1 \in Nat
  OBVIOUS
<1>3. Up(x + y) = Up(x) + Up(y) /\ Up((x + y) + z) = Up(x + y) + Up(z)
  BY <1>2, Scaling
<1>4. Up((x + y) + 1) = Up(x + y) + Base
  BY <1>2, Scaling
<1>5. x + y + 1 <= z => Up((x + y) + 1) <= Up(z)
  BY <1>2, Scaling
<1> QED BY <1>1, <1>3, <1>4, <1>5

(* Weights give a place to every limb.                                      *)
LEMMA Digits ==
  ASSUME NEW p \in Seq(Limb), NEW m \in Nat, NEW w, Weighs(p, m, w), NEW k \in 1 .. m
  PROVE  Place(w, p, k)
<1>1. k \in Int
  OBVIOUS
<1>2. w[k] \in Nat /\ w[k - 1] \in Nat /\ w[k - 1] = Up(w[k]) + At(p, k)
  BY WeightIs
<1>3. At(p, k) \in Nat /\ At(p, k) < Base
  BY <1>1, LimbIs
<1> QED BY <1>2, <1>3 DEF Place

-----------------------------------------------------------------------------
(* Sums of limbs.                                                           *)

(* Addition with carries, limb by limb; read from the sum, subtraction with *)
(* borrows.                                                                 *)
Column(d, o, r, c, k) ==
  c[k] \in Nat /\ c[k - 1] \in Nat /\ At(d, k) + At(o, k) + c[k - 1] = At(r, k) + Up(c[k])
Adds(d, o, r, c, m) == c[0] = 0 /\ \A k \in 1 .. m : Column(d, o, r, c, k)
Total(wr, wd, wo, c, k) == wr[k] = wd[k] + wo[k] + c[k]

(* The sum of two numbers from one place on gives that from the next lower. *)
LEMMA AddStep ==
  ASSUME NEW d, NEW o, NEW r, NEW c, NEW wd, NEW wo, NEW wr, NEW k \in Int,
         Place(wd, d, k), Place(wo, o, k), Place(wr, r, k), Column(d, o, r, c, k), Total(wr, wd, wo, c, k)
  PROVE  Total(wr, wd, wo, c, k - 1)
<1>1. c[k] \in Nat
  BY DEF Column
<1>2. wd[k] \in Nat /\ wo[k] \in Nat
  BY DEF Place
<1>3. Up((wd[k] + wo[k]) + c[k]) = Up(wd[k]) + Up(wo[k]) + Up(c[k]) /\ Up(wd[k]) \in Nat /\ Up(wo[k]) \in Nat /\ Up(c[k]) \in Nat
  <2>1. \A x \in Nat : \A y \in Nat : \A z \in Nat : Up((x + y) + z) = Up(x) + Up(y) + Up(z)
    BY ScaledSum
  <2>2. Up((wd[k] + wo[k]) + c[k]) = Up(wd[k]) + Up(wo[k]) + Up(c[k])
    <3>1. \A y \in Nat : \A z \in Nat : Up((wd[k] + y) + z) = Up(wd[k]) + Up(y) + Up(z)
      BY <1>2, <2>1
    <3>2. \A z \in Nat : Up((wd[k] + wo[k]) + z) = Up(wd[k]) + Up(wo[k]) + Up(z)
      BY <1>2, <3>1
    <3> QED BY <1>1, <3>2
  <2>3. Up(wd[k]) \in Nat /\ Up(wo[k]) \in Nat /\ Up(c[k]) \in Nat
    BY <1>1, <1>2, Scaling
  <2> QED BY <2>2, <2>3
<1>4. Up(wr[k]) = Up(wd[k]) + Up(wo[k]) + Up(c[k])
  BY <1>3 DEF Total
<1> QED BY <1>3, <1>4 DEF Place, Column, Total

(* The sum of two numbers, when nothing is carried out.                     *)
LEMMA SumsOfLimbs ==
  ASSUME NEW d \in Seq(Limb), NEW o \in Seq(Limb), NEW r \in Seq(Limb), NEW c, NEW m \in Nat,
         m >= Len(d), m >= Len(o), m >= Len(r), Adds(d, o, r, c, m), c[m] = 0
  PROVE  Magnitude(r) = Magnitude(d) + Magnitude(o)
<1>1. PICK wd : Weighs(d, m, wd) /\ Magnitude(d) = wd[0]
  BY WeightsExist
<1>2. PICK wo : Weighs(o, m, wo) /\ Magnitude(o) = wo[0]
  BY WeightsExist
<1>3. PICK wr : Weighs(r, m, wr) /\ Magnitude(r) = wr[0]
  BY WeightsExist
<1> DEFINE S == {k \in 0 .. m : Total(wr, wd, wo, c, k)}
<1>4. m \in S
  BY SMTT(30), <1>1, <1>2, <1>3 DEF Weighs, Total
<1>5. ASSUME NEW k \in 1 .. m, k \in S  PROVE k - 1 \in S
  <2>1. k \in Int /\ k - 1 \in 0 .. m
    OBVIOUS
  <2>2. Place(wd, d, k) /\ Place(wo, o, k) /\ Place(wr, r, k)
    BY <1>1, <1>2, <1>3, Digits
  <2>3. Column(d, o, r, c, k)
    BY DEF Adds
  <2>4. Total(wr, wd, wo, c, k)
    BY <1>5
  <2> HIDE DEF S
  <2>5. Total(wr, wd, wo, c, k - 1)
    BY <2>1, <2>2, <2>3, <2>4, AddStep
  <2> QED BY <2>1, <2>5 DEF S
<1> HIDE DEF S
<1>6. 0 \in S
  BY <1>4, <1>5, InductionDown
<1>7. c[0] = 0 /\ wd[0] \in Nat /\ wo[0] \in Nat
  BY <1>1, <1>2, WeightEnds DEF Adds
<1> QED BY <1>1, <1>2, <1>3, <1>6, <1>7 DEF S, Total

(* A limb decides against all below it.                                     *)
LEMMA HigherLimb ==
  ASSUME NEW p \in Seq(Limb), NEW q \in Seq(Limb), NEW m \in Nat, m >= Len(p), m >= Len(q),
         NEW top \in 1 .. m, At(p, top) > At(q, top), \A k \in (top + 1) .. m : At(p, k) = At(q, k)
  PROVE  Magnitude(p) > Magnitude(q)
<1>1. PICK wp : Weighs(p, m, wp) /\ Magnitude(p) = wp[0]
  BY WeightsExist
<1>2. PICK wq : Weighs(q, m, wq) /\ Magnitude(q) = wq[0]
  BY WeightsExist
<1> DEFINE S == {k \in 0 .. m : (k >= top => wp[k] = wq[k]) /\ (k < top => wp[k] >= wq[k] + 1)}
<1>3. m \in S
  BY <1>1, <1>2 DEF Weighs
<1>4. ASSUME NEW k \in 1 .. m, k \in S  PROVE k - 1 \in S
  <2>0. k \in Int
    OBVIOUS
  <2>1. wp[k] \in Nat /\ wq[k] \in Nat /\ k - 1 \in 0 .. m
    BY <1>1, <1>2, WeightIs
  <2>2. wp[k - 1] = Up(wp[k]) + At(p, k) /\ wq[k - 1] = Up(wq[k]) + At(q, k)
    BY <1>1, <1>2, WeightIs
  <2>3. At(p, k) \in Nat /\ At(q, k) \in Nat /\ At(q, k) < Base /\ Base \in Nat
    BY <2>0, LimbIs
  <2>4. Up(wp[k]) \in Nat /\ Up(wq[k]) \in Nat
    BY <2>1, Scaling
  <2>5. CASE k > top
    <3>1. wp[k] = wq[k] /\ At(p, k) = At(q, k)
      BY <1>4, <2>5
    <3> QED BY <2>1, <2>2, <2>5, <3>1
  <2>6. CASE k = top
    <3>1. wp[k] = wq[k] /\ At(p, k) > At(q, k)
      BY <1>4, <2>6
    <3>2. wp[k - 1] >= wq[k - 1] + 1
      BY <2>1, <2>2, <2>3, <2>4, <3>1
    <3> QED BY <2>1, <3>2, <2>6
  <2>7. CASE k < top
    <3>1. wq[k] + 1 <= wp[k]
      BY <1>4, <2>1, <2>7
    <3>2. Up(wq[k] + 1) <= Up(wp[k]) /\ Up(wq[k] + 1) = Up(wq[k]) + Base
      <4>1. wq[k] + 1 \in Nat
        BY <2>1
      <4> QED BY <3>1, <4>1, <2>1, Scaling
    <3>3. wp[k - 1] >= wq[k - 1] + 1
      BY SMTT(30), <2>2, <2>3, <2>4, <3>2
    <3> QED BY <2>1, <3>3, <2>7
  <2> QED BY <2>5, <2>6, <2>7
<1> HIDE DEF S
<1>5. 0 \in S
  BY <1>3, <1>4, InductionDown
<1>6. wp[0] \in Nat /\ wq[0] \in Nat
  BY <1>1, <1>2, WeightEnds
<1> QED BY <1>1, <1>2, <1>5, <1>6 DEF S

(* A one above all limbs outweighs any number of as many limbs.             *)
LEMMA OneAbove ==
  ASSUME NEW d \in Seq(Limb), NEW r \in Seq(Limb), Len(r) <= Len(d)
  PROVE  Magnitude(Append(d, 1)) > Magnitude(d) + Magnitude(r)
<1> DEFINE m == Len(d) + 1
           e == Append(d, 1)
<1>0. e \in Seq(Limb) /\ Len(e) = m /\ m \in Nat /\ m >= Len(d) /\ m >= Len(r) /\ m >= Len(e) /\ m \in 1 .. m
  BY BaseIs
<1>a. \A k \in 1 .. m : At(e, k) = IF k = m THEN 1 ELSE At(d, k)
  <2>1. ASSUME NEW k \in 1 .. m  PROVE e[k] = IF k = m THEN 1 ELSE d[k]
    OBVIOUS
  <2>2. DOMAIN e = 1 .. m /\ \A k \in 1 .. m : k # m => k \in DOMAIN d
    BY <1>0
  <2> HIDE DEF e, m
  <2> QED BY <2>1, <2>2 DEF At
<1>b. At(d, m) = 0 /\ At(r, m) = 0
  <2>1. m \in Int /\ m > Len(d) /\ m > Len(r)
    BY <1>0
  <2> HIDE DEF m
  <2> QED BY <2>1, LimbIs
<1> HIDE DEF e, m
<1>1. PICK we : Weighs(e, m, we) /\ Magnitude(e) = we[0]
  BY <1>0, WeightsExist
<1>2. PICK wd : Weighs(d, m, wd) /\ Magnitude(d) = wd[0]
  BY <1>0, WeightsExist
<1>3. PICK wr : Weighs(r, m, wr) /\ Magnitude(r) = wr[0]
  BY <1>0, WeightsExist
<1> DEFINE S == {k \in 0 .. m : k = m \/ we[k] >= wd[k] + wr[k] + 1}
<1>4. m \in S
  BY <1>0
<1>5. ASSUME NEW k \in 1 .. m, k \in S  PROVE k - 1 \in S
  <2>0. k \in Int
    BY <1>0
  <2>1. we[k] \in Nat /\ wd[k] \in Nat /\ wr[k] \in Nat /\ k - 1 \in 0 .. m
    BY <1>0, <1>1, <1>2, <1>3, WeightIs
  <2>2. we[k - 1] = Up(we[k]) + At(e, k) /\ wd[k - 1] = Up(wd[k]) + At(d, k) /\ wr[k - 1] = Up(wr[k]) + At(r, k)
    BY <1>0, <1>1, <1>2, <1>3, WeightIs
  <2>3. At(d, k) \in Nat /\ At(r, k) \in Nat /\ At(r, k) < Base /\ Base \in Nat
    BY <2>0, <1>0, LimbIs
  <2>4. Up(we[k]) \in Nat /\ Up(wd[k]) \in Nat /\ Up(wr[k]) \in Nat
    BY <2>1, Scaling
  <2>5. CASE k = m
    <3>1. we[k] = 0 /\ wd[k] = 0 /\ wr[k] = 0 /\ At(e, k) = 1 /\ At(d, k) = 0 /\ At(r, k) = 0
      BY <2>5, <1>0, <1>a, <1>b, <1>1, <1>2, <1>3 DEF Weighs
    <3>2. Up(we[k]) = 0 /\ Up(wd[k]) = 0 /\ Up(wr[k]) = 0
      BY <3>1, Scaling
    <3> QED BY <2>1, <2>2, <3>1, <3>2
  <2>6. CASE k # m
    <3>1. (wd[k] + wr[k]) + 1 <= we[k] /\ At(e, k) = At(d, k)
      BY <1>5, <2>1, <2>6, <1>a
    <3>2. Up(wd[k]) + Up(wr[k]) + Base <= Up(we[k])
      BY <2>1, <3>1, ScaledSum
    <3>4. we[k - 1] >= wd[k - 1] + wr[k - 1] + 1
      BY SMTT(30), <2>1, <2>2, <2>3, <2>4, <3>1, <3>2
    <3> QED BY <2>1, <3>4
  <2> QED BY <2>5, <2>6
<1> HIDE DEF S
<1>6. 0 \in S
  BY <1>0, <1>4, <1>5, InductionDown
<1>7. we[0] \in Nat /\ wd[0] \in Nat /\ wr[0] \in Nat /\ m # 0
  BY SMTT(30), <1>0, <1>1, <1>2, <1>3 DEF Weighs, m
<1> QED BY <1>1, <1>2, <1>3, <1>6, <1>7 DEF S, e

(* A subtraction that borrows from beyond the limbs took the greater one.   *)
LEMMA BorrowMeansLess ==
  ASSUME NEW d \in Seq(Limb), NEW o \in Seq(Limb), NEW r \in Seq(Limb), NEW c,
         Len(o) <= Len(d), Len(r) = Len(d), Adds(r, o, d, c, Len(d)), c[Len(d)] = 1
  PROVE  Magnitude(d) < Magnitude(o)
<1> DEFINE m == Len(d) + 1
           e == Append(d, 1)
           x == [k \in 0 .. m |-> IF k = m THEN 0 ELSE c[k]]
<1>0. e \in Seq(Limb) /\ Len(e) = m /\ m \in Nat /\ m >= Len(o) /\ m >= Len(r) /\ m >= Len(e) /\ m - 1 = Len(d)
  BY BaseIs
<1>a. \A k \in 1 .. m : At(e, k) = IF k = m THEN 1 ELSE At(d, k)
  <2>1. ASSUME NEW k \in 1 .. m  PROVE e[k] = IF k = m THEN 1 ELSE d[k]
    OBVIOUS
  <2>2. DOMAIN e = 1 .. m /\ \A k \in 1 .. m : k # m => k \in DOMAIN d
    BY <1>0
  <2> HIDE DEF e, m
  <2> QED BY <2>1, <2>2 DEF At
<1>b. At(o, m) = 0 /\ At(r, m) = 0
  <2>1. m \in Int /\ m > Len(o) /\ m > Len(r)
    BY <1>0
  <2> HIDE DEF m
  <2> QED BY <2>1, LimbIs
<1>c. Len(d) \in Nat
  OBVIOUS
<1> HIDE DEF e, m
<1>1. Adds(r, o, e, x, m)
  <2>1. m - 1 \in 0 .. m /\ 0 \in 0 .. m /\ m \in 0 .. m /\ 0 # m /\ m - 1 # m
    BY <1>0, <1>c
  <2>2. x[0] = 0
    BY <2>1 DEF Adds
  <2>3. ASSUME NEW k \in 1 .. m  PROVE Column(r, o, e, x, k)
    <3>1. CASE k = m
      <4>1. x[k - 1] = 1 /\ x[k] = 0 /\ At(e, k) = 1
        BY <3>1, <2>1, <1>0, <1>a
      <4>2. Up(0) = 0
        BY Scaling
      <4> HIDE DEF x
      <4> QED BY <4>1, <4>2, <3>1, <1>b DEF Column
    <3>2. CASE k # m
      <4>1. x[k - 1] = c[k - 1] /\ x[k] = c[k] /\ At(e, k) = At(d, k) /\ k \in 1 .. Len(d)
        BY <3>2, <1>0, <1>a
      <4>2. Column(r, o, d, c, k)
        BY <4>1 DEF Adds
      <4> HIDE DEF x
      <4> QED BY <4>1, <4>2 DEF Column
    <3> QED BY <3>1, <3>2
  <2> HIDE DEF x
  <2> QED BY <2>2, <2>3 DEF Adds
<1>2. x[m] = 0
  BY <1>0
<1> HIDE DEF x
<1>3. Magnitude(e) = Magnitude(r) + Magnitude(o)
  BY <1>0, <1>1, <1>2, SumsOfLimbs
<1>4. Magnitude(e) > Magnitude(d) + Magnitude(r)
  BY OneAbove, <1>0 DEF e
<1>5. Magnitude(d) \in Nat /\ Magnitude(r) \in Nat /\ Magnitude(o) \in Nat
  <2>1. \A p \in Seq(Limb) : Magnitude(p) \in Nat
    <3> TAKE p \in Seq(Limb)
    <3>1. PICK w : Weighs(p, Len(p), w)
      BY OwnWeights
    <3>2. Len(p) \in Nat /\ Len(p) >= Len(p)
      OBVIOUS
    <3> QED BY <3>1, <3>2, WeightsUnique
  <2> QED BY <2>1
<1> QED BY <1>3, <1>4, <1>5

(* Magnitudes are natural numbers.                                          *)
LEMMA MagnitudeIsNat ==
  ASSUME NEW p \in Seq(Limb)
  PROVE  Magnitude(p) \in Nat
<1>1. PICK w : Weighs(p, Len(p), w)
  BY OwnWeights
<1>2. Len(p) \in Nat /\ Len(p) >= Len(p)
  OBVIOUS
<1> QED BY <1>1, <1>2, WeightsUnique

-----------------------------------------------------------------------------
(* Comparison.                                                              *)

(* A set of places has a topmost one.                                       *)
LEMMA Topmost ==
  ASSUME NEW n \in Nat, NEW S \in SUBSET (1 .. n), S # {}
  PROVE  \E k \in S : \A j \in S : j <= k
<1> DEFINE Q == {m \in 0 .. n : (\A j \in S : j > m) \/ \E k \in S : k <= m /\ \A j \in S : j <= m => j <= k}
<1>1. 0 \in Q
  OBVIOUS
<1>2. ASSUME NEW m \in 1 .. n, m - 1 \in Q  PROVE m \in Q
  <2>1. CASE m \in S
    <3>1. m <= m /\ \A j \in S : j <= m => j <= m
      OBVIOUS
    <3> QED BY <2>1, <3>1
  <2>2. CASE m \notin S
    <3>1. CASE \A j \in S : j > m - 1
      <4>1. \A j \in S : j > m
        BY <2>2, <3>1
      <4> QED BY <4>1
    <3>2. ASSUME NEW k \in S, k <= m - 1, \A j \in S : j <= m - 1 => j <= k  PROVE m \in Q
      <4>1. k <= m /\ \A j \in S : j <= m => j <= k
        BY <2>2, <3>2
      <4> QED BY <4>1
    <3> QED BY <1>2, <3>1, <3>2
  <2> QED BY <2>1, <2>2
<1> HIDE DEF Q
<1>3. \A m \in 0 .. n : m \in Q
  BY <1>1, <1>2, InductionUp
<1>4. n \in Q
  BY <1>3
<1>5. \A j \in S : j \in Nat /\ j <= n
  OBVIOUS
<1>6. \E k \in S : k <= n /\ \A j \in S : j <= n => j <= k
  <2>1. PICK j \in S : TRUE
    OBVIOUS
  <2>2. ~(j > n)
    BY <1>5
  <2> QED BY <1>4, <2>2 DEF Q
<1> QED BY <1>5, <1>6

(* The last limb in use is not zero, and all above it are.                  *)
LEMMA UsedIs ==
  ASSUME NEW p \in Seq(Limb)
  PROVE  /\ Used(p) \in 0 .. Len(p)
         /\ Used(p) # 0 => At(p, Used(p)) # 0
         /\ \A k \in Int : k > Used(p) => At(p, k) = 0
<1> DEFINE n == Len(p)
           S == {k \in 1 .. n : p[k] # 0}
           Top(k) == k \in DOMAIN p /\ p[k] # 0 /\ \A m \in (k + 1) .. Len(p) : p[m] = 0
<1>1. n \in Nat /\ DOMAIN p = 1 .. n /\ \A k \in 1 .. n : At(p, k) = p[k]
  BY LimbsAre
<1>2. \A k \in Int : k > n => At(p, k) = 0
  BY LimbsAre
<1>3. CASE S = {}
  <2>1. ~ \E k \in DOMAIN p : p[k] # 0
    BY <1>1, <1>3
  <2>2. Used(p) = 0
    BY <2>1 DEF Used
  <2>3. \A k \in Int : k > 0 => At(p, k) = 0
    <3> TAKE k \in Int
    <3> HAVE k > 0
    <3>1. CASE k <= n
      <4>1. k \in 1 .. n
        BY <1>1, <3>1
      <4>2. p[k] = 0
        BY <4>1, <1>3
      <4> QED BY <4>1, <4>2, <1>1
    <3>2. CASE ~(k <= n)
      BY <3>2, <1>1, <1>2
    <3> QED BY <3>1, <3>2
  <2> HIDE DEF n, S
  <2>4. 0 \in 0 .. n
    BY <1>1
  <2> QED BY <2>2, <2>3, <2>4 DEF n
<1>4. CASE S # {}
  <2>1. PICK top \in S : \A j \in S : j <= top
    <3> HIDE DEF n
    <3>1. S \in SUBSET (1 .. n)
      OBVIOUS
    <3> HIDE DEF S
    <3> QED BY <1>1, <1>4, <3>1, Topmost
  <2>2. Top(top)
    <3>1. top \in 1 .. n /\ p[top] # 0
      BY <2>1
    <3>2. ASSUME NEW m \in (top + 1) .. n  PROVE p[m] = 0
      <4>1. m \in 1 .. n /\ ~(m <= top)
        BY <3>1, <1>1
      <4>2. m \notin S
        BY <2>1, <4>1
      <4> QED BY <4>1, <4>2
    <3> QED BY <1>1, <3>1, <3>2
  <2>3. Used(p) = CHOOSE k \in DOMAIN p : p[k] # 0 /\ \A m \in (k + 1) .. Len(p) : p[m] = 0
    <3>1. \E k \in DOMAIN p : p[k] # 0
      BY <2>2
    <3> QED BY <3>1 DEF Used
  <2>4. Top(Used(p))
    BY <2>2, <2>3
  <2> DEFINE u == Used(p)
  <2>5. u \in 1 .. n /\ p[u] # 0 /\ \A m \in (u + 1) .. n : p[m] = 0
    BY <1>1, <2>4
  <2> HIDE DEF u, n, S
  <2>6. \A k \in Int : k > u => At(p, k) = 0
    <3> TAKE k \in Int
    <3> HAVE k > u
    <3>1. CASE k <= n
      <4>1. k \in (u + 1) .. n /\ k \in 1 .. n
        BY <1>1, <2>5, <3>1
      <4> QED BY <4>1, <2>5, <1>1
    <3>2. CASE ~(k <= n)
      BY <3>2, <1>1, <1>2
    <3> QED BY <3>1, <3>2
  <2>7. u \in 0 .. n /\ At(p, u) # 0
    BY <1>1, <2>5
  <2> QED BY <2>6, <2>7 DEF u, n
<1> QED BY <1>3, <1>4

(* No limb that is not zero: the number 0, and no other.                    *)
LEMMA ZeroIs ==
  ASSUME NEW p \in Seq(Limb)
  PROVE  Used(p) = 0 <=> Magnitude(p) = 0
<1> DEFINE n == Len(p)
           z == [k \in 1 .. n |-> 0]
<1>1. n \in Nat /\ n >= Len(p) /\ \A k \in 1 .. n : k \in Int
  OBVIOUS
<1>2. z \in Seq(Limb) /\ Len(z) = n /\ n >= Len(z)
  BY <1>1, BaseIs
<1>3. \A k \in 1 .. n : At(z, k) = 0
  BY <1>1 DEF At
<1>4. Magnitude(z) = 0
  <2> DEFINE w == [k \in 0 .. n |-> 0]
  <2>1. Up(0) = 0
    BY Scaling
  <2>2. ASSUME NEW k \in 1 .. n  PROVE w[k - 1] = Up(w[k]) + At(z, k)
    <3>1. w[k - 1] = 0 /\ w[k] = 0 /\ At(z, k) = 0
      BY <1>1, <1>3
    <3> HIDE DEF w, z
    <3> QED BY <3>1, <2>1
  <2>3. w \in [0 .. n -> Nat] /\ w[n] = 0 /\ w[0] = 0
    BY <1>1
  <2> HIDE DEF w, z, n
  <2>4. Weighs(z, n, w)
    BY <2>2, <2>3 DEF Weighs
  <2>5. Magnitude(z) = w[0]
    BY <1>1, <1>2, <2>4, WeightsUnique
  <2> QED BY <2>3, <2>5
<1> HIDE DEF z, n
<1>5. CASE Used(p) = 0
  <2>1. \A k \in 1 .. n : At(p, k) = At(z, k)
    BY <1>1, <1>3, <1>5, UsedIs
  <2>2. Magnitude(p) = Magnitude(z)
    BY <2>1, <1>1, <1>2, SameLimbs
  <2> QED BY <1>4, <1>5, <2>2
<1>6. CASE Used(p) # 0
  <2> DEFINE u == Used(p)
  <2>1. u \in 1 .. n /\ At(p, u) # 0 /\ \A k \in Int : k > u => At(p, k) = 0
    <3>1. u \in 0 .. n
      BY UsedIs DEF n
    <3> QED BY <3>1, <1>1, <1>6, UsedIs
  <2> HIDE DEF u
  <2>2. u \in Int /\ At(p, u) \in Nat
    BY <2>1, <1>1, LimbIs
  <2>3. At(p, u) > At(z, u)
    BY <2>1, <2>2, <1>3
  <2>4. \A k \in (u + 1) .. n : At(p, k) = At(z, k)
    <3> TAKE k \in (u + 1) .. n
    <3>1. k \in Int /\ k > u /\ k \in 1 .. n
      BY <2>1, <1>1
    <3> QED BY <3>1, <2>1, <1>3
  <2>5. Magnitude(p) > Magnitude(z)
    BY <2>1, <2>3, <2>4, <1>1, <1>2, HigherLimb
  <2> QED BY <2>5, <1>4, <1>6, MagnitudeIsNat
<1> QED BY <1>5, <1>6

(* The longer of two numbers has as many places as both need.               *)
LEMMA Places ==
  ASSUME NEW p \in Seq(Limb), NEW q \in Seq(Limb)
  PROVE  \E m \in Nat : m >= Len(p) /\ m >= Len(q)
<1>1. Len(p) \in Nat /\ Len(q) \in Nat
  OBVIOUS
<1>2. Len(p) + Len(q) \in Nat /\ Len(p) + Len(q) >= Len(p) /\ Len(p) + Len(q) >= Len(q)
  BY <1>1
<1> QED BY <1>2

(* A number that uses more limbs is greater.                                *)
LEMMA MoreUsed ==
  ASSUME NEW p \in Seq(Limb), NEW q \in Seq(Limb), Used(p) > Used(q)
  PROVE  Magnitude(p) > Magnitude(q)
<1> DEFINE u == Used(p)
<1>1. PICK m \in Nat : m >= Len(p) /\ m >= Len(q)
  BY Places
<1>2. u \in 0 .. Len(p) /\ Used(q) \in 0 .. Len(q) /\ Len(p) \in Nat /\ Len(q) \in Nat
  BY UsedIs
<1>3. u \in 1 .. m /\ u # 0
  BY <1>1, <1>2
<1>4. At(p, u) # 0 /\ \A k \in Int : k > u => At(p, k) = 0
  BY <1>3, UsedIs
<1>5. \A k \in Int : k > Used(q) => At(q, k) = 0
  BY UsedIs
<1>6. Used(q) \in Int /\ u > Used(q) /\ u \in Int
  BY <1>2
<1> HIDE DEF u
<1>7. At(p, u) \in Nat /\ At(q, u) = 0
  BY <1>5, <1>6, LimbIs
<1>8. At(p, u) > At(q, u)
  BY <1>4, <1>7
<1>9. ASSUME NEW k \in (u + 1) .. m  PROVE At(p, k) = At(q, k)
  <2>1. k \in Int /\ k > u /\ k > Used(q)
    BY <1>6
  <2> QED BY <2>1, <1>4, <1>5
<1> QED BY <1>1, <1>3, <1>8, <1>9, HigherLimb

(* The comparison of magnitudes.                                            *)
LEMMA CmpLimbsIs ==
  ASSUME NEW p \in Seq(Limb), NEW q \in Seq(Limb)
  PROVE  CmpLimbs(p, q) = SignOf(Magnitude(p) - Magnitude(q))
<1>1. Magnitude(p) \in Nat /\ Magnitude(q) \in Nat
  BY MagnitudeIsNat
<1>2. Used(p) \in Nat /\ Used(q) \in Nat /\ Used(p) \in 0 .. Len(p) /\ Used(q) \in 0 .. Len(q)
  BY UsedIs
<1>0. Used(p) \in Nat /\ Used(q) \in Nat
  BY <1>2
<1>3. CASE Used(p) > Used(q)
  <2>1. Magnitude(p) > Magnitude(q)
    BY <1>3, MoreUsed
  <2>2. CmpLimbs(p, q) = SignOf(Used(p) - Used(q))
    <3>1. Used(p) # Used(q)
      BY <1>0, <1>3
    <3> QED BY <3>1, Zenon DEF CmpLimbs
  <2>3. SignOf(Used(p) - Used(q)) = 1
    BY <1>0, <1>3 DEF SignOf
  <2>4. SignOf(Magnitude(p) - Magnitude(q)) = 1
    BY <2>1, <1>1 DEF SignOf
  <2> QED BY <2>2, <2>3, <2>4
<1>4. CASE Used(p) < Used(q)
  <2>1. Magnitude(q) > Magnitude(p)
    BY <1>4, <1>2, MoreUsed
  <2>2. CmpLimbs(p, q) = SignOf(Used(p) - Used(q))
    <3>1. Used(p) # Used(q)
      BY <1>0, <1>4
    <3> QED BY <3>1, Zenon DEF CmpLimbs
  <2>3. SignOf(Used(p) - Used(q)) = -1
    BY <1>0, <1>4 DEF SignOf
  <2>4. SignOf(Magnitude(p) - Magnitude(q)) = -1
    BY <2>1, <1>1 DEF SignOf
  <2> QED BY <2>2, <2>3, <2>4
<1>5. CASE Used(p) = Used(q)
  <2> DEFINE u == Used(p)
             differ == {k \in 1 .. u : p[k] # q[k]}
             Best(D) == CHOOSE k \in D : \A m \in D : m <= k
             Judged(D) == IF D = {} THEN 0 ELSE SignOf(p[Best(D)] - q[Best(D)])
  <2>1. CmpLimbs(p, q) = Judged(differ)
    <3>1. ASSUME NEW D  PROVE With(Best(D), LAMBDA top : SignOf(p[top] - q[top])) = SignOf(p[Best(D)] - q[Best(D)])
      <4> HIDE DEF Best
      <4> QED BY DEF With
    <3>2. CmpLimbs(p, q) = With(differ, LAMBDA D : IF D = {} THEN 0 ELSE With(Best(D), LAMBDA top : SignOf(p[top] - q[top])))
      BY <1>5 DEF CmpLimbs
    <3>3. With(differ, LAMBDA D : IF D = {} THEN 0 ELSE With(Best(D), LAMBDA top : SignOf(p[top] - q[top])))
            = IF differ = {} THEN 0 ELSE With(Best(differ), LAMBDA top : SignOf(p[top] - q[top]))
      <4> HIDE DEF differ, Best
      <4> QED BY DEF With
    <3> QED BY <3>1, <3>2, <3>3
  <2>2. u \in Nat /\ \A k \in 1 .. u : k \in Int /\ p[k] = At(p, k) /\ q[k] = At(q, k)
    <3>1. u \in 0 .. Len(p) /\ u \in 0 .. Len(q)
      BY <1>2, <1>5
    <3>2. \A k \in 1 .. u : k \in 1 .. Len(p) /\ k \in 1 .. Len(q) /\ k \in Int
      BY <3>1, <1>2
    <3> QED BY <3>1, <3>2, LimbsAre, <1>2
  <2>3. PICK m \in Nat : m >= Len(p) /\ m >= Len(q)
    BY Places
  <2>4. ASSUME NEW k \in Int, k > u  PROVE At(p, k) = 0 /\ At(q, k) = 0
    BY <1>5, <2>4, UsedIs
  <2>5. u <= m
    BY <2>3, <1>2
  <2>6. CASE differ = {}
    <3>1. ASSUME NEW k \in 1 .. m  PROVE At(p, k) = At(q, k)
      <4>1. CASE k \in 1 .. u
        BY <4>1, <2>2, <2>6
      <4>2. CASE k > u
        BY <4>2, <2>4
      <4> QED BY <4>1, <4>2, <2>2
    <3>2. Magnitude(p) = Magnitude(q)
      BY <2>3, <3>1, SameLimbs
    <3>3. Judged(differ) = 0
      BY <2>6
    <3> QED BY <2>1, <3>2, <3>3, <1>1 DEF SignOf
  <2>7. CASE differ # {}
    <3> DEFINE top == Best(differ)
    <3>1. top \in differ /\ \A j \in differ : j <= top
      <4>1. differ \in SUBSET (1 .. u)
        OBVIOUS
      <4> HIDE DEF differ, u
      <4>2. \E k \in differ : \A j \in differ : j <= k
        BY <2>2, <2>7, <4>1, Topmost
      <4> QED BY <4>2
    <3> HIDE DEF top
    <3>2. top \in 1 .. u /\ p[top] # q[top] /\ top \in Int
      BY <3>1, <2>2
    <3>3. At(p, top) # At(q, top) /\ At(p, top) \in Nat /\ At(q, top) \in Nat /\ p[top] = At(p, top) /\ q[top] = At(q, top)
      BY <3>2, <2>2, LimbIs
    <3>4. ASSUME NEW k \in (top + 1) .. m  PROVE At(p, k) = At(q, k)
      <4>1. CASE k \in 1 .. u
        <5>1. k \notin differ
          BY <3>1, <3>2, <2>2
        <5> QED BY <4>1, <5>1, <2>2
      <4>2. CASE k \notin 1 .. u
        <5>1. k > u /\ k \in Int
          BY <4>2, <3>2, <2>2
        <5> QED BY <5>1, <2>4
      <4> QED BY <4>1, <4>2
    <3>5. top \in 1 .. m
      BY <3>2, <2>2, <2>5
    <3>6. Judged(differ) = SignOf(p[top] - q[top])
      BY <2>7 DEF top
    <3> HIDE DEF Judged, differ, u
    <3>7. CASE At(p, top) > At(q, top)
      <4>1. Magnitude(p) > Magnitude(q)
        BY <2>3, <3>4, <3>5, <3>7, HigherLimb
      <4>2. SignOf(p[top] - q[top]) = 1
        BY <3>3, <3>7 DEF SignOf
      <4>3. SignOf(Magnitude(p) - Magnitude(q)) = 1
        BY <4>1, <1>1 DEF SignOf
      <4> QED BY <2>1, <3>6, <4>2, <4>3
    <3>8. CASE At(q, top) > At(p, top)
      <4>0. \A k \in (top + 1) .. m : At(q, k) = At(p, k)
        BY <3>4
      <4>1. Magnitude(q) > Magnitude(p)
        BY <2>3, <4>0, <3>5, <3>8, HigherLimb
      <4>2. SignOf(p[top] - q[top]) = -1
        BY <3>3, <3>8 DEF SignOf
      <4>3. SignOf(Magnitude(p) - Magnitude(q)) = -1
        BY <4>1, <1>1 DEF SignOf
      <4> QED BY <2>1, <3>6, <4>2, <4>3
    <3> QED BY <3>3, <3>7, <3>8
  <2> QED BY <2>6, <2>7
<1> QED BY <1>2, <1>3, <1>4, <1>5

(* Numbers as the functions find them, whatever zeros they carry.           *)
Number == [s : {-1, 1}, p : Seq(Limb)]

(* Sign, limbs and value of a number.                                       *)
LEMMA NumberIs ==
  ASSUME NEW X \in Number
  PROVE  /\ X.p \in Seq(Limb) /\ (X.s = 1 \/ X.s = -1) /\ Magnitude(X.p) \in Nat /\ Value(X) \in Int
         /\ X.s = 1 => Value(X) = Magnitude(X.p)
         /\ X.s = -1 => Value(X) = -Magnitude(X.p)
         /\ Abs(Value(X)) = Magnitude(X.p)
<1>1. X.p \in Seq(Limb) /\ (X.s = 1 \/ X.s = -1)
  BY DEF Number
<1>2. Magnitude(X.p) \in Nat
  BY <1>1, MagnitudeIsNat
<1>3. X.s = 1 => Value(X) = Magnitude(X.p)
  BY <1>2 DEF Value
<1>4. X.s = -1 => Value(X) = -Magnitude(X.p)
  BY <1>2 DEF Value
<1> QED BY <1>1, <1>2, <1>3, <1>4 DEF Abs

(* mbedtls_mpi_cmp_abs and mbedtls_mpi_cmp_mpi order numbers as integers,   *)
(* -0 and unused limbs included.                                            *)
THEOREM ComparisonIsExact ==
  ASSUME NEW X \in Number, NEW Y \in Number
  PROVE  /\ CmpMpi(X, Y) = SignOf(Value(X) - Value(Y))
         /\ CmpAbs(X, Y) = SignOf(Abs(Value(X)) - Abs(Value(Y)))
<1> DEFINE a == Magnitude(X.p)
           b == Magnitude(Y.p)
<1>1. a \in Nat /\ b \in Nat /\ Abs(Value(X)) = a /\ Abs(Value(Y)) = b
  BY NumberIs
<1>2. CmpLimbs(X.p, Y.p) = SignOf(a - b)
  BY NumberIs, CmpLimbsIs
<1>3. CmpAbs(X, Y) = SignOf(Abs(Value(X)) - Abs(Value(Y)))
  BY <1>1, <1>2 DEF CmpAbs
<1>4. (Used(X.p) = 0 <=> a = 0) /\ (Used(Y.p) = 0 <=> b = 0)
  BY NumberIs, ZeroIs
<1>5. (Used(X.p) > Used(Y.p) => a > b) /\ (Used(X.p) < Used(Y.p) => a < b)
  <2>1. Used(X.p) \in 0 .. Len(X.p) /\ Used(Y.p) \in 0 .. Len(Y.p)
    BY NumberIs, UsedIs
  <2>2. Used(X.p) > Used(Y.p) => a > b
    BY NumberIs, MoreUsed
  <2>3. Used(Y.p) > Used(X.p) => b > a
    BY NumberIs, MoreUsed
  <2> HIDE DEF a, b
  <2> QED BY <2>1, <2>2, <2>3, <1>1
<1>6. Used(X.p) \in Nat /\ Used(Y.p) \in Nat
  <2>1. Used(X.p) \in 0 .. Len(X.p) /\ Used(Y.p) \in 0 .. Len(Y.p)
    BY NumberIs, UsedIs
  <2> QED BY <2>1
<1>7. (X.s = 1 /\ Value(X) = a) \/ (X.s = -1 /\ Value(X) = -a)
  BY NumberIs
<1>8. (Y.s = 1 /\ Value(Y) = b) \/ (Y.s = -1 /\ Value(Y) = -b)
  BY NumberIs
<1> HIDE DEF a, b
<1>9. CmpMpi(X, Y) = SignOf(Value(X) - Value(Y))
  <2>1. CASE Used(X.p) = 0 /\ Used(Y.p) = 0
    BY <2>1, <1>1, <1>4, <1>7, <1>8 DEF CmpMpi, SignOf
  <2>2. CASE Used(X.p) > Used(Y.p)
    <3>1. a > b /\ CmpMpi(X, Y) = X.s
      BY <2>2, <1>5, <1>6 DEF CmpMpi
    <3> QED BY <3>1, <1>1, <1>7, <1>8 DEF SignOf
  <2>3. CASE Used(X.p) < Used(Y.p)
    <3>1. a < b /\ CmpMpi(X, Y) = -Y.s
      BY <2>3, <1>5, <1>6 DEF CmpMpi
    <3> QED BY <3>1, <1>1, <1>7, <1>8 DEF SignOf
  <2>4. CASE Used(X.p) = Used(Y.p) /\ Used(X.p) # 0
    <3>1. a # 0 /\ b # 0
      BY <2>4, <1>4
    <3>2. CASE X.s # Y.s
      <4>1. CmpMpi(X, Y) = X.s
        BY <2>4, <3>2, <1>6 DEF CmpMpi
      <4> QED BY <3>1, <3>2, <4>1, <1>1, <1>7, <1>8 DEF SignOf
    <3>3. CASE X.s = Y.s
      <4>1. CmpMpi(X, Y) = X.s * SignOf(a - b)
        BY <2>4, <3>3, <1>2, <1>6 DEF CmpMpi
      <4> QED BY <3>3, <4>1, <1>1, <1>7, <1>8 DEF SignOf
    <3> QED BY <3>2, <3>3
  <2> QED BY <2>1, <2>2, <2>3, <2>4, <1>6
<1> QED BY <1>3, <1>9

-----------------------------------------------------------------------------
(* Addition and subtraction.                                                *)

(* Division of a number that is less than two bases from 0.                 *)
LEMMA OneBase ==
  ASSUME NEW x \in Int, NEW b \in Nat, b > 0
  PROVE  /\ 0 <= x /\ x < b => x % b = x
         /\ b <= x /\ x < b + b => x % b = x - b
         /\ 0 - b <= x /\ x < 0 => x % b = x + b
<1>1. x % b \in 0 .. (b - 1) /\ x = b * (x \div b) + (x % b) /\ x \div b \in Int
  OBVIOUS
<1> DEFINE q == x \div b
           r == x % b
<1>2. x = b * q + r /\ q \in Int /\ r \in Nat /\ r < b
  BY <1>1
<1> HIDE DEF q, r
<1>3. \A n \in Int : (n >= 1 => b * n >= b) /\ (n >= 2 => b * n >= b + b) /\ (n <= -1 => b * n <= -b) /\ (n <= -2 => b * n <= -b - b)
  <2> TAKE n \in Int
  <2>1. ASSUME NEW m \in Nat, NEW l \in Nat  PROVE b * (m + l) = b * m + b * l /\ b * l \in Nat
    OBVIOUS
  <2>2. b * 1 = b /\ b * 2 = b + b
    OBVIOUS
  <2>3. n >= 1 => b * n >= b
    <3> HAVE n >= 1
    <3>1. n - 1 \in Nat /\ 1 + (n - 1) = n
      OBVIOUS
    <3> QED BY <3>1, <2>1, <2>2
  <2>4. n >= 2 => b * n >= b + b
    <3> HAVE n >= 2
    <3>1. n - 2 \in Nat /\ 2 + (n - 2) = n
      OBVIOUS
    <3> QED BY <3>1, <2>1, <2>2
  <2>5. b * (-n) = -(b * n)
    OBVIOUS
  <2>6. n <= -1 => b * n <= -b
    <3> HAVE n <= -1
    <3>1. -n - 1 \in Nat /\ 1 + (-n - 1) = -n
      OBVIOUS
    <3>2. b * (1 + (-n - 1)) = b * 1 + b * (-n - 1) /\ b * (-n - 1) \in Nat
      BY <3>1, <2>1
    <3>3. b * (-n) >= b
      BY <3>1, <3>2, <2>2
    <3>4. b * n \in Int
      OBVIOUS
    <3> QED BY <3>3, <3>4, <2>5
  <2>7. n <= -2 => b * n <= -b - b
    <3> HAVE n <= -2
    <3>1. -n - 2 \in Nat /\ 2 + (-n - 2) = -n
      OBVIOUS
    <3>2. b * (2 + (-n - 2)) = b * 2 + b * (-n - 2) /\ b * (-n - 2) \in Nat
      BY <3>1, <2>1
    <3>3. b * (-n) >= b + b
      BY <3>1, <3>2, <2>2
    <3>4. b * n \in Int
      OBVIOUS
    <3> QED BY <3>3, <3>4, <2>5
  <2> QED BY <2>3, <2>4, <2>6, <2>7
<1>4. b * 0 = 0 /\ b * 1 = b /\ b * (-1) = -b
  OBVIOUS
<1>5. PICK y \in Int : y = b * q
  BY <1>2
<1>6. x = y + r
  BY <1>2, <1>5
<1>7. (q >= 1 => y >= b) /\ (q >= 2 => y >= b + b) /\ (q <= -1 => y <= -b) /\ (q <= -2 => y <= -b - b)
  BY <1>2, <1>3, <1>5
<1>8. (q = 0 => y = 0) /\ (q = 1 => y = b) /\ (q = -1 => y = -b)
  BY <1>4, <1>5
<1>9. r = x % b
  BY DEF r
<1>10. 0 <= x /\ x < b => r = x
  BY <1>2, <1>6, <1>7, <1>8
<1>11. b <= x /\ x < b + b => r = x - b
  BY <1>2, <1>6, <1>7, <1>8
<1>12. 0 - b <= x /\ x < 0 => r = x + b
  BY <1>2, <1>6, <1>7, <1>8
<1> QED BY <1>9, <1>10, <1>11, <1>12

(* Zeros on top change no limb.                                             *)
LEMMA PaddedIs ==
  ASSUME NEW p \in Seq(Limb), NEW n \in Nat
  PROVE  /\ PadLimbs(p, n) \in Seq(Limb) /\ Len(PadLimbs(p, n)) = Greater(Len(p), n)
         /\ \A k \in Int : At(PadLimbs(p, n), k) = At(p, k)
<1>1. CASE Len(p) >= n
  BY <1>1 DEF PadLimbs, Greater
<1>2. CASE ~(Len(p) >= n)
  <2> DEFINE z == Zeros(n - Len(p))
  <2>0. Len(p) \in Nat /\ n - Len(p) \in Nat
    BY <1>2
  <2>1. z \in Seq(Limb) /\ Len(z) = n - Len(p) /\ \A k \in 1 .. (n - Len(p)) : z[k] = 0
    BY <2>0, BaseIs DEF Zeros
  <2>2. PadLimbs(p, n) = p \o z
    BY <1>2 DEF PadLimbs
  <2> HIDE DEF z
  <2>3. p \o z \in Seq(Limb) /\ Len(p \o z) = n /\ DOMAIN (p \o z) = 1 .. n
        /\ \A k \in 1 .. n : (p \o z)[k] = IF k <= Len(p) THEN p[k] ELSE z[k - Len(p)]
    <3>1. p \o z \in Seq(Limb) /\ Len(p \o z) = Len(p) + Len(z)
          /\ \A k \in 1 .. (Len(p) + Len(z)) : (p \o z)[k] = IF k <= Len(p) THEN p[k] ELSE z[k - Len(p)]
      BY <2>1, ConcatProperties
    <3>2. Len(p) + Len(z) = n
      BY <2>0, <2>1
    <3> QED BY <3>1, <3>2
  <2>4. ASSUME NEW k \in Int  PROVE At(p \o z, k) = At(p, k)
    <3>1. CASE k \in 1 .. Len(p)
      <4>1. k \in 1 .. n /\ k \in DOMAIN p /\ k <= Len(p)
        BY <3>1, <2>0
      <4> QED BY <4>1, <2>3 DEF At
    <3>2. CASE k \in (Len(p) + 1) .. n
      <4>1. k \in 1 .. n /\ ~(k <= Len(p)) /\ k - Len(p) \in 1 .. (n - Len(p)) /\ k \notin DOMAIN p
        BY <3>2, <2>0
      <4> QED BY <4>1, <2>1, <2>3 DEF At
    <3>3. CASE k \notin 1 .. n
      <4>1. k \notin DOMAIN p
        BY <3>3, <2>0
      <4> QED BY <3>3, <4>1, <2>3 DEF At
    <3> QED BY <3>1, <3>2, <3>3, <2>0
  <2>5. Greater(Len(p), n) = n
    BY <1>2 DEF Greater
  <2> QED BY <2>2, <2>3, <2>4, <2>5
<1> QED BY <1>1, <1>2

(* The same limbs, zeros above aside.                                       *)
Alike(p, q) == \A k \in Int : At(p, k) = At(q, k)
(* Numbers that are alike are equal, and use no more limbs than the other   *)
(* has.                                                                     *)
LEMMA AlikeIs ==
  ASSUME NEW p \in Seq(Limb), NEW q \in Seq(Limb), Alike(p, q)
  PROVE  Magnitude(p) = Magnitude(q) /\ Used(p) <= Len(q)
<1>1. PICK m \in Nat : m >= Len(p) /\ m >= Len(q)
  BY Places
<1>2. \A k \in 1 .. m : At(p, k) = At(q, k)
  BY DEF Alike
<1>3. Magnitude(p) = Magnitude(q)
  BY <1>1, <1>2, SameLimbs
<1>4. Used(p) <= Len(q)
  <2>1. Used(p) \in 0 .. Len(p) /\ Len(p) \in Nat /\ Len(q) \in Nat
    BY UsedIs
  <2>2. CASE Used(p) = 0
    BY <2>1, <2>2
  <2>3. CASE Used(p) # 0
    <3>1. At(p, Used(p)) # 0 /\ Used(p) \in Int
      BY <2>1, <2>3, UsedIs
    <3>2. At(q, Used(p)) # 0
      BY <3>1 DEF Alike
    <3>3. ~(Used(p) > Len(q))
      BY <3>1, <3>2, LimbIs
    <3> QED BY <2>1, <3>3
  <2> QED BY <2>2, <2>3
<1> QED BY <1>3, <1>4

(* The lowest limbs of a number, as many as any count from those it uses on.*)
LEMMA TrimmedIs ==
  ASSUME NEW p \in Seq(Limb), NEW n \in Nat, n >= Used(p)
  PROVE  /\ [k \in 1 .. n |-> At(p, k)] \in Seq(Limb) /\ Len([k \in 1 .. n |-> At(p, k)]) = n
         /\ Alike([k \in 1 .. n |-> At(p, k)], p)
<1> DEFINE t == [k \in 1 .. n |-> At(p, k)]
<1>1. \A k \in Int : At(p, k) \in Limb
  BY LimbIs
<1>2. t \in Seq(Limb) /\ Len(t) = n /\ DOMAIN t = 1 .. n
  BY <1>1
<1>3. ASSUME NEW k \in Int  PROVE At(t, k) = At(p, k)
  <2>1. CASE k \in 1 .. n
    <3>1. t[k] = At(p, k)
      BY <2>1
    <3> HIDE DEF t
    <3> QED BY <2>1, <3>1, <1>2 DEF At
  <2>2. CASE k > n
    <3>1. At(p, k) = 0
      <4>1. Used(p) \in Nat
        <5>1. Used(p) \in 0 .. Len(p)
          BY UsedIs
        <5> QED BY <5>1
      <4>2. k > Used(p)
        BY <4>1, <2>2
      <4> QED BY <4>2, UsedIs
    <3> HIDE DEF t
    <3> QED BY <2>2, <3>1, <1>2 DEF At
  <2>3. CASE k < 1
    <3>1. k \notin DOMAIN p /\ k \notin 1 .. n
      BY <2>3
    <3> HIDE DEF t
    <3> QED BY <3>1, <1>2 DEF At
  <2> QED BY <2>1, <2>2, <2>3
<1> HIDE DEF t
<1>4. Alike(t, p)
  BY <1>3 DEF Alike
<1> QED BY <1>2, <1>4 DEF t

(* What Grow leaves: the number, with room for n limbs or for as many as    *)
(* before.                                                                  *)
LEMMA GrowIs ==
  ASSUME NEW X \in Number, NEW n \in Nat
  PROVE  LET r == Grow(X, n)
         IN  /\ r.ret \in {0, ALLOC_FAILED} /\ r.x \in Number /\ r.x.s = X.s /\ Alike(r.x.p, X.p)
             /\ r.ret = 0 => Len(r.x.p) = Greater(Len(X.p), n)
             /\ r.ret # 0 => r.x = X
<1> DEFINE r == Grow(X, n)
           p == PadLimbs(X.p, n)
<1>1. X.p \in Seq(Limb) /\ X.s \in {-1, 1} /\ X = [s |-> X.s, p |-> X.p]
  BY DEF Number
<1>2. CASE n > MAX_LIMBS \/ (Len(X.p) < n /\ n \in denied)
  <2>1. r = [ret |-> ALLOC_FAILED, x |-> X]
    BY <1>2 DEF Grow, Err
  <2>2. r.ret = ALLOC_FAILED /\ r.x = X /\ ALLOC_FAILED # 0
    BY <2>1 DEF ALLOC_FAILED
  <2> QED BY <2>2 DEF Alike
<1>3. CASE ~(n > MAX_LIMBS \/ (Len(X.p) < n /\ n \in denied))
  <2>1. r = [ret |-> 0, x |-> [X EXCEPT !.p = p]]
    BY <1>3 DEF Grow, Ok
  <2>2. p \in Seq(Limb) /\ Len(p) = Greater(Len(X.p), n) /\ Alike(p, X.p)
    BY <1>1, PaddedIs DEF Alike
  <2> HIDE DEF p
  <2>3. [X EXCEPT !.p = p] = [s |-> X.s, p |-> p]
    BY <1>1
  <2>4. r.ret = 0 /\ r.x = [s |-> X.s, p |-> p]
    BY <2>1, <2>3
  <2>5. r.x \in Number /\ r.x.s = X.s /\ r.x.p = p
    BY <2>2, <2>4, <1>1 DEF Number
  <2> HIDE DEF r
  <2> QED BY <2>2, <2>4, <2>5 DEF r
<1> QED BY <1>2, <1>3

(* The greater of two lengths.                                              *)
LEMMA GreaterIs ==
  ASSUME NEW m \in Nat, NEW n \in Nat
  PROVE  Greater(m, n) \in Nat /\ Greater(m, n) >= m /\ Greater(m, n) >= n /\ (Greater(m, n) = m \/ Greater(m, n) = n)
  BY DEF Greater

(* A copy is the number, and has room for the limbs it uses.                *)
LEMMA CopyIs ==
  ASSUME NEW X \in Number, NEW Y \in Number
  PROVE  LET r == Copy(X, Y)
         IN  /\ r.ret \in {0, ALLOC_FAILED} /\ r.x \in Number
             /\ r.ret = 0 => Alike(r.x.p, Y.p) /\ Value(r.x) = Value(Y) /\ (Y.p # <<>> => r.x.s = Y.s)
<1> DEFINE r == Copy(X, Y)
           m == UsedOr1(Y.p)
           G(X1) == Grow(X1, m)
<1>1. X.p \in Seq(Limb) /\ X.s \in {-1, 1} /\ Y.p \in Seq(Limb) /\ Y.s \in {-1, 1}
  BY DEF Number
<1>2. CASE Y.p = <<>>
  <2>1. r = [ret |-> 0, x |-> [s |-> 1, p |-> <<>>]]
    BY <1>2 DEF Copy, Ok, NewMpi
  <2>2. r.ret = 0 /\ r.x.s = 1 /\ r.x.p = <<>> /\ r.x \in Number
    <3>1. [s |-> 1, p |-> <<>>] \in Number
      BY DEF Number
    <3> QED BY <2>1, <3>1
  <2>3. Alike(r.x.p, Y.p)
    BY <2>2, <1>2 DEF Alike
  <2>4. Magnitude(Y.p) = 0
    <3>1. Used(Y.p) = 0
      <4>1. Used(Y.p) \in 0 .. Len(Y.p) /\ Len(Y.p) = 0
        BY <1>1, <1>2, UsedIs
      <4> QED BY <4>1
    <3> QED BY <1>1, <3>1, ZeroIs
  <2>5. Value(r.x) = 0 /\ Value(Y) = 0
    BY <2>2, <2>4, <1>1, <1>2 DEF Value
  <2> QED BY <2>2, <2>3, <2>5, <1>2
<1>3. CASE Y.p # <<>>
  <2> DEFINE q == SubSeq(Y.p, 1, m)
             X1 == [X EXCEPT !.s = Y.s]
  <2>0. X1 = [s |-> Y.s, p |-> X.p] /\ X1 \in Number /\ X1.s = Y.s
    BY <1>1 DEF Number
  <2>1. m \in 1 .. Len(Y.p) /\ m \in Nat /\ m >= Used(Y.p) /\ Len(Y.p) \in Nat
    <3>1. Used(Y.p) \in 0 .. Len(Y.p) /\ Len(Y.p) \in Nat
      BY <1>1, UsedIs
    <3>2. Len(Y.p) # 0
      BY <1>1, <1>3, EmptySeq
    <3> QED BY <3>1, <3>2 DEF UsedOr1, Greater
  <2>2. r = IF G(X1).ret # 0 THEN G(X1) ELSE Ok(CopyLimbs(G(X1).x, q))
    <3>1. r = Then(G(X1), LAMBDA x : Ok(CopyLimbs(x, q)))
      BY <1>3 DEF Copy
    <3> HIDE DEF G, X1, q, r
    <3> QED BY <3>1 DEF Then, With
  <2>3. /\ G(X1).ret \in {0, ALLOC_FAILED} /\ G(X1).x \in Number /\ G(X1).x.s = Y.s
        /\ G(X1).ret = 0 => Len(G(X1).x.p) = Greater(Len(X1.p), m)
    <3> HIDE DEF X1, m
    <3> QED BY <2>0, <2>1, GrowIs
  <2> DEFINE g == G(X1)
  <2> HIDE DEF X1, G
  <2>4. CASE g.ret # 0
    <3>1. r = g
      BY <2>2, <2>4
    <3> HIDE DEF r, g
    <3> QED BY <3>1, <2>3, <2>4 DEF g, r
  <2>5. CASE g.ret = 0
    <3> DEFINE n == Len(g.x.p)
               t == PadLimbs(q, n)
    <3>1. n \in Nat /\ n >= m
      <4>1. X1.p \in Seq(Limb)
        BY <2>0 DEF Number
      <4>2. Len(X1.p) \in Nat
        BY <4>1
      <4> HIDE DEF m
      <4> QED BY <4>2, <2>1, <2>3, <2>5, GreaterIs
    <3>2. q \in Seq(Limb) /\ Len(q) = m /\ \A k \in 1 .. m : q[k] = Y.p[k]
      <4>1. \A k \in 1 .. m : Y.p[k] \in Limb
        BY <2>1, <1>1
      <4> HIDE DEF m
      <4> QED BY <4>1, <2>1, SubSeqProperties
    <3>3. Alike(q, Y.p)
      <4>1. ASSUME NEW k \in Int  PROVE At(q, k) = At(Y.p, k)
        <5>1. CASE k \in 1 .. m
          <6>1. k \in 1 .. Len(Y.p)
            BY <5>1, <2>1
          <6>2. At(q, k) = q[k]
            <7> HIDE DEF q, m
            <7> QED BY <5>1, <3>2, LimbIs
          <6>3. At(Y.p, k) = Y.p[k]
            BY <6>1, <1>1, LimbIs
          <6> QED BY <5>1, <6>2, <6>3, <3>2
        <5>2. CASE k > m
          <6>1. At(q, k) = 0
            <7> HIDE DEF q, m
            <7> QED BY <5>2, <3>2, LimbIs
          <6>2. k > Used(Y.p)
            <7>1. Used(Y.p) \in 0 .. Len(Y.p)
              BY <1>1, UsedIs
            <7> QED BY <5>2, <2>1, <7>1
          <6> QED BY <6>1, <6>2, <1>1, UsedIs
        <5>3. CASE k < 1
          <6>1. DOMAIN q = 1 .. m /\ DOMAIN Y.p = 1 .. Len(Y.p)
            <7> HIDE DEF q, m
            <7> QED BY <3>2, <1>1, LimbsAre
          <6>2. k \notin 1 .. m /\ k \notin 1 .. Len(Y.p)
            BY <5>3, <2>1
          <6> HIDE DEF q, m
          <6> QED BY <6>1, <6>2 DEF At
        <5> QED BY <5>1, <5>2, <5>3, <2>1
      <4> HIDE DEF q
      <4> QED BY <4>1 DEF Alike
    <3> HIDE DEF q, m
    <3>4. t \in Seq(Limb) /\ Alike(t, Y.p)
      <4>1. t \in Seq(Limb) /\ \A k \in Int : At(t, k) = At(q, k)
        BY <3>1, <3>2, PaddedIs
      <4> HIDE DEF t
      <4> QED BY <4>1, <3>3 DEF Alike
    <3> HIDE DEF t
    <3>5. CopyLimbs(g.x, q) = [s |-> Y.s, p |-> t]
      <4>1. g.x = [s |-> Y.s, p |-> g.x.p]
        <5> HIDE DEF g
        <5>1. g.x \in Number /\ g.x.s = Y.s
          BY <2>3 DEF g
        <5> QED BY <5>1 DEF Number
      <4>2. CopyLimbs(g.x, q) = [g.x EXCEPT !.p = t]
        BY DEF CopyLimbs, t
      <4> HIDE DEF g
      <4> QED BY <4>1, <4>2
    <3>6. r = [ret |-> 0, x |-> [s |-> Y.s, p |-> t]]
      BY <2>2, <2>5, <3>5 DEF Ok
    <3>7. r.ret = 0 /\ r.x.s = Y.s /\ r.x.p = t /\ r.x \in Number
      <4>1. [s |-> Y.s, p |-> t] \in Number
        BY <3>4, <1>1 DEF Number
      <4> HIDE DEF r
      <4> QED BY <3>6, <4>1
    <3>8. Magnitude(t) = Magnitude(Y.p)
      BY <3>4, <1>1, AlikeIs
    <3> HIDE DEF r
    <3>9. Value(r.x) = Value(Y)
      BY <3>7, <3>8 DEF Value
    <3> QED BY <3>4, <3>7, <3>9 DEF r
  <2> QED BY <2>4, <2>5
<1> QED BY <1>2, <1>3

(* Into is a copy, unless the number is there.                              *)
LEMMA IntoIs ==
  ASSUME NEW X \in Number, NEW A \in Number, NEW isX, isX => X = A
  PROVE  LET r == Into(X, A, isX)
         IN  /\ r.ret \in {0, ALLOC_FAILED} /\ r.x \in Number
             /\ r.ret = 0 => Alike(r.x.p, A.p)
<1>1. CASE isX
  <2>1. Into(X, A, isX) = [ret |-> 0, x |-> A]
    BY <1>1 DEF Into, Ok
  <2> QED BY <2>1 DEF Alike
<1>2. CASE ~isX
  <2>1. Into(X, A, isX) = Copy(X, A)
    BY <1>2 DEF Into
  <2> HIDE DEF Alike
  <2> QED BY <2>1, CopyIs
<1> QED BY <1>1, <1>2

(* The sum of two limbs and a carry, in a limb and a carry.                 *)
LEMMA CarryIs ==
  ASSUME NEW x \in Limb, NEW y \in Limb, NEW e \in {0, 1}
  PROVE  LET sum == (x + y + e) % Base
             out == Carry(x, y, e)
         IN  sum \in Limb /\ out \in {0, 1} /\ x + y + e = sum + Up(out)
<1> DEFINE n == x + y + e
<1>1. Base \in Nat /\ Base >= 2 /\ x \in Nat /\ y \in Nat /\ x < Base /\ y < Base
  BY BaseIs
<1>2. n \in Int /\ 0 <= n /\ n < Base + Base
  BY <1>1
<1>3. Up(0) = 0 /\ Up(1) = Base
  BY Scaling
<1>4. CASE n < Base
  <2>1. n % Base = n
    <3> HIDE DEF n
    <3> QED BY <1>1, <1>2, <1>4, OneBase
  <2>2. Carry(x, y, e) = 0
    BY <1>1, <1>4 DEF Carry
  <2>3. n \in Limb
    BY <1>2, <1>4, <1>1, BaseIs
  <2> QED BY <2>1, <2>2, <2>3, <1>2, <1>3
<1>5. CASE ~(n < Base)
  <2>1. n % Base = n - Base
    <3> HIDE DEF n
    <3> QED BY <1>1, <1>2, <1>5, OneBase
  <2>2. Carry(x, y, e) = 1
    BY <1>1, <1>5 DEF Carry
  <2>3. n - Base \in Limb
    BY <1>2, <1>5, <1>1, BaseIs
  <2>4. n = (n - Base) + Base
    BY <1>1, <1>2
  <2> QED BY <2>1, <2>2, <2>3, <2>4, <1>3
<1> QED BY <1>4, <1>5

(* A number and the limbs of another.  The carries are those of Adds.       *)
LEMMA AddLimbsIs ==
  ASSUME NEW y \in Number, NEW b \in Seq(Limb), Len(y.p) >= Used(b)
  PROVE  LET r == AddLimbs(y, b)
         IN  /\ r.ret \in {0, ALLOC_FAILED} /\ r.x \in Number /\ r.x.s = y.s
             /\ r.ret = 0 => Magnitude(r.x.p) = Magnitude(y.p) + Magnitude(b)
<1> DEFINE n == Len(y.p)
           o == [k \in 1 .. n |-> At(b, k)]
           Eq(c) == c = [k \in 0 .. n |-> IF k = 0 THEN 0 ELSE Carry(y.p[k], IF k <= Used(b) THEN b[k] ELSE 0, c[k - 1])]
           C == CHOOSE c : Eq(c)
<1>1. y.p \in Seq(Limb) /\ y.s \in {-1, 1} /\ y = [s |-> y.s, p |-> y.p] /\ n \in Nat /\ DOMAIN y.p = 1 .. n
  <2>1. y.p \in Seq(Limb) /\ y.s \in {-1, 1} /\ y = [s |-> y.s, p |-> y.p]
    BY DEF Number
  <2> QED BY <2>1, LimbsAre
<1>2. o \in Seq(Limb) /\ Len(o) = n /\ Alike(o, b)
  BY <1>1, TrimmedIs
<1>3. Magnitude(o) = Magnitude(b)
  <2> HIDE DEF o, Alike
  <2> QED BY <1>2, AlikeIs
<1>4. ASSUME NEW k \in 1 .. n
      PROVE  /\ (IF k <= Used(b) THEN b[k] ELSE 0) = At(b, k)
             /\ y.p[k] = At(y.p, k) /\ o[k] = At(b, k) /\ At(b, k) \in Limb /\ At(y.p, k) \in Limb
             /\ k \in Int /\ k # 0 /\ k - 1 \in 0 .. n
  <2>0. k \in Int /\ k # 0 /\ k - 1 \in 0 .. n
    BY <1>1
  <2>1. Used(b) \in 0 .. Len(b) /\ Len(b) \in Nat
    BY UsedIs
  <2>2. CASE k <= Used(b)
    <3>1. k \in 1 .. Len(b)
      BY <2>1, <2>2, <1>1
    <3> QED BY <2>0, <2>2, <3>1, <1>1, LimbIs
  <2>3. CASE ~(k <= Used(b))
    <3>1. k > Used(b)
      BY <2>0, <2>1, <2>3
    <3>2. At(b, k) = 0
      BY <2>0, <3>1, UsedIs
    <3> QED BY <2>0, <2>3, <3>2, <1>1, LimbIs
  <2> QED BY <2>2, <2>3
<1> HIDE DEF n
<1>5. Eq(C)
  <2> DEFINE G == [z \in (1 .. n) \X {0, 1} |-> Carry(y.p[z[1]], IF z[1] <= Used(b) THEN b[z[1]] ELSE 0, z[2])]
  <2>1. G \in [(1 .. n) \X {0, 1} -> {0, 1}]
    <3>1. ASSUME NEW z \in (1 .. n) \X {0, 1}  PROVE Carry(y.p[z[1]], IF z[1] <= Used(b) THEN b[z[1]] ELSE 0, z[2]) \in {0, 1}
      BY DEF Carry
    <3> QED BY <3>1
  <2>2. PICK f \in [0 .. n -> {0, 1}] : Solves(f, n, 0, G)
    <3> HIDE DEF G
    <3> QED BY <1>1, <2>1, Recursion
  <2>3. ASSUME NEW k \in 0 .. n
        PROVE  f[k] = IF k = 0 THEN 0 ELSE Carry(y.p[k], IF k <= Used(b) THEN b[k] ELSE 0, f[k - 1])
    <3>1. CASE k = 0
      BY <2>2, <3>1 DEF Solves
    <3>2. CASE k # 0
      <4>1. k \in 1 .. n /\ k - 1 \in 0 .. n
        BY <3>2, <1>1
      <4>2. f[k] = G[<<k, f[k - 1]>>]
        <5> HIDE DEF G
        <5> QED BY <2>2, <4>1 DEF Solves
      <4>3. <<k, f[k - 1]>> \in (1 .. n) \X {0, 1}
        BY <2>2, <4>1
      <4> QED BY <3>2, <4>2, <4>3
    <3> QED BY <3>1, <3>2
  <2>4. Eq(f)
    BY <2>2, <2>3
  <2> QED BY <2>4
<1>6. C[0] = 0 /\ \A k \in 1 .. n : C[k] = Carry(y.p[k], IF k <= Used(b) THEN b[k] ELSE 0, C[k - 1])
  <2> HIDE DEF C
  <2>1. 0 \in 0 .. n /\ \A k \in 1 .. n : k \in 0 .. n /\ k # 0
    BY <1>1
  <2> QED BY <1>5, <2>1
<1> HIDE DEF C
<1> DEFINE d == [k \in 1 .. n |-> (y.p[k] + (IF k <= Used(b) THEN b[k] ELSE 0) + C[k - 1]) % Base]
<1>7. \A k \in 0 .. n : C[k] \in {0, 1}
  <2> DEFINE S == {k \in 0 .. n : C[k] \in {0, 1}}
  <2>1. 0 \in S
    BY <1>1, <1>6
  <2>2. ASSUME NEW k \in 1 .. n, k - 1 \in S  PROVE k \in S
    <3>1. C[k] \in {0, 1}
      BY <1>6 DEF Carry
    <3> QED BY <3>1, <1>1
  <2> HIDE DEF S
  <2>3. \A k \in 0 .. n : k \in S
    BY <1>1, <2>1, <2>2, InductionUp
  <2> QED BY <2>3 DEF S
<1>8. ASSUME NEW k \in 1 .. n
      PROVE  d[k] \in Limb /\ C[k] \in Nat /\ C[k - 1] \in Nat /\ At(y.p, k) + At(b, k) + C[k - 1] = d[k] + Up(C[k])
  <2>1. C[k - 1] \in {0, 1} /\ C[k] = Carry(At(y.p, k), At(b, k), C[k - 1]) /\ k \in 0 .. n
    BY <1>1, <1>4, <1>6, <1>7
  <2>2. d[k] = (At(y.p, k) + At(b, k) + C[k - 1]) % Base
    BY <1>4
  <2> HIDE DEF d, o
  <2>3. d[k] \in Limb /\ At(y.p, k) + At(b, k) + C[k - 1] = d[k] + Up(C[k])
    BY <1>4, <2>1, <2>2, CarryIs
  <2>4. C[k] \in {0, 1}
    BY <2>1, <1>7
  <2> QED BY <2>1, <2>3, <2>4
<1>9. d \in Seq(Limb) /\ Len(d) = n
  <2>1. \A k \in 1 .. n : d[k] \in Limb
    BY <1>8
  <2> QED BY SMTT(30), <1>1, <2>1
<1>10. \A k \in 1 .. n : At(d, k) = d[k] /\ At(o, k) = At(b, k)
  <2>1. \A k \in 1 .. n : k \in Int
    BY <1>1
  <2>2. \A k \in 1 .. n : At(d, k) = d[k]
    <3> HIDE DEF d
    <3> QED BY <1>9, <2>1, LimbIs
  <2> HIDE DEF d, o
  <2> QED BY <1>2, <2>1, <2>2 DEF Alike
<1> HIDE DEF o, d
<1>11. Adds(y.p, o, d, C, n)
  <2>1. ASSUME NEW k \in 1 .. n  PROVE Column(y.p, o, d, C, k)
    BY <1>8, <1>10 DEF Column
  <2> QED BY <1>6, <2>1 DEF Adds
<1> DEFINE sum == [s |-> y.s, p |-> d]
<1>12. sum \in Number
  BY <1>1, <1>9 DEF Number
<1>13. AddLimbs(y, b) = IF C[n] = 0 THEN Ok(sum) ELSE Then(Grow(sum, n + 1), LAMBDA z : Ok([z EXCEPT !.p[n + 1] = 1]))
  <2>1. [y EXCEPT !.p = [k \in DOMAIN @ |-> (@[k] + (IF k <= Used(b) THEN b[k] ELSE 0) + C[k - 1]) % Base]] = sum
    <3>1. [k \in DOMAIN y.p |-> (y.p[k] + (IF k <= Used(b) THEN b[k] ELSE 0) + C[k - 1]) % Base] = d
      BY <1>1 DEF d
    <3>2. [y EXCEPT !.p = d] = sum
      BY <1>1
    <3> HIDE DEF sum
    <3> QED BY <3>1, <3>2
  <2>2. AddLimbs(y, b) =
          IF C[n] = 0
          THEN Ok([y EXCEPT !.p = [k \in DOMAIN @ |-> (@[k] + (IF k <= Used(b) THEN b[k] ELSE 0) + C[k - 1]) % Base]])
          ELSE Then(Grow([y EXCEPT !.p = [k \in DOMAIN @ |-> (@[k] + (IF k <= Used(b) THEN b[k] ELSE 0) + C[k - 1]) % Base]], n + 1),
                    LAMBDA z : Ok([z EXCEPT !.p[n + 1] = 1]))
    BY DEF AddLimbs, C, n
  <2> HIDE DEF sum
  <2> QED BY <2>1, <2>2
<1>14. CASE C[n] = 0
  <2>1. AddLimbs(y, b) = [ret |-> 0, x |-> sum]
    BY <1>13, <1>14 DEF Ok
  <2>2. Magnitude(d) = Magnitude(y.p) + Magnitude(o)
    <3>1. n >= Len(y.p) /\ n >= Len(o) /\ n >= Len(d)
      BY <1>1, <1>2, <1>9 DEF n
    <3> QED BY <3>1, <1>1, <1>2, <1>9, <1>11, <1>14, SumsOfLimbs
  <2> QED BY <2>1, <2>2, <1>3, <1>12
<1>15. CASE C[n] # 0
  <2> DEFINE g == Grow(sum, n + 1)
             e == Append(d, 1)
             x == [k \in 0 .. (n + 1) |-> IF k = n + 1 THEN 0 ELSE C[k]]
  <2>1. /\ g.ret \in {0, ALLOC_FAILED} /\ g.x \in Number /\ g.x.s = y.s /\ Alike(g.x.p, d)
        /\ g.ret = 0 => Len(g.x.p) = n + 1
    <3>1. n + 1 \in Nat /\ sum.s = y.s /\ sum.p = d /\ Greater(n, n + 1) = n + 1
      BY <1>1 DEF Greater
    <3> HIDE DEF sum
    <3>2. /\ g.ret \in {0, ALLOC_FAILED} /\ g.x \in Number /\ g.x.s = sum.s /\ Alike(g.x.p, sum.p)
          /\ g.ret = 0 => Len(g.x.p) = Greater(Len(sum.p), n + 1)
      BY <3>1, <1>12, GrowIs
    <3> HIDE DEF g
    <3> QED BY <3>1, <3>2, <1>9
  <2> HIDE DEF g
  <2>2. AddLimbs(y, b) = IF g.ret # 0 THEN g ELSE Ok([g.x EXCEPT !.p[n + 1] = 1])
    <3>1. AddLimbs(y, b) = Then(g, LAMBDA z : Ok([z EXCEPT !.p[n + 1] = 1]))
      BY <1>13, <1>15 DEF g
    <3> QED BY <3>1 DEF Then, With
  <2>3. CASE g.ret # 0
    BY <2>1, <2>2, <2>3
  <2>4. CASE g.ret = 0
    <3>1. g.x = [s |-> y.s, p |-> g.x.p] /\ g.x.p \in Seq(Limb) /\ Len(g.x.p) = n + 1
      BY <2>1, <2>4 DEF Number
    <3>2. n + 1 \in 1 .. (n + 1) /\ 1 \in Limb /\ n + 1 \in Nat
      BY <1>1, BaseIs
    <3>3. e \in Seq(Limb) /\ Len(e) = n + 1
      BY <1>9, <3>2
    <3>4. [g.x.p EXCEPT ![n + 1] = 1] = e
      <4>1. DOMAIN g.x.p = 1 .. (n + 1)
        BY <3>1, LimbsAre
      <4>2. \A k \in 1 .. (n + 1) : [g.x.p EXCEPT ![n + 1] = 1][k] = IF k = n + 1 THEN 1 ELSE g.x.p[k]
        BY <3>1, <4>1
      <4>3. ASSUME NEW k \in 1 .. (n + 1), k # n + 1  PROVE g.x.p[k] = d[k]
        <5>1. k \in 1 .. n /\ k \in Int
          BY <4>3, <1>1
        <5>2. At(g.x.p, k) = At(d, k)
          BY <2>1, <5>1 DEF Alike
        <5>3. At(g.x.p, k) = g.x.p[k]
          BY <3>1, <5>1, LimbIs
        <5> QED BY <5>1, <5>2, <5>3, <1>10
      <4>4. \A k \in 1 .. (n + 1) : e[k] = IF k = n + 1 THEN 1 ELSE d[k]
        BY <1>9, <1>1
      <4>5. [g.x.p EXCEPT ![n + 1] = 1] \in Seq(Limb) /\ Len([g.x.p EXCEPT ![n + 1] = 1]) = n + 1
        BY <3>1, <3>2, ExceptSeq
      <4> HIDE DEF e
      <4> QED BY <3>3, <4>2, <4>3, <4>4, <4>5, SeqEqual
    <3>5. AddLimbs(y, b) = [ret |-> 0, x |-> [s |-> y.s, p |-> e]]
      <4>1. [g.x EXCEPT !.p[n + 1] = 1] = [s |-> y.s, p |-> [g.x.p EXCEPT ![n + 1] = 1]]
        BY SMTT(30), <3>1
      <4> HIDE DEF e
      <4> QED BY <2>2, <2>4, <3>4, <4>1 DEF Ok
    <3>6. \A k \in 1 .. (n + 1) : k \in Int
      OBVIOUS
    <3>7. \A k \in 1 .. (n + 1) : At(e, k) = IF k = n + 1 THEN 1 ELSE At(d, k)
      <4>1. \A k \in 1 .. (n + 1) : e[k] = IF k = n + 1 THEN 1 ELSE d[k]
        BY <1>9, <1>1
      <4>2. \A k \in 1 .. (n + 1) : k # n + 1 => k \in 1 .. n
        BY <1>1
      <4>3. \A k \in 1 .. (n + 1) : At(e, k) = e[k]
        <5> HIDE DEF e
        <5> QED BY <3>3, <3>6, LimbIs
      <4> HIDE DEF e
      <4> QED BY <4>1, <4>2, <4>3, <1>10
    <3>8. At(y.p, n + 1) = 0 /\ At(o, n + 1) = 0
      <4>1. n + 1 \in Int /\ n + 1 > Len(y.p) /\ n + 1 > Len(o)
        BY <1>1, <1>2 DEF n
      <4> QED BY <4>1, <1>1, <1>2, LimbIs
    <3>9. C[n] = 1
      <4>1. n \in 0 .. n
        BY <1>1
      <4> QED BY <4>1, <1>7, <1>15
    <3>10. Adds(y.p, o, e, x, n + 1)
      <4>1. n \in 0 .. (n + 1) /\ 0 \in 0 .. (n + 1) /\ n + 1 \in 0 .. (n + 1) /\ 0 # n + 1 /\ n # n + 1 /\ n + 1 - 1 = n
        BY <1>1
      <4>2. x[0] = 0
        BY <4>1, <1>6
      <4>3. ASSUME NEW k \in 1 .. (n + 1)  PROVE Column(y.p, o, e, x, k)
        <5>1. CASE k = n + 1
          <6>1. x[k - 1] = 1 /\ x[k] = 0 /\ At(e, k) = 1 /\ At(y.p, k) = 0 /\ At(o, k) = 0
            <7>1. x[k - 1] = 1 /\ x[k] = 0
              BY <4>1, <3>9, <5>1
            <7> HIDE DEF x, e
            <7> QED BY <5>1, <3>7, <3>8, <7>1
          <6>2. Up(0) = 0
            BY Scaling
          <6> HIDE DEF x, e
          <6> QED BY <6>1, <6>2 DEF Column
        <5>2. CASE k # n + 1
          <6>1. k \in 1 .. n /\ k - 1 # n + 1 /\ k - 1 \in 0 .. (n + 1) /\ k \in 0 .. (n + 1)
            BY <5>2, <1>1
          <6>2. x[k - 1] = C[k - 1] /\ x[k] = C[k]
            BY <5>2, <6>1
          <6>3. At(e, k) = At(d, k)
            <7> HIDE DEF e
            <7> QED BY <5>2, <3>7
          <6>4. Column(y.p, o, d, C, k)
            BY <6>1, <1>11 DEF Adds
          <6> HIDE DEF x, e
          <6> QED BY <6>2, <6>3, <6>4 DEF Column
        <5> QED BY <5>1, <5>2
      <4> HIDE DEF x, e
      <4> QED BY <4>2, <4>3 DEF Adds
    <3>11. x[n + 1] = 0
      BY <3>2
    <3> HIDE DEF x, e
    <3>12. Magnitude(e) = Magnitude(y.p) + Magnitude(o)
      <4>1. n + 1 >= Len(y.p) /\ n + 1 >= Len(o) /\ n + 1 >= Len(e)
        BY <1>1, <1>2, <3>3 DEF n
      <4> QED BY <4>1, <3>2, <3>3, <3>10, <3>11, <1>1, <1>2, SumsOfLimbs
    <3>13. [s |-> y.s, p |-> e] \in Number
      BY <3>3, <1>1 DEF Number
    <3> QED BY <3>5, <3>12, <3>13, <1>3
  <2> QED BY <2>3, <2>4
<1> QED BY <1>14, <1>15

(* How a caller may use a number twice: X is then that number.              *)
Aliased(X, A, B, same) == same \in SUBSET {"A", "B"} /\ ("A" \in same => X = A) /\ ("B" \in same => X = B)

(* mbedtls_mpi_add_abs: the sum of the magnitudes.                          *)
LEMMA AddAbsIs ==
  ASSUME NEW X \in Number, NEW A \in Number, NEW B \in Number, NEW same, Aliased(X, A, B, same)
  PROVE  LET r == AddAbs(X, A, B, same)
         IN  /\ r.ret \in {0, ALLOC_FAILED} /\ r.x \in Number
             /\ r.ret = 0 => r.x.s = 1 /\ Magnitude(r.x.p) = Magnitude(A.p) + Magnitude(B.p)
<1> DEFINE a == IF "B" \in same THEN B ELSE A
           b == IF "B" \in same THEN A ELSE B
           into == Into(X, a, same # {})
           Grown(x) == Grow([x EXCEPT !.s = 1], Used(b.p))
           r == AddAbs(X, A, B, same)
<1>1. a \in Number /\ b \in Number /\ (same # {} => X = a)
      /\ Magnitude(a.p) + Magnitude(b.p) = Magnitude(A.p) + Magnitude(B.p)
  <2>1. Magnitude(A.p) \in Nat /\ Magnitude(B.p) \in Nat
    BY NumberIs
  <2>2. same # {} => X = a
    BY DEF Aliased
  <2> QED BY <2>1, <2>2
<1>2. r = IF into.ret # 0 THEN into ELSE IF Grown(into.x).ret # 0 THEN Grown(into.x) ELSE AddLimbs(Grown(into.x).x, b.p)
  <2>1. r = Then(into, LAMBDA x : Then(Grow([x EXCEPT !.s = 1], Used(b.p)), LAMBDA y : AddLimbs(y, b.p)))
    BY DEF AddAbs
  <2>2. ASSUME NEW x  PROVE Then(Grow([x EXCEPT !.s = 1], Used(b.p)), LAMBDA y : AddLimbs(y, b.p))
                             = IF Grown(x).ret # 0 THEN Grown(x) ELSE AddLimbs(Grown(x).x, b.p)
    <3> HIDE DEF a, b
    <3> QED BY DEF Then, With
  <2> HIDE DEF into, a, b, Grown, r
  <2>3. r = IF into.ret # 0 THEN into ELSE Then(Grow([into.x EXCEPT !.s = 1], Used(b.p)), LAMBDA y : AddLimbs(y, b.p))
    BY <2>1 DEF Then, With
  <2> QED BY <2>2, <2>3
<1> HIDE DEF a, b
<1>3. into.ret \in {0, ALLOC_FAILED} /\ into.x \in Number /\ (into.ret = 0 => Alike(into.x.p, a.p))
  <2> HIDE DEF Alike
  <2> QED BY <1>1, IntoIs
<1> HIDE DEF into
<1> DEFINE one == [into.x EXCEPT !.s = 1]
           g == Grown(into.x)
<1>4. one \in Number /\ one.s = 1 /\ one.p = into.x.p
  <2>1. into.x = [s |-> into.x.s, p |-> into.x.p] /\ into.x.p \in Seq(Limb)
    BY <1>3 DEF Number
  <2>2. one = [s |-> 1, p |-> into.x.p]
    BY <2>1
  <2> HIDE DEF one
  <2> QED BY <2>1, <2>2 DEF Number
<1>5. Used(b.p) \in Nat /\ b.p \in Seq(Limb) /\ a.p \in Seq(Limb)
  <2>1. b.p \in Seq(Limb) /\ a.p \in Seq(Limb)
    BY <1>1, NumberIs
  <2>2. Used(b.p) \in 0 .. Len(b.p)
    BY <2>1, UsedIs
  <2> QED BY <2>1, <2>2
<1>6. /\ g.ret \in {0, ALLOC_FAILED} /\ g.x \in Number /\ g.x.s = 1 /\ Alike(g.x.p, into.x.p)
      /\ g.ret = 0 => Len(g.x.p) = Greater(Len(into.x.p), Used(b.p))
  <2>1. g = Grow(one, Used(b.p))
    OBVIOUS
  <2> HIDE DEF one, g, Grown
  <2>2. /\ g.ret \in {0, ALLOC_FAILED} /\ g.x \in Number /\ g.x.s = one.s /\ Alike(g.x.p, one.p)
        /\ g.ret = 0 => Len(g.x.p) = Greater(Len(one.p), Used(b.p))
    BY <1>4, <1>5, <2>1, GrowIs
  <2> QED BY <2>2, <1>4
<1>7. r = IF into.ret # 0 THEN into ELSE IF g.ret # 0 THEN g ELSE AddLimbs(g.x, b.p)
  <2> HIDE DEF r
  <2> QED BY <1>2
<1> HIDE DEF g, r, one, Grown
<1>8. CASE into.ret # 0
  BY <1>3, <1>7, <1>8 DEF r
<1>9. CASE into.ret = 0 /\ g.ret # 0
  BY <1>6, <1>7, <1>9 DEF r
<1>10. CASE into.ret = 0 /\ g.ret = 0
  <2>1. g.x.p \in Seq(Limb) /\ into.x.p \in Seq(Limb)
    BY <1>3, <1>6, NumberIs
  <2>2. Len(g.x.p) >= Used(b.p)
    <3>1. Len(into.x.p) \in Nat
      BY <2>1
    <3> QED BY <3>1, <1>5, <1>6, <1>10, GreaterIs
  <2>3. Magnitude(g.x.p) = Magnitude(a.p)
    BY <1>3, <1>5, <1>6, <1>10, <2>1, AlikeIs
  <2>4. r = AddLimbs(g.x, b.p)
    BY <1>7, <1>10
  <2>5. /\ r.ret \in {0, ALLOC_FAILED} /\ r.x \in Number /\ r.x.s = g.x.s
        /\ r.ret = 0 => Magnitude(r.x.p) = Magnitude(g.x.p) + Magnitude(b.p)
    BY <2>2, <2>4, <1>5, <1>6, AddLimbsIs
  <2> QED BY <2>3, <2>5, <1>1, <1>6 DEF r
<1> QED BY <1>3, <1>6, <1>8, <1>9, <1>10

(* The difference of two limbs and a borrow.                                *)
LEMMA BorrowIs ==
  ASSUME NEW x \in Limb, NEW y \in Limb, NEW e \in {0, 1}
  PROVE  LET diff == (x - y - e) % Base
             out == IF x - e < y THEN 1 ELSE 0
         IN  diff \in Limb /\ out \in {0, 1} /\ diff + y + e = x + Up(out)
<1> DEFINE n == x - y - e
<1>1. Base \in Nat /\ Base >= 2 /\ x \in Nat /\ y \in Nat /\ x < Base /\ y < Base
  BY BaseIs
<1>2. n \in Int /\ 0 - Base <= n /\ n < Base
  BY <1>1
<1>3. Up(0) = 0 /\ Up(1) = Base
  BY Scaling
<1>4. CASE 0 <= n
  <2>1. n % Base = n
    <3> HIDE DEF n
    <3> QED BY <1>1, <1>2, <1>4, OneBase
  <2>2. (IF x - e < y THEN 1 ELSE 0) = 0
    BY <1>1, <1>4
  <2>3. n \in Limb
    BY <1>2, <1>4, <1>1, BaseIs
  <2>4. n + y + e = x
    BY <1>1
  <2> QED BY <2>1, <2>2, <2>3, <2>4, <1>1, <1>3
<1>5. CASE n < 0
  <2>1. n % Base = n + Base
    <3> HIDE DEF n
    <3> QED BY <1>1, <1>2, <1>5, OneBase
  <2>2. (IF x - e < y THEN 1 ELSE 0) = 1
    BY <1>1, <1>5
  <2>3. n + Base \in Limb
    BY <1>2, <1>5, <1>1, BaseIs
  <2>4. (n + Base) + y + e = x + Base
    BY <1>1
  <2> QED BY <2>1, <2>2, <2>3, <2>4, <1>3
<1> QED BY <1>2, <1>4, <1>5

(* A number less another that is not greater.                               *)
LEMMA SubHlpIs ==
  ASSUME NEW y \in Seq(Limb), NEW b \in Seq(Limb), Magnitude(b) <= Magnitude(y)
  PROVE  LET r == SubHlp(Used(b), b, y)
         IN  r \in Seq(Limb) /\ Magnitude(r) = Magnitude(y) - Magnitude(b)
<1> DEFINE n == Len(y)
           o == [k \in 1 .. n |-> At(b, k)]
           Eq(c) == c = [k \in 0 .. n |-> IF k = 0 THEN 0 ELSE IF y[k] - c[k - 1] < (IF k <= Used(b) THEN b[k] ELSE 0) THEN 1 ELSE 0]
           C == CHOOSE c : Eq(c)
<1>1. n \in Nat /\ DOMAIN y = 1 .. n /\ Magnitude(y) \in Nat /\ Magnitude(b) \in Nat
  BY LimbsAre, MagnitudeIsNat
<1>2. Used(b) <= n /\ Used(b) \in Nat
  <2>1. Used(b) \in Nat /\ Used(y) \in Nat /\ Used(y) <= n
    <3>1. Used(b) \in 0 .. Len(b) /\ Used(y) \in 0 .. n
      BY UsedIs
    <3> QED BY <3>1, <1>1
  <2>2. ~(Used(b) > Used(y))
    BY <1>1, MoreUsed
  <2> QED BY <2>1, <2>2
<1>3. o \in Seq(Limb) /\ Len(o) = n /\ Alike(o, b)
  BY <1>1, <1>2, TrimmedIs
<1>4. Magnitude(o) = Magnitude(b)
  <2> HIDE DEF o, Alike
  <2> QED BY <1>3, AlikeIs
<1>5. ASSUME NEW k \in 1 .. n
      PROVE  /\ (IF k <= Used(b) THEN b[k] ELSE 0) = At(b, k)
             /\ y[k] = At(y, k) /\ At(b, k) \in Limb /\ At(y, k) \in Limb
             /\ k \in Int /\ k # 0 /\ k - 1 \in 0 .. n /\ k \in 0 .. n
  <2>0. k \in Int /\ k # 0 /\ k - 1 \in 0 .. n /\ k \in 0 .. n
    BY <1>1
  <2>1. Used(b) \in 0 .. Len(b) /\ Len(b) \in Nat
    BY UsedIs
  <2>2. CASE k <= Used(b)
    <3>1. k \in 1 .. Len(b)
      BY <2>1, <2>2, <1>1
    <3> QED BY <2>0, <2>2, <3>1, <1>1, LimbIs
  <2>3. CASE ~(k <= Used(b))
    <3>1. k > Used(b)
      BY <2>0, <2>1, <2>3
    <3>2. At(b, k) = 0
      BY <2>0, <3>1, UsedIs
    <3> QED BY <2>0, <2>3, <3>2, <1>1, LimbIs
  <2> QED BY <2>2, <2>3
<1>6. \A k \in 1 .. n : At(o, k) = At(b, k)
  <2>1. \A k \in 1 .. n : k \in Int
    BY <1>1
  <2> HIDE DEF o
  <2> QED BY <1>3, <2>1 DEF Alike
<1> HIDE DEF n
<1>7. Eq(C)
  <2> DEFINE G == [z \in (1 .. n) \X {0, 1} |-> IF y[z[1]] - z[2] < (IF z[1] <= Used(b) THEN b[z[1]] ELSE 0) THEN 1 ELSE 0]
  <2>1. G \in [(1 .. n) \X {0, 1} -> {0, 1}]
    OBVIOUS
  <2>2. PICK f \in [0 .. n -> {0, 1}] : Solves(f, n, 0, G)
    <3> HIDE DEF G
    <3> QED BY <1>1, <2>1, Recursion
  <2>3. ASSUME NEW k \in 0 .. n
        PROVE  f[k] = IF k = 0 THEN 0 ELSE IF y[k] - f[k - 1] < (IF k <= Used(b) THEN b[k] ELSE 0) THEN 1 ELSE 0
    <3>1. CASE k = 0
      BY <2>2, <3>1 DEF Solves
    <3>2. CASE k # 0
      <4>1. k \in 1 .. n /\ k - 1 \in 0 .. n
        BY <3>2, <1>1
      <4>2. f[k] = G[<<k, f[k - 1]>>]
        <5> HIDE DEF G
        <5> QED BY <2>2, <4>1 DEF Solves
      <4>3. <<k, f[k - 1]>> \in (1 .. n) \X {0, 1}
        BY <2>2, <4>1
      <4> QED BY <3>2, <4>2, <4>3
    <3> QED BY <3>1, <3>2
  <2>4. Eq(f)
    BY <2>2, <2>3
  <2> QED BY <2>4
<1>8. C[0] = 0 /\ \A k \in 1 .. n : C[k] = IF y[k] - C[k - 1] < (IF k <= Used(b) THEN b[k] ELSE 0) THEN 1 ELSE 0
  <2> HIDE DEF C
  <2>1. 0 \in 0 .. n /\ \A k \in 1 .. n : k \in 0 .. n /\ k # 0
    BY <1>1
  <2> QED BY <1>7, <2>1
<1> HIDE DEF C
<1> DEFINE d == [k \in 1 .. n |-> (y[k] - (IF k <= Used(b) THEN b[k] ELSE 0) - C[k - 1]) % Base]
<1>9. \A k \in 0 .. n : C[k] \in {0, 1}
  <2> DEFINE S == {k \in 0 .. n : C[k] \in {0, 1}}
  <2>1. 0 \in S
    BY <1>1, <1>8
  <2>2. ASSUME NEW k \in 1 .. n, k - 1 \in S  PROVE k \in S
    <3>1. C[k] \in {0, 1}
      BY <1>8
    <3> QED BY <3>1, <1>1
  <2> HIDE DEF S
  <2>3. \A k \in 0 .. n : k \in S
    BY <1>1, <2>1, <2>2, InductionUp
  <2> QED BY <2>3 DEF S
<1>10. ASSUME NEW k \in 1 .. n
       PROVE  d[k] \in Limb /\ C[k] \in Nat /\ C[k - 1] \in Nat /\ d[k] + At(b, k) + C[k - 1] = At(y, k) + Up(C[k])
  <2>1. C[k - 1] \in {0, 1} /\ C[k] \in {0, 1}
    BY <1>5, <1>9
  <2>2. C[k] = IF At(y, k) - C[k - 1] < At(b, k) THEN 1 ELSE 0
    BY <1>5, <1>8
  <2>3. d[k] = (At(y, k) - At(b, k) - C[k - 1]) % Base
    BY <1>5
  <2> HIDE DEF d, o
  <2>4. d[k] \in Limb /\ d[k] + At(b, k) + C[k - 1] = At(y, k) + Up(C[k])
    BY <1>5, <2>1, <2>2, <2>3, BorrowIs
  <2> QED BY <2>1, <2>4
<1>11. d \in Seq(Limb) /\ Len(d) = n
  <2>1. \A k \in 1 .. n : d[k] \in Limb
    BY <1>10
  <2> QED BY <1>1, <2>1
<1>12. \A k \in 1 .. n : At(d, k) = d[k]
  <2>1. \A k \in 1 .. n : k \in Int
    BY <1>1
  <2> HIDE DEF d
  <2> QED BY <1>11, <2>1, LimbIs
<1>13. Adds(d, o, y, C, n)
  <2>1. ASSUME NEW k \in 1 .. n  PROVE Column(d, o, y, C, k)
    <3> HIDE DEF o
    <3>1. At(o, k) = At(b, k) /\ At(d, k) = d[k]
      BY <1>6, <1>12
    <3> HIDE DEF d
    <3> QED BY <1>10, <3>1 DEF Column
  <2> HIDE DEF o, d
  <2> QED BY <1>8, <2>1 DEF Adds
<1>14. SubHlp(Used(b), b, y) = IF Used(b) > n \/ C[n] # 0 THEN Overrun ELSE d
  <2>1. [k \in DOMAIN y |-> (y[k] - (IF k <= Used(b) THEN b[k] ELSE 0) - C[k - 1]) % Base] = d
    BY <1>1
  <2>2. SubHlp(Used(b), b, y)
          = IF Used(b) > n \/ C[n] # 0 THEN Overrun
            ELSE [k \in DOMAIN y |-> (y[k] - (IF k <= Used(b) THEN b[k] ELSE 0) - C[k - 1]) % Base]
    BY DEF SubHlp, C, n
  <2> HIDE DEF d
  <2> QED BY <2>1, <2>2
<1> HIDE DEF d, o
<1>15. C[n] = 0
  <2>1. n \in 0 .. n
    BY <1>1
  <2>2. CASE C[n] = 1
    <3>1. Len(o) <= Len(y) /\ Len(d) = Len(y)
      BY <1>3, <1>11, <1>1 DEF n
    <3>2. Magnitude(y) < Magnitude(o)
      BY <3>1, <2>2, <1>3, <1>11, <1>13, BorrowMeansLess DEF n
    <3> QED BY <3>2, <1>1, <1>4
  <2> QED BY <2>1, <2>2, <1>9
<1>16. Magnitude(y) = Magnitude(d) + Magnitude(o)
  <2>1. n >= Len(d) /\ n >= Len(o) /\ n >= Len(y)
    BY <1>1, <1>3, <1>11 DEF n
  <2> QED BY <2>1, <1>1, <1>3, <1>11, <1>13, <1>15, SumsOfLimbs
<1>17. SubHlp(Used(b), b, y) = d
  <2>1. ~(Used(b) > n)
    BY <1>1, <1>2
  <2> QED BY <2>1, <1>14, <1>15
<1>18. Magnitude(d) \in Nat
  BY <1>11, MagnitudeIsNat
<1> QED BY <1>1, <1>4, <1>11, <1>16, <1>17, <1>18

(* mbedtls_mpi_sub_abs: the difference, if it is none below zero.           *)
LEMMA SubAbsIs ==
  ASSUME NEW X \in Number, NEW A \in Number, NEW B \in Number, NEW same, Aliased(X, A, B, same)
  PROVE  LET r == SubAbs(X, A, B, same)
         IN  /\ r.x \in Number
             /\ Magnitude(A.p) < Magnitude(B.p) => r.ret = NEGATIVE_VALUE
             /\ Magnitude(A.p) >= Magnitude(B.p) => r.ret \in {0, ALLOC_FAILED}
             /\ r.ret = 0 => r.x.s = 1 /\ Magnitude(r.x.p) = Magnitude(A.p) - Magnitude(B.p)
<1> DEFINE r == SubAbs(X, A, B, same)
           aside == Aside(B, "B" \in same, X)
           into == Into(aside.x, A, "A" \in same)
           d == SubHlp(Used(B.p), B.p, into.x.p)
<1>1. Magnitude(A.p) \in Nat /\ Magnitude(B.p) \in Nat /\ A.p \in Seq(Limb) /\ B.p \in Seq(Limb)
  BY NumberIs
<1>2. CmpAbs(A, B) = SignOf(Magnitude(A.p) - Magnitude(B.p))
  BY NumberIs, CmpLimbsIs DEF CmpAbs
<1>3. CASE Magnitude(A.p) < Magnitude(B.p)
  <2>1. CmpAbs(A, B) < 0
    BY <1>1, <1>2, <1>3 DEF SignOf
  <2>2. r = [ret |-> NEGATIVE_VALUE, x |-> X]
    BY <2>1 DEF SubAbs, Err
  <2>3. r.ret = NEGATIVE_VALUE /\ r.x = X /\ NEGATIVE_VALUE # 0
    BY <2>2 DEF NEGATIVE_VALUE
  <2> HIDE DEF r
  <2> QED BY <2>3, <1>1, <1>3 DEF r
<1>4. CASE ~(Magnitude(A.p) < Magnitude(B.p))
  <2>1. ~(CmpAbs(A, B) < 0)
    BY <1>1, <1>2, <1>4 DEF SignOf
  <2>2. r = IF aside.ret # 0 THEN aside ELSE IF into.ret # 0 THEN into ELSE Ok([s |-> 1, p |-> d])
    <3> DEFINE In(x) == Into(x, A, "A" \in same)
               Less1(y) == Ok([s |-> 1, p |-> SubHlp(Used(B.p), B.p, y.p)])
    <3>1. r = Then(aside, LAMBDA x : Then(In(x), LAMBDA y : Less1(y)))
      BY <2>1 DEF SubAbs
    <3>2. ASSUME NEW x  PROVE Then(In(x), LAMBDA y : Less1(y)) = IF In(x).ret # 0 THEN In(x) ELSE Less1(In(x).x)
      <4> HIDE DEF In, Less1
      <4> QED BY DEF Then, With
    <3>3. Then(aside, LAMBDA x : Then(In(x), LAMBDA y : Less1(y)))
            = IF aside.ret # 0 THEN aside ELSE Then(In(aside.x), LAMBDA y : Less1(y))
      <4> HIDE DEF In, Less1, aside
      <4> QED BY DEF Then, With
    <3>4. In(aside.x) = into /\ Less1(into.x) = Ok([s |-> 1, p |-> d])
      OBVIOUS
    <3> HIDE DEF In, Less1, aside, into, r, d
    <3> QED BY <3>1, <3>2, <3>3, <3>4
  <2>3. aside.ret \in {0, ALLOC_FAILED} /\ aside.x = X
    BY DEF Aside, Err, Ok
  <2>4. into.ret \in {0, ALLOC_FAILED} /\ into.x \in Number /\ (into.ret = 0 => Alike(into.x.p, A.p))
    <3>1. "A" \in same => X = A
      BY DEF Aliased
    <3> HIDE DEF Alike, aside
    <3> QED BY <2>3, <3>1, IntoIs
  <2> HIDE DEF aside, into
  <2>5. CASE aside.ret # 0
    BY <2>2, <2>3, <2>5, <1>1, <1>4
  <2>6. CASE aside.ret = 0 /\ into.ret # 0
    BY <2>2, <2>4, <2>6, <1>1, <1>4
  <2>7. CASE aside.ret = 0 /\ into.ret = 0
    <3>1. into.x.p \in Seq(Limb)
      BY <2>4, NumberIs
    <3>2. Magnitude(into.x.p) = Magnitude(A.p)
      BY <2>4, <2>7, <3>1, <1>1, AlikeIs
    <3>3. d \in Seq(Limb) /\ Magnitude(d) = Magnitude(A.p) - Magnitude(B.p)
      <4>1. Magnitude(B.p) <= Magnitude(into.x.p)
        BY <3>2, <1>1, <1>4
      <4> QED BY <3>1, <3>2, <4>1, <1>1, SubHlpIs
    <3> HIDE DEF d
    <3>4. r = [ret |-> 0, x |-> [s |-> 1, p |-> d]]
      BY <2>2, <2>7 DEF Ok
    <3>5. [s |-> 1, p |-> d] \in Number
      BY <3>3 DEF Number
    <3> HIDE DEF r
    <3>6. r.ret = 0 /\ r.x.s = 1 /\ r.x.p = d /\ r.x \in Number
      BY <3>4, <3>5
    <3> QED BY <3>3, <3>6, <1>1, <1>4 DEF r
  <2> QED BY <2>3, <2>4, <2>5, <2>6, <2>7
<1> QED BY <1>3, <1>4

(* What a result shows when the sign is put to a magnitude.                 *)
LEMMA SignPut ==
  ASSUME NEW r, r.x \in Number, NEW s \in {-1, 1}
  PROVE  LET t == Then(r, LAMBDA x : Ok([x EXCEPT !.s = s]))
         IN  /\ t.ret = r.ret /\ t.x \in Number
             /\ r.ret = 0 => Value(t.x) = s * Magnitude(r.x.p)
<1> DEFINE t == Then(r, LAMBDA x : Ok([x EXCEPT !.s = s]))
<1>1. t = IF r.ret # 0 THEN r ELSE Ok([r.x EXCEPT !.s = s])
  BY DEF Then, With
<1>2. r.x = [s |-> r.x.s, p |-> r.x.p] /\ r.x.p \in Seq(Limb)
  BY DEF Number
<1>3. [r.x EXCEPT !.s = s] = [s |-> s, p |-> r.x.p]
  BY <1>2
<1>4. [s |-> s, p |-> r.x.p] \in Number /\ Value([s |-> s, p |-> r.x.p]) = s * Magnitude(r.x.p)
  BY <1>2 DEF Number, Value
<1> HIDE DEF t
<1>5. CASE r.ret # 0
  BY <1>1, <1>5 DEF t
<1>6. CASE r.ret = 0
  <2>1. t = [ret |-> 0, x |-> [s |-> s, p |-> r.x.p]]
    BY <1>1, <1>3, <1>6 DEF Ok
  <2>2. t.ret = 0 /\ t.x = [s |-> s, p |-> r.x.p]
    BY <2>1
  <2> QED BY <2>2, <1>4, <1>6 DEF t
<1> QED BY <1>5, <1>6

(* Addition and subtraction differ in the sign that the second number gets. *)
LEMMA AddSignedIs ==
  ASSUME NEW X \in Number, NEW A \in Number, NEW B \in Number, NEW same, Aliased(X, A, B, same),
         NEW sign \in {-1, 1}
  PROVE  LET r == AddSigned(X, A, B, sign, same)
         IN  /\ r.ret \in {0, ALLOC_FAILED} /\ r.x \in Number
             /\ r.ret = 0 => Value(r.x) = A.s * Magnitude(A.p) + sign * Magnitude(B.p)
<1> DEFINE r == AddSigned(X, A, B, sign, same)
           a == Magnitude(A.p)
           b == Magnitude(B.p)
           swapped == {IF m = "A" THEN "B" ELSE "A" : m \in same}
           minuend == IF CmpAbs(A, B) >= 0 THEN SubAbs(X, A, B, same) ELSE SubAbs(X, B, A, swapped)
           s == IF CmpAbs(A, B) >= 0 THEN A.s ELSE -A.s
<1>1. a \in Nat /\ b \in Nat /\ (A.s = 1 \/ A.s = -1) /\ (sign = 1 \/ sign = -1)
  BY NumberIs
<1>2. CmpAbs(A, B) = SignOf(a - b)
  BY NumberIs, CmpLimbsIs DEF CmpAbs
<1>3. CmpAbs(A, B) >= 0 <=> a >= b
  <2> HIDE DEF a, b
  <2> QED BY <1>1, <1>2 DEF SignOf
<1>4. CASE A.s * sign > 0
  <2> DEFINE sum == AddAbs(X, A, B, same)
  <2>1. A.s = sign
    BY <1>1, <1>4
  <2>2. r = Then(sum, LAMBDA x : Ok([x EXCEPT !.s = A.s]))
    BY <1>4 DEF AddSigned
  <2>3. sum.ret \in {0, ALLOC_FAILED} /\ sum.x \in Number /\ (sum.ret = 0 => Magnitude(sum.x.p) = a + b)
    BY AddAbsIs
  <2> HIDE DEF sum, r, a, b
  <2>4. r.ret = sum.ret /\ r.x \in Number /\ (sum.ret = 0 => Value(r.x) = A.s * Magnitude(sum.x.p))
    <3>1. A.s \in {-1, 1}
      BY <1>1
    <3> QED BY <2>2, <2>3, <3>1, SignPut
  <2>5. A.s * (a + b) = A.s * a + sign * b
    BY <1>1, <2>1
  <2> QED BY <2>3, <2>4, <2>5 DEF r, a, b
<1>5. CASE ~(A.s * sign > 0)
  <2>1. sign = -A.s
    BY <1>1, <1>5
  <2>2. r = Then(minuend, LAMBDA x : Ok([x EXCEPT !.s = s]))
    <3> DEFINE Signed(first) == Then(IF first THEN SubAbs(X, A, B, same) ELSE SubAbs(X, B, A, swapped),
                                     LAMBDA x : Ok([x EXCEPT !.s = IF first THEN A.s ELSE -A.s]))
    <3>1. r = With(CmpAbs(A, B) >= 0, LAMBDA first : Signed(first))
      BY <1>5 DEF AddSigned
    <3>2. With(CmpAbs(A, B) >= 0, LAMBDA first : Signed(first)) = Signed(CmpAbs(A, B) >= 0)
      <4> HIDE DEF Signed
      <4> QED BY DEF With
    <3> QED BY <3>1, <3>2
  <2>3. minuend.ret \in {0, ALLOC_FAILED} /\ minuend.x \in Number
        /\ (minuend.ret = 0 => Magnitude(minuend.x.p) = IF a >= b THEN a - b ELSE b - a)
    <3>1. CASE a >= b
      <4>1. minuend = SubAbs(X, A, B, same)
        BY <1>3, <3>1
      <4> HIDE DEF minuend
      <4> QED BY <3>1, <4>1, SubAbsIs
    <3>2. CASE ~(a >= b)
      <4>1. minuend = SubAbs(X, B, A, swapped)
        BY <1>3, <3>2
      <4>2. Aliased(X, B, A, swapped)
        BY DEF Aliased
      <4>3. b >= a
        <5> HIDE DEF a, b
        <5> QED BY <1>1, <3>2
      <4> HIDE DEF minuend, swapped
      <4> QED BY <3>2, <4>1, <4>2, <4>3, SubAbsIs
    <3> QED BY <3>1, <3>2
  <2>4. s \in {-1, 1} /\ s = IF a >= b THEN A.s ELSE -A.s
    <3> HIDE DEF a, b
    <3> QED BY <1>1, <1>3
  <2> HIDE DEF minuend, r, a, b, s
  <2>5. r.ret = minuend.ret /\ r.x \in Number /\ (minuend.ret = 0 => Value(r.x) = s * Magnitude(minuend.x.p))
    BY <2>2, <2>3, <2>4, SignPut
  <2>6. s * (IF a >= b THEN a - b ELSE b - a) = A.s * a + sign * b
    BY <1>1, <2>1, <2>4
  <2> QED BY <2>3, <2>5, <2>6 DEF r, a, b
<1> QED BY <1>4, <1>5

(* mbedtls_mpi_add_abs, _sub_abs, _add_mpi and _sub_mpi, for every number   *)
(* of limbs and every base, whichever of the arguments is the destination:  *)
(* what returns 0 is the sum or the difference, -0 and unused limbs         *)
(* included; only a lack of memory fails, and a subtraction of magnitudes   *)
(* that would be negative; and the destination is a number after a failure. *)
THEOREM AdditionIsExact ==
  ASSUME NEW X \in Number, NEW A \in Number, NEW B \in Number, NEW same, Aliased(X, A, B, same)
  PROVE  LET u == Value(A)
             v == Value(B)
             addAbs == AddAbs(X, A, B, same)
             subAbs == SubAbs(X, A, B, same)
             add == AddMpi(X, A, B, same)
             sub == SubMpi(X, A, B, same)
         IN  /\ addAbs.x \in Number /\ subAbs.x \in Number /\ add.x \in Number /\ sub.x \in Number
             /\ addAbs.ret \in {0, ALLOC_FAILED} /\ add.ret \in {0, ALLOC_FAILED} /\ sub.ret \in {0, ALLOC_FAILED}
             /\ IF Abs(u) < Abs(v) THEN subAbs.ret = NEGATIVE_VALUE ELSE subAbs.ret \in {0, ALLOC_FAILED}
             /\ addAbs.ret = 0 => Value(addAbs.x) = Abs(u) + Abs(v)
             /\ subAbs.ret = 0 => Value(subAbs.x) = Abs(u) - Abs(v)
             /\ add.ret = 0 => Value(add.x) = u + v
             /\ sub.ret = 0 => Value(sub.x) = u - v
<1> DEFINE a == Magnitude(A.p)
           b == Magnitude(B.p)
           addAbs == AddAbs(X, A, B, same)
           subAbs == SubAbs(X, A, B, same)
           add == AddMpi(X, A, B, same)
           sub == SubMpi(X, A, B, same)
<1>1. a \in Nat /\ b \in Nat /\ Abs(Value(A)) = a /\ Abs(Value(B)) = b /\ (B.s = 1 \/ B.s = -1)
  BY NumberIs
<1>2. Value(A) = A.s * a /\ Value(B) = B.s * b /\ Value(A) \in Int /\ Value(B) \in Int
  BY NumberIs DEF Value
<1>3. addAbs.ret \in {0, ALLOC_FAILED} /\ addAbs.x \in Number
      /\ (addAbs.ret = 0 => addAbs.x.s = 1 /\ Magnitude(addAbs.x.p) = a + b)
  BY AddAbsIs
<1>4. /\ subAbs.x \in Number
      /\ a < b => subAbs.ret = NEGATIVE_VALUE
      /\ a >= b => subAbs.ret \in {0, ALLOC_FAILED}
      /\ subAbs.ret = 0 => subAbs.x.s = 1 /\ Magnitude(subAbs.x.p) = a - b
  BY SubAbsIs
<1>5. add.ret \in {0, ALLOC_FAILED} /\ add.x \in Number /\ (add.ret = 0 => Value(add.x) = A.s * a + B.s * b)
  <2>1. add = AddSigned(X, A, B, B.s, same) /\ B.s \in {-1, 1}
    BY <1>1 DEF AddMpi
  <2> HIDE DEF add
  <2> QED BY <2>1, AddSignedIs
<1>6. sub.ret \in {0, ALLOC_FAILED} /\ sub.x \in Number /\ (sub.ret = 0 => Value(sub.x) = A.s * a + (-B.s) * b)
  <2>1. sub = AddSigned(X, A, B, -B.s, same) /\ -B.s \in {-1, 1}
    BY <1>1 DEF SubMpi
  <2> HIDE DEF sub
  <2> QED BY <2>1, AddSignedIs
<1> HIDE DEF a, b, addAbs, subAbs, add, sub
<1>7. (-B.s) * b = -(B.s * b)
  BY <1>1
<1>8. (-B.s) * b = -Value(B)
  BY <1>2, <1>7
<1>9. addAbs.ret = 0 => Value(addAbs.x) = a + b
  BY <1>3, NumberIs
<1>10. subAbs.ret = 0 => Value(subAbs.x) = a - b
  BY <1>4, NumberIs
<1>11. sub.ret = 0 => Value(sub.x) = Value(A) - Value(B)
  <2> HAVE sub.ret = 0
  <2>1. Value(sub.x) = Value(A) + (-Value(B))
    BY <1>2, <1>6, <1>8
  <2> QED BY <2>1, <1>2
<1>12. IF a < b THEN subAbs.ret = NEGATIVE_VALUE ELSE subAbs.ret \in {0, ALLOC_FAILED}
  BY <1>1, <1>4
<1>13. add.ret = 0 => Value(add.x) = Value(A) + Value(B)
  BY <1>2, <1>5
<1> QED BY <1>1, <1>3, <1>4, <1>5, <1>6, <1>9, <1>10, <1>11, <1>12, <1>13 DEF addAbs, subAbs, add, sub

(* The sum of two.                                                          *)
LEMMA UpSum ==
  ASSUME NEW x \in Nat, NEW y \in Nat
  PROVE  Up(x + y) = Up(x) + Up(y) /\ Up(x) \in Nat /\ Up(y) \in Nat /\ x + y \in Nat
<1>1. Base \in Nat
  BY BaseIs
<1>2. \A b \in Nat : b * x \in Nat /\ b * y \in Nat /\ b * (x + y) = b * x + b * y
  OBVIOUS
<1>3. Base * x \in Nat /\ Base * y \in Nat /\ Base * (x + y) = Base * x + Base * y
  BY <1>1, <1>2
<1>4. x + y \in Nat
  OBVIOUS
<1> QED BY <1>3, <1>4 DEF Up

-----------------------------------------------------------------------------
(* Multiplication.                                                          *)

(* Quotient and remainder are what fits.                                    *)
LEMMA QuotientIs ==
  ASSUME NEW b \in Nat, b > 0, NEW q \in Nat, NEW r \in Nat, r < b
  PROVE  (b * q + r) % b = r /\ (b * q + r) \div b = q /\ b * q + r \in Nat
<1> DEFINE x == b * q + r
           e == x \div b
           f == x % b
<1>1. b * q \in Nat /\ x \in Nat
  OBVIOUS
<1>2. \A y \in Nat : y % b \in 0 .. (b - 1) /\ y = b * (y \div b) + (y % b) /\ y \div b \in Int
  OBVIOUS
<1>3. f \in Nat /\ f < b /\ e \in Int /\ b * q + r = b * e + f
  <2> HIDE DEF x
  <2>1. f \in Nat /\ f < b /\ e \in Int /\ x = b * e + f
    BY <1>1, <1>2
  <2> QED BY <2>1 DEF x
<1> HIDE DEF e, f
<1>4. ASSUME NEW m \in Int, NEW n \in Int, m < n  PROVE b * m + b <= b * n
  <2>1. \A g \in Int, h \in Nat : b * (g + h) = b * g + b * h /\ b * h \in Nat /\ b * g \in Int
    OBVIOUS
  <2>2. n - m - 1 \in Nat /\ m + 1 \in Int /\ (m + 1) + (n - m - 1) = n /\ 1 \in Nat
    BY <1>4
  <2>3. b * n = b * (m + 1) + b * (n - m - 1) /\ b * (n - m - 1) \in Nat
    BY <2>1, <2>2
  <2>4. b * (m + 1) = b * m + b
    OBVIOUS
  <2>5. b * m \in Int
    OBVIOUS
  <2> QED BY <2>3, <2>4, <2>5
<1>5. b * e \in Int
  BY <1>3
<1>6. ~(q < e)
  <2>1. q < e => b * q + b <= b * e
    BY <1>3, <1>4
  <2> QED BY <2>1, <1>1, <1>3, <1>5
<1>7. ~(e < q)
  <2>1. e < q => b * e + b <= b * q
    BY <1>3, <1>4
  <2> QED BY <2>1, <1>1, <1>3, <1>5
<1>8. e = q
  BY <1>3, <1>6, <1>7
<1>9. f = r
  BY <1>3, <1>5, <1>8
<1> QED BY <1>1, <1>8, <1>9 DEF e, f

(* A product of two digits in halves, as one round adds it up.              *)
LEMMA Halves ==
  ASSUME NEW s1 \in Nat, NEW s0 \in Nat, NEW b1 \in Nat, NEW b0 \in Nat,
         NEW q1 \in Nat, NEW r1 \in Nat, NEW q2 \in Nat, NEW r2 \in Nat, NEW lq \in Nat, NEW lr \in Nat,
         NEW c \in Nat, NEW d \in Nat, NEW H \in Nat, Base = H * H,
         s0 * b1 = H * q1 + r1, s1 * b0 = H * q2 + r2,
         s0 * b0 + c + r1 * H + r2 * H + d = Base * lq + lr
  PROVE  (H * s1 + s0) * (H * b1 + b0) + d + c = Base * (s1 * b1 + q1 + q2 + lq) + lr
<1>1. (H * s1 + s0) * (H * b1 + b0) = (H * H) * (s1 * b1) + H * (s0 * b1) + H * (s1 * b0) + s0 * b0
  OBVIOUS
<1>2. H * (H * q1 + r1) = (H * H) * q1 + r1 * H /\ H * (H * q2 + r2) = (H * H) * q2 + r2 * H
  OBVIOUS
<1>3. (H * s1 + s0) * (H * b1 + b0) = Base * (s1 * b1) + (Base * q1 + r1 * H) + (Base * q2 + r2 * H) + s0 * b0
  <2>1. H * (s0 * b1) = (H * H) * q1 + r1 * H /\ H * (s1 * b0) = (H * H) * q2 + r2 * H
    BY <1>2
  <2> QED BY <1>1, <2>1
<1>4. Base * (s1 * b1 + q1 + q2 + lq) = Base * (s1 * b1) + Base * q1 + Base * q2 + Base * lq
  <2>1. \A w \in Nat, x \in Nat, y \in Nat, z \in Nat : (H * H) * (w + x + y + z) = (H * H) * w + (H * H) * x + (H * H) * y + (H * H) * z
    OBVIOUS
  <2>2. s1 * b1 \in Nat
    OBVIOUS
  <2> DEFINE v == s1 * b1
  <2>3. v \in Nat
    BY <2>2
  <2> HIDE DEF v
  <2>4. Base * (v + q1 + q2 + lq) = Base * v + Base * q1 + Base * q2 + Base * lq
    BY <2>1, <2>3
  <2> QED BY <2>4 DEF v
<1>5. /\ Base * (s1 * b1) \in Int /\ Base * q1 \in Int /\ Base * q2 \in Int /\ Base * lq \in Int
      /\ r1 * H \in Int /\ r2 * H \in Int /\ s0 * b0 \in Int
  OBVIOUS
<1>6. Base * (s1 * b1) + (Base * q1 + r1 * H) + (Base * q2 + r2 * H) + s0 * b0 + d + c
      = Base * (s1 * b1) + Base * q1 + Base * q2 + Base * lq + lr
  <2> DEFINE P == Base * (s1 * b1)
             Q1 == Base * q1
             Q2 == Base * q2
             L == Base * lq
             a == r1 * H
             e == r2 * H
             z == s0 * b0
  <2>1. P \in Int /\ Q1 \in Int /\ Q2 \in Int /\ L \in Int /\ a \in Int /\ e \in Int /\ z \in Int
    BY <1>5
  <2>2. z + c + a + e + d = L + lr /\ c \in Int /\ d \in Int /\ lr \in Int
    OBVIOUS
  <2> HIDE DEF P, Q1, Q2, L, a, e, z
  <2>3. P + (Q1 + a) + (Q2 + e) + z + d + c = P + Q1 + Q2 + L + lr
    BY <2>1, <2>2
  <2> QED BY <2>3 DEF P, Q1, Q2, L, a, e, z
<1> QED BY <1>3, <1>4, <1>6

(* One round of the multiplication.                                         *)
LEMMA MulAddIs ==
  ASSUME NEW s \in Limb, NEW d \in Limb, NEW c \in Limb, NEW b \in Limb
  PROVE  LET m == MULADDC(s, d, c, b)
         IN  m.d \in Limb /\ m.c \in Limb /\ s * b + d + c = m.d + Up(m.c)
<1> DEFINE H == Half
           s1 == s \div H
           s0 == s % H
           b1 == b \div H
           b0 == b % H
           mid1 == s0 * b1
           mid2 == s1 * b0
           q1 == mid1 \div H
           r1 == mid1 % H
           q2 == mid2 \div H
           r2 == mid2 % H
           low == s0 * b0 + c + ((mid1 * H) % Base) + ((mid2 * H) % Base) + d
           lq == low \div Base
           lr == low % Base
           hi == s1 * b1 + q1 + q2 + lq
           M == MULADDC(s, d, c, b)
<1>1. H \in Nat /\ H >= 2 /\ Base = H * H /\ Base \in Nat /\ Base > 0 /\ H > 0
  BY BignumAssumption, BaseIs
<1>2. s \in Nat /\ b \in Nat /\ c \in Nat /\ d \in Nat /\ s < Base /\ b < Base /\ c < Base /\ d < Base
  BY BaseIs
<1> HIDE DEF H
<1>3. \A x \in Nat : x \div H \in Nat /\ x % H \in Nat /\ x % H < H /\ x = H * (x \div H) + (x % H)
  BY <1>1
<1>4. s1 \in Nat /\ s0 \in Nat /\ s0 < H /\ s = H * s1 + s0 /\ b1 \in Nat /\ b0 \in Nat /\ b0 < H /\ b = H * b1 + b0
  BY <1>2, <1>3
<1> HIDE DEF s1, s0, b1, b0
<1>5. mid1 \in Nat /\ mid2 \in Nat
  BY <1>4
<1>6. q1 \in Nat /\ r1 \in Nat /\ r1 < H /\ mid1 = H * q1 + r1 /\ q2 \in Nat /\ r2 \in Nat /\ r2 < H /\ mid2 = H * q2 + r2
  BY <1>3, <1>5
<1> HIDE DEF mid1, mid2, q1, q2, r1, r2
<1>7. ASSUME NEW q \in Nat, NEW r \in Nat, r < H  PROVE ((H * q + r) * H) % Base = r * H /\ r * H \in Nat
  <2>1. (H * q + r) * H = (H * H) * q + r * H
    BY <1>1
  <2>2. r * H < H * H /\ r * H \in Nat
    <3>1. \A n \in Nat : (H - r) * n = H * n - r * n /\ r * n \in Nat /\ H * n \in Nat
      BY <1>1
    <3>2. (H - r) * H = H * H - r * H /\ r * H \in Nat /\ H * H \in Nat
      BY <3>1, <1>1
    <3>3. \A m \in Nat, n \in Nat : m > 0 /\ n > 0 => m * n > 0
      OBVIOUS
    <3>4. H - r \in Nat /\ H - r > 0
      BY <1>1, <1>7
    <3>5. (H - r) * H > 0
      BY <3>3, <3>4, <1>1
    <3> QED BY <3>2, <3>5
  <2>3. (Base * q + r * H) % Base = r * H
    BY <2>2, <1>1, QuotientIs
  <2> QED BY <2>1, <2>2, <2>3, <1>1
<1>8. (mid1 * H) % Base = r1 * H /\ (mid2 * H) % Base = r2 * H /\ r1 * H \in Nat /\ r2 * H \in Nat
  BY <1>6, <1>7
<1>9. s0 * b0 \in Nat /\ s1 * b1 \in Nat
  BY <1>4
<1>10. low \in Nat /\ low = s0 * b0 + c + r1 * H + r2 * H + d
  BY <1>2, <1>8, <1>9
<1> HIDE DEF low
<1>11. lq \in Nat /\ lr \in Nat /\ lr < Base /\ low = Base * lq + lr
  <2>1. \A x \in Nat : x \div Base \in Nat /\ x % Base \in Nat /\ x % Base < Base /\ x = Base * (x \div Base) + (x % Base)
    BY <1>1
  <2> QED BY <2>1, <1>10
<1> HIDE DEF lq, lr
<1>12. hi \in Nat
  BY <1>6, <1>9, <1>11
<1>13. s * b + d + c = Base * hi + lr
  <2>1. /\ s1 \in Nat /\ s0 \in Nat /\ b1 \in Nat /\ b0 \in Nat /\ q1 \in Nat /\ r1 \in Nat /\ q2 \in Nat /\ r2 \in Nat
        /\ lq \in Nat /\ lr \in Nat /\ c \in Nat /\ d \in Nat /\ H \in Nat
    BY <1>1, <1>2, <1>4, <1>6, <1>11
  <2>2. s0 * b1 = H * q1 + r1 /\ s1 * b0 = H * q2 + r2
    BY <1>6 DEF mid1, mid2
  <2>3. s0 * b0 + c + r1 * H + r2 * H + d = Base * lq + lr
    BY <1>10, <1>11
  <2>4. (H * s1 + s0) * (H * b1 + b0) + d + c = Base * hi + lr
    BY <2>1, <2>2, <2>3, <1>1, Halves
  <2> QED BY <2>4, <1>4
<1> HIDE DEF hi
<1>14. hi < Base
  <2>1. s * b + d + c < Base * Base
    <3>1. ASSUME NEW x \in Nat, NEW y \in Nat, x < Base, y < Base  PROVE x * y + x + y + 1 <= Base * Base
      <4>1. \A m \in Nat, n \in Nat, g \in Nat, h \in Nat : (m + g) * (n + h) = m * n + m * h + g * n + g * h
        OBVIOUS
      <4>2. Base - 1 - x \in Nat /\ Base - 1 - y \in Nat /\ x + 1 \in Nat /\ y + 1 \in Nat
        BY <1>1, <3>1
      <4>3. (x + 1) + (Base - 1 - x) = Base /\ (y + 1) + (Base - 1 - y) = Base
        BY <1>1
      <4>4. Base * Base = (x + 1) * (y + 1) + (x + 1) * (Base - 1 - y) + (Base - 1 - x) * (y + 1) + (Base - 1 - x) * (Base - 1 - y)
        BY <4>1, <4>2, <4>3
      <4>5. \A m \in Nat, n \in Nat : m * n \in Nat
        OBVIOUS
      <4>6. (x + 1) * (y + 1) \in Nat /\ (x + 1) * (Base - 1 - y) \in Nat /\ (Base - 1 - x) * (y + 1) \in Nat /\ (Base - 1 - x) * (Base - 1 - y) \in Nat
        BY <4>2, <4>5
      <4>7. (x + 1) * (y + 1) = x * y + x + y + 1
        OBVIOUS
      <4> QED BY <4>4, <4>6, <4>7
    <3>2. s * b <= (Base - 1) * (Base - 1)
      <4>1. \A x \in Nat, y \in Nat, m \in Nat, n \in Nat : (x + m) * (y + n) = x * y + x * n + m * y + m * n /\ x * n \in Nat /\ m * y \in Nat /\ m * n \in Nat /\ x * y \in Nat
        OBVIOUS
      <4>2. Base - 1 - s \in Nat /\ Base - 1 - b \in Nat /\ s + (Base - 1 - s) = Base - 1 /\ b + (Base - 1 - b) = Base - 1
        BY <1>1, <1>2
      <4>3. (s + (Base - 1 - s)) * (b + (Base - 1 - b)) = s * b + s * (Base - 1 - b) + (Base - 1 - s) * b + (Base - 1 - s) * (Base - 1 - b)
            /\ s * (Base - 1 - b) \in Nat /\ (Base - 1 - s) * b \in Nat /\ (Base - 1 - s) * (Base - 1 - b) \in Nat /\ s * b \in Nat
        BY <4>1, <4>2, <1>2
      <4> QED BY <4>2, <4>3
    <3>3. (Base - 1) * (Base - 1) + (Base - 1) + (Base - 1) + 1 <= Base * Base
      <4>1. Base - 1 \in Nat /\ Base - 1 < Base
        BY <1>1
      <4> QED BY <3>1, <4>1
    <3>4. (Base - 1) * (Base - 1) \in Nat /\ Base * Base \in Nat /\ s * b \in Nat
      <4>1. \A m \in Nat, n \in Nat : m * n \in Nat
        OBVIOUS
      <4>2. Base - 1 \in Nat
        BY <1>1
      <4> QED BY <4>1, <4>2, <1>1, <1>2
    <3> QED BY <3>2, <3>3, <3>4, <1>1, <1>2
  <2>2. hi >= Base => Base * hi >= Base * Base
    <3>1. \A m \in Nat, n \in Nat : Base * (m + n) = Base * m + Base * n /\ Base * n \in Nat /\ Base * m \in Nat
      BY <1>1
    <3>2. hi >= Base => hi - Base \in Nat /\ Base + (hi - Base) = hi
      BY <1>1, <1>12
    <3>3. hi >= Base => Base * hi = Base * Base + Base * (hi - Base) /\ Base * (hi - Base) \in Nat /\ Base * Base \in Nat
      BY <3>1, <3>2, <1>1
    <3> QED BY <3>3
  <2>3. Base * hi \in Nat /\ Base * Base \in Nat
    <3>1. \A m \in Nat, n \in Nat : m * n \in Nat
      OBVIOUS
    <3> QED BY <3>1, <1>1, <1>12
  <2> QED BY <2>1, <2>2, <2>3, <1>1, <1>11, <1>12, <1>13
<1>15. hi % Base = hi
  BY <1>1, <1>12, <1>14, OneBase
<1>16. M = [d |-> low % Base, c |-> hi % Base]
  BY DEF MULADDC, low, hi, lq, lr, q1, q2, mid1, mid2, s1, s0, b1, b0, H
<1>17. M.d = lr /\ M.c = hi
  BY <1>15, <1>16 DEF lr
<1>18. lr \in Limb /\ hi \in Limb
  BY <1>1, <1>11, <1>12, <1>14, BaseIs
<1> HIDE DEF M
<1>19. s * b + d + c = M.d + Up(M.c)
  <2>1. Base * hi \in Nat /\ lr \in Nat
    <3>1. \A m \in Nat, n \in Nat : m * n \in Nat
      OBVIOUS
    <3> QED BY <3>1, <1>1, <1>11, <1>12
  <2> QED BY <2>1, <1>13, <1>17 DEF Up
<1>20. M.d \in Limb /\ M.c \in Limb
  BY <1>17, <1>18
<1> QED BY <1>19, <1>20 DEF M

-----------------------------------------------------------------------------
(* What a 1 at each place is worth.                                         *)
PlaceValues(P, n) == P \in [0 .. n -> Nat] /\ P[0] = 1 /\ \A k \in 1 .. n : P[k] = Up(P[k - 1])

(* There are place values for any number of places.                         *)
LEMMA PlaceValuesExist ==
  ASSUME NEW n \in Nat
  PROVE  \E P : PlaceValues(P, n)
<1> DEFINE G == [z \in (1 .. n) \X Nat |-> Up(z[2])]
<1>1. G \in [(1 .. n) \X Nat -> Nat]
  <2>1. \A x \in Nat : Up(x) \in Nat
    BY Scaling
  <2> QED BY <2>1
<1>2. PICK f \in [0 .. n -> Nat] : Solves(f, n, 1, G)
  <2> HIDE DEF G
  <2> QED BY <1>1, Recursion
<1>3. ASSUME NEW k \in 1 .. n  PROVE f[k] = Up(f[k - 1])
  <2>1. f[k] = G[<<k, f[k - 1]>>]
    <3> HIDE DEF G
    <3> QED BY <1>2 DEF Solves
  <2>2. <<k, f[k - 1]>> \in (1 .. n) \X Nat
    OBVIOUS
  <2> QED BY <2>1, <2>2
<1> HIDE DEF G
<1>4. PlaceValues(f, n)
  BY <1>2, <1>3 DEF PlaceValues, Solves
<1> QED BY <1>4

(* Each is positive and no less than the one before.                        *)
LEMMA PlaceValueIs ==
  ASSUME NEW n \in Nat, NEW P, PlaceValues(P, n), NEW k \in 0 .. n
  PROVE  P[k] \in Nat /\ P[k] >= 1 /\ (k > 0 => P[k] = Up(P[k - 1]) /\ P[k - 1] \in Nat /\ P[k - 1] <= P[k])
<1>1. P \in [0 .. n -> Nat] /\ P[0] = 1 /\ \A m \in 1 .. n : P[m] = Up(P[m - 1])
  BY DEF PlaceValues
<1>2. \A x \in Nat : x <= Up(x)
  <2>1. \A b \in Nat, x \in Nat : b >= 2 => x <= b * x
    <3>1. ASSUME NEW b \in Nat, NEW x \in Nat, b >= 2  PROVE x <= b * x
      <4>1. b - 1 \in Nat /\ b = 1 + (b - 1)
        BY <3>1
      <4>2. (1 + (b - 1)) * x = x + (b - 1) * x
        OBVIOUS
      <4>3. \A g \in Nat : g * x \in Nat
        OBVIOUS
      <4>4. (b - 1) * x \in Nat
        BY <4>1, <4>3
      <4> QED BY <4>1, <4>2, <4>4
    <3> QED BY <3>1
  <2> QED BY <2>1, BaseIs DEF Up
<1> DEFINE S == {m \in 0 .. n : P[m] >= 1}
<1>3. 0 \in S
  BY <1>1
<1>4. ASSUME NEW m \in 1 .. n, m - 1 \in S  PROVE m \in S
  <2>1. P[m - 1] \in Nat /\ P[m - 1] >= 1 /\ P[m] \in Nat /\ P[m] = Up(P[m - 1])
    BY <1>1, <1>4
  <2> QED BY <2>1, <1>2
<1> HIDE DEF S
<1>5. k \in S
  BY <1>3, <1>4, InductionUp
<1>6. P[k] \in Nat
  BY <1>1
<1>7. ASSUME k > 0  PROVE P[k] = Up(P[k - 1]) /\ P[k - 1] \in Nat /\ P[k - 1] <= P[k]
  <2>1. k \in 1 .. n /\ k - 1 \in 0 .. n
    BY <1>7
  <2>2. P[k - 1] \in Nat /\ P[k] = Up(P[k - 1])
    BY <2>1, <1>1
  <2> QED BY <2>2, <1>2
<1> QED BY <1>5, <1>6, <1>7 DEF S

(* Higher places are worth no less.                                         *)
LEMMA PlaceValuesGrow ==
  ASSUME NEW n \in Nat, NEW P, PlaceValues(P, n), NEW k \in 0 .. n, NEW m \in 0 .. n, k <= m
  PROVE  P[k] <= P[m] /\ P[k] \in Nat /\ P[m] \in Nat
<1> DEFINE S == {h \in 0 .. n : k <= h => P[k] <= P[h]}
<1>1. P[k] \in Nat /\ P[m] \in Nat /\ P[0] \in Nat
  <2>1. 0 \in 0 .. n
    OBVIOUS
  <2> QED BY <2>1, PlaceValueIs
<1>2. 0 \in S
  <2>1. k <= 0 => k = 0
    OBVIOUS
  <2> QED BY <2>1, <1>1
<1>3. ASSUME NEW h \in 1 .. n, h - 1 \in S  PROVE h \in S
  <2>1. P[h] \in Nat /\ P[h - 1] \in Nat /\ P[h - 1] <= P[h]
    <3>1. h \in 0 .. n /\ h > 0
      OBVIOUS
    <3> QED BY <3>1, PlaceValueIs
  <2>2. k <= h => k = h \/ k <= h - 1
    OBVIOUS
  <2>3. k <= h - 1 => P[k] <= P[h - 1]
    BY <1>3
  <2> QED BY <1>1, <2>1, <2>2, <2>3
<1> HIDE DEF S
<1>4. m \in S
  BY <1>2, <1>3, InductionUp
<1> QED BY <1>1, <1>4 DEF S

(* A digit more for products.                                               *)
LEMMA UpTimes ==
  ASSUME NEW x \in Nat, NEW y \in Nat
  PROVE  Up(x * y) = x * Up(y) /\ x * y \in Nat /\ Up(y) \in Nat /\ Up(x * y) \in Nat
<1>1. \A b \in Nat : b * (x * y) = x * (b * y) /\ x * y \in Nat /\ b * y \in Nat /\ b * (x * y) \in Nat
  OBVIOUS
<1> QED BY <1>1, BaseIs DEF Up

(* A place so much higher is worth so many times as much.                   *)
LEMMA PlaceValuesMultiply ==
  ASSUME NEW n \in Nat, NEW P, PlaceValues(P, n), NEW k \in Nat, NEW m \in Nat, k + m <= n
  PROVE  P[k + m] = P[k] * P[m]
<1> DEFINE S == {h \in 0 .. m : P[k + h] = P[k] * P[h]}
<1>1. k \in 0 .. n /\ P[k] \in Nat
  BY PlaceValueIs
<1>2. 0 \in S
  <2>1. P[0] = 1 /\ k + 0 = k
    BY DEF PlaceValues
  <2> QED BY <1>1, <2>1
<1>3. ASSUME NEW h \in 1 .. m, h - 1 \in S  PROVE h \in S
  <2>1. h \in 0 .. n /\ h > 0 /\ k + h \in 0 .. n /\ k + h > 0 /\ (k + h) - 1 = k + (h - 1)
    OBVIOUS
  <2>2. P[h] = Up(P[h - 1]) /\ P[h - 1] \in Nat
    BY <2>1, PlaceValueIs
  <2>3. P[k + h] = Up(P[(k + h) - 1])
    BY <2>1, PlaceValueIs
  <2>4. P[(k + h) - 1] = P[k] * P[h - 1]
    <3>1. P[k + (h - 1)] = P[k] * P[h - 1]
      BY <1>3
    <3> QED BY <2>1, <3>1
  <2>5. Up(P[k] * P[h - 1]) = P[k] * Up(P[h - 1])
    BY <1>1, <2>2, UpTimes
  <2> QED BY <2>2, <2>3, <2>4, <2>5
<1> HIDE DEF S
<1>4. m \in S
  <2>1. m \in 0 .. m
    OBVIOUS
  <2> QED BY <1>2, <1>3, <2>1, InductionUp
<1> QED BY <1>4 DEF S

(* The limbs above a place are worth less than as many places.              *)
LEMMA WeightsBelow ==
  ASSUME NEW p \in Seq(Limb), NEW m \in Nat, NEW w, Weighs(p, m, w), NEW P, PlaceValues(P, m), NEW k \in 0 .. m
  PROVE  w[k] \in Nat /\ w[k] < P[m - k] /\ P[m - k] \in Nat
<1> DEFINE S == {h \in 0 .. m : w[h] < P[m - h]}
<1>1. m \in S
  <2>1. P[0] = 1 /\ m - m = 0 /\ w[m] = 0 /\ m \in 0 .. m
    BY WeightEnds DEF PlaceValues
  <2> QED BY <2>1
<1>2. ASSUME NEW h \in 1 .. m, h \in S  PROVE h - 1 \in S
  <2>1. h - 1 \in 0 .. m /\ m - (h - 1) \in 0 .. m /\ m - (h - 1) > 0 /\ (m - (h - 1)) - 1 = m - h
    OBVIOUS
  <2>2. P[m - (h - 1)] = Up(P[m - h]) /\ P[m - h] \in Nat
    BY <2>1, PlaceValueIs
  <2>3. w[h] \in Nat /\ w[h - 1] = Up(w[h]) + At(p, h)
    BY WeightIs
  <2>4. At(p, h) \in Nat /\ At(p, h) < Base /\ Base \in Nat
    <3>1. h \in Int
      OBVIOUS
    <3> QED BY <3>1, LimbIs
  <2>5. w[h] + 1 <= P[m - h]
    BY <1>2, <2>2, <2>3
  <2>6. Up(w[h]) + Base <= Up(P[m - h]) /\ Up(w[h]) \in Nat /\ Up(P[m - h]) \in Nat
    <3>1. \A x \in Nat, y \in Nat : x + 1 <= y => Up(x) + Base <= Up(y) /\ Up(x) \in Nat /\ Up(y) \in Nat
      <4>1. ASSUME NEW x \in Nat, NEW y \in Nat, x + 1 <= y  PROVE Up(x) + Base <= Up(y) /\ Up(x) \in Nat /\ Up(y) \in Nat
        <5>1. x + 1 \in Nat
          OBVIOUS
        <5>2. Up(x + 1) <= Up(y) /\ Up(x + 1) = Up(x) + Base /\ Up(x) \in Nat
          BY <4>1, <5>1, Scaling
        <5>3. Up(y) \in Nat
          BY Scaling
        <5> QED BY <5>2, <5>3
      <4> QED BY <4>1
    <3> QED BY <3>1, <2>2, <2>3, <2>5
  <2>7. w[h - 1] < P[m - (h - 1)]
    BY <2>2, <2>3, <2>4, <2>6
  <2> QED BY <2>1, <2>7
<1> HIDE DEF S
<1>3. k \in S
  BY <1>1, <1>2, InductionDown
<1>4. w[k] \in Nat
  BY DEF Weighs
<1>5. P[m - k] \in Nat
  <2>1. m - k \in 0 .. m
    OBVIOUS
  <2> QED BY <2>1, PlaceValueIs
<1> QED BY <1>3, <1>4, <1>5 DEF S

-----------------------------------------------------------------------------
(* Values from a place on, when b times the limbs of t is added: D, T, R of *)
(* the destination, of t and of the result, C carried and E lost.           *)
RowSum(D, b, T, C, R, E) ==
  /\ D \in Nat /\ b \in Nat /\ T \in Nat /\ C \in Nat /\ R \in Nat /\ E \in Nat
  /\ D + b * T + C = R + E
RowDigit(d, b, t, c, r, C) ==
  /\ d \in Nat /\ b \in Nat /\ t \in Nat /\ c \in Nat /\ r \in Nat /\ C \in Nat
  /\ b * t + d + c = r + Up(C)

(* One column more.                                                         *)
LEMMA RowStep ==
  ASSUME NEW D, NEW T, NEW C, NEW R, NEW E, NEW b, NEW d, NEW t, NEW r, NEW c,
         RowSum(D, b, T, C, R, E), RowDigit(d, b, t, c, r, C)
  PROVE  RowSum(Up(D) + d, b, Up(T) + t, c, Up(R) + r, Up(E))
<1> DEFINE S == b * T
           y == b * Up(T)
           z == b * t
           m == b * (Up(T) + t)
<1>0. /\ D \in Nat /\ b \in Nat /\ T \in Nat /\ C \in Nat /\ R \in Nat /\ E \in Nat
      /\ d \in Nat /\ t \in Nat /\ c \in Nat /\ r \in Nat
  BY DEF RowSum, RowDigit
<1>1. S \in Nat /\ Up(S) = y /\ y \in Nat /\ z \in Nat /\ m = y + z /\ Up(T) + t \in Nat
  <2>1. S \in Nat /\ Up(S) = y /\ Up(T) \in Nat /\ Up(S) \in Nat
    BY <1>0, UpTimes
  <2>2. \A u \in Nat, v \in Nat : b * (u + v) = b * u + b * v /\ b * v \in Nat
    BY <1>0
  <2> QED BY <1>0, <2>1, <2>2
<1>2. D + S + C = R + E /\ z + d + c = r + Up(C)
  BY DEF RowSum, RowDigit
<1> HIDE DEF S, y, z, m
<1>3. Up(D + S) = Up(D) + Up(S) /\ D + S \in Nat /\ Up(D) \in Nat /\ Up(S) \in Nat
  BY <1>0, <1>1, UpSum
<1>4. Up((D + S) + C) = Up(D + S) + Up(C) /\ Up(C) \in Nat
  BY <1>0, <1>3, UpSum
<1>5. Up(R + E) = Up(R) + Up(E) /\ Up(R) \in Nat /\ Up(E) \in Nat
  BY <1>0, UpSum
<1>6. (Up(D) + d) + m + c = (Up(R) + r) + Up(E)
  <2>1. Up(D) + y + Up(C) = Up(R) + Up(E)
    BY <1>1, <1>2, <1>3, <1>4, <1>5
  <2>2. ASSUME NEW i \in Nat, NEW j \in Nat, NEW l \in Nat, NEW o \in Nat,
               i + y + j = l + o, z + d + c = r + j
        PROVE  (i + d) + (y + z) + c = (l + r) + o
    BY <1>0, <1>1, <2>2
  <2>3. Up(D) \in Nat /\ Up(C) \in Nat /\ Up(R) \in Nat /\ Up(E) \in Nat
    BY <1>3, <1>4, <1>5
  <2>4. (Up(D) + d) + (y + z) + c = (Up(R) + r) + Up(E)
    BY <1>2, <2>1, <2>2, <2>3
  <2> QED BY <2>4, <1>1
<1>7. Up(D) + d \in Nat /\ Up(R) + r \in Nat
  BY <1>0, <1>3, <1>5
<1> QED BY <1>0, <1>1, <1>5, <1>6, <1>7 DEF RowSum, m

RowColumn(d, t, r, c, off, b, k)       == RowDigit(At(d, off + k), b, At(t, k), c[k - 1], At(r, off + k), c[k])
RowTotal(wd, wt, wr, c, e, off, b, k)  == RowSum(wd[off + k], b, wt[k], c[k], wr[off + k], e[k])

RowColumns(d, t, r, c, off, b, n)      == c[0] = 0 /\ c[n] \in Nat /\ \A k \in 1 .. n : RowColumn(d, t, r, c, off, b, k)
HasRoom(D, b, T, limit)                == D + b * T < limit
Adding(D, b, T, R)                     == R = D + b * T

(* A row that has room for its value has no carry, and adds it.             *)
LEMMA RowAdds ==
  ASSUME NEW off \in Nat, NEW n \in Nat, NEW d \in Seq(Limb), NEW r \in Seq(Limb), NEW t \in Seq(Limb),
         NEW wd, Weighs(d, off + n, wd), NEW wr, Weighs(r, off + n, wr), NEW wt, Weighs(t, n, wt),
         NEW P, PlaceValues(P, n), NEW b \in Nat, NEW c, RowColumns(d, t, r, c, off, b, n),
         HasRoom(wd[off], b, wt[0], P[n])
  PROVE  c[n] = 0 /\ Adding(wd[off], b, wt[0], wr[off])
<1>0. c[0] = 0 /\ c[n] \in Nat /\ \A k \in 1 .. n : RowColumn(d, t, r, c, off, b, k)
  BY DEF RowColumns
<1> DEFINE e == [k \in 0 .. n |-> c[n] * P[n - k]]
<1>1. \A k \in 0 .. n : P[n - k] \in Nat /\ P[n - k] >= 1 /\ e[k] = c[n] * P[n - k]
  <2>1. \A k \in 0 .. n : n - k \in 0 .. n
    OBVIOUS
  <2> QED BY <2>1, PlaceValueIs
<1>2. \A k \in 0 .. n : e[k] \in Nat
  <2>1. \A x \in Nat : c[n] * x \in Nat
    BY <1>0
  <2> HIDE DEF e
  <2> QED BY <1>1, <2>1
<1>3. e[n] = c[n]
  <2>1. n \in 0 .. n /\ n - n = 0 /\ P[0] = 1
    BY DEF PlaceValues
  <2>2. e[n] = c[n] * P[0]
    BY <2>1
  <2> HIDE DEF e
  <2> QED BY <1>0, <2>1, <2>2
<1>4. ASSUME NEW k \in 1 .. n  PROVE e[k - 1] = Up(e[k])
  <2>1. k - 1 \in 0 .. n /\ k \in 0 .. n /\ n - (k - 1) \in 0 .. n /\ n - (k - 1) > 0 /\ (n - (k - 1)) - 1 = n - k
    OBVIOUS
  <2>2. P[n - (k - 1)] = Up(P[n - k]) /\ P[n - k] \in Nat
    BY <2>1, PlaceValueIs
  <2>3. e[k - 1] = c[n] * P[n - (k - 1)] /\ e[k] = c[n] * P[n - k]
    BY <2>1
  <2> HIDE DEF e
  <2>4. Up(c[n] * P[n - k]) = c[n] * Up(P[n - k])
    BY <1>0, <2>2, UpTimes
  <2> QED BY <2>2, <2>3, <2>4
<1> HIDE DEF e
<1> DEFINE S == {k \in 0 .. n : RowTotal(wd, wt, wr, c, e, off, b, k)}
<1>5. n \in S
  <2>1. wd[off + n] = 0 /\ wr[off + n] = 0 /\ wt[n] = 0
    BY WeightEnds
  <2>2. b * 0 = 0 /\ n \in 0 .. n /\ 0 \in Nat
    OBVIOUS
  <2>3. e[n] = c[n]
    BY <1>3
  <2>4. 0 + 0 + c[n] = 0 + c[n] /\ c[n] \in Nat
    BY <1>0
  <2> QED BY <2>1, <2>2, <2>3, <2>4 DEF RowTotal, RowSum
<1>6. ASSUME NEW k \in 1 .. n, k \in S  PROVE k - 1 \in S
  <2>1. k - 1 \in 0 .. n /\ off + k \in 1 .. (off + n) /\ (off + k) - 1 = off + (k - 1) /\ k \in Int /\ off + k \in Int /\ off + n \in Nat
    OBVIOUS
  <2>2. wd[off + k] \in Nat /\ wd[(off + k) - 1] = Up(wd[off + k]) + At(d, off + k)
        /\ wr[off + k] \in Nat /\ wr[(off + k) - 1] = Up(wr[off + k]) + At(r, off + k)
    BY <2>1, WeightIs
  <2>3. wt[k] \in Nat /\ wt[k - 1] = Up(wt[k]) + At(t, k)
    BY WeightIs
  <2>4. At(d, off + k) \in Nat /\ At(r, off + k) \in Nat /\ At(t, k) \in Nat
    BY <2>1, LimbIs
  <2>5. RowDigit(At(d, off + k), b, At(t, k), c[k - 1], At(r, off + k), c[k])
    BY <1>0 DEF RowColumn
  <2>6. RowSum(wd[off + k], b, wt[k], c[k], wr[off + k], e[k])
    BY <1>6 DEF RowTotal
  <2>7. RowSum(Up(wd[off + k]) + At(d, off + k), b, Up(wt[k]) + At(t, k), c[k - 1], Up(wr[off + k]) + At(r, off + k), Up(e[k]))
    BY <2>5, <2>6, RowStep
  <2>8. e[k - 1] = Up(e[k])
    BY <1>4
  <2>9. RowTotal(wd, wt, wr, c, e, off, b, k - 1)
    BY <2>1, <2>2, <2>3, <2>7, <2>8 DEF RowTotal
  <2> QED BY <2>1, <2>9
<1> HIDE DEF S
<1>7. 0 \in S
  BY <1>5, <1>6, InductionDown
<1>8. wd[off] + b * wt[0] = wr[off] + e[0]
  <2>1. off + 0 = off
    OBVIOUS
  <2>2. wd[off + 0] + b * wt[0] + c[0] = wr[off + 0] + e[0]
    BY <1>0, <1>7 DEF S, RowTotal, RowSum
  <2>3. wd[off] \in Nat /\ b * wt[0] \in Nat
    <3>1. wd[off] \in Nat /\ wt[0] \in Nat
      BY DEF Weighs
    <3>2. \A x \in Nat : b * x \in Nat
      OBVIOUS
    <3> QED BY <3>1, <3>2
  <2> QED BY <1>0, <2>1, <2>2, <2>3
<1>9. wr[off] \in Nat
  BY DEF Weighs
<1>10. c[n] = 0
  <2>1. 0 \in 0 .. n /\ n - 0 = n
    OBVIOUS
  <2>2. e[0] = c[n] * P[n] /\ P[n] \in Nat /\ P[n] >= 1 /\ e[0] \in Nat
    BY <1>1, <1>2, <2>1
  <2>3. e[0] < P[n]
    <3>1. wd[off] + b * wt[0] < P[n]
      BY DEF HasRoom
    <3> QED BY <3>1, <1>8, <1>9, <2>2
  <2>4. \A x \in Nat, y \in Nat : y >= 1 /\ x * y < y => x = 0
    <3>1. ASSUME NEW x \in Nat, NEW y \in Nat, x >= 1, y >= 1  PROVE x * y >= y
      <4>1. x - 1 \in Nat /\ x = 1 + (x - 1) /\ (1 + (x - 1)) * y = y + (x - 1) * y
        BY <3>1
      <4>2. \A g \in Nat : g * y \in Nat
        OBVIOUS
      <4>3. (x - 1) * y \in Nat
        BY <4>1, <4>2
      <4> QED BY <4>1, <4>3
    <3>2. ASSUME NEW x \in Nat, NEW y \in Nat, y >= 1, x * y < y  PROVE x = 0
      <4>1. x >= 1 => x * y >= y
        BY <3>1, <3>2
      <4>2. x * y \in Nat
        OBVIOUS
      <4> QED BY <3>2, <4>1, <4>2
    <3> QED BY <3>2
  <2> QED BY <1>0, <2>2, <2>3, <2>4
<1>11. e[0] = 0
  <2>1. 0 \in 0 .. n
    OBVIOUS
  <2>2. e[0] = c[n] * P[n - 0] /\ P[n - 0] \in Nat
    BY <1>1, <2>1
  <2> QED BY <2>2, <1>10
<1>12. wr[off] = wd[off] + b * wt[0]
  BY <1>8, <1>9, <1>11
<1> QED BY <1>10, <1>12 DEF Adding

-----------------------------------------------------------------------------
(* MulHlp as a function of the column: limbs so far and the carry.          *)
RowState == [d : Seq(Limb), c : Limb]
RowRound(s, d, off, b, v, k) == MULADDC(At(s, k), d[off + k], v.c, b)
RowNext(s, d, off, b, v, k)  == [d |-> Append(v.d, RowRound(s, d, off, b, v, k).d), c |-> RowRound(s, d, off, b, v, k).c]
RowStart(d, off)             == [d |-> SubSeq(d, 1, off), c |-> 0]
RowStates(F, s, d, off, b, n) ==
  /\ F \in [0 .. n -> RowState] /\ F[0] = RowStart(d, off)
  /\ \A k \in 1 .. n : F[k] = RowNext(s, d, off, b, F[k - 1], k)

(* A round stores a limb and leaves a carry, as its column demands.         *)
LEMMA RowNextIs ==
  ASSUME NEW s \in Seq(Limb), NEW d \in Seq(Limb), NEW off \in Nat, NEW b \in Limb, NEW n \in Nat, Len(d) = off + n,
         NEW v \in RowState, NEW k \in 1 .. n
  PROVE  LET w == RowNext(s, d, off, b, v, k)
             x == RowRound(s, d, off, b, v, k).d
         IN  /\ w \in RowState /\ w.d = Append(v.d, x) /\ x \in Limb
             /\ RowDigit(At(d, off + k), b, At(s, k), v.c, x, w.c)
<1> DEFINE m == RowRound(s, d, off, b, v, k)
<1>1. off + k \in 1 .. Len(d) /\ k \in Int /\ off + k \in Int
  OBVIOUS
<1>2. At(s, k) \in Limb /\ d[off + k] \in Limb /\ At(d, off + k) = d[off + k] /\ v.c \in Limb /\ v.d \in Seq(Limb)
  <2>1. At(s, k) \in Limb /\ At(d, off + k) \in Limb /\ At(d, off + k) = d[off + k]
    BY <1>1, LimbIs
  <2>2. v.c \in Limb /\ v.d \in Seq(Limb)
    BY DEF RowState
  <2> QED BY <2>1, <2>2
<1>3. m.d \in Limb /\ m.c \in Limb /\ At(s, k) * b + d[off + k] + v.c = m.d + Up(m.c)
  BY SMTT(30), <1>2, MulAddIs DEF RowRound
<1> HIDE DEF m
<1>4. RowNext(s, d, off, b, v, k) = [d |-> Append(v.d, m.d), c |-> m.c]
  BY DEF RowNext, m
<1>5. Append(v.d, m.d) \in Seq(Limb)
  BY <1>2, <1>3
<1>6. [d |-> Append(v.d, m.d), c |-> m.c] \in RowState
  BY <1>3, <1>5 DEF RowState
<1>7. RowDigit(At(d, off + k), b, At(s, k), v.c, m.d, m.c)
  <2>1. At(d, off + k) \in Nat /\ b \in Nat /\ At(s, k) \in Nat /\ v.c \in Nat /\ m.d \in Nat /\ m.c \in Nat
    BY <1>2, <1>3, BaseIs
  <2>2. b * At(s, k) = At(s, k) * b
    BY <2>1
  <2>3. b * At(s, k) + At(d, off + k) + v.c = m.d + Up(m.c)
    BY <1>2, <1>3, <2>2
  <2> QED BY <2>1, <2>3 DEF RowDigit
<1> QED BY <1>3, <1>4, <1>6, <1>7 DEF m

(* The rounds of a row can be made one after the other.                     *)
LEMMA RowStatesExist ==
  ASSUME NEW s \in Seq(Limb), NEW d \in Seq(Limb), NEW off \in Nat, NEW b \in Limb, NEW n \in Nat, Len(d) = off + n
  PROVE  \E F : RowStates(F, s, d, off, b, n)
<1> DEFINE G == [z \in (1 .. n) \X RowState |-> RowNext(s, d, off, b, z[2], z[1])]
<1>1. G \in [(1 .. n) \X RowState -> RowState]
  <2>1. ASSUME NEW z \in (1 .. n) \X RowState  PROVE RowNext(s, d, off, b, z[2], z[1]) \in RowState
    <3>1. z[1] \in 1 .. n /\ z[2] \in RowState
      OBVIOUS
    <3> QED BY <3>1, RowNextIs
  <2> QED BY <2>1
<1>2. RowStart(d, off) \in RowState
  <2>1. SubSeq(d, 1, off) \in Seq(Limb)
    OBVIOUS
  <2> QED BY <2>1, BaseIs DEF RowStart, RowState
<1>3. PICK F \in [0 .. n -> RowState] : Solves(F, n, RowStart(d, off), G)
  <2> HIDE DEF G
  <2> QED BY <1>1, <1>2, Recursion
<1>4. ASSUME NEW k \in 1 .. n  PROVE F[k] = RowNext(s, d, off, b, F[k - 1], k)
  <2>1. F[k] = G[<<k, F[k - 1]>>]
    <3> HIDE DEF G
    <3> QED BY <1>3 DEF Solves
  <2>2. <<k, F[k - 1]>> \in (1 .. n) \X RowState
    OBVIOUS
  <2> QED BY <2>1, <2>2
<1> HIDE DEF G
<1>5. RowStates(F, s, d, off, b, n)
  BY <1>3, <1>4 DEF RowStates, Solves
<1> QED BY <1>5

(* The limbs that a round has stored stay.                                  *)
LEMMA RowStatesAre ==
  ASSUME NEW s \in Seq(Limb), NEW d \in Seq(Limb), NEW off \in Nat, NEW b \in Limb, NEW n \in Nat, Len(d) = off + n,
         NEW F, RowStates(F, s, d, off, b, n)
  PROVE  LET r == F[n].d
         IN  /\ r \in Seq(Limb) /\ Len(r) = off + n /\ \A k \in 1 .. off : r[k] = d[k]
             /\ F[0].c = 0 /\ \A k \in 0 .. n : F[k].c \in Limb
             /\ \A k \in 1 .. n : RowDigit(At(d, off + k), b, At(s, k), F[k - 1].c, At(r, off + k), F[k].c)
<1> DEFINE r == F[n].d
           x(k) == RowRound(s, d, off, b, F[k - 1], k).d
<1>1. \A k \in 0 .. n : F[k] \in RowState /\ F[k].d \in Seq(Limb) /\ F[k].c \in Limb
  BY DEF RowStates, RowState
<1>2. F[0].d = SubSeq(d, 1, off) /\ F[0].c = 0
  BY DEF RowStates, RowStart
<1>3. ASSUME NEW k \in 1 .. n
      PROVE  /\ k - 1 \in 0 .. n /\ k \in 0 .. n /\ F[k].d = Append(F[k - 1].d, x(k)) /\ x(k) \in Limb
             /\ RowDigit(At(d, off + k), b, At(s, k), F[k - 1].c, x(k), F[k].c)
  <2>1. k - 1 \in 0 .. n /\ k \in 0 .. n
    OBVIOUS
  <2>2. F[k - 1] \in RowState /\ F[k] = RowNext(s, d, off, b, F[k - 1], k)
    BY <1>1, <2>1 DEF RowStates
  <2> DEFINE v == F[k - 1]
             w == RowNext(s, d, off, b, v, k)
             y == RowRound(s, d, off, b, v, k).d
  <2>3. v \in RowState
    BY <2>2
  <2> HIDE DEF v
  <2>4. w \in RowState /\ w.d = Append(v.d, y) /\ y \in Limb /\ RowDigit(At(d, off + k), b, At(s, k), v.c, y, w.c)
    BY ZenonT(60), <2>3, RowNextIs
  <2> HIDE DEF w, y
  <2>5. F[k] = w /\ x(k) = y
    BY <2>2 DEF v, w, y
  <2> HIDE DEF x
  <2> QED BY <2>1, <2>4, <2>5 DEF v
<1> HIDE DEF x
<1> DEFINE S == {k \in 0 .. n : Len(F[k].d) = off + k}
<1>4. \A k \in 0 .. n : k \in S
  <2>1. 0 \in S
    <3>1. Len(SubSeq(d, 1, off)) = off /\ off + 0 = off
      OBVIOUS
    <3> QED BY <3>1, <1>2
  <2>2. ASSUME NEW k \in 1 .. n, k - 1 \in S  PROVE k \in S
    <3>1. Len(F[k - 1].d) = off + (k - 1) /\ F[k - 1].d \in Seq(Limb) /\ x(k) \in Limb
      BY <2>2, <1>1, <1>3
    <3>2. \A p \in Seq(Limb), y \in Limb : Len(Append(p, y)) = Len(p) + 1
      OBVIOUS
    <3>3. Len(Append(F[k - 1].d, x(k))) = off + (k - 1) + 1
      BY <3>1, <3>2
    <3>4. F[k].d = Append(F[k - 1].d, x(k))
      BY <1>3
    <3>5. off + (k - 1) + 1 = off + k /\ k \in 0 .. n
      OBVIOUS
    <3> QED BY <3>3, <3>4, <3>5
  <2> HIDE DEF S
  <2> QED BY <2>1, <2>2, InductionUp
<1>5. \A k \in 0 .. n : Len(F[k].d) = off + k
  BY <1>4
<1> HIDE DEF S
<1> DEFINE T == {k \in 0 .. n : \A m \in 1 .. (off + k) : r[m] = F[k].d[m]}
<1>6. \A k \in 0 .. n : k \in T
  <2>1. n \in T
    OBVIOUS
  <2>2. ASSUME NEW k \in 1 .. n, k \in T  PROVE k - 1 \in T
    <3>1. F[k - 1].d \in Seq(Limb) /\ Len(F[k - 1].d) = off + (k - 1) /\ x(k) \in Limb /\ F[k].d = Append(F[k - 1].d, x(k))
      BY <1>1, <1>3, <1>5
    <3>2. ASSUME NEW m \in 1 .. (off + (k - 1))  PROVE r[m] = F[k - 1].d[m]
      <4>1. m \in 1 .. (off + k) /\ m \in 1 .. Len(F[k - 1].d)
        BY <3>1
      <4>2. Append(F[k - 1].d, x(k))[m] = F[k - 1].d[m]
        BY <3>1, <4>1
      <4>3. r[m] = F[k].d[m]
        BY <2>2, <4>1
      <4> QED BY <3>1, <4>2, <4>3
    <3> QED BY <3>2
  <2> HIDE DEF T
  <2> QED BY <2>1, <2>2, InductionDown
<1>7. \A k \in 0 .. n : \A m \in 1 .. (off + k) : r[m] = F[k].d[m]
  BY <1>6
<1> HIDE DEF T
<1>8. r \in Seq(Limb) /\ Len(r) = off + n
  <2>1. n \in 0 .. n
    OBVIOUS
  <2> QED BY <2>1, <1>1, <1>5
<1>9. \A k \in 1 .. off : r[k] = d[k]
  <2>1. ASSUME NEW k \in 1 .. off  PROVE r[k] = d[k]
    <3>1. k \in 1 .. (off + 0) /\ 0 \in 0 .. n
      OBVIOUS
    <3>2. r[k] = F[0].d[k]
      BY <1>7, <3>1
    <3>3. SubSeq(d, 1, off)[k] = d[k]
      OBVIOUS
    <3> QED BY <3>2, <3>3, <1>2
  <2> QED BY <2>1
<1>10. ASSUME NEW k \in 1 .. n  PROVE At(r, off + k) = x(k)
  <2>1. off + k \in 1 .. (off + k) /\ off + k \in 1 .. Len(r) /\ off + k \in Int /\ k \in 0 .. n /\ off + (k - 1) + 1 = off + k
    BY <1>8
  <2>2. r[off + k] = F[k].d[off + k]
    BY <1>7, <2>1
  <2>3. F[k - 1].d \in Seq(Limb) /\ Len(F[k - 1].d) = off + (k - 1) /\ x(k) \in Limb /\ F[k].d = Append(F[k - 1].d, x(k))
    BY <1>1, <1>3, <1>5
  <2>4. Append(F[k - 1].d, x(k))[off + k] = x(k)
    BY <2>1, <2>3
  <2> HIDE DEF r
  <2>5. At(r, off + k) = r[off + k]
    BY <1>8, <2>1, LimbIs
  <2> QED BY <2>2, <2>3, <2>4, <2>5
<1> QED BY <1>1, <1>2, <1>3, <1>8, <1>9, <1>10

(* What MulHlp makes of its rounds.                                         *)
LEMMA MulHlpIs ==
  ASSUME NEW s \in Seq(Limb), NEW d \in Seq(Limb), NEW off \in Nat, NEW b \in Limb, NEW n \in Nat, Len(d) = off + n
  PROVE  \E F : /\ RowStates(F, s, d, off, b, n)
                /\ Used(s) + 1 <= n /\ F[n].c = 0 => MulHlp(Used(s), s, d, off, b) = F[n].d
<1> DEFINE i == Used(s)
           Round(v, k) == With(MULADDC(IF k <= i THEN s[k] ELSE 0, d[off + k], v.c, b), LAMBDA m :
                            [d |-> Append(v.d, m.d), c |-> m.c])
           Eq(f) == f = [k \in 0 .. n |-> IF k = 0 THEN RowStart(d, off) ELSE With(f[k - 1], LAMBDA v : Round(v, k))]
           C == CHOOSE f : Eq(f)
<1>1. ASSUME NEW k \in 1 .. n, NEW v  PROVE With(v, LAMBDA u : Round(u, k)) = RowNext(s, d, off, b, v, k)
  <2>1. (IF k <= i THEN s[k] ELSE 0) = At(s, k)
    <3>1. i \in 0 .. Len(s) /\ Len(s) \in Nat /\ \A h \in Int : h > i => At(s, h) = 0
      BY UsedIs
    <3>2. k \in Int
      OBVIOUS
    <3>3. k <= i => k \in 1 .. Len(s)
      BY <3>1
    <3>4. k \in 1 .. Len(s) => At(s, k) = s[k]
      BY <3>2, LimbIs
    <3>5. ~(k <= i) => k > i
      BY <3>1, <3>2
    <3> HIDE DEF i
    <3> QED BY <3>1, <3>2, <3>3, <3>4, <3>5
  <2>2. Round(v, k) = With(RowRound(s, d, off, b, v, k), LAMBDA m : [d |-> Append(v.d, m.d), c |-> m.c])
    BY <2>1 DEF RowRound
  <2>3. Round(v, k) = RowNext(s, d, off, b, v, k)
    BY <2>2 DEF With, RowNext
  <2>4. With(v, LAMBDA u : Round(u, k)) = Round(v, k)
    <3> HIDE DEF Round
    <3> QED BY DEF With
  <2> HIDE DEF Round
  <2> QED BY <2>3, <2>4
<1>2. PICK F : RowStates(F, s, d, off, b, n)
  BY RowStatesExist
<1>3. Eq(F)
  <2> DEFINE V(k) == IF k = 0 THEN RowStart(d, off) ELSE With(F[k - 1], LAMBDA v : Round(v, k))
  <2>1. ASSUME NEW k \in 0 .. n  PROVE F[k] = V(k)
    <3>1. CASE k = 0
      BY <1>2, <3>1 DEF RowStates
    <3>2. CASE k # 0
      <4>1. k \in 1 .. n
        BY <3>2
      <4>2. F[k] = RowNext(s, d, off, b, F[k - 1], k)
        BY <1>2, <4>1 DEF RowStates
      <4> HIDE DEF Round
      <4>3. With(F[k - 1], LAMBDA v : Round(v, k)) = RowNext(s, d, off, b, F[k - 1], k)
        BY <1>1, <4>1
      <4> QED BY <3>2, <4>2, <4>3
    <3> QED BY <3>1, <3>2
  <2>2. F \in [0 .. n -> RowState]
    BY <1>2 DEF RowStates
  <2> HIDE DEF V
  <2>3. F = [k \in 0 .. n |-> V(k)]
    BY <2>1, <2>2
  <2> QED BY <2>3 DEF V
<1>4. Eq(C)
  <2> HIDE DEF Eq
  <2> QED BY <1>3
<1>5. RowStates(C, s, d, off, b, n)
  <2> DEFINE V(k) == IF k = 0 THEN RowStart(d, off) ELSE With(C[k - 1], LAMBDA v : Round(v, k))
  <2>1. C = [k \in 0 .. n |-> V(k)]
    BY <1>4
  <2> HIDE DEF C
  <2>2. 0 \in 0 .. n /\ C[0] = RowStart(d, off)
    <3>1. 0 \in 0 .. n
      OBVIOUS
    <3>2. V(0) = RowStart(d, off)
      OBVIOUS
    <3> HIDE DEF V
    <3> QED BY <2>1, <3>1, <3>2
  <2>3. ASSUME NEW k \in 1 .. n  PROVE k \in 0 .. n /\ k - 1 \in 0 .. n /\ C[k] = RowNext(s, d, off, b, C[k - 1], k)
    <3>1. k \in 0 .. n /\ k - 1 \in 0 .. n /\ k # 0
      OBVIOUS
    <3> HIDE DEF Round
    <3>2. C[k] = With(C[k - 1], LAMBDA v : Round(v, k))
      BY <2>1, <3>1
    <3>3. With(C[k - 1], LAMBDA v : Round(v, k)) = RowNext(s, d, off, b, C[k - 1], k)
      BY <1>1
    <3> QED BY <3>1, <3>2, <3>3
  <2> DEFINE S == {k \in 0 .. n : C[k] \in RowState}
  <2>4. 0 \in S
    <3>1. F[0] \in RowState /\ F[0] = RowStart(d, off)
      BY <1>2, <2>2 DEF RowStates
    <3> HIDE DEF V
    <3> QED BY <2>2, <3>1
  <2>5. ASSUME NEW k \in 1 .. n, k - 1 \in S  PROVE k \in S
    <3>1. C[k - 1] \in RowState
      BY <2>5
    <3>2. RowNext(s, d, off, b, C[k - 1], k) \in RowState
      BY <3>1, RowNextIs
    <3> QED BY <2>3, <3>2
  <2> HIDE DEF S, V
  <2>6. \A k \in 0 .. n : k \in S
    BY <2>4, <2>5, InductionUp
  <2>7. C \in [0 .. n -> RowState]
    <3>1. \A k \in 0 .. n : C[k] \in RowState
      BY <2>6 DEF S
    <3> QED BY <2>1, <3>1
  <2> QED BY <2>2, <2>3, <2>7 DEF RowStates
<1>6. ASSUME Used(s) + 1 <= n, C[n].c = 0  PROVE MulHlp(Used(s), s, d, off, b) = C[n].d
  <2> DEFINE Result(r) == IF off + i + 1 > Len(d) \/ r.c # 0 THEN Overrun ELSE r.d
  <2>1. Len(d) - off = n
    OBVIOUS
  <2>2. MulHlp(i, s, d, off, b) = With(C[n], LAMBDA r : Result(r))
    <3>1. For(n, LAMBDA v, k : Round(v, k), RowStart(d, off)) = C[n]
      BY DEF For
    <3>2. MulHlp(i, s, d, off, b) = With(For(Len(d) - off, LAMBDA v, k : Round(v, k), RowStart(d, off)), LAMBDA r : Result(r))
      BY DEF MulHlp, RowStart
    <3> HIDE DEF C, Result
    <3> QED BY <2>1, <3>1, <3>2
  <2>3. With(C[n], LAMBDA r : Result(r)) = Result(C[n])
    <3> HIDE DEF Result, C
    <3> QED BY DEF With
  <2>4. ~(off + i + 1 > Len(d))
    <3>1. i \in 0 .. Len(s) /\ Len(s) \in Nat
      BY UsedIs
    <3>2. i + 1 <= n
      BY <1>6
    <3> HIDE DEF i
    <3> QED BY <3>1, <3>2
  <2> HIDE DEF C
  <2>5. Result(C[n]) = C[n].d
    BY <1>6, <2>4
  <2> HIDE DEF Result
  <2> QED BY <2>2, <2>3, <2>5
<1> HIDE DEF C
<1> QED BY <1>5, <1>6

(* Fewer places have the same values.                                       *)
LEMMA PlaceValuesOf ==
  ASSUME NEW n \in Nat, NEW P, PlaceValues(P, n), NEW m \in Nat, m <= n
  PROVE  LET Q == [k \in 0 .. m |-> P[k]] IN PlaceValues(Q, m) /\ \A k \in 0 .. m : Q[k] = P[k]
<1> DEFINE Q == [k \in 0 .. m |-> P[k]]
<1>1. P \in [0 .. n -> Nat] /\ P[0] = 1 /\ \A k \in 1 .. n : P[k] = Up(P[k - 1])
  BY DEF PlaceValues
<1>2. \A k \in 0 .. m : k \in 0 .. n /\ Q[k] = P[k]
  OBVIOUS
<1>3. Q \in [0 .. m -> Nat]
  BY <1>1, <1>2
<1>4. \A k \in 1 .. m : k \in 1 .. n /\ k \in 0 .. m /\ k - 1 \in 0 .. m
  OBVIOUS
<1>5. 0 \in 0 .. m
  OBVIOUS
<1> HIDE DEF Q
<1>6. PlaceValues(Q, m)
  BY <1>1, <1>2, <1>3, <1>4, <1>5 DEF PlaceValues
<1> QED BY <1>2, <1>6 DEF Q

(* A number is less than as many places as it uses are worth.               *)
LEMMA MagnitudeBelow ==
  ASSUME NEW s \in Seq(Limb), NEW n \in Nat, NEW P, PlaceValues(P, n), Used(s) <= n
  PROVE  Magnitude(s) < P[Used(s)] /\ Magnitude(s) \in Nat /\ Used(s) \in Nat
<1> DEFINE i == Used(s)
           t == [k \in 1 .. i |-> At(s, k)]
           Q == [k \in 0 .. i |-> P[k]]
<1>1. i \in Nat
  <2>1. i \in 0 .. Len(s) /\ Len(s) \in Nat
    BY UsedIs
  <2> HIDE DEF i
  <2> QED BY <2>1
<1>2. t \in Seq(Limb) /\ Len(t) = i /\ Alike(t, s)
  BY <1>1, TrimmedIs
<1>3. PlaceValues(Q, i) /\ \A k \in 0 .. i : Q[k] = P[k]
  BY <1>1, PlaceValuesOf
<1> HIDE DEF i, t, Q
<1>4. Magnitude(t) = Magnitude(s)
  BY <1>2, AlikeIs
<1>5. PICK w : Weighs(t, i, w) /\ Magnitude(t) = w[0]
  BY <1>1, <1>2, WeightsExist
<1>6. 0 \in 0 .. i /\ i - 0 = i /\ i \in 0 .. i
  BY <1>1
<1>7. w[0] \in Nat /\ w[0] < Q[i - 0]
  BY <1>1, <1>2, <1>3, <1>5, <1>6, WeightsBelow
<1> QED BY <1>1, <1>3, <1>4, <1>5, <1>6, <1>7 DEF i

(* One row: b times s is added from a place on.                             *)
LEMMA RowIs ==
  ASSUME NEW s \in Seq(Limb), NEW d \in Seq(Limb), NEW off \in Nat, NEW b \in Limb, NEW n \in Nat, Len(d) = off + n,
         Used(s) + 1 <= n, NEW wd, Weighs(d, off + n, wd), NEW P, PlaceValues(P, n), HasRoom(wd[off], b, Magnitude(s), P[n])
  PROVE  LET r == MulHlp(Used(s), s, d, off, b)
         IN  /\ r \in Seq(Limb) /\ Len(r) = off + n /\ \A k \in 1 .. off : r[k] = d[k]
             /\ \E wr : Weighs(r, off + n, wr) /\ Adding(wd[off], b, Magnitude(s), wr[off])
<1>1. PICK F : /\ RowStates(F, s, d, off, b, n)
               /\ Used(s) + 1 <= n /\ F[n].c = 0 => MulHlp(Used(s), s, d, off, b) = F[n].d
  BY ZenonT(60), MulHlpIs
<1> DEFINE t == [k \in 1 .. n |-> At(s, k)]
<1> DEFINE r == F[n].d
           c == [k \in 0 .. n |-> F[k].c]
<1>2. /\ r \in Seq(Limb) /\ Len(r) = off + n /\ \A k \in 1 .. off : r[k] = d[k]
      /\ F[0].c = 0 /\ \A k \in 0 .. n : F[k].c \in Limb
      /\ \A k \in 1 .. n : RowDigit(At(d, off + k), b, At(s, k), F[k - 1].c, At(r, off + k), F[k].c)
  BY <1>1, RowStatesAre
<1>3. t \in Seq(Limb) /\ Len(t) = n /\ Alike(t, s)
  <2>1. n >= Used(s)
    <3>1. Used(s) \in 0 .. Len(s) /\ Len(s) \in Nat
      BY UsedIs
    <3> QED BY <3>1
  <2> QED BY <2>1, TrimmedIs
<1> HIDE DEF r, t
<1>4. c[0] = 0 /\ c[n] \in Nat /\ c[n] = F[n].c
  <2>1. 0 \in 0 .. n /\ n \in 0 .. n
    OBVIOUS
  <2> QED BY <2>1, <1>2, BaseIs
<1>5. ASSUME NEW k \in 1 .. n  PROVE RowColumn(d, t, r, c, off, b, k)
  <2>1. k \in 0 .. n /\ k - 1 \in 0 .. n /\ k \in Int
    OBVIOUS
  <2>2. c[k] = F[k].c /\ c[k - 1] = F[k - 1].c
    BY <2>1
  <2>3. At(t, k) = At(s, k)
    BY <1>3, <2>1 DEF Alike
  <2> HIDE DEF c
  <2> QED BY <1>2, <2>2, <2>3 DEF RowColumn
<1> HIDE DEF c
<1>6. PICK wt : Weighs(t, n, wt) /\ Magnitude(t) = wt[0]
  BY <1>3, WeightsExist
<1>7. off + n \in Nat
  OBVIOUS
<1>8. PICK wr : Weighs(r, off + n, wr)
  <2>1. off + n >= Len(r)
    BY <1>2
  <2> QED BY <1>2, <1>7, <2>1, WeightsExist
<1>9. wt[0] = Magnitude(s)
  BY <1>3, <1>6, AlikeIs
<1>10. b \in Nat /\ HasRoom(wd[off], b, wt[0], P[n])
  BY <1>9, BaseIs
<1>11. c[n] = 0 /\ Adding(wd[off], b, wt[0], wr[off])
  <2>1. r \in Seq(Limb) /\ t \in Seq(Limb)
    BY <1>2, <1>3
  <2>2. b \in Nat /\ HasRoom(wd[off], b, wt[0], P[n])
    BY <1>10
  <2>3. Weighs(t, n, wt) /\ Weighs(r, off + n, wr)
    BY <1>6, <1>8
  <2>4. RowColumns(d, t, r, c, off, b, n)
    BY <1>4, <1>5 DEF RowColumns
  <2> QED BY <2>1, <2>2, <2>3, <2>4, RowAdds
<1>12. MulHlp(Used(s), s, d, off, b) = r
  BY <1>1, <1>4, <1>11 DEF r
<1> QED BY <1>2, <1>8, <1>9, <1>11, <1>12

(* A product of smaller numbers is smaller.                                 *)
LEMMA ProductBelow ==
  ASSUME NEW x \in Nat, NEW y \in Nat, NEW m \in Nat, NEW n \in Nat, x < m, y < n
  PROVE  x * y < m * n
<1>1. \A u \in Nat, v \in Nat, g \in Nat, h \in Nat : (u + g) * (v + h) = u * v + u * h + g * v + g * h
  OBVIOUS
<1>2. m - x \in Nat /\ n - y \in Nat /\ x + (m - x) = m /\ y + (n - y) = n /\ m - x > 0 /\ n - y > 0
  OBVIOUS
<1>3. m * n = x * y + x * (n - y) + (m - x) * y + (m - x) * (n - y)
  BY <1>1, <1>2
<1>4. \A u \in Nat, v \in Nat : u * v \in Nat /\ (u > 0 /\ v > 0 => u * v > 0)
  OBVIOUS
<1>5. x * y \in Nat /\ x * (n - y) \in Nat /\ (m - x) * y \in Nat /\ (m - x) * (n - y) \in Nat /\ (m - x) * (n - y) > 0
  BY <1>2, <1>4
<1> QED BY <1>3, <1>5

(* What is stored when the limbs of t above place m are multiplied.         *)
Rows(p, m, a, wt, N) ==
  /\ p \in Seq(Limb) /\ Len(p) = N /\ \A k \in 1 .. m : p[k] = 0
  /\ \E wp : Weighs(p, N, wp) /\ wp[m] = a * wt[m]

(* There is room for the product of what a number uses and of the limbs     *)
(* above a place.                                                           *)
LEMMA ProductFits ==
  ASSUME NEW s \in Seq(Limb), NEW t \in Seq(Limb), NEW j \in Nat, NEW wt, Weighs(t, j, wt), NEW N \in Nat, Used(s) + j <= N,
         NEW P, PlaceValues(P, N), NEW off \in 0 .. j
  PROVE  Magnitude(s) * wt[off] < P[N - off]
<1> DEFINE i == Used(s)
           a == Magnitude(s)
           Q == [k \in 0 .. j |-> P[k]]
<1>1. i \in Nat
  <2>1. i \in 0 .. Len(s) /\ Len(s) \in Nat
    BY UsedIs
  <2> HIDE DEF i
  <2> QED BY <2>1
<1> HIDE DEF i
<1>2. i <= N /\ j <= N /\ i + j <= N
  BY <1>1 DEF i
<1>3. a < P[i] /\ a \in Nat
  BY <1>2, MagnitudeBelow DEF i
<1>4. PlaceValues(Q, j) /\ \A k \in 0 .. j : Q[k] = P[k]
  BY <1>2, PlaceValuesOf
<1> HIDE DEF Q, a
<1>5. wt[off] \in Nat /\ wt[off] < Q[j - off]
  BY <1>4, WeightsBelow
<1>6. j - off \in 0 .. j /\ i + (j - off) \in 0 .. N /\ N - off \in 0 .. N /\ i + (j - off) <= N - off /\ i \in 0 .. N
      /\ j - off \in Nat /\ j - off \in 0 .. N /\ i + (j - off) <= N
  BY <1>1, <1>2
<1>7. P[i] \in Nat /\ P[j - off] \in Nat
  BY <1>6, PlaceValueIs
<1>8. wt[off] < P[j - off]
  BY <1>4, <1>5, <1>6
<1>9. a * wt[off] < P[i] * P[j - off]
  BY <1>3, <1>5, <1>7, <1>8, ProductBelow
<1>10. P[i + (j - off)] = P[i] * P[j - off]
  BY <1>1, <1>6, PlaceValuesMultiply
<1>11. P[i + (j - off)] <= P[N - off] /\ P[i + (j - off)] \in Nat /\ P[N - off] \in Nat
  BY <1>6, PlaceValuesGrow
<1>12. a * wt[off] \in Nat
  <2>1. \A x \in Nat, y \in Nat : x * y \in Nat
    OBVIOUS
  <2> QED BY <2>1, <1>3, <1>5
<1>13. a * wt[off] < P[i + (j - off)]
  BY <1>9, <1>10
<1> DEFINE v == a * wt[off]
<1>14. v \in Nat /\ v < P[i + (j - off)]
  BY <1>12, <1>13
<1> HIDE DEF v
<1>15. v < P[N - off]
  BY <1>11, <1>14
<1> QED BY <1>15 DEF v, a

(* Each row adds the product with one limb more.                            *)
LEMMA NextRowIs ==
  ASSUME NEW s \in Seq(Limb), NEW t \in Seq(Limb), NEW j \in Nat, NEW wt, Weighs(t, j, wt), NEW N \in Nat, Used(s) + j <= N,
         NEW m \in 1 .. j, NEW p, Rows(p, m, Magnitude(s), wt, N)
  PROVE  Rows(MulHlp(Used(s), s, p, m - 1, At(t, m)), m - 1, Magnitude(s), wt, N)
<1> DEFINE i == Used(s)
           a == Magnitude(s)
           off == m - 1
           n == N - off
           b == At(t, m)
<1>0. i \in Nat /\ a \in Nat
  <2>1. i \in 0 .. Len(s) /\ Len(s) \in Nat
    BY UsedIs
  <2>2. a \in Nat
    <3>1. Len(s) >= Len(s) /\ Len(s) \in Nat
      OBVIOUS
    <3>2. PICK w : Weighs(s, Len(s), w)
      BY <3>1, WeightsExist
    <3> QED BY <3>1, <3>2, WeightsUnique
  <2> HIDE DEF i
  <2> QED BY <2>1, <2>2
<1>1. i + j <= N
  OBVIOUS
<1> HIDE DEF i
<1>2. off \in Nat /\ off \in 0 .. j /\ n \in Nat /\ off + n = N /\ i + 1 <= n /\ n <= N /\ m \in 1 .. N /\ m \in Int /\ n \in 0 .. n
  BY <1>0, <1>1
<1>3. b \in Limb /\ b \in Nat
  BY <1>2, LimbIs
<1>4. p \in Seq(Limb) /\ Len(p) = N /\ \A k \in 1 .. m : p[k] = 0
  BY DEF Rows
<1>5. PICK wp : Weighs(p, N, wp) /\ wp[m] = a * wt[m]
  BY DEF Rows
<1>6. wt[m] \in Nat /\ wt[off] \in Nat /\ wt[off] = Up(wt[m]) + b
  BY WeightIs
<1>7. wp[off] = a * Up(wt[m])
  <2>1. At(p, m) = 0
    <3>1. m \in 1 .. m /\ m \in 1 .. Len(p)
      BY <1>2, <1>4
    <3>2. At(p, m) = p[m]
      BY <1>2, <1>4, <3>1, LimbIs
    <3> QED BY <1>4, <3>1, <3>2
  <2>2. wp[off] = Up(wp[m]) + At(p, m)
    BY <1>2, <1>5, WeightIs
  <2>3. Up(a * wt[m]) = a * Up(wt[m]) /\ Up(a * wt[m]) \in Nat
    BY <1>0, <1>6, UpTimes
  <2>4. Up(wp[m]) + 0 = Up(wp[m])
    BY <1>5, <2>3
  <2> QED BY <2>1, <2>2, <2>3, <2>4, <1>5
<1>8. a * wt[off] = wp[off] + b * a
  <2>1. \A x \in Nat, y \in Nat : a * (x + y) = a * x + y * a
    BY <1>0
  <2>2. Up(wt[m]) \in Nat
    BY <1>6, Scaling
  <2> QED BY <2>1, <2>2, <1>3, <1>6, <1>7
<1>9. PICK P : PlaceValues(P, N)
  BY PlaceValuesExist
<1> DEFINE Q == [k \in 0 .. n |-> P[k]]
<1>10. PlaceValues(Q, n) /\ \A k \in 0 .. n : Q[k] = P[k]
  BY <1>2, <1>9, PlaceValuesOf
<1>11. a * wt[off] < P[N - off]
  BY <1>2, <1>9, ProductFits DEF i
<1> HIDE DEF Q, a, b, n
<1>12. HasRoom(wp[off], b, a, Q[n])
  BY <1>2, <1>8, <1>10, <1>11 DEF HasRoom, n
<1> DEFINE r == MulHlp(Used(s), s, p, off, b)
<1>13. /\ r \in Seq(Limb) /\ Len(r) = off + n /\ \A k \in 1 .. off : r[k] = p[k]
       /\ \E wr : Weighs(r, off + n, wr) /\ Adding(wp[off], b, a, wr[off])
  <2>1. Weighs(p, off + n, wp) /\ Len(p) = off + n /\ Used(s) + 1 <= n /\ HasRoom(wp[off], b, Magnitude(s), Q[n])
    BY <1>2, <1>4, <1>5, <1>12 DEF i, a
  <2> HIDE DEF off
  <2>2. /\ r \in Seq(Limb) /\ Len(r) = off + n /\ \A k \in 1 .. off : r[k] = p[k]
        /\ \E wr : Weighs(r, off + n, wr) /\ Adding(wp[off], b, Magnitude(s), wr[off])
    BY SMTT(30), <2>1, <1>2, <1>3, <1>4, <1>10, RowIs
  <2> QED BY <2>2 DEF a
<1> HIDE DEF r
<1>14. PICK wr : Weighs(r, N, wr) /\ wr[off] = wp[off] + b * a
  BY <1>2, <1>13 DEF Adding
<1>15. \A k \in 1 .. off : r[k] = 0
  <2>1. \A k \in 1 .. off : k \in 1 .. m
    BY <1>2
  <2> QED BY <2>1, <1>4, <1>13
<1>16. Rows(r, off, a, wt, N)
  BY <1>2, <1>8, <1>13, <1>14, <1>15 DEF Rows
<1> QED BY <1>16 DEF r, a, b

(* mbedtls_mpi_lset to 0 clears all limbs.                                  *)
LEMMA LsetZeroIs ==
  ASSUME NEW X \in Number
  PROVE  LET r == Lset(X, 0)
         IN  /\ r.ret \in {0, ALLOC_FAILED} /\ r.x \in Number
             /\ r.ret = 0 => Len(r.x.p) = Greater(Len(X.p), 1) /\ \A k \in DOMAIN r.x.p : r.x.p[k] = 0
<1> DEFINE g == Grow(X, 1)
           r == Lset(X, 0)
           z == PadLimbs(<<0>>, Len(g.x.p))
<1>1. g.ret \in {0, ALLOC_FAILED} /\ g.x \in Number /\ (g.ret = 0 => Len(g.x.p) = Greater(Len(X.p), 1))
  BY GrowIs
<1>2. r = IF g.ret # 0 THEN g ELSE Ok([[g.x EXCEPT !.s = 1] EXCEPT !.p = PadLimbs(<<0>>, Len(@))])
  <2> DEFINE Zero(x) == Ok(CopyLimbs([x EXCEPT !.s = OneLimb(0).s], OneLimb(0).p))
  <2>1. r = Then(g, LAMBDA x : Zero(x))
    BY DEF Lset
  <2>2. Then(g, LAMBDA x : Zero(x)) = IF g.ret # 0 THEN g ELSE Zero(g.x)
    <3> HIDE DEF Zero, g
    <3> QED BY DEF Then, With
  <2>3. OneLimb(0).s = 1 /\ OneLimb(0).p = <<0>>
    BY DEF OneLimb
  <2>4. Zero(g.x) = Ok([[g.x EXCEPT !.s = 1] EXCEPT !.p = PadLimbs(<<0>>, Len(@))])
    <3>1. Zero(g.x) = Ok(CopyLimbs([g.x EXCEPT !.s = 1], <<0>>))
      BY <2>3
    <3> HIDE DEF Zero, g
    <3> QED BY <3>1 DEF CopyLimbs
  <2> HIDE DEF Zero, g, r
  <2> QED BY <2>1, <2>2, <2>4
<1> HIDE DEF g, r
<1>3. g.x.p \in Seq(Limb) /\ g.x = [s |-> g.x.s, p |-> g.x.p] /\ Len(g.x.p) \in Nat
  <2>1. g.x.p \in Seq(Limb) /\ g.x = [s |-> g.x.s, p |-> g.x.p]
    BY <1>1 DEF Number
  <2> QED BY <2>1
<1>4. [[g.x EXCEPT !.s = 1] EXCEPT !.p = PadLimbs(<<0>>, Len(@))] = [s |-> 1, p |-> z]
  <2>1. [g.x EXCEPT !.s = 1] = [s |-> 1, p |-> g.x.p]
    BY <1>3
  <2>2. [[s |-> 1, p |-> g.x.p] EXCEPT !.p = PadLimbs(<<0>>, Len(@))] = [s |-> 1, p |-> z]
    OBVIOUS
  <2> QED BY <2>1, <2>2
<1>5. <<0>> \in Seq(Limb) /\ Len(<<0>>) = 1 /\ \A k \in Int : At(<<0>>, k) = 0
  <2>1. <<0>> \in Seq(Limb) /\ Len(<<0>>) = 1
    BY BaseIs
  <2>2. \A k \in Int : At(<<0>>, k) = 0
    BY DEF At
  <2> QED BY <2>1, <2>2
<1>6. z \in Seq(Limb) /\ Len(z) = Greater(1, Len(g.x.p)) /\ Alike(z, <<0>>)
  BY <1>3, <1>5, PaddedIs DEF Alike
<1> HIDE DEF z
<1>7. \A k \in DOMAIN z : z[k] = 0
  <2>1. ASSUME NEW k \in DOMAIN z  PROVE z[k] = 0
    <3>1. k \in 1 .. Len(z) /\ k \in Int
      BY <1>6, LimbsAre
    <3>2. At(z, k) = z[k] /\ At(z, k) = At(<<0>>, k)
      BY <1>6, <3>1, LimbIs DEF Alike
    <3> QED BY <1>5, <3>1, <3>2
  <2> QED BY <2>1
<1>8. CASE g.ret # 0
  BY <1>1, <1>2, <1>8 DEF r
<1>9. CASE g.ret = 0
  <2>1. r = [ret |-> 0, x |-> [s |-> 1, p |-> z]]
    BY <1>2, <1>4, <1>9 DEF Ok
  <2>2. [s |-> 1, p |-> z] \in Number
    BY <1>6 DEF Number
  <2>3. Len(z) = Greater(Len(X.p), 1)
    <3>1. Len(X.p) \in Nat
      BY NumberIs
    <3>2. Len(g.x.p) = Greater(Len(X.p), 1)
      BY <1>1, <1>9
    <3> QED BY <1>6, <3>1, <3>2 DEF Greater
  <2>4. r.ret = 0 /\ r.x = [s |-> 1, p |-> z] /\ r.x.p = z
    BY <2>1
  <2> QED BY <1>7, <2>2, <2>3, <2>4 DEF r
<1> QED BY <1>8, <1>9

(* All rows.                                                                *)
LEMMA AllRowsAre ==
  ASSUME NEW s \in Seq(Limb), NEW q \in Seq(Limb), NEW y \in Seq(Limb), Used(s) + Used(q) <= Len(y),
         \A k \in DOMAIN y : y[k] = 0
  PROVE  LET AddRow(p, k) == MulHlp(Used(s), s, p, Used(q) - k, q[Used(q) - k + 1])
             r == For(Used(q), LAMBDA p, k : AddRow(p, k), y)
         IN  r \in Seq(Limb) /\ Magnitude(r) = Magnitude(s) * Magnitude(q)
<1> DEFINE j == Used(q)
           N == Len(y)
           a == Magnitude(s)
           t == [k \in 1 .. j |-> At(q, k)]
           AddRow(p, k) == MulHlp(Used(s), s, p, j - k, q[j - k + 1])
           Eq(f) == f = [k \in 0 .. j |-> IF k = 0 THEN y ELSE With(f[k - 1], LAMBDA v : AddRow(v, k))]
           C == CHOOSE f : Eq(f)
<1>1. j \in Nat /\ j <= Len(q) /\ N \in Nat /\ a \in Nat
  <2>1. j \in 0 .. Len(q) /\ Len(q) \in Nat
    BY UsedIs
  <2>2. a \in Nat
    <3>1. Len(s) >= Len(s) /\ Len(s) \in Nat
      OBVIOUS
    <3>2. PICK w : Weighs(s, Len(s), w)
      BY <3>1, WeightsExist
    <3> QED BY <3>1, <3>2, WeightsUnique
  <2> HIDE DEF j
  <2> QED BY <2>1, <2>2
<1>2. t \in Seq(Limb) /\ Len(t) = j /\ Alike(t, q)
  <2>1. j >= Used(q)
    BY <1>1
  <2> QED BY <1>1, <2>1, TrimmedIs
<1>3. Used(s) + j <= N /\ DOMAIN y = 1 .. N
  BY LimbsAre
<1> HIDE DEF t, j, a
<1>4. PICK wt : Weighs(t, j, wt) /\ Magnitude(t) = wt[0]
  BY <1>1, <1>2, WeightsExist
<1>5. wt[0] = Magnitude(q)
  BY <1>2, <1>4, AlikeIs
<1> DEFINE Done(p, k) == Rows(p, j - k, a, wt, N)
<1>6. Done(y, 0)
  <2> DEFINE w == [k \in 0 .. N |-> 0]
  <2>1. w[N] = 0 /\ w[j] = 0
    <3>1. N \in 0 .. N
      BY <1>1
    <3>2. j \in 0 .. N
      <4>1. Used(s) \in 0 .. Len(s) /\ Len(s) \in Nat
        BY UsedIs
      <4> QED BY <4>1, <1>1, <1>3
    <3> QED BY <3>1, <3>2
  <2>2. ASSUME NEW k \in 1 .. N  PROVE w[k - 1] = Up(w[k]) + At(y, k)
    <3>1. k \in 0 .. N /\ k - 1 \in 0 .. N /\ k \in Int
      BY <1>1
    <3>2. w[k] = 0 /\ w[k - 1] = 0
      BY <3>1
    <3>3. At(y, k) = y[k] /\ y[k] = 0
      BY <1>3, <3>1, LimbIs
    <3>4. Up(0) = 0
      BY Scaling
    <3> HIDE DEF w
    <3> QED BY <3>2, <3>3, <3>4
  <2>3. w \in [0 .. N -> Nat]
    OBVIOUS
  <2>4. wt[j] = 0
    BY <1>1, <1>4, WeightEnds
  <2>5. a * 0 = 0 /\ j - 0 = j
    BY <1>1
  <2> HIDE DEF w
  <2>6. Weighs(y, N, w)
    BY <2>1, <2>2, <2>3 DEF Weighs
  <2>7. w[j] = a * wt[j]
    BY <2>1, <2>4, <2>5
  <2>8. \A k \in 1 .. j : y[k] = 0
    <3>1. Used(s) \in 0 .. Len(s) /\ Len(s) \in Nat
      BY UsedIs
    <3>2. \A k \in 1 .. j : k \in 1 .. N
      BY <3>1, <1>1, <1>3
    <3> QED BY <3>2, <1>3
  <2> QED BY <2>5, <2>6, <2>7, <2>8 DEF Rows
<1>7. ASSUME NEW k \in 1 .. j, NEW p, Done(p, k - 1)  PROVE Done(AddRow(p, k), k)
  <2> DEFINE m == j - k + 1
  <2>1. m \in 1 .. j /\ m - 1 = j - k /\ j - (k - 1) = m /\ m \in Int /\ m \in 1 .. Len(q)
    BY <1>1
  <2>2. q[m] = At(t, m)
    BY <2>1, <1>2, LimbIs DEF Alike
  <2> HIDE DEF m
  <2>3. Rows(p, m, a, wt, N)
    BY <1>7, <2>1
  <2>4. Rows(MulHlp(Used(s), s, p, m - 1, At(t, m)), m - 1, a, wt, N)
    BY <2>1, <2>3, <1>1, <1>2, <1>3, <1>4, NextRowIs DEF a
  <2>5. AddRow(p, k) = MulHlp(Used(s), s, p, m - 1, At(t, m))
    BY <2>1, <2>2 DEF m
  <2> HIDE DEF AddRow
  <2> QED BY <2>1, <2>4, <2>5
<1>8. \A p, k : With(p, LAMBDA v : AddRow(v, k)) = AddRow(p, k)
  <2> HIDE DEF AddRow
  <2> QED BY DEF With
<1> HIDE DEF AddRow, Done
<1>9. \E f : Eq(f)
  <2> DEFINE G == [z \in (1 .. j) \X Seq(Limb) |-> IF Done(z[2], z[1] - 1) THEN AddRow(z[2], z[1]) ELSE y]
  <2>1. G \in [(1 .. j) \X Seq(Limb) -> Seq(Limb)]
    <3>1. ASSUME NEW z \in (1 .. j) \X Seq(Limb)  PROVE (IF Done(z[2], z[1] - 1) THEN AddRow(z[2], z[1]) ELSE y) \in Seq(Limb)
      <4>1. z[1] \in 1 .. j
        OBVIOUS
      <4>2. CASE Done(z[2], z[1] - 1)
        <5>1. Done(AddRow(z[2], z[1]), z[1])
          BY <4>1, <4>2, <1>7
        <5>2. AddRow(z[2], z[1]) \in Seq(Limb)
          BY <5>1 DEF Done, Rows
        <5> QED BY <4>2, <5>2
      <4>3. CASE ~Done(z[2], z[1] - 1)
        BY <4>3
      <4> QED BY <4>2, <4>3
    <3> QED BY <3>1
  <2>2. PICK f \in [0 .. j -> Seq(Limb)] : Solves(f, j, y, G)
    <3> HIDE DEF G
    <3> QED BY <1>1, <2>1, Recursion
  <2>3. ASSUME NEW k \in 1 .. j, Done(f[k - 1], k - 1)  PROVE f[k] = AddRow(f[k - 1], k)
    <3>1. f[k] = G[<<k, f[k - 1]>>]
      <4> HIDE DEF G
      <4> QED BY <2>2 DEF Solves
    <3>2. <<k, f[k - 1]>> \in (1 .. j) \X Seq(Limb)
      <4>1. k - 1 \in 0 .. j
        BY <1>1
      <4> QED BY <2>2, <4>1
    <3> QED BY <2>3, <3>1, <3>2
  <2> HIDE DEF G
  <2> DEFINE S == {k \in 0 .. j : Done(f[k], k)}
  <2>4. 0 \in S
    <3>1. 0 \in 0 .. j
      BY <1>1
    <3> QED BY <3>1, <1>6, <2>2 DEF Solves
  <2>5. ASSUME NEW k \in 1 .. j, k - 1 \in S  PROVE k \in S
    <3>1. k \in 0 .. j /\ Done(f[k - 1], k - 1)
      BY <2>5, <1>1
    <3>2. Done(AddRow(f[k - 1], k), k)
      BY <3>1, <1>7
    <3> QED BY <3>1, <3>2, <2>3
  <2> HIDE DEF S
  <2>6. \A k \in 0 .. j : k \in S
    BY <1>1, <2>4, <2>5, InductionUp
  <2> DEFINE V(k) == IF k = 0 THEN y ELSE With(f[k - 1], LAMBDA v : AddRow(v, k))
  <2>7. ASSUME NEW k \in 0 .. j  PROVE f[k] = V(k)
    <3>1. CASE k = 0
      BY <2>2, <3>1 DEF Solves
    <3>2. CASE k # 0
      <4>1. k \in 1 .. j /\ k - 1 \in 0 .. j
        BY <3>2, <1>1
      <4>2. f[k] = AddRow(f[k - 1], k)
        BY <2>3, <2>6, <4>1 DEF S
      <4> QED BY <3>2, <4>2, <1>8
    <3> QED BY <3>1, <3>2
  <2> HIDE DEF V
  <2>8. f = [k \in 0 .. j |-> V(k)]
    BY <2>2, <2>7
  <2>9. Eq(f)
    BY <2>8 DEF V
  <2> HIDE DEF Eq
  <2> QED BY <2>9
<1>10. Eq(C)
  <2> HIDE DEF Eq
  <2> QED BY <1>9
<1>11. Done(C[j], j)
  <2> DEFINE V(k) == IF k = 0 THEN y ELSE With(C[k - 1], LAMBDA v : AddRow(v, k))
             S == {k \in 0 .. j : Done(C[k], k)}
  <2>1. C = [k \in 0 .. j |-> V(k)]
    BY <1>10
  <2> HIDE DEF C
  <2>2. V(0) = y /\ \A k \in 1 .. j : V(k) = AddRow(C[k - 1], k)
    <3>1. \A k \in 1 .. j : k # 0
      BY <1>1
    <3> QED BY <3>1, <1>8
  <2> HIDE DEF V
  <2>3. 0 \in 0 .. j /\ C[0] = y
    <3>1. 0 \in 0 .. j
      BY <1>1
    <3> QED BY <3>1, <2>1, <2>2
  <2>4. 0 \in S
    BY <2>3, <1>6
  <2>5. ASSUME NEW k \in 1 .. j, k - 1 \in S  PROVE k \in S
    <3>1. k \in 0 .. j /\ k # 0 /\ Done(C[k - 1], k - 1)
      BY <2>5, <1>1
    <3>2. Done(AddRow(C[k - 1], k), k)
      BY <3>1, <1>7
    <3>3. C[k] = AddRow(C[k - 1], k)
      BY <3>1, <2>1, <2>2
    <3> QED BY <3>1, <3>2, <3>3
  <2> HIDE DEF S
  <2>6. j \in S
    <3>1. j \in 0 .. j
      BY <1>1
    <3> QED BY <3>1, <1>1, <2>4, <2>5, InductionUp
  <2> QED BY <2>6 DEF S
<1> DEFINE r == For(j, LAMBDA p, k : AddRow(p, k), y)
<1>12. r = C[j]
  BY DEF For
<1> HIDE DEF C, r
<1>13. r \in Seq(Limb) /\ Magnitude(r) = a * Magnitude(q)
  <2>1. Rows(r, 0, a, wt, N)
    <3>1. j - j = 0
      BY <1>1
    <3> QED BY <3>1, <1>11, <1>12 DEF Done
  <2>2. PICK w : Weighs(r, N, w) /\ w[0] = a * wt[0]
    BY <2>1 DEF Rows
  <2>3. r \in Seq(Limb) /\ Len(r) = N /\ N >= Len(r)
    BY <2>1, <1>1 DEF Rows
  <2> QED BY <2>2, <2>3, <1>1, <1>5, WeightsUnique
<1> QED BY <1>13 DEF r, a, j, AddRow

(* mbedtls_mpi_mul_mpi and mbedtls_mpi_mul_int, for every number of limbs   *)
(* and every base, whichever of the arguments is the destination: what      *)
(* returns 0 is the product, from no rows at all on; the rows store nothing *)
(* behind the limbs that the product got; only a lack of memory fails.      *)
THEOREM MultiplicationIsExact ==
  ASSUME NEW X \in Number, NEW A \in Number, NEW B \in Number, NEW same, Aliased(X, A, B, same)
  PROVE  LET mul == MulMpi(X, A, B, same)
         IN  /\ mul.ret \in {0, ALLOC_FAILED} /\ mul.x \in Number
             /\ mul.ret = 0 => Value(mul.x) = Value(A) * Value(B)
<1> DEFINE i == Used(A.p)
           j == Used(B.p)
           AddRow(p, k) == MulHlp(i, A.p, p, j - k, B.p[j - k + 1])
           first == Aside(A, "A" \in same, X)
           second == Aside(B, "B" \in same, X)
           grown == Grow(X, i + j)
           zero == Lset(grown.x, 0)
           rows == For(j, LAMBDA p, k : AddRow(p, k), zero.x.p)
           mul == MulMpi(X, A, B, same)
<1>1. A.p \in Seq(Limb) /\ B.p \in Seq(Limb) /\ X.p \in Seq(Limb) /\ A.s \in {-1, 1} /\ B.s \in {-1, 1}
      /\ Magnitude(A.p) \in Nat /\ Magnitude(B.p) \in Nat
  BY NumberIs
<1>2. i \in Nat /\ j \in Nat /\ i + j \in Nat
  <2>1. i \in 0 .. Len(A.p) /\ Len(A.p) \in Nat /\ j \in 0 .. Len(B.p) /\ Len(B.p) \in Nat
    BY <1>1, UsedIs
  <2> HIDE DEF i, j
  <2> QED BY <2>1
<1>3. first.ret \in {0, ALLOC_FAILED} /\ first.x = X /\ second.ret \in {0, ALLOC_FAILED} /\ second.x = X
  BY DEF Aside, Err, Ok
<1>4. mul = IF first.ret # 0 THEN first ELSE IF second.ret # 0 THEN second ELSE IF grown.ret # 0 THEN grown
            ELSE IF zero.ret # 0 THEN zero ELSE Ok([s |-> A.s * B.s, p |-> rows])
  <2> DEFINE Second(v) == Aside(B, "B" \in same, v)
             Grown(w) == Grow(w, i + j)
             Zero(x) == Lset(x, 0)
             Product(y) == Ok([s |-> A.s * B.s, p |-> For(j, LAMBDA p, k : AddRow(p, k), y.p)])
  <2>1. mul = Then(first, LAMBDA v : Then(Second(v), LAMBDA w : Then(Grown(w), LAMBDA x : Then(Zero(x), LAMBDA y : Product(y)))))
    BY DEF MulMpi
  <2>2. Second(X) = second /\ Grown(X) = grown /\ Zero(grown.x) = zero /\ Product(zero.x) = Ok([s |-> A.s * B.s, p |-> rows])
    OBVIOUS
  <2> HIDE DEF Second, Grown, Zero, Product, first, second, grown, zero, rows, mul
  <2> DEFINE ThenProduct(x) == Then(Zero(x), LAMBDA y : Product(y))
             ThenZero(w) == Then(Grown(w), LAMBDA x : ThenProduct(x))
             ThenGrown(v) == Then(Second(v), LAMBDA w : ThenZero(w))
  <2>3. ThenProduct(grown.x) = IF zero.ret # 0 THEN zero ELSE Ok([s |-> A.s * B.s, p |-> rows])
    BY <2>2 DEF Then, With
  <2>4. ThenZero(X) = IF grown.ret # 0 THEN grown ELSE ThenProduct(grown.x)
    <3> HIDE DEF ThenProduct
    <3> QED BY <2>2 DEF Then, With
  <2>5. ThenGrown(X) = IF second.ret # 0 THEN second ELSE ThenZero(X)
    <3> HIDE DEF ThenZero
    <3> QED BY <2>2, <1>3 DEF Then, With
  <2>6. mul = IF first.ret # 0 THEN first ELSE ThenGrown(X)
    <3>1. mul = Then(first, LAMBDA v : ThenGrown(v))
      BY <2>1
    <3> HIDE DEF ThenGrown
    <3> QED BY <3>1, <1>3 DEF Then, With
  <2> HIDE DEF ThenProduct, ThenZero, ThenGrown
  <2> QED BY <2>3, <2>4, <2>5, <2>6
<1>5. grown.ret \in {0, ALLOC_FAILED} /\ grown.x \in Number /\ (grown.ret = 0 => Len(grown.x.p) = Greater(Len(X.p), i + j))
  <2> HIDE DEF i, j
  <2> QED BY <1>2, GrowIs
<1>6. zero.ret \in {0, ALLOC_FAILED} /\ zero.x \in Number
      /\ (zero.ret = 0 => Len(zero.x.p) = Greater(Len(grown.x.p), 1) /\ \A k \in DOMAIN zero.x.p : zero.x.p[k] = 0)
  <2> HIDE DEF grown
  <2> QED BY <1>5, LsetZeroIs
<1> HIDE DEF first, second, grown, zero, mul
<1>7. CASE first.ret # 0 \/ second.ret # 0 \/ grown.ret # 0 \/ zero.ret # 0
  BY <1>3, <1>4, <1>5, <1>6, <1>7 DEF mul
<1>8. CASE ~(first.ret # 0 \/ second.ret # 0 \/ grown.ret # 0 \/ zero.ret # 0)
  <2>1. mul = [ret |-> 0, x |-> [s |-> A.s * B.s, p |-> rows]]
    BY <1>4, <1>8 DEF Ok
  <2>2. i + j <= Len(zero.x.p)
    <3>1. Len(zero.x.p) = Greater(Len(grown.x.p), 1) /\ Len(grown.x.p) = Greater(Len(X.p), i + j)
      BY <1>5, <1>6, <1>8
    <3>2. Len(X.p) \in Nat
      BY <1>1
    <3> HIDE DEF i, j
    <3> QED BY <3>1, <3>2, <1>2 DEF Greater
  <2>3. zero.x.p \in Seq(Limb) /\ \A k \in DOMAIN zero.x.p : zero.x.p[k] = 0
    BY <1>6, <1>8 DEF Number
  <2>4. rows \in Seq(Limb) /\ Magnitude(rows) = Magnitude(A.p) * Magnitude(B.p)
    BY <2>2, <2>3, <1>1, AllRowsAre
  <2> HIDE DEF rows
  <2>5. A.s * B.s \in {-1, 1}
    BY <1>1
  <2>6. [s |-> A.s * B.s, p |-> rows] \in Number
    BY <2>4, <2>5 DEF Number
  <2>7. Value([s |-> A.s * B.s, p |-> rows]) = (A.s * B.s) * (Magnitude(A.p) * Magnitude(B.p))
    BY <2>4 DEF Value
  <2>8. (A.s * B.s) * (Magnitude(A.p) * Magnitude(B.p)) = (A.s * Magnitude(A.p)) * (B.s * Magnitude(B.p))
    <3>1. \A x \in Nat, y \in Nat : /\ (1 * 1) * (x * y) = (1 * x) * (1 * y) /\ (1 * (-1)) * (x * y) = (1 * x) * ((-1) * y)
                                    /\ ((-1) * 1) * (x * y) = ((-1) * x) * (1 * y) /\ ((-1) * (-1)) * (x * y) = ((-1) * x) * ((-1) * y)
      OBVIOUS
    <3> QED BY <3>1, <1>1
  <2>9. mul.ret = 0 /\ mul.x = [s |-> A.s * B.s, p |-> rows]
    BY <2>1
  <2> QED BY <2>6, <2>7, <2>8, <2>9 DEF mul, Value
<1> QED BY <1>7, <1>8

(* A number of one limb.                                                    *)
LEMMA OneLimbIs ==
  ASSUME NEW s \in {-1, 1}, NEW x \in Limb
  PROVE  [s |-> s, p |-> <<x>>] \in Number /\ Value([s |-> s, p |-> <<x>>]) = s * x
<1>1. <<x>> \in Seq(Limb) /\ Len(<<x>>) = 1 /\ 1 \in Nat /\ 0 \in 0 .. 1 /\ 1 \in 0 .. 1
  OBVIOUS
<1>2. x \in Nat /\ Up(0) = 0
  BY BaseIs, Scaling
<1> DEFINE w == [k \in 0 .. 1 |-> IF k = 0 THEN x ELSE 0]
<1>3. Weighs(<<x>>, 1, w)
  <2>1. At(<<x>>, 1) = x
    BY <1>1 DEF At
  <2>2. w \in [0 .. 1 -> Nat] /\ w[0] = x /\ w[1] = 0
    BY <1>2
  <2>3. \A k \in 1 .. 1 : k = 1 /\ k - 1 = 0
    OBVIOUS
  <2> HIDE DEF w
  <2> QED BY <2>1, <2>2, <2>3, <1>2 DEF Weighs
<1>4. Magnitude(<<x>>) = x
  <2>1. w[0] = x
    BY <1>1
  <2>2. 1 >= Len(<<x>>)
    BY <1>1
  <2> HIDE DEF w
  <2> QED BY <2>1, <2>2, <1>1, <1>3, WeightsUnique
<1> QED BY <1>1, <1>4 DEF Number, Value

(* mbedtls_mpi_cmp_int, _add_int, _sub_int and _mul_int: the same of an     *)
(* integer that fits a limb, as these functions take it.                    *)
THEOREM IntegersAreExact ==
  ASSUME NEW X \in Number, NEW A \in Number, NEW z \in Int, -Base < z, z < Base, NEW same, same \in SUBSET {"A"},
         "A" \in same => X = A
  PROVE  LET add == AddInt(X, A, z, same)
             sub == SubInt(X, A, z, same)
             mul == MulInt(X, A, z, same)
         IN  /\ CmpInt(X, z) = SignOf(Value(X) - z)
             /\ add.x \in Number /\ add.ret \in {0, ALLOC_FAILED} /\ (add.ret = 0 => Value(add.x) = Value(A) + z)
             /\ sub.x \in Number /\ sub.ret \in {0, ALLOC_FAILED} /\ (sub.ret = 0 => Value(sub.x) = Value(A) - z)
             /\ z >= 0 => /\ mul.x \in Number /\ mul.ret \in {0, ALLOC_FAILED}
                          /\ mul.ret = 0 => Value(mul.x) = Value(A) * z
<1> DEFINE Z == OneLimb(z)
           U == [s |-> 1, p |-> <<z>>]
<1>1. Base \in Nat /\ Limb = 0 .. (Base - 1)
  BY BaseIs
<1>2. Z \in Number /\ Value(Z) = z
  <2>1. CASE z < 0
    <3>1. Z = [s |-> -1, p |-> <<-z>>] /\ -z \in Limb /\ (-1) * (-z) = z
      BY <2>1, <1>1 DEF OneLimb
    <3> HIDE DEF Z
    <3> QED BY <3>1, OneLimbIs
  <2>2. CASE z >= 0
    <3>1. Z = [s |-> 1, p |-> <<z>>] /\ z \in Limb /\ 1 * z = z
      BY <2>2, <1>1 DEF OneLimb
    <3> HIDE DEF Z
    <3> QED BY <3>1, OneLimbIs
  <2> QED BY <2>1, <2>2
<1>3. z >= 0 => U \in Number /\ Value(U) = z
  <2>1. z >= 0 => z \in Limb /\ 1 * z = z
    BY <1>1
  <2> QED BY <2>1, OneLimbIs
<1>4. \A Y : Aliased(X, A, Y, same)
  BY DEF Aliased
<1>5. CmpInt(X, z) = CmpMpi(X, Z) /\ AddInt(X, A, z, same) = AddMpi(X, A, Z, same)
      /\ SubInt(X, A, z, same) = SubMpi(X, A, Z, same) /\ MulInt(X, A, z, same) = MulMpi(X, A, U, same)
  BY DEF CmpInt, AddInt, SubInt, MulInt
<1> HIDE DEF Z, U
<1>6. CmpMpi(X, Z) = SignOf(Value(X) - z)
  BY <1>2, ComparisonIsExact
<1>7. /\ AddMpi(X, A, Z, same).x \in Number /\ AddMpi(X, A, Z, same).ret \in {0, ALLOC_FAILED}
      /\ AddMpi(X, A, Z, same).ret = 0 => Value(AddMpi(X, A, Z, same).x) = Value(A) + z
      /\ SubMpi(X, A, Z, same).x \in Number /\ SubMpi(X, A, Z, same).ret \in {0, ALLOC_FAILED}
      /\ SubMpi(X, A, Z, same).ret = 0 => Value(SubMpi(X, A, Z, same).x) = Value(A) - z
  BY <1>2, <1>4, AdditionIsExact
<1>8. z >= 0 => /\ MulMpi(X, A, U, same).x \in Number /\ MulMpi(X, A, U, same).ret \in {0, ALLOC_FAILED}
                /\ MulMpi(X, A, U, same).ret = 0 => Value(MulMpi(X, A, U, same).x) = Value(A) * z
  BY <1>3, <1>4, MultiplicationIsExact
<1> QED BY <1>5, <1>6, <1>7, <1>8

=============================================================================
