------------------------------ MODULE Codec_proofs ------------------------------
(***************************************************************************)
(* What IndexOutput writes, IndexInput reads back: for any widths of a     *)
(* byte and of an int, any numbers that fit, any strings and finite maps,  *)
(* and any buffer of copy_bytes().                                         *)
(*                                                                         *)
(* A recursive function of the model is a CHOOSE of a solution of its      *)
(* equation.  That there is a solution is shown by Recursion, or the same  *)
(* way where the argument gets smaller; what every solution is, by         *)
(* Induction.  Both are about sets, not about an operator: a set of        *)
(* numbers has a smallest one (WFMin).                                     *)
(***************************************************************************)
EXTENDS Codec, FiniteSetTheorems, WellFoundedInduction, SequenceTheorems, TLAPS

-----------------------------------------------------------------------------
(* Induction and recursion *)

\* A set of numbers that is not empty has a smallest one.
LEMMA Smallest ==
  ASSUME NEW S \in SUBSET Nat, S # {}
  PROVE  \E x \in S : \A y \in S : x <= y
<1> DEFINE R == OpToRel(<, Nat)
<1>1. \A x, y \in Nat : <<x, y>> \in R <=> x < y
  BY DEF OpToRel
<1>2. IsWellFoundedOn(R, Nat)
  BY NatLessThanWellFounded
<1> HIDE DEF R
<1>3. PICK x \in S : \A y \in S : ~ <<y, x>> \in R
  BY <1>2, WFMin
<1>4. \A y \in S : ~(y < x)
  BY <1>1, <1>3
<1> QED
  BY <1>4

\* Induction, on a set.
LEMMA Induction ==
  ASSUME NEW n \in Nat, NEW T, 0 \in T, \A k \in 1..n : k - 1 \in T => k \in T
  PROVE  0..n \subseteq T
<1> DEFINE U == {k \in 0..n : k \notin T}
<1>1. CASE U = {}
  BY <1>1
<1>2. CASE U # {}
  <2>0. U \in SUBSET Nat
    OBVIOUS
  <2>1. PICK x \in U : \A y \in U : x <= y
    BY <1>2, <2>0, Smallest
  <2>2. x \in 1..n /\ x \notin T
    BY <2>1
  <2>3. x - 1 \in U
    BY <2>2
  <2> QED
    BY <2>1, <2>2, <2>3
<1> QED
  BY <1>1, <1>2

\* The same from all smaller numbers.
LEMMA StrongInduction ==
  ASSUME NEW T, \A k \in Nat : (\A j \in 0..(k - 1) : j \in T) => k \in T
  PROVE  Nat \subseteq T
<1> DEFINE U == {k \in Nat : k \notin T}
<1>1. CASE U # {}
  <2>1. PICK x \in U : \A y \in U : x <= y
    BY <1>1, Smallest
  <2>2. \A j \in 0..(x - 1) : j \in T
    BY <2>1
  <2> QED
    BY <2>1, <2>2
<1> QED
  BY <1>1

\* A function that is defined step by step, with values in S.
StepsIn(S, n, step) == \A k \in 1..n : \A v \in S : step[k][v] \in S

\* The function is defined by these steps.
Solves(g, S, n, start, step) ==
  g \in [0..n -> S] /\ g[0] = start /\ \A k \in 1..n : g[k] = step[k][g[k - 1]]

\* Its equation has a solution.
LEMMA Recursion ==
  ASSUME NEW n \in Nat, NEW S, NEW start \in S, NEW step, StepsIn(S, n, step)
  PROVE  \E g : Solves(g, S, n, start, step)
<1> DEFINE Good(g, m) == /\ g \in [0..m -> S] /\ g[0] = start
                         /\ \A k \in 1..m : g[k] = step[k][g[k - 1]]
           T == {m \in 0..n : \E g : Good(g, m)}
<1>1. 0 \in T
  <2> DEFINE g == [k \in 0..0 |-> start]
  <2>1. Good(g, 0)
    OBVIOUS
  <2> HIDE DEF g, Good
  <2> QED
    BY <2>1
<1>2. ASSUME NEW m \in 1..n, m - 1 \in T PROVE m \in T
  <2>1. PICK g : Good(g, m - 1)
    BY <1>2
  <2> DEFINE h == [k \in 0..m |-> IF k = m THEN step[m][g[m - 1]] ELSE g[k]]
  <2>2. g[m - 1] \in S
    BY <2>1
  <2>3. step[m][g[m - 1]] \in S
    BY <2>2 DEF StepsIn
  <2>4. h \in [0..m -> S] /\ h[0] = start
    BY <2>1, <2>3
  <2>5. ASSUME NEW k \in 1..m PROVE h[k] = step[k][h[k - 1]]
    <3>1. CASE k = m
      <4>1. h[k] = step[m][g[m - 1]] /\ h[k - 1] = g[m - 1]
        BY <3>1
      <4> QED
        BY <3>1, <4>1
    <3>2. CASE k # m
      BY <2>1, <3>2
    <3> QED
      BY <3>1, <3>2
  <2>6. Good(h, m)
    BY <2>4, <2>5
  <2> HIDE DEF h, Good
  <2> QED
    BY <2>6
<1> HIDE DEF T
<1>3. \A m \in 1..n : m - 1 \in T => m \in T
  BY <1>2
<1>4. 0..n \subseteq T
  BY <1>1, <1>3, Induction
<1>5. n \in T
  BY <1>4
<1> QED
  BY <1>5 DEF T, Solves

-----------------------------------------------------------------------------
(* Arithmetic *)

\* A product is monotonic, in a form that the provers need not search for.
LEMMA Mono ==
  ASSUME NEW n \in Nat, NEW a \in Int, NEW b \in Int, a <= b PROVE n * a <= n * b
OBVIOUS

\* What quotient and remainder are.
LEMMA DivMod ==
  ASSUME NEW n \in Nat, n > 0, NEW p \in Int
  PROVE  p \div n \in Int /\ p % n \in 0..(n - 1) /\ p = (p \div n) * n + (p % n)
OBVIOUS

\* Quotient and remainder are the only ones.
LEMMA DivIs ==
  ASSUME NEW n \in Nat, n > 0, NEW i \in Int, NEW k \in 0..(n - 1), NEW p \in Int, p = i * n + k
  PROVE  p \div n = i /\ p % n = k
<1> DEFINE q == p \div n
           m == p % n
<1>1. q \in Int /\ m \in 0..(n - 1) /\ p = q * n + m
  BY DivMod
<1> HIDE DEF q, m
<1>2. n * q = q * n /\ n * i = i * n /\ n * q \in Int /\ n * i \in Int
  BY <1>1
<1>3. ASSUME q < i PROVE FALSE
  <2>1. n * (q + 1) <= n * i
    BY <1>1, <1>3, Mono
  <2>2. n * (q + 1) = n * q + n
    BY <1>1
  <2> QED
    BY <1>1, <1>2, <2>1, <2>2
<1>4. ASSUME i < q PROVE FALSE
  <2>1. n * (i + 1) <= n * q
    BY <1>1, <1>4, Mono
  <2>2. n * (i + 1) = n * i + n
    OBVIOUS
  <2> QED
    BY <1>1, <1>2, <2>1, <2>2
<1>5. q = i
  BY <1>1, <1>3, <1>4
<1>6. m = k
  BY <1>1, <1>5
<1> QED
  BY <1>5, <1>6 DEF q, m

\* A remainder is that of the quotient, and then the remainder below it.
LEMMA ModOfProduct ==
  ASSUME NEW b \in Nat, b > 0, NEW c \in Nat, c > 0, NEW x \in Int
  PROVE  /\ (x \div b) \div c = x \div (c * b)
         /\ ((x \div b) % c) * b + (x % b) = x % (c * b)
<1> DEFINE q == x \div b
           m == x % b
           r == q \div c
           s == q % c
<1>1. q \in Int /\ m \in 0..(b - 1) /\ x = q * b + m
  BY DivMod
<1>2. r \in Int /\ s \in 0..(c - 1) /\ q = r * c + s
  <2> HIDE DEF q
  <2> QED
    BY <1>1, DivMod
<1> HIDE DEF q, m, r, s
<1>3. (r * c + s) * b = r * (c * b) + s * b
  BY <1>2
<1>4. x = r * (c * b) + (s * b + m)
  <2>1. r * (c * b) \in Int /\ s * b \in Int
    BY <1>2
  <2> QED
    BY <1>1, <1>2, <1>3, <2>1
<1>5. s * b + m \in 0..((c * b) - 1)
  <2>1. b * s <= b * (c - 1) /\ b * 0 <= b * s
    BY <1>2, Mono
  <2>2. b * (c - 1) = c * b - b /\ b * s = s * b /\ b * 0 = 0 /\ c * b \in Int /\ s * b \in Int
    BY <1>2
  <2> QED
    BY <1>1, <2>1, <2>2
<1>6. c * b \in Nat /\ c * b > 0
  <2>1. b * 1 <= b * c
    BY Mono
  <2>2. b * c = c * b /\ b * 1 = b /\ c * b \in Nat
    OBVIOUS
  <2> QED
    BY <2>1, <2>2
<1>7. x \div (c * b) = r /\ x % (c * b) = s * b + m
  <2> DEFINE n == c * b
             k == s * b + m
  <2>1. n \in Nat /\ n > 0 /\ k \in 0..(n - 1) /\ x = r * n + k
    BY <1>4, <1>5, <1>6
  <2> HIDE DEF n, k
  <2>2. x \div n = r /\ x % n = k
    BY <1>2, <2>1, DivIs
  <2> QED
    BY <2>2 DEF n, k
<1> QED
  BY <1>7 DEF q, m, r, s

-----------------------------------------------------------------------------
(* Ints *)

\* What the code says of the widths.
LEMMA Widths ==
  /\ Flag \in Nat /\ Flag > 1 /\ IntBytes \in Nat /\ IntBytes > 0
  /\ Base \in Nat /\ Base > 1 /\ Base = 2 * Flag
BY WidthAssumption DEF Base

\* The equation of Power.
LEMMA PowerIs ==
  /\ Power \in [0..IntBytes -> Nat] /\ Power[0] = 1
  /\ \A k \in 1..IntBytes : Power[k] = Power[k - 1] * Base
<1> DEFINE step == [k \in 1..IntBytes |-> [v \in Nat |-> v * Base]]
           Fcn(f) == [n \in 0..IntBytes |-> IF n = 0 THEN 1 ELSE f[n - 1] * Base]
<1>0. IntBytes \in Nat /\ Base \in Nat
  BY Widths
<1>1. \A k \in 1..IntBytes : \A v \in Nat : step[k][v] = v * Base /\ step[k][v] \in Nat
  BY <1>0
<1> HIDE DEF step
<1>2. PICK g : Solves(g, Nat, IntBytes, 1, step)
  <2>1. StepsIn(Nat, IntBytes, step)
    BY <1>1 DEF StepsIn
  <2> QED
    BY <1>0, <2>1, Recursion
<1>3. ASSUME NEW k \in 1..IntBytes PROVE g[k] = g[k - 1] * Base
  <2>1. g[k - 1] \in Nat
    BY <1>0, <1>2 DEF Solves
  <2> QED
    BY <1>1, <1>2, <2>1 DEF Solves
<1>4. g = Fcn(g)
  BY <1>2, <1>3 DEF Solves
<1>5. Power = CHOOSE f : f = Fcn(f)
  BY DEF Power
<1>6. Power = Fcn(Power)
  <2> HIDE DEF Fcn
  <2> QED
    BY <1>4, <1>5
<1>7. /\ Power[0] = 1 /\ DOMAIN Power = 0..IntBytes
      /\ \A k \in 1..IntBytes : Power[k] = Power[k - 1] * Base
  BY <1>0, <1>6
<1> DEFINE T == {k \in 0..IntBytes : Power[k] \in Nat}
<1>8. 0..IntBytes \subseteq T
  <2>1. 0 \in T
    BY <1>0, <1>7
  <2>2. \A k \in 1..IntBytes : k - 1 \in T => k \in T
    BY <1>0, <1>7
  <2> HIDE DEF T
  <2> QED
    BY <1>0, <2>1, <2>2, Induction
<1>9. Power \in [0..IntBytes -> Nat]
  BY <1>6, <1>8
<1> QED
  BY <1>7, <1>9

\* A function on 1..n is a sequence of n.
LEMMA FunctionIsSeq ==
  ASSUME NEW S, NEW n \in Nat, NEW f \in [1..n -> S] PROVE f \in Seq(S) /\ Len(f) = n
BY SeqDef

\* What the ranges of an int and of a long are made of.
LEMMA Bases ==
  /\ \A k \in 0..IntBytes : Power[k] \in Nat /\ Power[k] > 0
  /\ IntBase \in Nat /\ IntBase > 0 /\ LongBase \in Nat /\ LongBase > 0
  /\ \E h \in Nat : h > 0 /\ IntBase = h * Base
<1> DEFINE T == {k \in 0..IntBytes : Power[k] > 0}
<1>0. IntBytes \in Nat /\ IntBytes > 0 /\ Base \in Nat /\ Base > 1
  BY Widths
<1>1. 0..IntBytes \subseteq T
  <2>1. 0 \in T
    BY <1>0, PowerIs
  <2>2. ASSUME NEW k \in 1..IntBytes, k - 1 \in T PROVE k \in T
    <3>1. Power[k - 1] \in Nat /\ Power[k - 1] > 0 /\ Power[k] = Power[k - 1] * Base
      BY <1>0, <2>2, PowerIs
    <3>2. Base * 1 <= Base * Power[k - 1]
      BY <1>0, <3>1, Mono
    <3>3. Base * 1 = Base /\ Base * Power[k - 1] = Power[k - 1] * Base
      BY <1>0, <3>1
    <3> QED
      BY <1>0, <3>1, <3>2, <3>3
  <2>3. \A k \in 1..IntBytes : k - 1 \in T => k \in T
    BY <2>2
  <2> HIDE DEF T
  <2> QED
    BY <1>0, <2>1, <2>3, Induction
<1>2. \A k \in 0..IntBytes : Power[k] \in Nat /\ Power[k] > 0
  BY <1>1, PowerIs
<1>3. IntBase \in Nat /\ IntBase > 0
  BY <1>0, <1>2 DEF IntBase
<1>4. LongBase \in Nat /\ LongBase > 0
  <2>1. IntBase * 1 <= IntBase * IntBase
    BY <1>3, Mono
  <2> QED
    BY <1>3, <2>1 DEF LongBase
<1>5. Power[IntBytes - 1] \in Nat /\ Power[IntBytes - 1] > 0 /\ IntBase = Power[IntBytes - 1] * Base
  BY <1>0, <1>2, PowerIs DEF IntBase
<1> QED
  BY <1>2, <1>3, <1>4, <1>5

\* The bytes e are in the file s, at p.
Has(s, p, e) == p + Len(e) <= Len(s) /\ \A j \in 1..Len(e) : s[p + j] = e[j]

\* The bytes of an int.
LEMMA IntIs ==
  ASSUME NEW i \in Int
  PROVE  /\ write_int(i) \in Seq(0..(Base - 1)) /\ Len(write_int(i)) = IntBytes
         /\ \A k \in 1..IntBytes : write_int(i)[k] = (i \div Power[IntBytes - k]) % Base
<1>0. IntBytes \in Nat /\ Base \in Nat /\ Base > 0
  BY Widths
<1>1. ASSUME NEW k \in 1..IntBytes
      PROVE  (i \div Power[IntBytes - k]) % Base \in 0..(Base - 1)
  <2>1. IntBytes - k \in 0..IntBytes
    BY <1>0
  <2>2. i \div Power[IntBytes - k] \in Int
    BY <2>1, Bases, DivMod
  <2> QED
    BY <1>0, <2>2, DivMod
<1>2. write_int(i) \in [1..IntBytes -> 0..(Base - 1)]
  BY <1>1 DEF write_int
<1>3. write_int(i) \in Seq(0..(Base - 1)) /\ Len(write_int(i)) = IntBytes
  BY <1>0, <1>2, FunctionIsSeq
<1> QED
  BY <1>3 DEF write_int

\* The number that the first k bytes of an int make is what is left of the int
\* when the others are shifted out.
LEMMA HighBytes ==
  ASSUME NEW i \in Int, NEW k \in 1..IntBytes
  PROVE  (i \div Power[IntBytes - k]) % Power[k] =
           ((i \div Power[IntBytes - (k - 1)]) % Power[k - 1]) * Base
             + ((i \div Power[IntBytes - k]) % Base)
<1> DEFINE b == Power[IntBytes - k]
           x == i \div b
           c == Power[k - 1]
<1>0. IntBytes \in Nat /\ Base \in Nat /\ Base > 0
  BY Widths
<1>1. IntBytes - k \in 0..IntBytes /\ k - 1 \in 0..IntBytes /\ IntBytes - (k - 1) \in 1..IntBytes
      /\ (IntBytes - (k - 1)) - 1 = IntBytes - k
  BY <1>0
<1>2. b \in Nat /\ b > 0 /\ c \in Nat /\ c > 0
  BY <1>1, Bases
<1>3. Power[IntBytes - (k - 1)] = b * Base /\ Power[k] = c * Base
  BY <1>0, <1>1, PowerIs
<1>4. x \in Int
  BY <1>2, DivMod
<1> HIDE DEF b, c
<1>5. x \div Base = i \div (Base * b)
  BY <1>0, <1>2, ModOfProduct
<1>6. Base * b = b * Base
  BY <1>0, <1>2
<1> HIDE DEF x
<1>7. ((x \div Base) % c) * Base + (x % Base) = x % (c * Base)
  BY <1>0, <1>2, <1>4, ModOfProduct
<1> QED
  BY <1>3, <1>5, <1>6, <1>7 DEF b, c, x

\* What read_int() makes of the bytes of an int.
LEMMA ReadsInt ==
  ASSUME NEW i \in Int, NEW p \in Nat, Has(copied, p, write_int(i))
  PROVE  read_int(p) = At(Signed(i % IntBase, IntBase), p + IntBytes)
<1> DEFINE Fcn(f) == [k \in 0..IntBytes |-> IF k = 0 THEN 0 ELSE f[k - 1] * Base + copied[p + k]]
           high == [k \in 0..IntBytes |-> (i \div Power[IntBytes - k]) % Power[k]]
           f == CHOOSE f : f = Fcn(f)
<1>0. IntBytes \in Nat /\ Base \in Nat /\ Base > 0
  BY Widths
<1>1. \A k \in 1..IntBytes : copied[p + k] = (i \div Power[IntBytes - k]) % Base
  BY IntIs DEF Has
<1>2. high[0] = 0
  <2>1. i \div Power[IntBytes - 0] \in Int
    BY <1>0, Bases, DivMod
  <2>2. (i \div Power[IntBytes - 0]) % 1 = 0
    BY <2>1
  <2> QED
    BY <1>0, <2>2, PowerIs
<1>3. ASSUME NEW k \in 1..IntBytes PROVE high[k] = high[k - 1] * Base + copied[p + k]
  <2>1. k \in 0..IntBytes /\ k - 1 \in 0..IntBytes
    BY <1>0
  <2> QED
    BY <1>1, <2>1, HighBytes
<1> HIDE DEF f
<1>4. f = Fcn(f)
  <2>1. high = Fcn(high)
    <3>1. high = [k \in 0..IntBytes |-> high[k]]
      OBVIOUS
    <3>2. \A k \in 0..IntBytes : high[k] = Fcn(high)[k]
      <4> HIDE DEF high
      <4> QED
        BY <1>0, <1>2, <1>3
    <3> HIDE DEF high
    <3> QED
      BY <3>1, <3>2
  <2> HIDE DEF Fcn, high
  <2> QED
    BY <2>1 DEF f
<1> DEFINE T == {k \in 0..IntBytes : f[k] = high[k]}
<1>5. 0..IntBytes \subseteq T
  <2> HIDE DEF high
  <2>1. 0 \in T
    BY <1>0, <1>2, <1>4
  <2>2. ASSUME NEW k \in 1..IntBytes, k - 1 \in T PROVE k \in T
    <3>1. f[k] = f[k - 1] * Base + copied[p + k]
      BY <1>0, <1>4
    <3> QED
      BY <1>3, <2>2, <3>1
  <2>3. \A k \in 1..IntBytes : k - 1 \in T => k \in T
    BY <2>2
  <2> HIDE DEF T
  <2> QED
    BY <1>0, <2>1, <2>3, Induction
<1>6. f[IntBytes] = i % IntBase
  <2>1. f[IntBytes] = high[IntBytes] /\ IntBytes - IntBytes = 0
    BY <1>0, <1>5
  <2>2. high[IntBytes] = (i \div 1) % IntBase
    BY <1>0, <2>1, PowerIs DEF IntBase
  <2> QED
    BY <2>1, <2>2
<1>7. read_int(p) = At(Signed(f[IntBytes], IntBase), p + IntBytes)
  BY DEF read_int, f
<1> QED
  BY <1>6, <1>7

-----------------------------------------------------------------------------
(* Bytes in a file *)

\* A part behind another one.
LEMMA HasConcat ==
  ASSUME NEW S, NEW s \in Seq(S), NEW p \in Nat, NEW a \in Seq(S), NEW b \in Seq(S)
  PROVE  Has(s, p, a \o b) <=> Has(s, p, a) /\ Has(s, p + Len(a), b)
<1> DEFINE e == a \o b
<1>1. Len(s) \in Nat /\ Len(a) \in Nat /\ Len(b) \in Nat /\ Len(e) = Len(a) + Len(b)
      /\ \A j \in 1..Len(e) : e[j] = IF j <= Len(a) THEN a[j] ELSE b[j - Len(a)]
  OBVIOUS
<1> HIDE DEF e
<1>2. ASSUME Has(s, p, e) PROVE Has(s, p, a) /\ Has(s, p + Len(a), b)
  <2>1. p + Len(e) <= Len(s) /\ \A j \in 1..Len(e) : s[p + j] = e[j]
    BY <1>2 DEF Has
  <2>2. ASSUME NEW j \in 1..Len(a) PROVE s[p + j] = a[j]
    BY <1>1, <2>1
  <2>3. ASSUME NEW j \in 1..Len(b) PROVE s[p + Len(a) + j] = b[j]
    <3>1. Len(a) + j \in 1..Len(e) /\ ~(Len(a) + j <= Len(a)) /\ Len(a) + j - Len(a) = j
          /\ p + (Len(a) + j) = p + Len(a) + j
      BY <1>1
    <3>2. s[p + (Len(a) + j)] = e[Len(a) + j]
      BY <2>1, <3>1
    <3>3. e[Len(a) + j] = b[Len(a) + j - Len(a)]
      BY <1>1, <3>1
    <3> QED
      BY <3>1, <3>2, <3>3
  <2> QED
    BY <1>1, <2>1, <2>2, <2>3 DEF Has
<1>3. ASSUME Has(s, p, a), Has(s, p + Len(a), b) PROVE Has(s, p, e)
  <2>1. ASSUME NEW j \in 1..Len(e), j <= Len(a) PROVE s[p + j] = e[j]
    BY <1>1, <1>3, <2>1 DEF Has
  <2>2. ASSUME NEW j \in 1..Len(e), ~(j <= Len(a)) PROVE s[p + j] = e[j]
    <3>1. j - Len(a) \in 1..Len(b) /\ p + Len(a) + (j - Len(a)) = p + j
      BY <1>1, <2>2
    <3>2. s[p + Len(a) + (j - Len(a))] = b[j - Len(a)]
      BY <1>3, <3>1 DEF Has
    <3> QED
      BY <1>1, <2>2, <3>1, <3>2
  <2> QED
    BY <1>1, <1>3, <2>1, <2>2 DEF Has
<1> QED
  BY <1>2, <1>3 DEF e

-----------------------------------------------------------------------------
(* Groups *)

\* A remainder is at most the number.
LEMMA ModAtMost ==
  ASSUME NEW n \in Nat, n > 0, NEW i \in Nat PROVE i % n \in Nat /\ i % n <= i
<1> DEFINE q == i \div n
           m == i % n
<1>1. q \in Int /\ m \in 0..(n - 1) /\ i = q * n + m
  BY DivMod
<1> HIDE DEF q, m
<1>2. q * n \in Int
  BY <1>1
<1>3. ASSUME q < 0 PROVE FALSE
  <2>1. n * q <= n * (-1)
    BY <1>1, <1>3, Mono
  <2>2. n * q = q * n /\ n * (-1) = -n
    BY <1>1
  <2> QED
    BY <1>1, <1>2, <2>1, <2>2
<1>4. n * 0 <= n * q
  BY <1>1, <1>3, Mono
<1>5. n * 0 = 0 /\ n * q = q * n
  BY <1>1
<1> QED
  BY <1>1, <1>2, <1>4, <1>5 DEF m

\* A number is its lowest group and the others, shifted.
LEMMA ShiftIs ==
  ASSUME NEW i \in Int
  PROVE  /\ unsigned_shift(i, IntBase) \in 0..(IntBase - 1)
         /\ i % Flag \in 0..(Flag - 1)
         /\ i % IntBase = unsigned_shift(i, IntBase) * Flag + (i % Flag)
         /\ i >= Flag => unsigned_shift(i, IntBase) < i
<1> DEFINE x == i % IntBase
           u == x \div Flag
           m == i % Flag
<1>0. Flag \in Nat /\ Flag > 1 /\ Flag > 0 /\ IntBase \in Nat /\ IntBase > 0
  BY Widths, Bases
<1>1. x \in 0..(IntBase - 1) /\ m \in 0..(Flag - 1)
  BY <1>0, DivMod
<1>2. PICK h \in Nat : h > 0 /\ IntBase = h * Base
  BY Bases
<1>3. IntBase = (2 * h) * Flag /\ 2 * h \in Nat /\ 2 * h > 0
  <2>1. Base = 2 * Flag
    BY Widths
  <2> QED
    BY <1>0, <1>2, <2>1
<1> DEFINE c == 2 * h
           s == (i \div Flag) % c
<1>4. x = s * Flag + m /\ s \in Nat
  <2> HIDE DEF c
  <2>1. c \in Nat /\ c > 0 /\ IntBase = c * Flag
    BY <1>3 DEF c
  <2>2. i \div Flag \in Int
    BY <1>0, DivMod
  <2>3. s \in 0..(c - 1)
    BY <2>1, <2>2, DivMod
  <2>4. s * Flag + m = i % (c * Flag)
    BY <1>0, <2>1, ModOfProduct
  <2> QED
    BY <2>1, <2>3, <2>4
<1> HIDE DEF c, s, x, m
<1>5. u = s
  BY <1>0, <1>1, <1>4, DivIs
<1>6. Flag * s = s * Flag /\ s * Flag \in Nat
  BY <1>0, <1>4
<1>7. s + s <= s * Flag
  <2>1. s * 2 <= s * Flag
    BY <1>0, <1>4, Mono
  <2> QED
    BY <1>4, <2>1
<1>8. u \in 0..(IntBase - 1)
  BY <1>0, <1>1, <1>4, <1>5, <1>6, <1>7
<1>9. ASSUME i >= Flag PROVE u < i
  <2>1. x <= i
    BY <1>0, <1>9, ModAtMost DEF x
  <2> QED
    BY <1>0, <1>1, <1>4, <1>5, <1>6, <1>7, <1>9, <2>1
<1> QED
  BY <1>1, <1>4, <1>5, <1>8, <1>9 DEF unsigned_shift, x, m

\* The shifted number is one without a sign, and smaller than a positive one.
LEMMA ShiftRange ==
  ASSUME NEW i \in Int
  PROVE  /\ unsigned_shift(i, IntBase) \in Nat /\ unsigned_shift(i, IntBase) < IntBase
         /\ i >= Flag => unsigned_shift(i, IntBase) < i
<1>1. IntBase \in Nat
  BY Bases
<1>2. /\ unsigned_shift(i, IntBase) \in 0..(IntBase - 1)
      /\ i >= Flag => unsigned_shift(i, IntBase) < i
  BY ShiftIs
<1> QED
  BY <1>1, <1>2

\* The domain of write_vint.
Numbers == (-IntBase)..IntBase

\* The equation of write_vint.
VintOf(f, i) ==
  IF More(i) THEN <<(i % Flag) + Flag>> \o f[unsigned_shift(i, IntBase)] ELSE <<i>>

\* write_vint[] is what its definition says: the number gets smaller.
LEMMA VintEquation == \A i \in Numbers : write_vint[i] = VintOf(write_vint, i)
<1> DEFINE Good(g, m) == \A i \in 0..m : g[i] = VintOf(g, i)
           T == {m \in 0..IntBase : \E g : Good(g, m)}
<1>0. IntBase \in Nat /\ IntBase > 0 /\ Flag \in Nat /\ Flag > 1
  BY Widths, Bases
<1>1. 0 \in T
  <2> DEFINE g == [i \in 0..0 |-> <<i>>]
  <2>1. ~More(0)
    BY <1>0 DEF More
  <2>2. Good(g, 0)
    BY <2>1 DEF VintOf
  <2> HIDE DEF g, Good
  <2> QED
    BY <1>0, <2>2
<1>2. ASSUME NEW i \in Nat, More(i)
      PROVE  unsigned_shift(i, IntBase) \in 0..(i - 1)
  <2>1. i >= Flag
    BY <1>0, <1>2 DEF More
  <2> QED
    BY <1>0, <2>1, ShiftRange
<1>3. ASSUME NEW m \in 1..IntBase, m - 1 \in T PROVE m \in T
  <2>1. PICK g : Good(g, m - 1)
    BY <1>3
  <2> DEFINE h == [i \in 0..m |-> IF i = m THEN VintOf(g, m) ELSE g[i]]
  <2>2. ASSUME NEW i \in 0..m PROVE VintOf(h, i) = VintOf(g, i)
    <3>1. ASSUME More(i) PROVE h[unsigned_shift(i, IntBase)] = g[unsigned_shift(i, IntBase)]
      <4>1. unsigned_shift(i, IntBase) \in 0..(i - 1)
        BY <1>2, <3>1
      <4> HIDE DEF Good
      <4> QED
        BY <4>1
    <3> HIDE DEF h, Good
    <3> QED
      BY <3>1 DEF VintOf
  <2>3. ASSUME NEW i \in 0..m PROVE h[i] = VintOf(g, i)
    <3>1. CASE i = m
      BY <3>1
    <3>2. CASE i # m
      BY <2>1, <3>2
    <3> QED
      BY <3>1, <3>2
  <2> HIDE DEF h
  <2>4. Good(h, m)
    BY <2>2, <2>3
  <2> HIDE DEF Good
  <2> QED
    BY <2>4
<1>4. IntBase \in T
  <2>1. \A m \in 1..IntBase : m - 1 \in T => m \in T
    BY <1>3
  <2> HIDE DEF T
  <2>2. 0..IntBase \subseteq T
    BY <1>0, <1>1, <2>1, Induction
  <2> QED
    BY <1>0, <2>2
<1>5. PICK g : Good(g, IntBase)
  BY <1>4
<1> DEFINE h == [i \in Numbers |-> IF i >= 0 THEN g[i] ELSE VintOf(g, i)]
           Fcn(f) == [i \in Numbers |-> VintOf(f, i)]
<1>6. ASSUME NEW i \in Numbers PROVE VintOf(h, i) = VintOf(g, i)
  <2>1. unsigned_shift(i, IntBase) \in Numbers /\ unsigned_shift(i, IntBase) >= 0
    BY <1>0, ShiftRange DEF Numbers
  <2>2. h[unsigned_shift(i, IntBase)] = g[unsigned_shift(i, IntBase)]
    BY <2>1
  <2> HIDE DEF h
  <2> QED
    BY <2>2 DEF VintOf
<1>7. ASSUME NEW i \in Numbers PROVE h[i] = VintOf(g, i)
  <2>1. CASE i >= 0
    BY <1>0, <1>5, <2>1 DEF Numbers
  <2>2. CASE ~(i >= 0)
    BY <2>2
  <2> QED
    BY <2>1, <2>2
<1>8. h = Fcn(h)
  <2>1. h = [i \in Numbers |-> h[i]]
    OBVIOUS
  <2> HIDE DEF h
  <2> QED
    BY <1>6, <1>7, <2>1
<1>9. write_vint = CHOOSE f : f = Fcn(f)
  BY DEF write_vint, VintOf, Numbers
<1>10. write_vint = Fcn(write_vint)
  <2> HIDE DEF Fcn, h
  <2> QED
    BY <1>8, <1>9
<1> QED
  BY <1>10

\* The values of a byte.
Bytes == 0..(Base - 1)

\* The groups of a number are bytes, and there is one.
LEMMA VintIs ==
  ASSUME NEW i \in Numbers
  PROVE  write_vint[i] \in Seq(Bytes) /\ Len(write_vint[i]) > 0
<1> DEFINE Good(j) == write_vint[j] \in Seq(Bytes) /\ Len(write_vint[j]) > 0
           T == {j \in Nat : j <= IntBase => Good(j)}
<1>0. IntBase \in Nat /\ Flag \in Nat /\ Flag > 1 /\ Base = 2 * Flag /\ Base \in Nat
  BY Widths, Bases
<1>1. ASSUME NEW j \in Numbers, ~More(j) PROVE Good(j)
  <2>1. write_vint[j] = <<j>>
    BY <1>1, VintEquation DEF VintOf
  <2>2. j \in Bytes
    BY <1>0, <1>1 DEF More, Bytes
  <2> QED
    BY <2>1, <2>2
<1>2. ASSUME NEW j \in Numbers, More(j), Good(unsigned_shift(j, IntBase)) PROVE Good(j)
  <2> DEFINE e == write_vint[unsigned_shift(j, IntBase)]
             b == (j % Flag) + Flag
  <2>1. write_vint[j] = <<b>> \o e
    BY <1>2, VintEquation DEF VintOf
  <2>2. j \in Int
    BY <1>0 DEF Numbers
  <2>3. j % Flag \in 0..(Flag - 1)
    BY <1>0, <2>2, DivMod
  <2>4. b \in Bytes
    BY <1>0, <2>3 DEF Bytes
  <2>5. e \in Seq(Bytes) /\ Len(e) \in Nat
    BY <1>2
  <2> HIDE DEF e, b
  <2>6. <<b>> \o e \in Seq(Bytes) /\ Len(<<b>> \o e) = 1 + Len(e)
    BY <2>4, <2>5
  <2> QED
    BY <2>1, <2>5, <2>6
<1>3. ASSUME NEW j \in Nat, \A k \in 0..(j - 1) : k \in T PROVE j \in T
  <2>1. CASE j <= IntBase /\ More(j)
    <3>1. j \in Numbers /\ j \in Int /\ j >= Flag
      BY <1>0, <2>1 DEF Numbers, More
    <3>a. /\ unsigned_shift(j, IntBase) \in Nat /\ unsigned_shift(j, IntBase) < IntBase
          /\ unsigned_shift(j, IntBase) < j
      BY <3>1, ShiftRange
    <3>2. unsigned_shift(j, IntBase) \in 0..(j - 1) /\ unsigned_shift(j, IntBase) <= IntBase
      BY <1>0, <3>1, <3>a
    <3>3. Good(unsigned_shift(j, IntBase))
      BY <1>3, <3>2
    <3> HIDE DEF Good
    <3> QED
      BY <1>2, <2>1, <3>1, <3>3
  <2>2. CASE j <= IntBase /\ ~More(j)
    <3>1. j \in Numbers
      BY <1>0, <2>2 DEF Numbers
    <3> HIDE DEF Good
    <3> QED
      BY <1>1, <2>2, <3>1
  <2> HIDE DEF Good
  <2> QED
    BY <2>1, <2>2
<1> HIDE DEF Good
<1>4. Nat \subseteq T
  <2>1. \A j \in Nat : (\A k \in 0..(j - 1) : k \in T) => j \in T
    BY <1>3
  <2> HIDE DEF T
  <2> QED
    BY <2>1, StrongInduction
<1>5. i \in Int
  BY <1>0 DEF Numbers
<1>6. Good(unsigned_shift(i, IntBase))
  <2>1. unsigned_shift(i, IntBase) \in Nat /\ unsigned_shift(i, IntBase) <= IntBase
    BY <1>0, <1>5, ShiftRange
  <2> QED
    BY <1>4, <2>1
<1>7. Good(i)
  BY <1>1, <1>2, <1>6
<1> QED
  BY <1>7 DEF Good

\* The equation of Groups.
GroupsOf(g, p) ==
  IF p < Len(copied) /\ copied[p + 1] >= Flag
  THEN At(g[p + 1].v * Flag + (copied[p + 1] % Flag), g[p + 1].next)
  ELSE At(copied[p + 1], p + 1)

\* Groups[] is what its definition says: the file ends.
LEMMA GroupsEquation ==
  ASSUME Len(copied) \in Nat
  PROVE  \A p \in 0..Len(copied) : Groups[p] = GroupsOf(Groups, p)
<1> DEFINE L == Len(copied)
           Good(g, m) == \A p \in (L - m)..L : g[p] = GroupsOf(g, p)
           T == {m \in 0..L : \E g : Good(g, m)}
<1>0. L \in Nat
  OBVIOUS
<1>1. 0 \in T
  <2> DEFINE g == [p \in L..L |-> At(copied[p + 1], p + 1)]
  <2>1. Good(g, 0)
    BY <1>0 DEF GroupsOf
  <2> HIDE DEF g, Good
  <2> QED
    BY <1>0, <2>1
<1>2. ASSUME NEW m \in 1..L, m - 1 \in T PROVE m \in T
  <2>1. PICK g : Good(g, m - 1)
    BY <1>2
  <2> DEFINE h == [p \in (L - m)..L |-> IF p = L - m THEN GroupsOf(g, p) ELSE g[p]]
  <2>2. ASSUME NEW p \in (L - m)..L PROVE GroupsOf(h, p) = GroupsOf(g, p)
    <3>1. ASSUME p < L PROVE h[p + 1] = g[p + 1]
      <4>1. p + 1 \in (L - m)..L /\ p + 1 # L - m
        BY <1>0, <3>1
      <4> HIDE DEF Good, L
      <4> QED
        BY <4>1
    <3> HIDE DEF h, Good
    <3> QED
      BY <3>1 DEF GroupsOf
  <2>3. ASSUME NEW p \in (L - m)..L PROVE h[p] = GroupsOf(g, p)
    <3>1. CASE p = L - m
      BY <3>1
    <3>2. CASE p # L - m
      <4>1. p \in (L - (m - 1))..L
        BY <1>0, <3>2
      <4> HIDE DEF L
      <4> QED
        BY <2>1, <3>2, <4>1
    <3> QED
      BY <3>1, <3>2
  <2> HIDE DEF h
  <2>4. Good(h, m)
    BY <2>2, <2>3
  <2> HIDE DEF Good
  <2> QED
    BY <2>4
<1>3. L \in T
  <2>1. \A m \in 1..L : m - 1 \in T => m \in T
    BY <1>2
  <2> HIDE DEF T
  <2>2. 0..L \subseteq T
    BY <1>0, <1>1, <2>1, Induction
  <2> QED
    BY <1>0, <2>2
<1>4. PICK g : Good(g, L)
  BY <1>3
<1> DEFINE h == [p \in 0..L |-> g[p]]
           Fcn(f) == [p \in 0..L |-> GroupsOf(f, p)]
<1>5. ASSUME NEW p \in 0..L PROVE GroupsOf(h, p) = GroupsOf(g, p)
  <2>1. ASSUME p < L PROVE h[p + 1] = g[p + 1]
    <3>1. p + 1 \in 0..L
      BY <1>0, <2>1
    <3> HIDE DEF L
    <3> QED
      BY <3>1
  <2> HIDE DEF h
  <2> QED
    BY <2>1 DEF GroupsOf
<1>6. ASSUME NEW p \in 0..L PROVE h[p] = GroupsOf(g, p)
  <2>1. p \in (L - L)..L
    BY <1>0
  <2> QED
    BY <1>4, <2>1
<1>7. h = Fcn(h)
  <2>1. h = [p \in 0..L |-> h[p]]
    OBVIOUS
  <2> HIDE DEF h
  <2> QED
    BY <1>5, <1>6, <2>1
<1>8. Groups = CHOOSE f : f = Fcn(f)
  BY DEF Groups, GroupsOf
<1>9. Groups = Fcn(Groups)
  <2> HIDE DEF Fcn, h
  <2> QED
    BY <1>7, <1>8
<1> QED
  BY <1>9

\* What the groups of a number make, wherever they are: first, one group in
\* front of others.
ReadsAs(i) ==
  \A p \in Nat : Has(copied, p, write_vint[i]) =>
    Groups[p] = At(i % IntBase, p + Len(write_vint[i]))

\* A group without the flag.
LEMMA LastGroup ==
  ASSUME copied \in Seq(Bytes), NEW i \in Numbers, ~More(i) PROVE ReadsAs(i)
<1>0. /\ IntBase \in Nat /\ IntBase > 0 /\ Flag \in Nat /\ Flag > 1 /\ Base = 2 * Flag
      /\ Len(copied) \in Nat
  BY Widths, Bases
<1>1. Len(write_vint[i]) = 1 /\ write_vint[i][1] = i
  <2>1. write_vint[i] = <<i>>
    BY VintEquation DEF VintOf
  <2> QED
    BY <2>1
<1>2. i \in 0..(Flag - 1)
  BY <1>0 DEF More
<1>3. i % IntBase = i
  <2>1. PICK h \in Nat : h > 0 /\ IntBase = h * Base
    BY Bases
  <2>2. Base * 1 <= Base * h
    BY <1>0, <2>1, Mono
  <2>3. Base * h = h * Base /\ Base * 1 = Base /\ h * Base \in Nat
    BY <1>0, <2>1
  <2>4. i \in 0..(IntBase - 1) /\ i = 0 * IntBase + i /\ 0 \in Int /\ i \in Int
    BY <1>0, <1>2, <2>1, <2>2, <2>3
  <2> QED
    BY <1>0, <2>4, DivIs
<1>4. ASSUME NEW p \in Nat, Has(copied, p, write_vint[i])
      PROVE  Groups[p] = At(i % IntBase, p + Len(write_vint[i]))
  <2>1. p + 1 <= Len(copied) /\ copied[p + 1] = i
    BY <1>1, <1>4 DEF Has
  <2>2. Groups[p] = GroupsOf(Groups, p)
    BY <1>0, <2>1, GroupsEquation
  <2>3. ~(copied[p + 1] >= Flag)
    BY <1>0, <1>2, <2>1
  <2> QED
    BY <1>1, <1>3, <2>1, <2>2, <2>3 DEF GroupsOf
<1> QED
  BY <1>4 DEF ReadsAs

\* A group with the flag, in front of those of the shifted number.
LEMMA NextGroup ==
  ASSUME copied \in Seq(Bytes), NEW i \in Numbers, More(i), ReadsAs(unsigned_shift(i, IntBase))
  PROVE  ReadsAs(i)
<1> DEFINE u == unsigned_shift(i, IntBase)
           m == i % Flag
           e == write_vint[u]
<1>0. /\ IntBase \in Nat /\ IntBase > 0 /\ Flag \in Nat /\ Flag > 0 /\ Flag > 1 /\ Base = 2 * Flag
      /\ Base \in Nat /\ Len(copied) \in Nat /\ i \in Int
  BY Widths, Bases DEF Numbers
<1>1. u \in Nat /\ u < IntBase /\ u \in Numbers
  <2>1. u \in Nat /\ u < IntBase
    BY <1>0, ShiftRange
  <2> HIDE DEF u
  <2> QED
    BY <1>0, <2>1 DEF Numbers
<1>2. m \in 0..(Flag - 1) /\ i % IntBase = u * Flag + m
  BY <1>0, ShiftIs
<1>3. e \in Seq(Bytes) /\ Len(e) \in Nat
  BY <1>1, VintIs
<1>4. write_vint[i] = <<m + Flag>> \o e
  BY VintEquation DEF VintOf
<1>5. u % IntBase = u
  <2>1. u \in 0..(IntBase - 1) /\ u = 0 * IntBase + u /\ 0 \in Int /\ u \in Int
    BY <1>0, <1>1
  <2> HIDE DEF u
  <2> QED
    BY <1>0, <2>1, DivIs
<1>6. ReadsAs(u)
  OBVIOUS
<1> HIDE DEF u, m, e
<1>7. (m + Flag) % Flag = m
  <2>1. m + Flag = 1 * Flag + m /\ m + Flag \in Int /\ 1 \in Int
    BY <1>0, <1>2
  <2> QED
    BY <1>0, <1>2, <2>1, DivIs
<1>8. m + Flag \in Bytes /\ m + Flag >= Flag
  BY <1>0, <1>2 DEF Bytes
<1>9. ASSUME NEW p \in Nat, Has(copied, p, write_vint[i])
      PROVE  Groups[p] = At(i % IntBase, p + Len(write_vint[i]))
  <2> DEFINE b == <<m + Flag>>
  <2>1. b \in Seq(Bytes) /\ Len(b) = 1 /\ b[1] = m + Flag
    BY <1>8
  <2>2. Len(write_vint[i]) = 1 + Len(e)
    BY <1>3, <1>4, <2>1
  <2>3. Has(copied, p, b) /\ Has(copied, p + Len(b), e)
    <3> HIDE DEF b
    <3> QED
      BY <1>3, <1>4, <1>9, <2>1, HasConcat DEF b
  <2>4. p + 1 <= Len(copied) /\ copied[p + 1] = m + Flag
    BY <2>1, <2>3 DEF Has
  <2>5. Groups[p + 1] = At(u, p + 1 + Len(e))
    <3>1. p + Len(b) = p + 1 /\ p + 1 \in Nat
      BY <2>1
    <3>2. Has(copied, p + 1, e)
      BY <2>3, <3>1
    <3> QED
      BY <1>5, <1>6, <3>1, <3>2 DEF ReadsAs, e
  <2>6. Groups[p] = GroupsOf(Groups, p)
    BY <1>0, <2>4, GroupsEquation
  <2>7. GroupsOf(Groups, p) =
          At(Groups[p + 1].v * Flag + (copied[p + 1] % Flag), Groups[p + 1].next)
    BY <1>0, <1>8, <2>4 DEF GroupsOf
  <2>8. Groups[p + 1].v = u /\ Groups[p + 1].next = p + 1 + Len(e)
    BY <2>5 DEF At
  <2>9. p + 1 + Len(e) = p + Len(write_vint[i])
    BY <1>3, <2>2
  <2> QED
    BY <1>2, <1>7, <2>4, <2>6, <2>7, <2>8, <2>9
<1> QED
  BY <1>9 DEF ReadsAs

\* All of them.
LEMMA ReadsGroups == ASSUME copied \in Seq(Bytes), NEW i \in Numbers PROVE ReadsAs(i)
<1> DEFINE T == {j \in Nat : j <= IntBase => ReadsAs(j)}
<1>0. IntBase \in Nat /\ Flag \in Nat /\ Flag > 1
  BY Widths, Bases
<1>1. ASSUME NEW j \in Nat, \A k \in 0..(j - 1) : k \in T PROVE j \in T
  <2>1. CASE j <= IntBase /\ More(j)
    <3>1. j \in Numbers /\ j \in Int /\ j >= Flag
      BY <1>0, <2>1 DEF Numbers, More
    <3>a. /\ unsigned_shift(j, IntBase) \in Nat /\ unsigned_shift(j, IntBase) < IntBase
          /\ unsigned_shift(j, IntBase) < j
      BY <3>1, ShiftRange
    <3>2. unsigned_shift(j, IntBase) \in 0..(j - 1) /\ unsigned_shift(j, IntBase) <= IntBase
      BY <1>0, <3>1, <3>a
    <3>3. ReadsAs(unsigned_shift(j, IntBase))
      BY <1>1, <3>2
    <3> QED
      BY <2>1, <3>1, <3>3, NextGroup
  <2>2. CASE j <= IntBase /\ ~More(j)
    <3>1. j \in Numbers
      BY <1>0, <2>2 DEF Numbers
    <3> QED
      BY <2>2, <3>1, LastGroup
  <2> QED
    BY <2>1, <2>2
<1>2. Nat \subseteq T
  <2>1. \A j \in Nat : (\A k \in 0..(j - 1) : k \in T) => j \in T
    BY <1>1
  <2> HIDE DEF T
  <2> QED
    BY <2>1, StrongInduction
<1>3. ReadsAs(unsigned_shift(i, IntBase))
  <2>1. i \in Int
    BY <1>0 DEF Numbers
  <2>2. unsigned_shift(i, IntBase) \in Nat /\ unsigned_shift(i, IntBase) <= IntBase
    BY <1>0, <2>1, ShiftRange
  <2> QED
    BY <1>2, <2>2
<1> QED
  BY <1>3, LastGroup, NextGroup

\* An int is a number that write_vint() is defined for.
LEMMA FitsIsNumber == ASSUME NEW i, Fits(i, IntBase) PROVE i \in Numbers
<1>1. IntBase \in Nat /\ IntBase > 0 /\ i \in Int /\ Signed(i % IntBase, IntBase) = i
  BY Bases DEF Fits
<1>2. i % IntBase \in 0..(IntBase - 1)
  BY <1>1, DivMod
<1> DEFINE n == i % IntBase
<1> HIDE DEF n
<1>3. n \in 0..(IntBase - 1) /\ Signed(n, IntBase) = i
  BY <1>1, <1>2 DEF n
<1> QED
  BY <1>1, <1>3 DEF Signed, Numbers

\* What read_vint() makes of the groups of an int.
LEMMA ReadsVint ==
  ASSUME copied \in Seq(Bytes), NEW i, Fits(i, IntBase), NEW p \in Nat,
         Has(copied, p, write_vint[i])
  PROVE  read_vint(p) = At(i, p + Len(write_vint[i]))
<1>1. /\ i \in Numbers /\ i \in Int /\ Signed(i % IntBase, IntBase) = i
      /\ IntBase \in Nat /\ IntBase > 0
  BY Bases, FitsIsNumber DEF Fits
<1>2. Groups[p] = At(i % IntBase, p + Len(write_vint[i]))
  BY <1>1, ReadsGroups DEF ReadsAs
<1>3. Groups[p].v = i % IntBase /\ Groups[p].next = p + Len(write_vint[i])
  BY <1>2 DEF At
<1>4. (i % IntBase) % IntBase = i % IntBase
  <2> DEFINE x == i % IntBase
  <2>1. x \in 0..(IntBase - 1)
    BY <1>1, DivMod
  <2> HIDE DEF x
  <2>2. x = 0 * IntBase + x /\ x \in Int /\ 0 \in Int
    BY <1>1, <2>1
  <2>3. x % IntBase = x
    BY <1>1, <2>1, <2>2, DivIs
  <2> QED
    BY <2>3 DEF x
<1> QED
  BY <1>1, <1>3, <1>4 DEF read_vint

\* write_vlong() writes one group, or does not end.
LEMMA ReadsVlong ==
  ASSUME copied \in Seq(Bytes), NEW i \in 0..(Flag - 1), Fits(i, LongBase), NEW p \in Nat,
         Has(copied, p, <<i>>)
  PROVE  read_vlong(p) = At(i, p + 1)
<1>0. /\ Flag \in Nat /\ LongBase \in Nat /\ LongBase > 0 /\ i \in Int
      /\ Signed(i % LongBase, LongBase) = i /\ Len(copied) \in Nat
  BY Widths, Bases DEF Fits
<1>1. p + 1 <= Len(copied) /\ copied[p + 1] = i
  BY DEF Has
<1>2. Groups[p] = GroupsOf(Groups, p)
  BY <1>0, <1>1, GroupsEquation
<1>3. Groups[p] = At(i, p + 1)
  BY <1>0, <1>1, <1>2 DEF GroupsOf
<1>4. Groups[p].v = i /\ Groups[p].next = p + 1
  BY <1>3 DEF At
<1> QED
  BY <1>0, <1>4 DEF read_vlong

-----------------------------------------------------------------------------
(* A long *)

\* The sign bit does not change what a number without a sign is.
LEMMA SignedMod ==
  ASSUME NEW n \in Nat, n > 0, NEW x \in 0..(n - 1) PROVE Signed(x, n) % n = x
<1>1. CASE 2 * x < n
  <2>1. Signed(x, n) = x
    BY <1>1 DEF Signed
  <2>2. x = 0 * n + x /\ 0 \in Int /\ x \in Int
    OBVIOUS
  <2> QED
    BY <2>1, <2>2, DivIs
<1>2. CASE ~(2 * x < n)
  <2>1. Signed(x, n) = x - n
    BY <1>2 DEF Signed
  <2>2. x - n = (-1) * n + x /\ -1 \in Int /\ x - n \in Int
    OBVIOUS
  <2> QED
    BY <2>1, <2>2, DivIs
<1> QED
  BY <1>1, <1>2

\* The high half of a long is an int.
LEMMA HighHalf ==
  ASSUME NEW i, Fits(i, LongBase) PROVE Fits(i \div IntBase, IntBase)
<1> DEFINE b == IntBase
           l == i % b
           x == i % LongBase
           H == i \div b
           y == H % b
<1>0. b \in Nat /\ b > 0 /\ LongBase = b * b /\ LongBase \in Nat /\ LongBase > 0 /\ i \in Int
      /\ Signed(x, LongBase) = i
  BY Bases DEF LongBase, Fits
<1>1. PICK g \in Nat : b = 2 * g
  <2>1. PICK h \in Nat : h > 0 /\ IntBase = h * Base
    BY Bases
  <2>2. Base = 2 * Flag /\ Flag \in Nat
    BY Widths
  <2>3. h * Flag \in Nat /\ b = 2 * (h * Flag)
    BY <2>1, <2>2
  <2> QED
    BY <2>3
<1> HIDE DEF b
<1>2. l \in 0..(b - 1) /\ H \in Int /\ i = H * b + l
  BY <1>0, DivMod
<1> HIDE DEF H
<1>3. y \in 0..(b - 1)
  BY <1>0, <1>2, DivMod
<1>4. x = y * b + l
  BY <1>0, ModOfProduct DEF H
<1> HIDE DEF l, x, y
<1>5. b * y = y * b /\ b * g = g * b /\ b * b = 2 * (b * g) /\ b * y \in Nat /\ b * g \in Nat
  BY <1>0, <1>1, <1>3
<1>6. CASE 2 * x < LongBase
  <2>1. i = y * b + l
    BY <1>0, <1>4, <1>6 DEF Signed
  <2>2. H = y
    BY <1>0, <1>2, <1>3, <2>1, DivIs DEF H
  <2>3. ~(g <= y)
    <3>1. g <= y => b * g <= b * y
      BY <1>0, <1>1, <1>3, Mono
    <3> QED
      BY <1>0, <1>2, <1>4, <1>5, <1>6, <3>1
  <2>4. 2 * y < b
    BY <1>1, <1>3, <2>3
  <2>5. Signed(y, b) = y
    BY <2>4 DEF Signed
  <2> QED
    BY <1>2, <2>2, <2>5 DEF Fits, y, H, b
<1>7. CASE ~(2 * x < LongBase)
  <2>1. i = (y - b) * b + l
    <3>1. i = x - b * b
      BY <1>0, <1>7 DEF Signed
    <3>2. (y - b) * b = y * b - b * b
      BY <1>0, <1>3
    <3> QED
      BY <1>0, <1>2, <1>3, <1>4, <1>5, <3>1, <3>2
  <2>2. H = y - b
    <3> DEFINE z == y - b
    <3>1. z \in Int /\ i = z * b + l
      BY <1>0, <1>3, <2>1
    <3> HIDE DEF z
    <3>2. i \div b = z
      BY <1>0, <1>2, <3>1, DivIs
    <3> QED
      BY <3>2 DEF z, H
  <2>3. ~(y + 1 <= g)
    <3>1. y + 1 <= g => b * (y + 1) <= b * g
      BY <1>0, <1>1, <1>3, Mono
    <3>2. b * (y + 1) = b * y + b
      BY <1>0, <1>3
    <3> QED
      BY <1>0, <1>2, <1>4, <1>5, <1>7, <3>1, <3>2
  <2>4. ~(2 * y < b)
    BY <1>1, <1>3, <2>3
  <2>5. Signed(y, b) = y - b
    BY <2>4 DEF Signed
  <2> QED
    BY <1>2, <2>2, <2>5 DEF Fits, y, H, b
<1> QED
  BY <1>6, <1>7

\* A long is two ints.
LEMMA LongIs ==
  ASSUME NEW i \in Int
  PROVE  /\ write_int(i \div IntBase) \in Seq(Bytes) /\ write_int(i) \in Seq(Bytes)
         /\ write_long(i) \in Seq(Bytes) /\ Len(write_long(i)) = IntBytes + IntBytes
<1>1. i \div IntBase \in Int
  BY Bases, DivMod
<1>2. /\ write_int(i \div IntBase) \in Seq(Bytes) /\ write_int(i) \in Seq(Bytes)
      /\ Len(write_int(i \div IntBase)) = IntBytes /\ Len(write_int(i)) = IntBytes
  BY <1>1, IntIs DEF Bytes
<1> QED
  BY <1>2 DEF write_long

\* What read_long() makes of the two ints of a long.
LEMMA ReadsLong ==
  ASSUME copied \in Seq(Bytes), NEW i, Fits(i, LongBase), NEW p \in Nat,
         Has(copied, p, write_long(i))
  PROVE  read_long(p) = At(i, p + Len(write_long(i)))
<1> DEFINE H == i \div IntBase
           l == i % IntBase
<1>0. /\ IntBase \in Nat /\ IntBase > 0 /\ IntBytes \in Nat /\ i \in Int /\ H \in Int
      /\ p + IntBytes \in Nat
  BY Widths, Bases, DivMod DEF Fits
<1>1. /\ write_int(H) \in Seq(Bytes) /\ write_int(i) \in Seq(Bytes)
      /\ Len(write_int(H)) = IntBytes /\ Len(write_long(i)) = IntBytes + IntBytes
  BY <1>0, IntIs, LongIs DEF Bytes
<1>2. Has(copied, p, write_int(H)) /\ Has(copied, p + IntBytes, write_int(i))
  <2>1. write_long(i) = write_int(H) \o write_int(i)
    BY DEF write_long
  <2> HIDE DEF H
  <2> QED
    BY <1>1, <2>1, HasConcat
<1>3. Signed(H % IntBase, IntBase) = H
  BY HighHalf DEF Fits
<1>4. read_int(p) = At(H, p + IntBytes)
  <2> HIDE DEF H
  <2> QED
    BY <1>0, <1>2, <1>3, ReadsInt
<1>5. read_int(p + IntBytes) = At(Signed(l, IntBase), p + IntBytes + IntBytes)
  BY <1>0, <1>2, ReadsInt
<1>6. l \in 0..(IntBase - 1) /\ i = H * IntBase + l
  BY <1>0, DivMod
<1>7. Signed(l, IntBase) % IntBase = l
  <2> HIDE DEF l
  <2> QED
    BY <1>0, <1>6, SignedMod
<1> HIDE DEF H, l
<1>8. /\ read_int(p).v = H /\ read_int(p).next = p + IntBytes
      /\ read_int(p + IntBytes).v = Signed(l, IntBase)
      /\ read_int(p + IntBytes).next = p + IntBytes + IntBytes
  BY <1>4, <1>5 DEF At
<1>9. read_long(p) = At(H * IntBase + l, p + IntBytes + IntBytes)
  BY <1>7, <1>8 DEF read_long
<1> QED
  BY <1>0, <1>1, <1>6, <1>9

-----------------------------------------------------------------------------
(* Strings *)

\* A string is its length, and its bytes.
LEMMA StringIs ==
  ASSUME NEW s, IsString(s)
  PROVE  /\ s \in Seq(Bytes) /\ Len(s) \in Nat /\ Len(s) \in Numbers
         /\ write_vint[Len(s)] \in Seq(Bytes) /\ write_string(s) \in Seq(Bytes)
         /\ Len(write_string(s)) = Len(write_vint[Len(s)]) + Len(s)
<1>1. s \in Seq(Bytes) /\ Len(s) \in Nat /\ Fits(Len(s), IntBase)
  BY DEF IsString, Bytes
<1>2. Len(s) \in Numbers
  BY <1>1, FitsIsNumber
<1>3. write_vint[Len(s)] \in Seq(Bytes)
  BY <1>2, VintIs
<1> DEFINE e == write_vint[Len(s)]
<1>4. e \in Seq(Bytes)
  BY <1>3
<1> HIDE DEF e
<1>5. e \o s \in Seq(Bytes) /\ Len(e \o s) = Len(e) + Len(s)
  BY <1>1, <1>4
<1> QED
  BY <1>1, <1>2, <1>3, <1>5 DEF write_string, e

\* A part of a file that has the bytes e is e.
LEMMA SliceIs ==
  ASSUME NEW S, NEW s \in Seq(S), NEW p \in Nat, NEW e \in Seq(S), Has(s, p, e)
  PROVE  SubSeq(s, p + 1, p + Len(e)) = e
<1>1. Len(e) \in Nat /\ Len(s) \in Nat /\ p + Len(e) <= Len(s)
      /\ \A j \in 1..Len(e) : s[p + j] = e[j]
  BY DEF Has
<1> DEFINE m == p + 1
           n == p + Len(e)
           t == SubSeq(s, m, n)
<1>2. m \in Int /\ n \in Int /\ \A i \in m..n : s[i] \in S
  BY <1>1
<1>3. m + Len(e) = n + 1 /\ n - m + 1 = Len(e) /\ (~(m <= n) => Len(e) = 0)
  BY <1>1
<1>4. \A j \in 1..Len(e) : m + j - 1 = p + j
  BY <1>1
<1> HIDE DEF m, n
<1>5. /\ t \in Seq(S) /\ Len(t) = (IF m <= n THEN n - m + 1 ELSE 0)
      /\ \A j \in 1..(n - m + 1) : t[j] = s[m + j - 1]
  BY <1>2, SubSeqProperties
<1>6. Len(t) = Len(e)
  BY <1>3, <1>5
<1>7. \A j \in 1..Len(e) : t[j] = e[j]
  BY <1>1, <1>3, <1>4, <1>5
<1> HIDE DEF t
<1>8. t = e
  BY <1>5, <1>6, <1>7, SeqEqual
<1> QED
  BY <1>8 DEF t, m, n

\* What read_string() makes of the length of a string and its bytes.
LEMMA ReadsString ==
  ASSUME copied \in Seq(Bytes), NEW s, IsString(s), NEW p \in Nat,
         Has(copied, p, write_string(s))
  PROVE  read_string(p) = At(s, p + Len(write_string(s)))
<1> DEFINE e == write_vint[Len(s)]
<1>1. /\ s \in Seq(Bytes) /\ Len(s) \in Nat /\ e \in Seq(Bytes)
      /\ Len(write_string(s)) = Len(e) + Len(s) /\ Fits(Len(s), IntBase)
  BY StringIs DEF IsString
<1>2. Has(copied, p, e) /\ Has(copied, p + Len(e), s)
  <2>1. write_string(s) = e \o s
    BY DEF write_string
  <2> HIDE DEF e
  <2> QED
    BY <1>1, <2>1, HasConcat
<1>3. read_vint(p) = At(Len(s), p + Len(e))
  BY <1>1, <1>2, ReadsVint
<1> HIDE DEF e
<1>4. read_vint(p).v = Len(s) /\ read_vint(p).next = p + Len(e)
  BY <1>3 DEF At
<1>5. p + Len(e) \in Nat /\ p + Len(e) + Len(s) = p + (Len(e) + Len(s))
  BY <1>1
<1> DEFINE q == p + Len(e)
<1>6. SubSeq(copied, q + 1, q + Len(s)) = s
  <2>1. q \in Nat /\ Has(copied, q, s)
    BY <1>2, <1>5
  <2> HIDE DEF q
  <2> QED
    BY <1>1, <2>1, SliceIs
<1>7. read_string(p) = At(SubSeq(copied, q + 1, q + Len(s)), q + Len(s))
  BY <1>4 DEF read_string
<1> QED
  BY <1>1, <1>5, <1>6, <1>7

-----------------------------------------------------------------------------
(* Maps *)

\* An order of the keys has each of them once.
LEMMA OrderIs ==
  ASSUME NEW S, IsFiniteSet(S), NEW order \in SetToSeqs(S)
  PROVE  /\ Len(order) = Cardinality(S) /\ Len(order) \in Nat
         /\ \A k \in 1..Len(order) : order[k] \in S
         /\ \A key \in S : \E k \in 1..Len(order) : order[k] = key
<1> DEFINE n == Cardinality(S)
<1>1. n \in Nat
  BY FS_CardinalityType
<1>2. order \in [1..n -> S] /\ \A i, j \in 1..n : i # j => order[i] # order[j]
  BY DEF SetToSeqs
<1> HIDE DEF n
<1>3. Len(order) = n
  BY <1>1, <1>2, FunctionIsSeq
<1>4. order \in Injection(1..n, S)
  BY <1>2 DEF Injection, IsInjective
<1>5. Cardinality(1..n) = n
  <2>1. 1 \in Int /\ n \in Int
    BY <1>1
  <2>2. Cardinality(1..n) = IF 1 > n THEN 0 ELSE n - 1 + 1
    BY <2>1, FS_Interval
  <2> QED
    BY <1>1, <2>2
<1>6. order \in Surjection(1..n, S)
  BY <1>4, <1>5, FS_Injection DEF n
<1>7. \A key \in S : \E k \in 1..n : order[k] = key
  <2>1. \A f \in Surjection(1..n, S) : \A key \in S : \E k \in 1..n : f[k] = key
    BY Zenon DEF Surjection
  <2> QED
    BY <1>6, <2>1
<1> QED
  BY <1>1, <1>2, <1>3, <1>7 DEF n

\* What the entries of a map make, one more with each step.
EntriesOf(f, m, order) ==
  /\ f \in [0..Len(order) -> Seq(Bytes)]
  /\ f[0] = write_int(Len(order))
  /\ \A k \in 1..Len(order) :
       f[k] = f[k - 1] \o write_string(order[k]) \o write_string(m[order[k]])

\* What an order of the keys of a map says of them.
LEMMA MapIs ==
  ASSUME NEW m \in Maps, NEW order \in SetToSeqs(DOMAIN m)
  PROVE  /\ Len(order) = Cardinality(DOMAIN m) /\ Len(order) \in Nat
         /\ Fits(Len(order), IntBase)
         /\ \A k \in 1..Len(order) : /\ IsString(order[k]) /\ IsString(m[order[k]])
                                     /\ write_string(order[k]) \in Seq(Bytes)
                                     /\ write_string(m[order[k]]) \in Seq(Bytes)
         /\ DOMAIN m = {order[k] : k \in 1..Len(order)}
<1>1. /\ IsFiniteSet(DOMAIN m) /\ Fits(Cardinality(DOMAIN m), IntBase)
      /\ \A key \in DOMAIN m : IsString(key) /\ IsString(m[key])
  <2>1. IsFiniteSet(DOMAIN m) /\ Fits(Cardinality(DOMAIN m), IntBase)
    BY MapsAssumption
  <2>2. \A key \in DOMAIN m : IsString(key) /\ IsString(m[key])
    BY MapsAssumption, Zenon
  <2> QED
    BY <2>1, <2>2
<1>2. /\ Len(order) = Cardinality(DOMAIN m) /\ Len(order) \in Nat
      /\ \A k \in 1..Len(order) : order[k] \in DOMAIN m
      /\ DOMAIN m = {order[k] : k \in 1..Len(order)}
  <2> DEFINE D == DOMAIN m
  <2>1. IsFiniteSet(D) /\ order \in SetToSeqs(D)
    BY <1>1
  <2> HIDE DEF D
  <2>2. Len(order) = Cardinality(D) /\ Len(order) \in Nat
    BY <2>1, OrderIs
  <2>3. \A k \in 1..Len(order) : order[k] \in D
    BY <2>1, OrderIs
  <2>4. \A key \in D : \E k \in 1..Len(order) : order[k] = key
    BY <2>1, OrderIs
  <2>5. D = {order[k] : k \in 1..Len(order)}
    BY <2>3, <2>4
  <2> QED
    BY <2>2, <2>3, <2>5 DEF D
<1>3. \A k \in 1..Len(order) : IsString(order[k]) /\ IsString(m[order[k]])
  BY <1>1, <1>2
<1>4. \A k \in 1..Len(order) : /\ write_string(order[k]) \in Seq(Bytes)
                               /\ write_string(m[order[k]]) \in Seq(Bytes)
  BY <1>3, StringIs
<1> QED
  BY <1>1, <1>2, <1>3, <1>4

\* What write_string_string_map() writes is the last of these steps.
LEMMA MapBytes ==
  ASSUME NEW m \in Maps, NEW order \in SetToSeqs(DOMAIN m)
  PROVE  \E f : EntriesOf(f, m, order) /\ write_string_string_map(m, order) = f[Len(order)]
<1> DEFINE n == Len(order)
           S == Seq(Bytes)
           Plus(v, k) == v \o write_string(order[k]) \o write_string(m[order[k]])
           step == [k \in 1..n |-> [v \in S |-> Plus(v, k)]]
           start == write_int(n)
           Fcn(f) == [k \in 0..n |-> IF k = 0 THEN start ELSE Plus(f[k - 1], k)]
           f == CHOOSE f : f = Fcn(f)
<1>1. /\ n \in Nat /\ n \in Int /\ start \in S
      /\ \A k \in 1..n : write_string(order[k]) \in S /\ write_string(m[order[k]]) \in S
  <2>1. /\ n \in Nat
        /\ \A k \in 1..n : write_string(order[k]) \in S /\ write_string(m[order[k]]) \in S
    <3> HIDE DEF S
    <3> QED
      BY MapIs DEF S
  <2>2. start \in S
    BY <2>1, IntIs DEF Bytes
  <2> QED
    BY <2>1, <2>2
<1>2. ASSUME NEW k \in 1..n, NEW v \in S PROVE Plus(v, k) \in S
  <2> DEFINE a == write_string(order[k])
             b == write_string(m[order[k]])
  <2>1. a \in S /\ b \in S
    BY <1>1
  <2> HIDE DEF a, b
  <2>2. v \o a \o b \in S
    BY <2>1
  <2> QED
    BY <2>2 DEF a, b
<1> HIDE DEF Plus, start, S
<1>3. \A k \in 1..n : \A v \in S : step[k][v] = Plus(v, k) /\ step[k][v] \in S
  BY <1>2
<1> HIDE DEF step, n
<1>4. PICK g : Solves(g, S, n, start, step)
  <2>1. StepsIn(S, n, step)
    BY <1>3 DEF StepsIn
  <2> QED
    BY <1>1, <2>1, Recursion
<1>5. ASSUME NEW k \in 1..n PROVE g[k] = Plus(g[k - 1], k)
  <2>1. g[k - 1] \in S
    BY <1>1, <1>4 DEF Solves
  <2> QED
    BY <1>3, <1>4, <2>1 DEF Solves
<1>6. g = Fcn(g)
  <2>1. g = [k \in 0..n |-> g[k]] /\ g[0] = start
    BY <1>4 DEF Solves
  <2>2. \A k \in 0..n : g[k] = IF k = 0 THEN start ELSE Plus(g[k - 1], k)
    <3>1. \A k \in 0..n : k # 0 => k \in 1..n
      BY <1>1
    <3> QED
      BY <1>5, <2>1, <3>1
  <2> QED
    BY <2>1, <2>2
<1> HIDE DEF f
<1>7. f = Fcn(f)
  <2> HIDE DEF Fcn
  <2> QED
    BY <1>6 DEF f
<1>8. f[0] = start /\ \A k \in 1..n : f[k] = Plus(f[k - 1], k)
  BY <1>1, <1>7
<1> DEFINE T == {k \in 0..n : f[k] \in S}
<1>9. 0..n \subseteq T
  <2>1. 0 \in T
    BY <1>1, <1>8
  <2>2. ASSUME NEW k \in 1..n, k - 1 \in T PROVE k \in T
    BY <1>1, <1>2, <1>8, <2>2
  <2>3. \A k \in 1..n : k - 1 \in T => k \in T
    BY <2>2
  <2> HIDE DEF T
  <2> QED
    BY <1>1, <2>1, <2>3, Induction
<1>10. f \in [0..n -> S]
  <2>1. f = [k \in 0..n |-> f[k]]
    <3> DEFINE h == Fcn(f)
    <3>1. h = [k \in 0..n |-> h[k]]
      OBVIOUS
    <3> HIDE DEF h
    <3> QED
      BY <1>7, <3>1 DEF h
  <2> QED
    BY <1>9, <2>1
<1>11. EntriesOf(f, m, order)
  BY <1>8, <1>10 DEF EntriesOf, Plus, start, S, n
<1>12. write_string_string_map(m, order) = f[n]
  BY DEF write_string_string_map, f, Plus, start, n
<1> QED
  BY <1>11, <1>12 DEF n

\* The length of two sequences behind each other.
LEMMA LenConcat ==
  ASSUME NEW S, NEW s \in Seq(S), NEW t \in Seq(S)
  PROVE  s \o t \in Seq(S) /\ Len(s \o t) = Len(s) + Len(t)
OBVIOUS

\* An entry behind those before it.
LEMMA HasEntry ==
  ASSUME copied \in Seq(Bytes), NEW p \in Nat,
         NEW v \in Seq(Bytes), NEW a \in Seq(Bytes), NEW b \in Seq(Bytes),
         Has(copied, p, v \o a \o b)
  PROVE  /\ Has(copied, p, v) /\ Has(copied, p + Len(v), a)
         /\ Has(copied, p + Len(v) + Len(a), b)
         /\ p + Len(v \o a \o b) = p + Len(v) + Len(a) + Len(b)
<1> DEFINE va == v \o a
<1>1. va \in Seq(Bytes) /\ Len(va) = Len(v) + Len(a) /\ Len(v) \in Nat /\ Len(a) \in Nat
      /\ Len(b) \in Nat
  OBVIOUS
<1>2. Len(va \o b) = Len(va) + Len(b)
  <2> HIDE DEF va
  <2> QED
    BY <1>1, LenConcat
<1>3. Has(copied, p, va) /\ Has(copied, p + Len(va), b)
  <2> HIDE DEF va
  <2> QED
    BY <1>1, HasConcat DEF va
<1>4. Has(copied, p, v) /\ Has(copied, p + Len(v), a)
  BY <1>3, HasConcat
<1>5. p + Len(va) = p + Len(v) + Len(a)
  BY <1>1
<1>6. p + Len(va \o b) = p + Len(v) + Len(a) + Len(b)
  <2> HIDE DEF va
  <2> QED
    BY <1>1, <1>2
<1> QED
  BY <1>3, <1>4, <1>5, <1>6

\* The first entries of a map are where the map is.
LEMMA HasEntries ==
  ASSUME copied \in Seq(Bytes), NEW p \in Nat,
         NEW m \in Maps, NEW order \in SetToSeqs(DOMAIN m), NEW f, EntriesOf(f, m, order),
         Has(copied, p, f[Len(order)])
  PROVE  \A k \in 0..Len(order) : Has(copied, p, f[k])
<1> DEFINE n == Len(order)
           T == {j \in 0..n : Has(copied, p, f[n - j])}
<1>1. n \in Nat /\ \A k \in 1..n : /\ write_string(order[k]) \in Seq(Bytes)
                                   /\ write_string(m[order[k]]) \in Seq(Bytes)
  BY MapIs
<1>2. Has(copied, p, f[n])
  OBVIOUS
<1>3. /\ f \in [0..n -> Seq(Bytes)]
      /\ \A k \in 1..n : f[k] = f[k - 1] \o write_string(order[k]) \o write_string(m[order[k]])
  BY DEF EntriesOf
<1> HIDE DEF n
<1>4. 0 \in T
  <2>1. n - 0 = n /\ 0 \in 0..n
    BY <1>1
  <2> QED
    BY <1>2, <2>1
<1>5. ASSUME NEW j \in 1..n, j - 1 \in T PROVE j \in T
  <2> DEFINE k == n - (j - 1)
             v == f[k - 1]
             a == write_string(order[k])
             b == write_string(m[order[k]])
  <2>1. k \in 1..n /\ k - 1 \in 0..n /\ n - j = k - 1
    BY <1>1
  <2>2. Has(copied, p, f[k])
    BY <1>5
  <2> HIDE DEF k
  <2>3. f[k] = v \o a \o b /\ v \in Seq(Bytes) /\ a \in Seq(Bytes) /\ b \in Seq(Bytes)
    BY <1>1, <1>3, <2>1
  <2> HIDE DEF v, a, b
  <2>4. Has(copied, p, v)
    BY <2>2, <2>3, HasEntry
  <2> QED
    BY <2>1, <2>4 DEF v
<1>6. \A j \in 1..n : j - 1 \in T => j \in T
  BY <1>5
<1>7. 0..n \subseteq T
  <2> HIDE DEF T
  <2> QED
    BY <1>1, <1>4, <1>6, Induction
<1>8. ASSUME NEW k \in 0..n PROVE Has(copied, p, f[k])
  <2>1. n - k \in 0..n /\ n - (n - k) = k
    BY <1>1
  <2>2. Has(copied, p, f[n - (n - k)])
    BY <1>7, <2>1
  <2> QED
    BY <2>1, <2>2
<1> QED
  BY <1>8 DEF n

\* The map of the first keys of the order.
FirstOf(m, order, k) == [key \in {order[j] : j \in 1..k} |-> m[key]]

\* One key more.
LEMMA PutNext ==
  ASSUME NEW m, NEW order, NEW k \in Nat, k > 0
  PROVE  Put(FirstOf(m, order, k - 1), order[k], m[order[k]]) = FirstOf(m, order, k)
<1>1. {order[j] : j \in 1..(k - 1)} \cup {order[k]} = {order[j] : j \in 1..k}
  OBVIOUS
<1> DEFINE D == {order[j] : j \in 1..(k - 1)}
           E == {order[j] : j \in 1..k}
<1>2. D \cup {order[k]} = E
  BY <1>1
<1> HIDE DEF D, E
<1>3. Put([key \in D |-> m[key]], order[k], m[order[k]]) = [key \in E |-> m[key]]
  BY <1>2 DEF Put
<1> QED
  BY <1>3 DEF FirstOf, D, E

\* An entry of the reader, behind those before it.
EntryRead(e) ==
  LET key == read_string(e.next)
      val == read_string(key.next)
  IN  At(Put(e.v, key.v, val.v), val.next)

\* The reader gets from one step of the writer to the next.
LEMMA ReadsEntry ==
  ASSUME copied \in Seq(Bytes), NEW p \in Nat,
         NEW m \in Maps, NEW order \in SetToSeqs(DOMAIN m), NEW f, EntriesOf(f, m, order),
         Has(copied, p, f[Len(order)]), NEW k \in 1..Len(order)
  PROVE  EntryRead(At(FirstOf(m, order, k - 1), p + Len(f[k - 1]))) =
           At(FirstOf(m, order, k), p + Len(f[k]))
<1> DEFINE n == Len(order)
           v == f[k - 1]
           a == write_string(order[k])
           b == write_string(m[order[k]])
<1>1. /\ n \in Nat /\ IsString(order[k]) /\ IsString(m[order[k]])
      /\ a \in Seq(Bytes) /\ b \in Seq(Bytes)
  BY MapIs
<1>2. k - 1 \in 0..n /\ k \in 0..n /\ k \in Nat /\ k > 0
  BY <1>1
<1>3. v \in Seq(Bytes) /\ f[k] = v \o a \o b
  BY <1>2 DEF EntriesOf
<1>4. Has(copied, p, f[k])
  BY <1>2, HasEntries
<1> HIDE DEF n, v, a, b
<1>5. /\ Has(copied, p + Len(v), a) /\ Has(copied, p + Len(v) + Len(a), b)
      /\ p + Len(f[k]) = p + Len(v) + Len(a) + Len(b)
  BY <1>1, <1>3, <1>4, HasEntry
<1>6. p + Len(v) \in Nat /\ p + Len(v) + Len(a) \in Nat
  BY <1>1, <1>3
<1>7. read_string(p + Len(v)) = At(order[k], p + Len(v) + Len(a))
  BY <1>1, <1>5, <1>6, ReadsString DEF a
<1>8. read_string(p + Len(v) + Len(a)) = At(m[order[k]], p + Len(f[k]))
  BY <1>1, <1>5, <1>6, ReadsString DEF b
<1> DEFINE e == At(FirstOf(m, order, k - 1), p + Len(v))
<1>9. e.next = p + Len(v) /\ e.v = FirstOf(m, order, k - 1)
  BY DEF At
<1>10. read_string(e.next).v = order[k] /\ read_string(e.next).next = p + Len(v) + Len(a)
  BY <1>7, <1>9 DEF At
<1>11. /\ read_string(p + Len(v) + Len(a)).v = m[order[k]]
       /\ read_string(p + Len(v) + Len(a)).next = p + Len(f[k])
  BY <1>8 DEF At
<1>12. Put(FirstOf(m, order, k - 1), order[k], m[order[k]]) = FirstOf(m, order, k)
  BY <1>2, PutNext
<1> HIDE DEF e
<1>13. EntryRead(e) = At(Put(e.v, order[k], m[order[k]]), p + Len(f[k]))
  BY <1>10, <1>11 DEF EntryRead
<1> QED
  BY <1>9, <1>12, <1>13 DEF e, v

\* What read_string_string_map() makes of the count and the entries.
LEMMA ReadsMap ==
  ASSUME copied \in Seq(Bytes), NEW p \in Nat,
         NEW m \in Maps, NEW order \in SetToSeqs(DOMAIN m),
         Has(copied, p, write_string_string_map(m, order))
  PROVE  read_string_string_map(p) = At(m, p + Len(write_string_string_map(m, order)))
<1> DEFINE n == Len(order)
           c == read_int(p)
           Fcn(h) == [k \in 0..c.v |-> IF k = 0 THEN At(NoMap, c.next) ELSE EntryRead(h[k - 1])]
           h == CHOOSE h : h = Fcn(h)
<1>1. n \in Nat /\ Fits(n, IntBase) /\ n \in Int /\ DOMAIN m = {order[k] : k \in 1..n}
  <2>1. n \in Nat /\ Fits(n, IntBase)
    BY MapIs
  <2>2. DOMAIN m = {order[k] : k \in 1..n}
    BY MapIs
  <2> QED
    BY <2>1, <2>2
<1>2. PICK f : EntriesOf(f, m, order) /\ write_string_string_map(m, order) = f[n]
  BY MapBytes
<1>3. Has(copied, p, f[n])
  BY <1>2
<1> DEFINE g == [k \in 0..n |-> At(FirstOf(m, order, k), p + Len(f[k]))]
<1>4. \A k \in 0..n : Has(copied, p, f[k])
  BY <1>2, <1>3, HasEntries
<1>5. \A k \in 1..n : EntryRead(At(FirstOf(m, order, k - 1), p + Len(f[k - 1]))) =
                        At(FirstOf(m, order, k), p + Len(f[k]))
  BY <1>2, <1>3, ReadsEntry
<1>6. f[0] = write_int(n) /\ Len(f[0]) = IntBytes
  BY <1>1, <1>2, IntIs DEF EntriesOf
<1>7. c = At(n, p + IntBytes)
  <2>1. Has(copied, p, write_int(n)) /\ Signed(n % IntBase, IntBase) = n
    BY <1>1, <1>4, <1>6 DEF Fits
  <2> HIDE DEF n
  <2> QED
    BY <1>1, <2>1, ReadsInt
<1>8. c.v = n /\ c.next = p + IntBytes
  <2> HIDE DEF c, n
  <2> QED
    BY <1>7 DEF At
<1>9. FirstOf(m, order, 0) = NoMap
  <2>1. {order[j] : j \in 1..0} = {}
    OBVIOUS
  <2>2. [key \in {} |-> m[key]] = [key \in {} |-> <<>>]
    OBVIOUS
  <2> QED
    BY <2>1, <2>2 DEF FirstOf, NoMap
<1> HIDE DEF n, c
<1>10. g[0] = At(NoMap, c.next)
  BY <1>1, <1>6, <1>8, <1>9
<1>11. \A k \in 1..n : g[k] = EntryRead(g[k - 1])
  <2>1. ASSUME NEW k \in 1..n PROVE g[k] = EntryRead(g[k - 1])
    <3>1. k \in 0..n /\ k - 1 \in 0..n
      BY <1>1
    <3> QED
      BY <1>5, <3>1
  <2> QED
    BY <2>1
<1>12. g = Fcn(g)
  <2>1. g = [k \in 0..n |-> g[k]]
    OBVIOUS
  <2> HIDE DEF g
  <2>2. \A k \in 0..n : g[k] = IF k = 0 THEN At(NoMap, c.next) ELSE EntryRead(g[k - 1])
    <3>1. \A k \in 0..n : k # 0 => k \in 1..n
      BY <1>1
    <3> QED
      BY <1>10, <1>11, <3>1
  <2> QED
    BY <1>8, <2>1, <2>2
<1> HIDE DEF h, g
<1>13. h = Fcn(h)
  <2> HIDE DEF Fcn
  <2> QED
    BY <1>12 DEF h
<1>14. h[0] = At(NoMap, c.next) /\ \A k \in 1..n : h[k] = EntryRead(h[k - 1])
  BY <1>1, <1>8, <1>13
<1> DEFINE T == {k \in 0..n : h[k] = g[k]}
<1>15. 0..n \subseteq T
  <2>1. 0 \in T
    BY <1>1, <1>10, <1>14
  <2>2. ASSUME NEW k \in 1..n, k - 1 \in T PROVE k \in T
    BY <1>1, <1>11, <1>14, <2>2
  <2>3. \A k \in 1..n : k - 1 \in T => k \in T
    BY <2>2
  <2> HIDE DEF T
  <2> QED
    BY <1>1, <2>1, <2>3, Induction
<1>16. h[n] = At(FirstOf(m, order, n), p + Len(f[n]))
  BY <1>1, <1>15 DEF g
<1>17. FirstOf(m, order, n) = m
  <2>1. m = [key \in DOMAIN m |-> m[key]]
    BY MapsAssumption
  <2> QED
    BY <1>1, <2>1 DEF FirstOf
<1>18. read_string_string_map(p) = h[n]
  <2>1. read_string_string_map(p) = h[c.v]
    BY DEF read_string_string_map, h, c, EntryRead
  <2> QED
    BY <1>8, <2>1
<1> QED
  BY <1>2, <1>16, <1>17, <1>18

\* There are no entries after a count of 0.
LEMMA ReadsNoMap ==
  ASSUME copied \in Seq(Bytes), NEW p \in Nat, Has(copied, p, write_int(0))
  PROVE  read_string_string_map(p) = At(NoMap, p + Len(write_int(0)))
<1> DEFINE c == read_int(p)
           Fcn(h) == [k \in 0..c.v |-> IF k = 0 THEN At(NoMap, c.next) ELSE EntryRead(h[k - 1])]
           h == CHOOSE h : h = Fcn(h)
           g == [k \in 0..0 |-> At(NoMap, c.next)]
<1>0. IntBase \in Nat /\ IntBase > 0 /\ IntBytes \in Nat
  BY Widths, Bases
<1>1. c = At(0, p + IntBytes)
  <2>1. 0 = 0 * IntBase + 0 /\ 0 \in 0..(IntBase - 1)
    BY <1>0
  <2>2. 0 % IntBase = 0
    BY <1>0, <2>1, DivIs
  <2>3. Signed(0 % IntBase, IntBase) = 0
    BY <1>0, <2>2 DEF Signed
  <2> QED
    BY <2>3, ReadsInt
<1>2. c.v = 0 /\ c.next = p + IntBytes
  <2> HIDE DEF c
  <2> QED
    BY <1>1 DEF At
<1> HIDE DEF c
<1>3. g = Fcn(g)
  BY <1>2
<1> HIDE DEF h
<1>4. h = Fcn(h)
  <2> HIDE DEF Fcn, g
  <2> QED
    BY <1>3 DEF h
<1>5. h[0] = At(NoMap, p + IntBytes)
  BY <1>2, <1>4
<1>6. read_string_string_map(p) = h[c.v]
  BY DEF read_string_string_map, h, c, EntryRead
<1>7. Len(write_int(0)) = IntBytes
  BY IntIs
<1> QED
  BY <1>2, <1>5, <1>6, <1>7

-----------------------------------------------------------------------------
(* What is written, and what is read *)

\* The values that are written, and the bytes that each may have.
Written == Values \cup {Value("vlong", i) : i \in Longs \cap Nat}

\* write_vlong() returns only from one group.
EncodingsOf(value) ==
  IF value.type = "vlong" THEN {<<i>> : i \in {value.v} \cap (0..(Flag - 1))} ELSE Encodings(value)

\* The bytes e of the value are read back as the value, up to their end.
Reads(value, e) ==
  /\ e \in Seq(Bytes)
  /\ \A p \in Nat : Has(copied, p, e) => Decoding(value.type, p) = At(AsRead(value).v, p + Len(e))
  /\ AsRead(value) = Value(value.type, AsRead(value).v)

\* The kinds of values.
LEMMA ValuesAre ==
  ASSUME NEW value \in Written
  PROVE  \/ \E i \in Ints : value = Value("int", i) \/ value = Value("vint", i)
         \/ \E i \in Longs : value = Value("long", i)
         \/ \E i \in Longs \cap Nat : value = Value("vlong", i)
         \/ \E s \in Strings : value = Value("string", s)
         \/ \E m \in Maps : value = Value("map", m)
         \/ value = Value("map", Null)
BY DEF Written, Values

\* All but the null map come back as they are.
LEMMA NotNull ==
  ASSUME NEW type, NEW v, type # "map" \/ v # Null
  PROVE  /\ AsRead(Value(type, v)) = Value(type, v)
         /\ Value(type, v).type = type /\ Value(type, v).v = v
<1>1. Value(type, v).type = type /\ Value(type, v).v = v
  BY DEF Value
<1>2. Value("map", Null).type = "map" /\ Value("map", Null).v = Null
  BY DEF Value
<1>3. Value(type, v) # Value("map", Null)
  BY <1>1, <1>2
<1> QED
  BY <1>1, <1>3 DEF AsRead

\* An int is read back.
LEMMA IntReads ==
  ASSUME copied \in Seq(Bytes), NEW i \in Ints, NEW e \in EncodingsOf(Value("int", i))
  PROVE  Reads(Value("int", i), e)
<1>1. AsRead(Value("int", i)).v = i /\ AsRead(Value("int", i)) = Value("int", i)
      /\ Value("int", i).type = "int" /\ Value("int", i).v = i
  BY NotNull
<1>2. e = write_int(i)
  BY <1>1 DEF EncodingsOf, Encodings
<1>3. i \in Int /\ Signed(i % IntBase, IntBase) = i
  BY NumbersAssumption DEF Fits
<1>4. e \in Seq(Bytes) /\ Len(e) = IntBytes
  BY <1>2, <1>3, IntIs DEF Bytes
<1>5. ASSUME NEW p \in Nat, Has(copied, p, e) PROVE Decoding("int", p) = At(i, p + Len(e))
  <2>1. read_int(p) = At(i, p + Len(e))
    BY <1>2, <1>3, <1>4, <1>5, ReadsInt
  <2> QED
    BY <2>1 DEF Decoding
<1> QED
  BY <1>1, <1>4, <1>5 DEF Reads

\* An int in groups is read back.
LEMMA VintReads ==
  ASSUME copied \in Seq(Bytes), NEW i \in Ints, NEW e \in EncodingsOf(Value("vint", i))
  PROVE  Reads(Value("vint", i), e)
<1>1. AsRead(Value("vint", i)).v = i /\ AsRead(Value("vint", i)) = Value("vint", i)
      /\ Value("vint", i).type = "vint" /\ Value("vint", i).v = i
  BY NotNull
<1>2. e = write_vint[i]
  BY <1>1 DEF EncodingsOf, Encodings
<1>3. Fits(i, IntBase) /\ i \in Numbers
  BY NumbersAssumption, FitsIsNumber
<1>4. e \in Seq(Bytes)
  BY <1>2, <1>3, VintIs
<1>5. ASSUME NEW p \in Nat, Has(copied, p, e) PROVE Decoding("vint", p) = At(i, p + Len(e))
  <2>1. read_vint(p) = At(i, p + Len(e))
    BY <1>2, <1>3, <1>5, ReadsVint
  <2> QED
    BY <2>1 DEF Decoding
<1> QED
  BY <1>1, <1>4, <1>5 DEF Reads

\* A long is read back.
LEMMA LongReads ==
  ASSUME copied \in Seq(Bytes), NEW i \in Longs, NEW e \in EncodingsOf(Value("long", i))
  PROVE  Reads(Value("long", i), e)
<1>1. AsRead(Value("long", i)).v = i /\ AsRead(Value("long", i)) = Value("long", i)
      /\ Value("long", i).type = "long" /\ Value("long", i).v = i
  BY NotNull
<1>2. e = write_long(i)
  BY <1>1 DEF EncodingsOf, Encodings
<1>3. Fits(i, LongBase) /\ i \in Int
  BY NumbersAssumption DEF Fits
<1>4. e \in Seq(Bytes)
  BY <1>2, <1>3, LongIs
<1>5. ASSUME NEW p \in Nat, Has(copied, p, e) PROVE Decoding("long", p) = At(i, p + Len(e))
  <2>1. read_long(p) = At(i, p + Len(e))
    BY <1>2, <1>3, <1>5, ReadsLong
  <2> QED
    BY <2>1 DEF Decoding
<1> QED
  BY <1>1, <1>4, <1>5 DEF Reads

\* A long of one group is read back.
LEMMA VlongReads ==
  ASSUME copied \in Seq(Bytes), NEW i \in Longs, NEW e \in EncodingsOf(Value("vlong", i))
  PROVE  Reads(Value("vlong", i), e)
<1>1. AsRead(Value("vlong", i)).v = i /\ AsRead(Value("vlong", i)) = Value("vlong", i)
      /\ Value("vlong", i).type = "vlong" /\ Value("vlong", i).v = i
  BY NotNull
<1>2. e = <<i>> /\ i \in 0..(Flag - 1)
  BY <1>1 DEF EncodingsOf
<1>3. Fits(i, LongBase)
  BY NumbersAssumption
<1>4. e \in Seq(Bytes) /\ Len(e) = 1
  <2>1. Flag \in Nat /\ Base = 2 * Flag
    BY Widths
  <2>2. i \in Bytes
    BY <1>2, <2>1 DEF Bytes
  <2> QED
    BY <1>2, <2>2
<1>5. ASSUME NEW p \in Nat, Has(copied, p, e) PROVE Decoding("vlong", p) = At(i, p + Len(e))
  <2>1. read_vlong(p) = At(i, p + 1)
    BY <1>2, <1>3, <1>5, ReadsVlong
  <2> QED
    BY <1>4, <2>1 DEF Decoding
<1> QED
  BY <1>1, <1>4, <1>5 DEF Reads

\* A string is read back.
LEMMA StringReads ==
  ASSUME copied \in Seq(Bytes), NEW s \in Strings, NEW e \in EncodingsOf(Value("string", s))
  PROVE  Reads(Value("string", s), e)
<1>1. AsRead(Value("string", s)).v = s /\ AsRead(Value("string", s)) = Value("string", s)
      /\ Value("string", s).type = "string" /\ Value("string", s).v = s
  BY NotNull
<1>2. e = write_string(s)
  BY <1>1 DEF EncodingsOf, Encodings
<1>3. IsString(s)
  BY StringsAssumption
<1>4. e \in Seq(Bytes)
  BY <1>2, <1>3, StringIs
<1>5. ASSUME NEW p \in Nat, Has(copied, p, e) PROVE Decoding("string", p) = At(s, p + Len(e))
  <2>1. read_string(p) = At(s, p + Len(e))
    BY <1>2, <1>3, <1>5, ReadsString
  <2> QED
    BY <2>1 DEF Decoding
<1> QED
  BY <1>1, <1>4, <1>5 DEF Reads

\* A map is read back.
LEMMA MapReads ==
  ASSUME copied \in Seq(Bytes), NEW m \in Maps, NEW e \in EncodingsOf(Value("map", m))
  PROVE  Reads(Value("map", m), e)
<1>0. m # Null
  BY NullAssumption
<1>1. AsRead(Value("map", m)).v = m /\ AsRead(Value("map", m)) = Value("map", m)
      /\ Value("map", m).type = "map" /\ Value("map", m).v = m
  BY <1>0, NotNull
<1>2. PICK order \in SetToSeqs(DOMAIN m) : e = write_string_string_map(m, order)
  BY <1>0, <1>1 DEF EncodingsOf, Encodings
<1>4. e \in Seq(Bytes)
  <2>1. PICK f : EntriesOf(f, m, order) /\ write_string_string_map(m, order) = f[Len(order)]
    BY MapBytes
  <2>2. Len(order) \in Nat
    BY MapIs
  <2>3. Len(order) \in 0..Len(order) /\ f \in [0..Len(order) -> Seq(Bytes)]
    BY <2>1, <2>2 DEF EntriesOf
  <2> QED
    BY <1>2, <2>1, <2>3
<1>5. ASSUME NEW p \in Nat, Has(copied, p, e) PROVE Decoding("map", p) = At(m, p + Len(e))
  <2>1. read_string_string_map(p) = At(m, p + Len(e))
    BY <1>2, <1>5, ReadsMap
  <2> QED
    BY <2>1 DEF Decoding
<1> QED
  BY <1>1, <1>4, <1>5 DEF Reads

\* A null map is read as one without entries.
LEMMA NullReads ==
  ASSUME copied \in Seq(Bytes), NEW e \in EncodingsOf(Value("map", Null))
  PROVE  Reads(Value("map", Null), e)
<1> DEFINE value == Value("map", Null)
<1>1. /\ AsRead(value) = Value("map", NoMap) /\ Value("map", NoMap).v = NoMap
      /\ value.type = "map" /\ value.v = Null
  BY DEF Value, AsRead
<1>2. e = write_int(0)
  BY <1>1 DEF EncodingsOf, Encodings
<1>4. e \in Seq(Bytes)
  BY <1>2, IntIs DEF Bytes
<1>5. ASSUME NEW p \in Nat, Has(copied, p, e) PROVE Decoding("map", p) = At(NoMap, p + Len(e))
  <2>1. read_string_string_map(p) = At(NoMap, p + Len(e))
    BY <1>2, <1>5, ReadsNoMap
  <2> QED
    BY <2>1 DEF Decoding
<1> HIDE DEF value
<1>6. Reads(value, e)
  BY <1>1, <1>4, <1>5 DEF Reads
<1> QED
  BY <1>6 DEF value

\* What is written of any value is read back.
LEMMA EncodingReads ==
  ASSUME copied \in Seq(Bytes), NEW value \in Written, NEW e \in EncodingsOf(value)
  PROVE  Reads(value, e)
BY ValuesAre, IntReads, VintReads, LongReads, VlongReads, StringReads, MapReads, NullReads

-----------------------------------------------------------------------------
(* The invariant *)

\* How many values are wholly written.
Finished == IF vlong = Null THEN Len(written) ELSE Len(written) - 1

\* The first n values are in the file, one behind the other; ends[k] is where
\* the value k ends.
Ledger(ends, n, values, file) ==
  /\ ends \in [0..n -> 0..Len(file)] /\ ends[0] = 0
  /\ \A k \in 1..n : \E e \in EncodingsOf(values[k]) :
       Has(file, ends[k - 1], e) /\ ends[k] = ends[k - 1] + Len(e)

\* A write_vlong() has not begun its loop, or stays in it.
VlongState(ends) ==
  IF vlong = Null THEN ends[Finished] = Len(bytes)
  ELSE \/ vlong % LongBase >= Flag
       \/ /\ ends[Finished] = Len(bytes)
          /\ written[Len(written)] = Value("vlong", vlong) /\ vlong >= 0

\* The types, and a write_vlong() is that of the last value.
CodecTypes ==
  /\ written \in Seq(Written) /\ read \in Seq({AsRead(value) : value \in Written})
  /\ bytes \in Seq(Bytes) /\ copied \in Seq(Bytes)
  /\ vlong # Null => Fits(vlong, LongBase) /\ written # <<>>

\* The copy has the first bytes of the file.
CopyIsPrefix == Len(copied) <= Len(bytes) /\ \A j \in 1..Len(copied) : copied[j] = bytes[j]

\* The inductive invariant.
CodecInv ==
  /\ CodecTypes
  /\ CopyIsPrefix
  /\ \E ends : /\ Ledger(ends, Finished, written, bytes)
               /\ VlongState(ends)
               /\ Len(read) <= Finished /\ position = ends[Len(read)]
  /\ \A k \in 1..Len(read) : read[k] = AsRead(written[k])

\* A longer file still has what was in it.
LEMMA HasLonger ==
  ASSUME NEW S, NEW s \in Seq(S), NEW t \in Seq(S), Len(s) <= Len(t),
         \A j \in 1..Len(s) : s[j] = t[j],
         NEW p \in Nat, NEW e, Len(e) \in Nat, Has(s, p, e)
  PROVE  Has(t, p, e)
<1>1. Len(s) \in Nat /\ Len(t) \in Nat /\ p + Len(e) <= Len(s)
      /\ \A j \in 1..Len(e) : s[p + j] = e[j]
  BY DEF Has
<1>2. \A j \in 1..Len(e) : p + j \in 1..Len(s)
  BY <1>1
<1> QED
  BY <1>1, <1>2 DEF Has

\* The bytes of every encoding are bytes.
LEMMA EncodingBytes ==
  ASSUME NEW value \in Written, NEW e \in EncodingsOf(value), copied \in Seq(Bytes)
  PROVE  e \in Seq(Bytes) /\ Len(e) \in Nat
<1>1. e \in Seq(Bytes)
  BY EncodingReads DEF Reads
<1> QED
  BY <1>1

\* Values that are in a file are in a longer one.
LEMMA LedgerKept ==
  ASSUME NEW ends, NEW n \in Nat, NEW values, NEW values2, NEW file \in Seq(Bytes),
         NEW file2 \in Seq(Bytes), copied \in Seq(Bytes),
         Ledger(ends, n, values, file),
         \A k \in 1..n : values[k] \in Written /\ values2[k] = values[k],
         Len(file) <= Len(file2), \A j \in 1..Len(file) : file[j] = file2[j]
  PROVE  Ledger(ends, n, values2, file2)
<1>1. ends \in [0..n -> 0..Len(file)] /\ ends[0] = 0 /\ Len(file) \in Nat /\ Len(file2) \in Nat
  BY DEF Ledger
<1>2. ends \in [0..n -> 0..Len(file2)]
  <2>1. \A k \in 0..n : ends[k] \in 0..Len(file2)
    BY <1>1
  <2>2. ends = [k \in 0..n |-> ends[k]]
    BY <1>1
  <2> QED
    BY <2>1, <2>2
<1>3. ASSUME NEW k \in 1..n
      PROVE  \E e \in EncodingsOf(values2[k]) :
               Has(file2, ends[k - 1], e) /\ ends[k] = ends[k - 1] + Len(e)
  <2>1. PICK e \in EncodingsOf(values[k]) :
          Has(file, ends[k - 1], e) /\ ends[k] = ends[k - 1] + Len(e)
    BY DEF Ledger
  <2>2. Len(e) \in Nat
    BY EncodingBytes
  <2>3. ends[k - 1] \in Nat
    BY <1>1
  <2>4. Has(file2, ends[k - 1], e)
    BY <2>1, <2>2, <2>3, HasLonger
  <2> QED
    BY <2>1, <2>4
<1> QED
  BY <1>1, <1>2, <1>3 DEF Ledger

\* What a file has after an append.
LEMMA AppendedLonger ==
  ASSUME NEW S, NEW s \in Seq(S), NEW e \in Seq(S)
  PROVE  /\ s \o e \in Seq(S) /\ Len(s) <= Len(s \o e)
         /\ Len(s \o e) = Len(s) + Len(e) /\ Len(e) \in Nat /\ Len(s) \in Nat
         /\ \A j \in 1..Len(s) : s[j] = (s \o e)[j]
         /\ Has(s \o e, Len(s), e)
<1> DEFINE t == s \o e
<1>1. /\ t \in Seq(S) /\ Len(t) = Len(s) + Len(e) /\ Len(s) \in Nat /\ Len(e) \in Nat
      /\ \A j \in 1..Len(t) : t[j] = IF j <= Len(s) THEN s[j] ELSE e[j - Len(s)]
  OBVIOUS
<1> HIDE DEF t
<1>2. \A j \in 1..Len(s) : s[j] = t[j]
  BY <1>1
<1>3. ASSUME NEW j \in 1..Len(e) PROVE t[Len(s) + j] = e[j]
  <2>1. Len(s) + j \in 1..Len(t) /\ ~(Len(s) + j <= Len(s)) /\ Len(s) + j - Len(s) = j
    BY <1>1
  <2>2. t[Len(s) + j] = e[Len(s) + j - Len(s)]
    BY <1>1, <2>1
  <2> QED
    BY <2>1, <2>2
<1>4. Has(t, Len(s), e)
  BY <1>1, <1>3 DEF Has
<1> QED
  BY <1>1, <1>2, <1>4 DEF t

\* The first n values are the same.
Kept(n, values, values2) == \A k \in 1..n : values[k] \in Written /\ values2[k] = values[k]

\* They have one more behind them.
GrownTo(grown, ends, n, values, file) ==
  /\ Ledger(grown, n + 1, values, file)
  /\ grown[n + 1] = Len(file) /\ \A k \in 0..n : grown[k] = ends[k]

\* One more value behind the others.
LEMMA LedgerGrows ==
  ASSUME NEW ends, NEW n \in Nat, NEW values, NEW values2, NEW file \in Seq(Bytes),
         copied \in Seq(Bytes), Ledger(ends, n, values, file), ends[n] = Len(file),
         Kept(n, values, values2),
         NEW value \in Written, values2[n + 1] = value, NEW e \in EncodingsOf(value)
  PROVE  \E grown : GrownTo(grown, ends, n, values2, file \o e)
<1>0. e \in Seq(Bytes)
  BY EncodingBytes
<1>a. e \in EncodingsOf(values2[n + 1])
  OBVIOUS
<1> DEFINE file2 == file \o e
<1>1. /\ file2 \in Seq(Bytes) /\ Len(file) <= Len(file2) /\ Len(file2) = Len(file) + Len(e)
      /\ Len(e) \in Nat /\ Len(file) \in Nat
      /\ \A j \in 1..Len(file) : file[j] = file2[j]
      /\ Has(file2, Len(file), e)
  BY <1>0, AppendedLonger
<1> HIDE DEF file2
<1>2. Ledger(ends, n, values2, file2)
  BY <1>1, LedgerKept DEF Kept
<1>3. /\ ends \in [0..n -> 0..Len(file2)] /\ ends[0] = 0
      /\ \A k \in 1..n : \E d \in EncodingsOf(values2[k]) :
           Has(file2, ends[k - 1], d) /\ ends[k] = ends[k - 1] + Len(d)
  BY <1>2 DEF Ledger
<1> DEFINE grown == [k \in 0..(n + 1) |-> IF k = n + 1 THEN Len(file2) ELSE ends[k]]
<1>4. grown[n + 1] = Len(file2) /\ \A k \in 0..n : grown[k] = ends[k]
  OBVIOUS
<1>5. grown \in [0..(n + 1) -> 0..Len(file2)] /\ grown[0] = 0
  BY <1>1, <1>3
<1> HIDE DEF grown
<1>6. ASSUME NEW k \in 1..(n + 1)
      PROVE  \E d \in EncodingsOf(values2[k]) :
               Has(file2, grown[k - 1], d) /\ grown[k] = grown[k - 1] + Len(d)
  <2>1. CASE k = n + 1
    <3>1. k - 1 = n /\ n \in 0..n
      BY <2>1
    <3>2. grown[k - 1] = Len(file) /\ grown[k] = Len(file) + Len(e)
      BY <1>1, <1>4, <2>1, <3>1
    <3> QED
      BY <1>1, <1>a, <2>1, <3>2
  <2>2. CASE k # n + 1
    <3>1. k \in 1..n /\ k \in 0..n /\ k - 1 \in 0..n
      BY <2>2
    <3>2. grown[k - 1] = ends[k - 1] /\ grown[k] = ends[k]
      BY <1>4, <3>1
    <3> QED
      BY <1>3, <3>1, <3>2
  <2> QED
    BY <2>1, <2>2
<1>7. Ledger(grown, n + 1, values2, file2)
  BY <1>5, <1>6 DEF Ledger
<1>8. GrownTo(grown, ends, n, values2, file2)
  BY <1>4, <1>7 DEF GrownTo
<1> QED
  BY <1>8 DEF file2

\* The reader is at the end of a value that is wholly written.
Reading(ends) == Len(read) <= Finished /\ position = ends[Len(read)]

\* What it has read so far.
ReadSame == \A k \in 1..Len(read) : read[k] = AsRead(written[k])

\* The parts of the invariant.
LEMMA CodecInvIs ==
  CodecInv <=> /\ CodecTypes /\ CopyIsPrefix /\ ReadSame
               /\ \E ends : /\ Ledger(ends, Finished, written, bytes)
                            /\ VlongState(ends) /\ Reading(ends)
BY DEF CodecInv, Reading, ReadSame

\* What a sequence is after an Append.
LEMMA SeqAppend ==
  ASSUME NEW S, NEW s \in Seq(S), NEW x \in S
  PROVE  /\ Append(s, x) \in Seq(S) /\ Len(Append(s, x)) = Len(s) + 1 /\ Len(s) \in Nat
         /\ Append(s, x)[Len(s) + 1] = x /\ Append(s, x) # <<>>
         /\ \A k \in 1..Len(s) : Append(s, x)[k] = s[k]
OBVIOUS

-----------------------------------------------------------------------------
(* The steps *)

\* The initial state satisfies the invariant.
LEMMA InitCodecInv == CodecInit => CodecInv
<1> SUFFICES ASSUME CodecInit PROVE CodecInv
  OBVIOUS
<1>1. /\ written = <<>> /\ bytes = <<>> /\ vlong = Null /\ copied = <<>> /\ read = <<>>
      /\ position = 0
  BY DEF CodecInit
<1>2. CodecTypes
  BY <1>1 DEF CodecTypes
<1>3. CopyIsPrefix /\ ReadSame
  BY <1>1 DEF CopyIsPrefix, ReadSame
<1>4. Finished = 0
  BY <1>1 DEF Finished
<1> DEFINE ends == [k \in 0..0 |-> 0]
<1>5. ends[0] = 0 /\ ends \in [0..0 -> 0..0]
  OBVIOUS
<1>6. Len(bytes) = 0 /\ Len(read) = 0 /\ 1..0 = {}
  BY <1>1
<1> HIDE DEF ends
<1>7. Ledger(ends, Finished, written, bytes)
  BY <1>4, <1>5, <1>6 DEF Ledger
<1>8. VlongState(ends)
  BY <1>1, <1>4, <1>5, <1>6 DEF VlongState
<1>9. Reading(ends)
  BY <1>1, <1>4, <1>5, <1>6 DEF Reading
<1> QED
  BY <1>2, <1>3, <1>7, <1>8, <1>9, CodecInvIs

\* A value of a type other than "vlong" is behind the others.
LEMMA WriteKeeps == CodecInv /\ Write => CodecInv'
<1> SUFFICES ASSUME CodecInv, Write PROVE CodecInv'
  OBVIOUS
<1> DEFINE n == Len(written)
<1>1. /\ vlong = Null /\ vlong' = Null /\ copied' = copied /\ read' = read /\ position' = position
  BY DEF Write, CanWrite, reader
<1>a. PICK value \in Values : /\ written' = Append(written, value)
                              /\ \E e \in Encodings(value) : bytes' = bytes \o e
  BY DEF Write
<1>2. PICK e \in Encodings(value) : written' = Append(written, value) /\ bytes' = bytes \o e
  BY <1>a
<1>3. value \in Written /\ e \in EncodingsOf(value)
  <2>1. value.type # "vlong"
    BY DEF Values, Value
  <2> QED
    BY <1>2, <2>1 DEF Written, EncodingsOf
<1>4. CodecTypes /\ CopyIsPrefix /\ ReadSame
  BY CodecInvIs
<1>5. /\ written \in Seq(Written) /\ bytes \in Seq(Bytes) /\ copied \in Seq(Bytes)
      /\ read \in Seq({AsRead(v) : v \in Written})
  BY <1>4 DEF CodecTypes
<1>6. e \in Seq(Bytes)
  BY <1>3, <1>5, EncodingBytes
<1>7. /\ written' \in Seq(Written) /\ Len(written') = n + 1 /\ n \in Nat /\ written'[n + 1] = value
      /\ \A k \in 1..n : written'[k] = written[k]
  BY <1>2, <1>3, <1>5, SeqAppend
<1>8. /\ bytes' \in Seq(Bytes) /\ Len(bytes) <= Len(bytes') /\ Len(bytes) \in Nat
      /\ \A j \in 1..Len(bytes) : bytes[j] = bytes'[j]
  BY <1>2, <1>5, <1>6, AppendedLonger
<1>9. Finished = n /\ Finished' = n + 1
  BY <1>1, <1>7 DEF Finished
<1>10. PICK ends : Ledger(ends, n, written, bytes) /\ VlongState(ends) /\ Reading(ends)
  BY <1>9, CodecInvIs
<1>11. ends[n] = Len(bytes) /\ Len(read) <= n /\ position = ends[Len(read)] /\ Len(read) \in Nat
  BY <1>1, <1>5, <1>9, <1>10 DEF VlongState, Reading
<1>12. \A k \in 1..n : written[k] \in Written
  BY <1>5
<1> HIDE DEF n
<1>13. PICK grown : /\ Ledger(grown, n + 1, written', bytes')
                    /\ grown[n + 1] = Len(bytes') /\ \A k \in 0..n : grown[k] = ends[k]
  <2>1. /\ Kept(n, written, written')
        /\ value \in Written /\ written'[n + 1] = value /\ e \in EncodingsOf(value)
    BY <1>3, <1>7, <1>12 DEF Kept
  <2>2. \E grown : GrownTo(grown, ends, n, written', bytes \o e)
    BY <1>5, <1>7, <1>10, <1>11, <2>1, LedgerGrows
  <2> QED
    BY <1>2, <2>2 DEF GrownTo
<1>14. CodecTypes'
  BY <1>1, <1>5, <1>7, <1>8 DEF CodecTypes
<1>15. CopyIsPrefix'
  BY <1>1, <1>4, <1>5, <1>8 DEF CopyIsPrefix
<1>16. ReadSame'
  BY <1>1, <1>4, <1>5, <1>7, <1>11 DEF ReadSame
<1>17. grown[Finished'] = Len(bytes') /\ VlongState(grown)'
  BY <1>1, <1>9, <1>13 DEF VlongState
<1>18. Reading(grown)'
  BY <1>1, <1>7, <1>9, <1>11, <1>13 DEF Reading
<1>19. Ledger(grown, Finished', written', bytes')
  BY <1>9, <1>13
<1> QED
  BY <1>14, <1>15, <1>16, <1>17, <1>18, <1>19 DEF CodecInv, Reading, ReadSame

\* The call of write_vlong() writes nothing yet.
LEMMA WriteVlongKeeps == CodecInv /\ WriteVlong => CodecInv'
<1> SUFFICES ASSUME CodecInv, WriteVlong PROVE CodecInv'
  OBVIOUS
<1> DEFINE n == Len(written)
<1>1. /\ vlong = Null /\ bytes' = bytes /\ copied' = copied /\ read' = read /\ position' = position
  BY DEF WriteVlong, CanWrite, reader
<1>2. PICK i \in Longs \cap Nat : vlong' = i /\ written' = Append(written, Value("vlong", i))
  BY DEF WriteVlong
<1>3. Value("vlong", i) \in Written /\ i # Null /\ Fits(i, LongBase)
  BY NullAssumption, NumbersAssumption DEF Written
<1>4. CodecTypes /\ CopyIsPrefix /\ ReadSame
  BY CodecInvIs
<1>5. /\ written \in Seq(Written) /\ bytes \in Seq(Bytes) /\ copied \in Seq(Bytes)
      /\ read \in Seq({AsRead(v) : v \in Written})
  BY <1>4 DEF CodecTypes
<1>7. /\ written' \in Seq(Written) /\ Len(written') = n + 1 /\ n \in Nat
      /\ written'[n + 1] = Value("vlong", i) /\ written' # <<>>
      /\ \A k \in 1..n : written'[k] = written[k]
  BY <1>2, <1>3, <1>5, SeqAppend
<1>9. Finished = n /\ Finished' = n
  BY <1>1, <1>2, <1>3, <1>7 DEF Finished
<1>10. PICK ends : Ledger(ends, n, written, bytes) /\ VlongState(ends) /\ Reading(ends)
  BY <1>9, CodecInvIs
<1>11. ends[n] = Len(bytes) /\ Len(read) <= n /\ position = ends[Len(read)] /\ Len(read) \in Nat
  BY <1>1, <1>5, <1>9, <1>10 DEF VlongState, Reading
<1>12. \A k \in 1..n : written[k] \in Written
  BY <1>5
<1> HIDE DEF n
<1>13. Ledger(ends, n, written', bytes')
  <2>1. Len(bytes) \in Nat
    BY <1>5
  <2>2. Len(bytes) <= Len(bytes) /\ \A j \in 1..Len(bytes) : bytes[j] = bytes[j]
    BY <2>1
  <2>3. Ledger(ends, n, written', bytes)
    BY <1>5, <1>7, <1>10, <1>12, <2>2, LedgerKept
  <2> QED
    BY <1>1, <2>3
<1>14. CodecTypes'
  BY <1>1, <1>2, <1>3, <1>5, <1>7 DEF CodecTypes
<1>15. CopyIsPrefix'
  BY <1>1, <1>4 DEF CopyIsPrefix
<1>16. ReadSame'
  BY <1>1, <1>4, <1>5, <1>7, <1>11 DEF ReadSame
<1>17. VlongState(ends)'
  BY <1>1, <1>2, <1>3, <1>7, <1>9, <1>11 DEF VlongState
<1>18. Reading(ends)'
  BY <1>1, <1>9, <1>11 DEF Reading
<1>19. Ledger(ends, Finished', written', bytes')
  BY <1>9, <1>13
<1> QED
  BY <1>14, <1>15, <1>16, <1>17, <1>18, <1>19 DEF CodecInv, Reading, ReadSame

\* A round of write_vlong() leaves more than one group.
LEMMA RoundStays ==
  ASSUME NEW i, Fits(i, LongBase), i % LongBase >= Flag \/ i >= 0, More(i),
         NEW j, j = Signed(BitOr(i % LongBase, unsigned_shift(i, LongBase)), LongBase)
  PROVE  Fits(j, LongBase) /\ j % LongBase >= Flag
<1> DEFINE x == i % LongBase
           b == BitOr(x, x \div Flag)
<1>0. /\ LongBase \in Nat /\ LongBase > 0 /\ Flag \in Nat /\ i \in Int
      /\ Signed(x, LongBase) = i /\ (x >= Flag \/ i >= 0)
  BY Widths, Bases DEF Fits
<1>1. x \in 0..(LongBase - 1)
  BY <1>0, DivMod
<1>2. b \in x..(LongBase - 1)
  BY <1>1, BitOrAssumption
<1>3. j = Signed(b, LongBase)
  BY DEF unsigned_shift
<1> HIDE DEF x, b
<1>4. x >= Flag
  <2>1. ASSUME i >= 0 PROVE x >= Flag
    <3>1. i >= Flag
      BY <1>0, <2>1 DEF More
    <3> QED
      BY <1>0, <1>1, <2>1, <3>1 DEF Signed
  <2> QED
    BY <1>0, <2>1
<1>5. b \in 0..(LongBase - 1) /\ b >= Flag
  BY <1>0, <1>1, <1>2, <1>4
<1>6. j % LongBase = b
  BY <1>0, <1>3, <1>5, SignedMod
<1>7. j \in Int
  BY <1>0, <1>3, <1>5 DEF Signed
<1> QED
  BY <1>3, <1>5, <1>6, <1>7 DEF Fits

\* A number of one group is not one that the loop stays with.
LEMMA ShortIs ==
  ASSUME NEW i, Fits(i, LongBase), ~More(i)
  PROVE  i \in 0..(Flag - 1) /\ ~(i % LongBase >= Flag)
<1>1. LongBase \in Nat /\ LongBase > 0 /\ Flag \in Nat
  BY Widths, Bases
<1>2. i \in 0..(Flag - 1) /\ i \in Nat
  BY <1>1 DEF More
<1>3. i % LongBase \in Nat /\ i % LongBase <= i
  BY <1>1, <1>2, ModAtMost
<1> QED
  BY <1>1, <1>2, <1>3

\* The loop of write_vlong() stays in the loop.
LEMMA WriteVlongRoundKeeps == CodecInv /\ WriteVlongRound => CodecInv'
<1> SUFFICES ASSUME CodecInv, WriteVlongRound PROVE CodecInv'
  OBVIOUS
<1> DEFINE n == Len(written) - 1
           b == (vlong % Flag) + Flag
<1>1. /\ vlong # Null /\ More(vlong) /\ written' = written /\ copied' = copied
      /\ read' = read /\ position' = position /\ bytes' = Append(bytes, b)
      /\ vlong' = Signed(BitOr(vlong % LongBase, unsigned_shift(vlong, LongBase)), LongBase)
  BY DEF WriteVlongRound, reader
<1>2. CodecTypes /\ CopyIsPrefix /\ ReadSame
  BY CodecInvIs
<1>3. /\ written \in Seq(Written) /\ bytes \in Seq(Bytes) /\ copied \in Seq(Bytes)
      /\ read \in Seq({AsRead(v) : v \in Written}) /\ Fits(vlong, LongBase) /\ written # <<>>
  BY <1>1, <1>2 DEF CodecTypes
<1>4. n \in Nat /\ Finished = n
  BY <1>1, <1>3 DEF Finished
<1>5. PICK ends : Ledger(ends, n, written, bytes) /\ VlongState(ends) /\ Reading(ends)
  BY <1>4, CodecInvIs
<1>6. vlong % LongBase >= Flag \/ vlong >= 0
  BY <1>1, <1>5 DEF VlongState
<1>7. Fits(vlong', LongBase) /\ vlong' % LongBase >= Flag
  BY <1>1, <1>3, <1>6, RoundStays
<1>8. vlong' # Null
  BY <1>7, NullAssumption DEF Fits
<1>9. Finished' = n
  BY <1>1, <1>8 DEF Finished
<1>10. b \in Bytes
  <2>1. vlong \in Int /\ Flag \in Nat /\ Flag > 0 /\ Base = 2 * Flag
    BY <1>3, Widths DEF Fits
  <2>2. vlong % Flag \in 0..(Flag - 1)
    BY <2>1, DivMod
  <2> QED
    BY <2>1, <2>2 DEF Bytes
<1> HIDE DEF b
<1>11. /\ bytes' \in Seq(Bytes) /\ Len(bytes) <= Len(bytes') /\ Len(bytes) \in Nat
       /\ \A j \in 1..Len(bytes) : bytes[j] = bytes'[j]
  <2>1. /\ bytes' \in Seq(Bytes) /\ Len(bytes') = Len(bytes) + 1 /\ Len(bytes) \in Nat
        /\ \A k \in 1..Len(bytes) : bytes'[k] = bytes[k]
    BY <1>1, <1>3, <1>10, SeqAppend
  <2> QED
    BY <2>1
<1>12. \A k \in 1..n : written[k] \in Written /\ written[k] = written[k]
  BY <1>3
<1> HIDE DEF n
<1>13. Ledger(ends, n, written, bytes')
  BY <1>3, <1>4, <1>5, <1>11, <1>12, LedgerKept
<1>14. CodecTypes'
  BY <1>1, <1>3, <1>7, <1>11 DEF CodecTypes
<1>15. CopyIsPrefix'
  <2>1. /\ Len(copied) \in Nat /\ Len(copied) <= Len(bytes)
        /\ \A j \in 1..Len(copied) : copied[j] = bytes[j]
    BY <1>2, <1>3 DEF CopyIsPrefix
  <2> QED
    BY <1>1, <1>11, <2>1 DEF CopyIsPrefix
<1>16. ReadSame'
  BY <1>1, <1>2 DEF ReadSame
<1>17. VlongState(ends)'
  BY <1>7, <1>8 DEF VlongState
<1>18. Reading(ends)'
  BY <1>1, <1>4, <1>5, <1>9 DEF Reading
<1>19. Ledger(ends, Finished', written', bytes')
  BY <1>1, <1>9, <1>13
<1> QED
  BY <1>14, <1>15, <1>16, <1>17, <1>18, <1>19 DEF CodecInv, Reading, ReadSame

\* The only group is behind the other values.
LEMMA WriteVlongLastKeeps == CodecInv /\ WriteVlongLast => CodecInv'
<1> SUFFICES ASSUME CodecInv, WriteVlongLast PROVE CodecInv'
  OBVIOUS
<1> DEFINE n == Len(written) - 1
           e == <<vlong>>
<1>1. /\ vlong # Null /\ ~More(vlong) /\ written' = written /\ copied' = copied
      /\ read' = read /\ position' = position /\ bytes' = Append(bytes, vlong) /\ vlong' = Null
  BY DEF WriteVlongLast, reader
<1>2. CodecTypes /\ CopyIsPrefix /\ ReadSame
  BY CodecInvIs
<1>3. /\ written \in Seq(Written) /\ bytes \in Seq(Bytes) /\ copied \in Seq(Bytes)
      /\ read \in Seq({AsRead(v) : v \in Written}) /\ Fits(vlong, LongBase) /\ written # <<>>
  BY <1>1, <1>2 DEF CodecTypes
<1>4. n \in Nat /\ Finished = n /\ Finished' = n + 1 /\ Len(written) = n + 1
  BY <1>1, <1>3 DEF Finished
<1>5. PICK ends : Ledger(ends, n, written, bytes) /\ VlongState(ends) /\ Reading(ends)
  BY <1>4, CodecInvIs
<1>6. vlong \in 0..(Flag - 1) /\ ~(vlong % LongBase >= Flag)
  BY <1>1, <1>3, ShortIs
<1>7. /\ ends[n] = Len(bytes) /\ written[n + 1] = Value("vlong", vlong)
      /\ Len(read) <= n /\ position = ends[Len(read)] /\ Len(read) \in Nat
  <2>1. ends[n] = Len(bytes) /\ written[n + 1] = Value("vlong", vlong)
    BY <1>1, <1>4, <1>5, <1>6 DEF VlongState
  <2>2. Len(read) <= n /\ position = ends[Len(read)] /\ Len(read) \in Nat
    BY <1>3, <1>4, <1>5 DEF Reading
  <2> QED
    BY <2>1, <2>2
<1>8. e \in EncodingsOf(written[n + 1]) /\ written[n + 1] \in Written
  <2>1. e \in EncodingsOf(Value("vlong", vlong))
    <3>1. Value("vlong", vlong).type = "vlong" /\ Value("vlong", vlong).v = vlong
      BY DEF Value
    <3> QED
      BY <1>6, <3>1 DEF EncodingsOf
  <2>2. n + 1 \in 1..Len(written)
    BY <1>4
  <2>3. written[n + 1] \in Written
    BY <1>3, <2>2
  <2> QED
    BY <1>7, <2>1, <2>3
<1>9. e \in Seq(Bytes) /\ bytes' = bytes \o e
  <2>1. e \in Seq(Bytes)
    BY <1>3, <1>8, EncodingBytes
  <2>2. Append(bytes, vlong) = bytes \o <<vlong>>
    BY <1>3, <2>1
  <2> QED
    BY <1>1, <2>1, <2>2
<1>10. Kept(n, written, written)
  BY <1>3, <1>4 DEF Kept
<1> HIDE DEF n, e
<1>11. /\ bytes' \in Seq(Bytes) /\ Len(bytes) <= Len(bytes') /\ Len(bytes) \in Nat
       /\ \A j \in 1..Len(bytes) : bytes[j] = bytes'[j]
  BY <1>3, <1>9, AppendedLonger
<1>12. \E grown : GrownTo(grown, ends, n, written, bytes \o e)
  <2> DEFINE value == written[n + 1]
  <2>1. value \in Written /\ written[n + 1] = value /\ e \in EncodingsOf(value)
    BY <1>8
  <2> HIDE DEF value
  <2> QED
    BY <1>3, <1>4, <1>5, <1>7, <1>10, <2>1, LedgerGrows
<1>13. PICK grown : /\ Ledger(grown, n + 1, written, bytes')
                    /\ grown[n + 1] = Len(bytes') /\ \A k \in 0..n : grown[k] = ends[k]
  BY <1>9, <1>12 DEF GrownTo
<1>14. CodecTypes'
  BY <1>1, <1>3, <1>11 DEF CodecTypes
<1>15. CopyIsPrefix'
  <2>1. /\ Len(copied) \in Nat /\ Len(copied) <= Len(bytes)
        /\ \A j \in 1..Len(copied) : copied[j] = bytes[j]
    BY <1>2, <1>3 DEF CopyIsPrefix
  <2> QED
    BY <1>1, <1>11, <2>1 DEF CopyIsPrefix
<1>16. ReadSame'
  BY <1>1, <1>2 DEF ReadSame
<1>17. VlongState(grown)'
  BY <1>1, <1>4, <1>13 DEF VlongState
<1>18. Reading(grown)'
  BY <1>1, <1>4, <1>7, <1>13 DEF Reading
<1>19. Ledger(grown, Finished', written', bytes')
  BY <1>1, <1>4, <1>13
<1> QED
  BY <1>14, <1>15, <1>16, <1>17, <1>18, <1>19 DEF CodecInv, Reading, ReadSame

\* A round of copy_bytes() moves the next bytes of the file.
LEMMA CopyMoves ==
  ASSUME NEW s \in Seq(Bytes), NEW t \in Seq(Bytes), NEW count \in Nat,
         Len(t) + count <= Len(s), \A j \in 1..Len(t) : t[j] = s[j],
         NEW u, u = t \o SubSeq(s, Len(t) + 1, Len(t) + count)
  PROVE  u \in Seq(Bytes) /\ Len(u) = Len(t) + count /\ \A j \in 1..Len(u) : u[j] = s[j]
<1> DEFINE c == Len(t)
           m == c + 1
           n == c + count
           d == SubSeq(s, m, n)
<1>1. c \in Nat /\ m \in Int /\ n \in Int /\ n - m + 1 = count /\ Len(s) \in Nat
      /\ (~(m <= n) => count = 0) /\ \A i \in m..n : s[i] \in Bytes
  OBVIOUS
<1>2. c + count <= Len(s) /\ (\A j \in 1..c : t[j] = s[j]) /\ u = t \o d /\ Len(t) = c
  OBVIOUS
<1>3. \A j \in 1..count : m + j - 1 = c + j
  BY <1>1
<1> HIDE DEF c, m, n
<1>4. /\ d \in Seq(Bytes) /\ Len(d) = (IF m <= n THEN n - m + 1 ELSE 0)
      /\ \A j \in 1..(n - m + 1) : d[j] = s[m + j - 1]
  BY <1>1, SubSeqProperties
<1>5. Len(d) = count /\ \A j \in 1..count : d[j] = s[c + j]
  BY <1>1, <1>3, <1>4
<1> HIDE DEF d
<1>6. /\ u \in Seq(Bytes) /\ Len(u) = c + count
      /\ \A j \in 1..c : t[j] = u[j]
      /\ Has(u, c, d)
  <2>1. /\ t \o d \in Seq(Bytes) /\ Len(t \o d) = Len(t) + Len(d)
        /\ \A j \in 1..Len(t) : t[j] = (t \o d)[j]
        /\ Has(t \o d, Len(t), d)
    BY <1>4, AppendedLonger
  <2>2. u = t \o d
    BY <1>2
  <2>3. Len(t) = c /\ Len(d) = count
    BY <1>2, <1>5
  <2> HIDE DEF d
  <2> QED
    BY <2>1, <2>2, <2>3
<1>7. ASSUME NEW j \in 1..Len(u) PROVE u[j] = s[j]
  <2>1. CASE j <= c
    <3>1. j \in 1..c
      BY <1>1, <1>6, <2>1
    <3>2. t[j] = s[j] /\ t[j] = u[j]
      BY <1>2, <1>6, <3>1
    <3> QED
      BY <3>2
  <2>2. CASE ~(j <= c)
    <3>1. j - c \in 1..count /\ c + (j - c) = j
      BY <1>1, <1>6, <2>2
    <3>2. u[c + (j - c)] = d[j - c]
      BY <1>5, <1>6, <3>1 DEF Has
    <3>3. d[j - c] = s[c + (j - c)]
      BY <1>5, <3>1
    <3> QED
      BY <3>1, <3>2, <3>3
  <2> QED
    BY <2>1, <2>2
<1> QED
  BY <1>6, <1>7 DEF c

\* copy_bytes() changes nothing but the copy.
LEMMA CopyKeeps == CodecInv /\ copy_bytes => CodecInv'
<1> SUFFICES ASSUME CodecInv, copy_bytes PROVE CodecInv'
  OBVIOUS
<1> DEFINE left == Len(bytes) - Len(copied)
           toCopy == IF left > COPY_BUFFER_SIZE THEN COPY_BUFFER_SIZE ELSE left
<1>1. /\ vlong' = vlong /\ written' = written /\ bytes' = bytes /\ read' = read
      /\ position' = position
      /\ copied' = copied \o SubSeq(bytes, Len(copied) + 1, Len(copied) + toCopy)
  BY DEF copy_bytes, writer, reader
<1>2. CodecTypes /\ CopyIsPrefix /\ ReadSame
  BY CodecInvIs
<1>3. bytes \in Seq(Bytes) /\ copied \in Seq(Bytes)
  BY <1>2 DEF CodecTypes
<1>4. Len(copied) \in Nat /\ Len(bytes) \in Nat /\ Len(copied) <= Len(bytes)
      /\ \A j \in 1..Len(copied) : copied[j] = bytes[j]
  BY <1>2, <1>3 DEF CopyIsPrefix
<1>5. toCopy \in Nat /\ Len(copied) + toCopy <= Len(bytes)
  BY <1>4, WidthAssumption
<1> HIDE DEF toCopy
<1>6. /\ copied' \in Seq(Bytes) /\ Len(copied') = Len(copied) + toCopy
      /\ \A j \in 1..Len(copied') : copied'[j] = bytes[j]
  <2> DEFINE u == copied \o SubSeq(bytes, Len(copied) + 1, Len(copied) + toCopy)
  <2>1. u \in Seq(Bytes) /\ Len(u) = Len(copied) + toCopy /\ \A j \in 1..Len(u) : u[j] = bytes[j]
    BY <1>3, <1>4, <1>5, CopyMoves
  <2> HIDE DEF u
  <2>2. copied' = u
    BY <1>1 DEF u
  <2> QED
    BY <2>1, <2>2
<1>7. CodecTypes'
  BY <1>1, <1>2, <1>6 DEF CodecTypes
<1>8. CopyIsPrefix'
  BY <1>1, <1>5, <1>6 DEF CopyIsPrefix
<1>9. ReadSame'
  BY <1>1, <1>2 DEF ReadSame
<1>10. Finished' = Finished
  BY <1>1 DEF Finished
<1>11. PICK ends : Ledger(ends, Finished, written, bytes) /\ VlongState(ends) /\ Reading(ends)
  BY CodecInvIs
<1>12. VlongState(ends)' /\ Reading(ends)' /\ Ledger(ends, Finished', written', bytes')
  BY <1>1, <1>10, <1>11 DEF VlongState, Reading
<1> QED
  BY <1>7, <1>8, <1>9, <1>12 DEF CodecInv, Reading, ReadSame

\* A read ends where the value does.
LEMMA ReadKeeps == CodecInv /\ Read => CodecInv'
<1> SUFFICES ASSUME CodecInv, Read PROVE CodecInv'
  OBVIOUS
<1> DEFINE n == Len(read)
           value == written[n + 1]
           result == Decoding(value.type, position)
<1>1. /\ vlong = Null /\ vlong' = vlong /\ written' = written /\ bytes' = bytes
      /\ copied' = copied /\ Len(copied) = Len(bytes) /\ n < Len(written)
      /\ read' = Append(read, Value(value.type, result.v)) /\ position' = result.next
  BY DEF Read, writer
<1>2. CodecTypes /\ CopyIsPrefix /\ ReadSame
  BY CodecInvIs
<1>3. /\ written \in Seq(Written) /\ bytes \in Seq(Bytes) /\ copied \in Seq(Bytes)
      /\ read \in Seq({AsRead(v) : v \in Written})
  BY <1>2 DEF CodecTypes
<1>4. n \in Nat /\ Finished = Len(written) /\ Finished' = Finished /\ Len(written) \in Nat
  BY <1>1, <1>3 DEF Finished
<1>5. PICK ends : Ledger(ends, Finished, written, bytes) /\ VlongState(ends) /\ Reading(ends)
  BY CodecInvIs
<1>6. n + 1 \in 1..Finished /\ (n + 1) - 1 = n /\ n \in 0..Finished
  BY <1>1, <1>4
<1>7. value \in Written
  BY <1>3, <1>4, <1>6
<1>8. /\ ends[n] \in 0..Len(bytes)
      /\ \E e \in EncodingsOf(value) : Has(bytes, ends[n], e) /\ ends[n + 1] = ends[n] + Len(e)
  BY <1>5, <1>6 DEF Ledger
<1>9. position = ends[n]
  BY <1>5 DEF Reading
<1> HIDE DEF value, n
<1>10. PICK e \in EncodingsOf(value) : Has(bytes, ends[n], e) /\ ends[n + 1] = ends[n] + Len(e)
  BY <1>8
<1>11. Reads(value, e)
  BY <1>3, <1>7, EncodingReads
<1>12. e \in Seq(Bytes) /\ Len(e) \in Nat /\ ends[n] \in Nat
  BY <1>3, <1>7, <1>8, EncodingBytes
<1>13. Has(copied, ends[n], e)
  <2>1. /\ Len(bytes) <= Len(copied) /\ Len(bytes) \in Nat
        /\ \A j \in 1..Len(bytes) : bytes[j] = copied[j]
    BY <1>1, <1>2, <1>3 DEF CopyIsPrefix
  <2> QED
    BY <1>3, <1>10, <1>12, <2>1, HasLonger
<1>14. result = At(AsRead(value).v, ends[n + 1])
  BY <1>9, <1>10, <1>11, <1>12, <1>13 DEF Reads
<1>15. result.v = AsRead(value).v /\ result.next = ends[n + 1]
  <2> HIDE DEF result
  <2> QED
    BY <1>14 DEF At
<1>16. read' = Append(read, AsRead(value)) /\ position' = ends[n + 1]
  <2>1. AsRead(value) = Value(value.type, AsRead(value).v)
    BY <1>11 DEF Reads
  <2> HIDE DEF result
  <2> QED
    BY <1>1, <1>15, <2>1
<1>17. /\ read' \in Seq({AsRead(v) : v \in Written}) /\ Len(read') = n + 1
       /\ read'[n + 1] = AsRead(value) /\ \A k \in 1..n : read'[k] = read[k]
  <2>1. AsRead(value) \in {AsRead(v) : v \in Written}
    BY <1>7
  <2> QED
    BY <1>3, <1>16, <2>1, SeqAppend DEF n
<1>18. CodecTypes'
  BY <1>1, <1>2, <1>17 DEF CodecTypes
<1>19. CopyIsPrefix'
  BY <1>1, <1>2 DEF CopyIsPrefix
<1>20. ReadSame'
  <2>1. ASSUME NEW k \in 1..(n + 1) PROVE read'[k] = AsRead(written[k])
    <3>1. CASE k = n + 1
      BY <1>17, <3>1 DEF value
    <3>2. CASE k # n + 1
      <4>1. k \in 1..n
        BY <1>4, <3>2
      <4>2. read[k] = AsRead(written[k])
        BY <1>2, <4>1 DEF ReadSame, n
      <4> QED
        BY <1>17, <4>1, <4>2
    <3> QED
      BY <3>1, <3>2
  <2> QED
    BY <1>1, <1>17, <2>1 DEF ReadSame
<1>21. Ledger(ends, Finished', written', bytes')
  BY <1>1, <1>4, <1>5
<1>22. VlongState(ends)'
  BY <1>1, <1>4, <1>5 DEF VlongState
<1>23. Reading(ends)'
  BY <1>4, <1>6, <1>16, <1>17 DEF Reading
<1> QED
  BY <1>18, <1>19, <1>20, <1>21, <1>22, <1>23 DEF CodecInv, Reading, ReadSame

\* Each step keeps the invariant.
LEMMA CodecStep == CodecInv /\ [CodecNext]_codecVars => CodecInv'
<1>1. CodecInv /\ UNCHANGED codecVars => CodecInv'
  <2> SUFFICES ASSUME CodecInv, UNCHANGED codecVars PROVE CodecInv'
    OBVIOUS
  <2>1. /\ vlong' = vlong /\ written' = written /\ bytes' = bytes /\ copied' = copied
        /\ read' = read /\ position' = position
    BY DEF codecVars, writer, reader
  <2>2. CodecTypes' /\ CopyIsPrefix' /\ ReadSame' /\ Finished' = Finished
    BY <2>1, CodecInvIs DEF CodecTypes, CopyIsPrefix, ReadSame, Finished
  <2>3. PICK ends : Ledger(ends, Finished, written, bytes) /\ VlongState(ends) /\ Reading(ends)
    BY CodecInvIs
  <2>4. VlongState(ends)' /\ Reading(ends)' /\ Ledger(ends, Finished', written', bytes')
    BY <2>1, <2>2, <2>3 DEF VlongState, Reading
  <2> QED
    BY <2>2, <2>4 DEF CodecInv, Reading, ReadSame
<1> QED
  BY <1>1, WriteKeeps, WriteVlongKeeps, WriteVlongRoundKeeps, WriteVlongLastKeeps, CopyKeeps,
     ReadKeeps DEF CodecNext

\* The invariant says that the values read are those written.
LEMMA CodecInvReadsBack == CodecInv => ReadsBack
<1> SUFFICES ASSUME CodecInv PROVE ReadsBack
  OBVIOUS
<1>1. CodecTypes /\ ReadSame
  BY CodecInvIs
<1>2. PICK ends : Ledger(ends, Finished, written, bytes) /\ VlongState(ends) /\ Reading(ends)
  BY CodecInvIs
<1>3. Len(written) \in Nat
  BY <1>1 DEF CodecTypes
<1>4. ASSUME Len(read) = Len(written) PROVE position = Len(bytes)
  <2>1. Len(read) <= Finished /\ position = ends[Len(read)]
    BY <1>2 DEF Reading
  <2>2. vlong = Null /\ Finished = Len(written)
    BY <1>3, <1>4, <2>1 DEF Finished
  <2>3. ends[Finished] = Len(bytes)
    BY <1>2, <2>2 DEF VlongState
  <2> QED
    BY <1>4, <2>1, <2>2, <2>3
<1> QED
  BY <1>1, <1>4 DEF ReadsBack, ReadSame

-----------------------------------------------------------------------------
(* The theorems *)

\* A write_vlong() that has returned wrote one group: with a number of two or
\* more it does not return, whatever the width of a group.
ShortVlongs == \A k \in 1..Finished : written[k].type = "vlong" => written[k].v \in 0..(Flag - 1)

\* Only one group is an encoding.
LEMMA CodecInvShortVlongs == CodecInv => ShortVlongs
<1> SUFFICES ASSUME CodecInv, NEW k \in 1..Finished, written[k].type = "vlong"
             PROVE  written[k].v \in 0..(Flag - 1)
  BY DEF ShortVlongs
<1>1. PICK ends : Ledger(ends, Finished, written, bytes)
  BY CodecInvIs
<1>2. PICK e \in EncodingsOf(written[k]) : TRUE
  BY <1>1 DEF Ledger
<1> QED
  BY <1>2 DEF EncodingsOf

\* The first values are in the file one behind the other, the copy has its first
\* bytes, and the reader is at the end of a value, after every step.
THEOREM CodecInvariant == CodecSpec => []CodecInv
<1> QED
  BY InitCodecInv, CodecStep, PTL DEF CodecSpec

\* ReadsBack: each value that IndexInput reads of the copy is the one that
\* IndexOutput wrote in its place, and after the last one the file ends.
THEOREM ValuesReadBack == CodecSpec => []ReadsBack
<1> QED
  BY CodecInvariant, CodecInvReadsBack, PTL

\* No write_vlong() of more than one group returns.
THEOREM VlongsAreShort == CodecSpec => []ShortVlongs
<1> QED
  BY CodecInvariant, CodecInvShortVlongs, PTL
=============================================================================
