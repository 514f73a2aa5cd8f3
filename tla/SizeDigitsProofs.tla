------------------------- MODULE SizeDigitsProofs -------------------------
(***************************************************************************)
(* What becomes of a size that is printed into the buffer and read back,   *)
(* for any radix, any length of the buffer and any earlier contents.       *)
(*                                                                         *)
(* The library's principles of induction and recursion are about operators *)
(* the provers cannot instantiate.  Here both are stated about a set and a *)
(* function instead, from the one theorem on well-founded relations that   *)
(* speaks of a set.                                                        *)
(***************************************************************************)
EXTENDS SizeDigits, WellFoundedInduction, TLAPS

\* Induction, for a set in place of the library's operator.
LEMMA Induction ==
  ASSUME NEW S, 0 \in S, \A n \in Nat : n \in S => n + 1 \in S
  PROVE  Nat \subseteq S
<1> DEFINE Less == {p \in Nat \X Nat : p[1] < p[2]}
           T == Nat \ S
<1>0. IsWellFoundedOn(Less, Nat)
  BY NatLessThanWellFounded DEF OpToRel
<1> SUFFICES ASSUME T # {} PROVE FALSE
  OBVIOUS
<1>1. PICK n \in T : \A m \in T : ~ (<<m, n>> \in Less)
  <2>1. T \subseteq Nat
    OBVIOUS
  <2> HIDE DEF T, Less
  <2> QED BY <1>0, <2>1, WFMin
<1>2. n # 0 /\ n - 1 \in Nat
  OBVIOUS
<1>3. <<n - 1, n>> \in Less
  BY <1>2
<1>4. n - 1 \in S
  BY <1>1, <1>2, <1>3
<1> QED
  BY <1>2, <1>4

\* There is a function that step makes from base.
Defined(V, base, step) ==
  \E f \in [Nat -> V] :
     f[0] = base /\ \A n \in Nat \ {0} : f[n] = step[n][f[n - 1]]

\* Recursion on the naturals, by a step that is a function.
LEMMA Recursion ==
  ASSUME NEW V, NEW base \in V, NEW step \in [Nat -> [V -> V]]
  PROVE  Defined(V, base, step)
<1> DEFINE Follows(g, m) ==
             g[0] = base /\ \A n \in 1..m : g[n] = step[n][g[n - 1]]
           S == {m \in Nat : \E g \in [0..m -> V] : Follows(g, m)}
<1>1. 0 \in S
  <2>1. [n \in 0..0 |-> base] \in [0..0 -> V] /\ Follows([n \in 0..0 |-> base], 0)
    OBVIOUS
  <2> QED BY <2>1
<1>2. ASSUME NEW m \in Nat, m \in S PROVE m + 1 \in S
  <2>1. PICK g \in [0..m -> V] : Follows(g, m)
    BY <1>2
  <2> DEFINE h == [n \in 0..(m + 1) |-> IF n = m + 1 THEN step[m + 1][g[m]] ELSE g[n]]
  <2>2. h \in [0..(m + 1) -> V]
    OBVIOUS
  <2>3. Follows(h, m + 1)
    BY <2>1
  <2> HIDE DEF h, Follows
  <2> QED BY <2>2, <2>3
<1>3. Nat \subseteq S
  <2> HIDE DEF S
  <2> QED BY <1>1, <1>2, Induction
<1>4. ASSUME NEW k \in Nat, NEW m \in Nat, k <= m,
             NEW g \in [0..k -> V], NEW h \in [0..m -> V], Follows(g, k), Follows(h, m)
      PROVE  g[k] = h[k]
  <2> DEFINE E == {n \in Nat : n <= k => g[n] = h[n]}
  <2>1. 0 \in E
    BY <1>4
  <2>2. ASSUME NEW n \in Nat, n \in E PROVE n + 1 \in E
    BY <1>4, <2>2
  <2>3. Nat \subseteq E
    <3> HIDE DEF E
    <3> QED BY <2>1, <2>2, Induction
  <2> QED BY <2>3
<1> DEFINE part == [m \in Nat |-> CHOOSE g \in [0..m -> V] : Follows(g, m)]
           f == [n \in Nat |-> part[n][n]]
<1>5. \A m \in Nat : part[m] \in [0..m -> V] /\ Follows(part[m], m)
  <2> TAKE m \in Nat
  <2>1. \E g \in [0..m -> V] : Follows(g, m)
    BY <1>3
  <2> QED BY <2>1
<1> HIDE DEF part, Follows
<1>6. f \in [Nat -> V]
  BY <1>5
<1>7. f[0] = base
  BY <1>5 DEF Follows
<1>8. ASSUME NEW n \in Nat \ {0} PROVE f[n] = step[n][f[n - 1]]
  <2>1. n - 1 \in Nat /\ n - 1 <= n /\ n \in 1..n
    OBVIOUS
  <2>2. part[n][n] = step[n][part[n][n - 1]]
    BY <1>5, <2>1 DEF Follows
  <2>3. part[n - 1] \in [0..(n - 1) -> V] /\ Follows(part[n - 1], n - 1)
    BY <1>5, <2>1
  <2>4. part[n] \in [0..n -> V] /\ Follows(part[n], n)
    BY <1>5
  <2>5. part[n - 1][n - 1] = part[n][n - 1]
    BY <1>4, <2>1, <2>3, <2>4
  <2> QED BY <2>1, <2>2, <2>5
<1> HIDE DEF f
<1> QED BY <1>6, <1>7, <1>8 DEF Defined
---------------------------------------------------------------------------
(* Powers of the radix *)

USE SizeLenAssumption, RadixAssumption

LEMMA PowerIs ==
  /\ Power \in [Nat -> Int]
  /\ Power[0] = 1
  /\ \A k \in Nat : Power[k + 1] = Radix * Power[k]
<1> DEFINE step == [k \in Nat |-> [v \in Int |-> Radix * v]]
<1>1. step \in [Nat -> [Int -> Int]]
  OBVIOUS
<1>2. Defined(Int, 1, step)
  <2>1. 1 \in Int
    OBVIOUS
  <2> HIDE DEF step
  <2> QED BY <1>1, <2>1, Recursion
<1>3. PICK f \in [Nat -> Int] :
        f = [n \in Nat |-> IF n = 0 THEN 1 ELSE Radix * f[n - 1]]
  <2>1. PICK f \in [Nat -> Int] :
          f[0] = 1 /\ \A n \in Nat \ {0} : f[n] = step[n][f[n - 1]]
    BY <1>2 DEF Defined
  <2>2. \A n \in Nat \ {0} : f[n - 1] \in Int
    OBVIOUS
  <2>3. \A n \in Nat \ {0} : f[n] = Radix * f[n - 1]
    BY <2>1, <2>2
  <2> HIDE DEF step
  <2>4. f = [n \in Nat |-> IF n = 0 THEN 1 ELSE Radix * f[n - 1]]
    BY <2>1, <2>3
  <2> QED BY <2>4
<1>4. Power = [n \in Nat |-> IF n = 0 THEN 1 ELSE Radix * Power[n - 1]]
  BY <1>3 DEF Power
<1> DEFINE S == {n \in Nat : Power[n] \in Int}
<1>5. Power[0] = 1 /\ \A k \in Nat : Power[k + 1] = Radix * Power[k]
  BY <1>4
<1>6. Nat \subseteq S
  <2>1. 0 \in S
    BY <1>5
  <2>2. \A n \in Nat : n \in S => n + 1 \in S
    BY <1>5
  <2> HIDE DEF S
  <2> QED BY <2>1, <2>2, Induction
<1>7. \A n \in Nat : Power[n] \in Int
  BY <1>6
<1>8. Power \in [Nat -> Int]
  BY <1>4, <1>7
<1> QED BY <1>5, <1>8

LEMMA TimesRadix == \A p \in Int : p >= 1 => Radix * p > p
<1> SUFFICES ASSUME NEW p \in Int, p >= 1 PROVE Radix * p > p
  OBVIOUS
<1> DEFINE q == Radix - 1
<1>1. q \in Int /\ q >= 1 /\ Radix = q + 1
  OBVIOUS
<1> HIDE DEF q
<1>2. q * p \in Int /\ q * p >= 1
  BY <1>1
<1>3. (q + 1) * p = q * p + p
  BY <1>1
<1> QED BY <1>1, <1>2, <1>3

LEMMA PowerGrows ==
  /\ \A k \in Nat : Power[k] \in Nat \ {0} /\ k < Power[k]
  /\ \A k \in Nat : Power[k] < Power[k + 1]
<1> DEFINE S == {k \in Nat : k < Power[k]}
<1>1. 0 \in S
  BY PowerIs
<1>2. ASSUME NEW k \in Nat, k \in S PROVE k + 1 \in S
  <2>1. Power[k] \in Int /\ k + 1 <= Power[k] /\ Power[k + 1] = Radix * Power[k]
    BY <1>2, PowerIs
  <2>2. Radix * Power[k] > Power[k]
    BY <2>1, TimesRadix
  <2> QED BY <2>1, <2>2
<1>3. Nat \subseteq S
  <2> HIDE DEF S
  <2> QED BY <1>1, <1>2, Induction
<1>4. \A k \in Nat : Power[k] \in Nat \ {0} /\ k < Power[k]
  BY <1>3, PowerIs
<1>6. \A k \in Nat : Power[k] \in Int /\ Power[k] >= 1
  BY <1>4
<1>7. \A k \in Nat : Power[k] < Power[k + 1]
  BY <1>6, PowerIs, TimesRadix
<1> QED BY <1>4, <1>7
---------------------------------------------------------------------------
(* How many digits *)

\* Each number has a number of digits, between which powers it lies.
LEMMA DigitsOf ==
  ASSUME NEW n \in Nat
  PROVE  /\ NumDigits(n) \in Nat \ {0}
         /\ n < Power[NumDigits(n)]
<1> DEFINE Fits(d) == n < Power[d] /\ (d = 1 \/ n >= Power[d - 1])
           S == {d \in Nat : d = 0 \/ n >= Power[d]}
<1>1. \E d \in 1..(n + 1) : Fits(d)
  <2> SUFFICES ASSUME ~ \E d \in 1..(n + 1) : Fits(d) PROVE FALSE
    OBVIOUS
  <2> DEFINE R == {d \in Nat : d \in 1..(n + 1) => n >= Power[d]}
  <2>1. 0 \in R
    OBVIOUS
  <2>2. ASSUME NEW d \in Nat, d \in R PROVE d + 1 \in R
    <3>1. CASE d + 1 \in 1..(n + 1)
      <4>1. ~ Fits(d + 1)
        BY <3>1
      <4>2. d = 0 \/ (d \in 1..(n + 1) /\ n >= Power[d])
        BY <2>2, <3>1
      <4>3. Power[d + 1] \in Nat /\ (d + 1) - 1 = d /\ (d + 1 = 1 <=> d = 0)
        BY PowerGrows
      <4>4. ~ (n < Power[d + 1])
        BY <4>1, <4>2, <4>3
      <4> QED BY <4>3, <4>4
    <3> QED BY <3>1
  <2>3. Nat \subseteq R
    <3> HIDE DEF R
    <3> QED BY <2>1, <2>2, Induction
  <2>4. n >= Power[n + 1]
    BY <2>3
  <2> QED BY <2>4, PowerGrows
<1>2. NumDigits(n) \in 1..(n + 1) /\ Fits(NumDigits(n))
  <2> HIDE DEF Fits
  <2>1. NumDigits(n) = CHOOSE d \in 1..(n + 1) : Fits(d)
    BY DEF NumDigits, Fits
  <2> QED BY <1>1, <2>1
<1> QED BY <1>2
---------------------------------------------------------------------------
(* What the bytes are read as *)

\* value[i] is what the first i bytes of the buffer are read as.
ReadsAs(buffer, value) ==
  /\ value \in [0..SizeLen -> Nat]
  /\ value[0] = 0
  /\ \A i \in 1..SizeLen :
        value[i] = IF buffer[i] = NUL THEN value[i - 1] ELSE value[i - 1] * Radix + buffer[i]

LEMMA ParsedIs ==
  ASSUME NEW buffer \in Buffers
  PROVE  \E value : ReadsAs(buffer, value) /\ Parsed(buffer) = value[SizeLen]
<1> DEFINE digit(i) == i \in 1..SizeLen /\ buffer[i] # NUL
           step == [i \in Nat |-> [v \in Nat |-> IF digit(i) THEN v * Radix + buffer[i] ELSE v]]
           Good(g) == g = [i \in 0..SizeLen |->
                             IF i = 0 THEN 0
                             ELSE IF buffer[i] = NUL THEN g[i - 1]
                             ELSE g[i - 1] * Radix + buffer[i]]
<1>1. \A i \in 1..SizeLen : buffer[i] # NUL => buffer[i] \in Nat
  BY DEF Buffers, NUL
<1>2. \A v \in Nat : v * Radix \in Nat
  OBVIOUS
<1>3. step \in [Nat -> [Nat -> Nat]]
  BY <1>1, <1>2
<1>4. Defined(Nat, 0, step)
  <2>1. 0 \in Nat
    OBVIOUS
  <2> HIDE DEF step
  <2> QED BY <1>3, <2>1, Recursion
<1>5. \E g : Good(g)
  <2>1. PICK f \in [Nat -> Nat] :
          f[0] = 0 /\ \A n \in Nat \ {0} : f[n] = step[n][f[n - 1]]
    BY <1>4 DEF Defined
  <2>2. \A n \in Nat \ {0} : f[n - 1] \in Nat
    OBVIOUS
  <2>3. \A n \in 1..SizeLen :
          f[n] = IF buffer[n] = NUL THEN f[n - 1] ELSE f[n - 1] * Radix + buffer[n]
    <3> SUFFICES ASSUME NEW n \in 1..SizeLen
                 PROVE  f[n] = IF buffer[n] = NUL THEN f[n - 1]
                               ELSE f[n - 1] * Radix + buffer[n]
      OBVIOUS
    <3>1. f[n - 1] \in Nat /\ n \in Nat \ {0}
      BY <2>2
    <3>2. step[n] = [v \in Nat |-> IF digit(n) THEN v * Radix + buffer[n] ELSE v]
      BY <3>1
    <3>3. f[n] = step[n][f[n - 1]]
      <4> HIDE DEF step
      <4> QED BY <2>1, <3>1
    <3> HIDE DEF step
    <3>4. f[n] = IF digit(n) THEN f[n - 1] * Radix + buffer[n] ELSE f[n - 1]
      BY <3>1, <3>2, <3>3
    <3> QED BY <3>4
  <2> DEFINE g == [i \in 0..SizeLen |-> f[i]]
  <2>4. \A i \in 0..SizeLen : g[i] = f[i] /\ (i # 0 => g[i - 1] = f[i - 1])
    OBVIOUS
  <2>5. \A i \in 0..SizeLen :
          g[i] = IF i = 0 THEN 0
                 ELSE IF buffer[i] = NUL THEN g[i - 1]
                 ELSE g[i - 1] * Radix + buffer[i]
    <3> HIDE DEF g, step
    <3> QED BY <2>1, <2>3, <2>4
  <2>6. g = [i \in 0..SizeLen |-> g[i]]
    OBVIOUS
  <2> HIDE DEF g, step
  <2>7. Good(g)
    BY <2>5, <2>6, Zenon
  <2> QED BY <2>7
<1> DEFINE value == CHOOSE g : Good(g)
<1>6. Good(value)
  <2> HIDE DEF Good
  <2> QED BY <1>5
<1>7. Parsed(buffer) = value[SizeLen]
  BY DEF Parsed
<1> HIDE DEF value
<1>8. /\ value[0] = 0
      /\ \A i \in 1..SizeLen :
           value[i] = IF buffer[i] = NUL THEN value[i - 1] ELSE value[i - 1] * Radix + buffer[i]
  <2>1. \A i \in 0..SizeLen :
          value[i] = IF i = 0 THEN 0
                     ELSE IF buffer[i] = NUL THEN value[i - 1]
                     ELSE value[i - 1] * Radix + buffer[i]
    BY <1>6, Zenon
  <2> QED BY <2>1
<1> DEFINE S == {i \in Nat : i <= SizeLen => value[i] \in Nat}
<1>9. Nat \subseteq S
  <2>1. 0 \in S
    BY <1>8
  <2>2. ASSUME NEW i \in Nat, i \in S PROVE i + 1 \in S
    <3>1. CASE i + 1 <= SizeLen
      <4>1. i + 1 \in 1..SizeLen /\ value[i] \in Nat /\ (i + 1) - 1 = i
        BY <2>2, <3>1
      <4>2. value[i + 1] = IF buffer[i + 1] = NUL THEN value[i]
                           ELSE value[i] * Radix + buffer[i + 1]
        BY <1>8, <4>1
      <4>3. value[i + 1] \in Nat
        BY <1>1, <1>2, <4>1, <4>2
      <4> QED BY <4>3
    <3> QED BY <3>1
  <2> HIDE DEF S
  <2> QED BY <2>1, <2>2, Induction
<1>10. value \in [0..SizeLen -> Nat]
  <2>1. \A i \in 0..SizeLen : value[i] \in Nat
    BY <1>9
  <2> QED BY <1>6, <2>1
<1> QED BY <1>7, <1>8, <1>10 DEF ReadsAs

\* Any bytes are read as some number.
THEOREM ParsedType == \A buffer \in Buffers : Parsed(buffer) \in Nat
<1> SUFFICES ASSUME NEW buffer \in Buffers PROVE Parsed(buffer) \in Nat
  OBVIOUS
<1>1. PICK value : ReadsAs(buffer, value) /\ Parsed(buffer) = value[SizeLen]
  BY ParsedIs
<1> QED BY <1>1 DEF ReadsAs
---------------------------------------------------------------------------
(* Digits *)

LEMMA QuotientAndRemainder ==
  ASSUME NEW n \in Nat, NEW m \in Nat \ {0}
  PROVE  n \div m \in Nat /\ n % m \in 0..(m - 1) /\ n = m * (n \div m) + (n % m)
<1>1. n \div m \in Nat
  OBVIOUS
<1>2. n % m \in 0..(m - 1)
  OBVIOUS
<1>3. n = m * (n \div m) + (n % m)
  OBVIOUS
<1> QED BY <1>1, <1>2, <1>3

LEMMA QuotientUnique ==
  ASSUME NEW m \in Nat \ {0}, NEW a \in Int, NEW b \in Int,
         NEW r \in 0..(m - 1), NEW s \in 0..(m - 1), m * a + r = m * b + s
  PROVE  a = b
<1>1. CASE a > b
  <2>1. m * (a - b) >= m /\ m * (a - b) = s - r
    BY <1>1
  <2> QED BY <2>1
<1>2. CASE b > a
  <2>1. m * (b - a) >= m /\ m * (b - a) = r - s
    BY <1>2
  <2> QED BY <2>1
<1> QED BY <1>1, <1>2

LEMMA QuotientIs ==
  ASSUME NEW m \in Nat \ {0}, NEW c \in Nat, NEW r \in 0..(m - 1), NEW n \in Nat,
         n = m * c + r
  PROVE  n \div m = c
<1> DEFINE x == n \div m
           y == n % m
<1>1. x \in Nat /\ y \in 0..(m - 1) /\ n = m * x + y
  BY QuotientAndRemainder
<1> HIDE DEF x, y
<1>2. x = c
  BY <1>1, QuotientUnique
<1> QED BY <1>2 DEF x

\* Dividing twice is dividing by the product.
LEMMA QuotientOfQuotient ==
  ASSUME NEW n \in Nat, NEW p \in Nat \ {0}, NEW k \in Nat \ {0}
  PROVE  n \div (k * p) = (n \div p) \div k
<1> DEFINE a == n \div p
           b == n % p
           c == a \div k
           e == a % k
           m == k * p
           r == p * e + b
<1>1. a \in Nat /\ b \in 0..(p - 1) /\ n = p * a + b
  OBVIOUS
<1>2. c \in Nat /\ e \in 0..(k - 1) /\ a = k * c + e
  <2> HIDE DEF a
  <2> QED BY <1>1
<1>3. m \in Nat \ {0}
  OBVIOUS
<1> HIDE DEF a, b, c, e
<1>4. p * e \in Nat /\ p * e <= p * (k - 1)
  <2>1. p * (k - 1 - e) >= 0
    BY <1>2
  <2>2. p * (k - 1 - e) = p * (k - 1) - p * e
    BY <1>2
  <2> QED BY <1>2, <2>1, <2>2
<1>5. p * (k - 1) = m - p
  OBVIOUS
<1>6. r \in 0..(m - 1)
  <2>1. r \in Nat /\ r <= (m - p) + (p - 1)
    BY <1>1, <1>4, <1>5
  <2> HIDE DEF r, m
  <2> QED BY <1>3, <2>1
<1>7. n = m * c + r
  <2>1. p * (k * c + e) = (k * p) * c + p * e
    BY <1>2
  <2> QED BY <1>1, <1>2, <2>1
<1>8. n \div m = c
  <2> HIDE DEF m, r
  <2> QED BY <1>2, <1>3, <1>6, <1>7, QuotientIs
<1> QED BY <1>8 DEF a, c

\* The digits put one after another: as many of them as were put make the
\* number without the digits that are left.
LEMMA DigitsAppended ==
  ASSUME NEW n \in Nat, NEW d \in Nat, NEW i \in 1..d
  PROVE  /\ Digit(n, d, i) \in 0..(Radix - 1)
         /\ (n \div Power[d - (i - 1)]) * Radix + Digit(n, d, i) = n \div Power[d - i]
<1> DEFINE p == Power[d - i]
           q == n \div p
<1>1. p \in Nat \ {0} /\ Power[d - (i - 1)] = Radix * p
  <2>1. d - i \in Nat /\ d - (i - 1) = (d - i) + 1
    OBVIOUS
  <2> QED BY <2>1, PowerIs, PowerGrows
<1>2. q \in Nat
  <2> HIDE DEF p
  <2> QED BY <1>1, QuotientAndRemainder
<1>3. n \div (Radix * p) = q \div Radix
  <2> HIDE DEF p
  <2>1. Radix \in Nat \ {0}
    OBVIOUS
  <2>2. n \div (Radix * p) = (n \div p) \div Radix
    BY <1>1, <2>1, QuotientOfQuotient, Zenon
  <2> QED BY <2>2
<1> HIDE DEF q
<1>4. q \div Radix \in Nat /\ q % Radix \in 0..(Radix - 1)
      /\ q = Radix * (q \div Radix) + (q % Radix)
  BY <1>2, QuotientAndRemainder
<1>5. Radix * (q \div Radix) = (q \div Radix) * Radix
  BY <1>4
<1>6. Digit(n, d, i) = q % Radix
  BY DEF Digit, q
<1>7. (q \div Radix) * Radix + (q % Radix) = q
  BY <1>4, <1>5
<1> QED BY <1>1, <1>3, <1>4, <1>6, <1>7 DEF q

\* What the buffer holds after snprintf.
LEMMA PrintedIs ==
  ASSUME NEW buffer \in Buffers, NEW n \in Nat
  PROVE  LET d == NumDigits(n)
             shown == IF d < SizeLen THEN d ELSE SizeLen - 1
         IN  /\ Printed(buffer, n) \in Buffers
             /\ shown \in 0..(SizeLen - 1) /\ shown <= d
             /\ \A i \in 1..shown : Printed(buffer, n)[i] = Digit(n, d, i)
             /\ Printed(buffer, n)[shown + 1] = NUL
             /\ \A i \in (shown + 2)..SizeLen : Printed(buffer, n)[i] = buffer[i]
<1> DEFINE d == NumDigits(n)
           shown == IF d < SizeLen THEN d ELSE SizeLen - 1
           printed == [i \in 1..SizeLen |-> IF i <= shown THEN Digit(n, d, i)
                                            ELSE IF i = shown + 1 THEN NUL ELSE buffer[i]]
<1>1. d \in Nat \ {0}
  BY DigitsOf
<1> HIDE DEF d
<1>2. shown \in 0..(SizeLen - 1) /\ shown <= d
  BY <1>1
<1>3. \A i \in 1..shown : Digit(n, d, i) \in 0..(Radix - 1)
  <2> SUFFICES ASSUME NEW i \in 1..shown PROVE Digit(n, d, i) \in 0..(Radix - 1)
    OBVIOUS
  <2>1. d \in Nat /\ i \in 1..d
    BY <1>1, <1>2
  <2> QED BY <2>1, DigitsAppended
<1>4. Printed(buffer, n) = printed
  BY DEF Printed, d
<1> HIDE DEF shown
<1>5. \A i \in 1..SizeLen :
        printed[i] = IF i <= shown THEN Digit(n, d, i)
                     ELSE IF i = shown + 1 THEN NUL ELSE buffer[i]
  OBVIOUS
<1>6. \A i \in 1..SizeLen : printed[i] \in 0..(Radix - 1) \cup {NUL}
  BY <1>2, <1>3, <1>5 DEF Buffers
<1>7. printed \in Buffers
  BY <1>6 DEF Buffers
<1> HIDE DEF printed
<1>8. /\ \A i \in 1..shown : printed[i] = Digit(n, d, i)
      /\ printed[shown + 1] = NUL
      /\ \A i \in (shown + 2)..SizeLen : printed[i] = buffer[i]
  BY <1>2, <1>5
<1> QED BY <1>2, <1>4, <1>7, <1>8 DEF d, shown

\* After the digits that snprintf put, the number read is the size without the
\* digits that did not fit.
LEMMA DigitsReadAs ==
  ASSUME NEW buffer \in Buffers, NEW n \in Nat, NEW value,
         ReadsAs(Printed(buffer, n), value)
  PROVE  LET d == NumDigits(n)
             shown == IF d < SizeLen THEN d ELSE SizeLen - 1
         IN  value[shown] = n \div Power[d - shown] /\ value[shown + 1] = value[shown]
<1> DEFINE d == NumDigits(n)
           shown == IF d < SizeLen THEN d ELSE SizeLen - 1
           printed == Printed(buffer, n)
           S == {i \in Nat : i <= shown => value[i] = n \div Power[d - i]}
<1>1. d \in Nat \ {0} /\ n < Power[d]
  BY DigitsOf
<1>2. /\ printed \in Buffers
      /\ shown \in 0..(SizeLen - 1) /\ shown <= d
      /\ \A i \in 1..shown : printed[i] = Digit(n, d, i)
      /\ printed[shown + 1] = NUL
  BY PrintedIs
<1>3. ReadsAs(printed, value)
  OBVIOUS
<1> HIDE DEF d, shown, printed
<1>4. 0 \in S
  <2> DEFINE p == Power[d]
  <2>1. p \in Nat \ {0} /\ n < p
    BY <1>1, PowerGrows
  <2>2. n = p * 0 + n /\ n \in 0..(p - 1)
    BY <2>1
  <2>3. n \div p = 0
    <3> HIDE DEF p
    <3> QED BY <2>1, <2>2, QuotientIs
  <2>4. d - 0 = d
    BY <1>1
  <2> QED BY <1>3, <2>3, <2>4 DEF ReadsAs
<1>5. ASSUME NEW i \in Nat, i \in S PROVE i + 1 \in S
  <2>1. CASE i + 1 <= shown
    <3>1. /\ i + 1 \in 1..SizeLen /\ i + 1 \in 1..d /\ (i + 1) - 1 = i
          /\ i + 1 \in 1..shown
      BY <1>1, <1>2, <2>1
    <3>2. Digit(n, d, i + 1) \in 0..(Radix - 1)
          /\ (n \div Power[d - i]) * Radix + Digit(n, d, i + 1) = n \div Power[d - (i + 1)]
      <4> DEFINE j == i + 1
      <4>1. j \in 1..d /\ d \in Nat /\ j - 1 = i
        BY <1>1, <3>1
      <4> HIDE DEF j
      <4>2. Digit(n, d, j) \in 0..(Radix - 1)
            /\ (n \div Power[d - (j - 1)]) * Radix + Digit(n, d, j) = n \div Power[d - j]
        BY <4>1, DigitsAppended
      <4> QED BY <4>1, <4>2 DEF j
    <3>3. printed[i + 1] = Digit(n, d, i + 1) /\ printed[i + 1] # NUL
      BY <1>2, <3>1, <3>2 DEF NUL
    <3>4. value[i + 1] = value[i] * Radix + printed[i + 1]
      BY <1>3, <3>1, <3>3 DEF ReadsAs
    <3>5. value[i] = n \div Power[d - i]
      BY <1>5, <2>1, <1>2
    <3>6. value[i + 1] = n \div Power[d - (i + 1)]
      BY <3>2, <3>3, <3>4, <3>5
    <3> QED BY <3>6
  <2> QED BY <2>1
<1>6. Nat \subseteq S
  <2> HIDE DEF S
  <2> QED BY <1>4, <1>5, Induction
<1>7. value[shown] = n \div Power[d - shown]
  BY <1>2, <1>6
<1>8. shown + 1 \in 1..SizeLen /\ (shown + 1) - 1 = shown
  BY <1>2
<1>9. value[shown + 1] = value[shown]
  BY <1>2, <1>3, <1>8 DEF ReadsAs
<1> QED BY <1>7, <1>9 DEF d, shown

\* A size whose digits fit is read back as it was sent, if no digit lies behind
\* the terminator.
THEOREM SizesReadBack ==
  ASSUME NEW buffer \in Buffers, NEW n \in Nat,
         NumDigits(n) < SizeLen,
         \A i \in (NumDigits(n) + 2)..SizeLen : buffer[i] = NUL
  PROVE  Parsed(Printed(buffer, n)) = n
<1> DEFINE d == NumDigits(n)
           printed == Printed(buffer, n)
<1>1. /\ printed \in Buffers
      /\ d \in 0..(SizeLen - 1)
      /\ \A i \in (d + 2)..SizeLen : printed[i] = NUL
  BY PrintedIs
<1>2. PICK value : ReadsAs(printed, value) /\ Parsed(printed) = value[SizeLen]
  BY <1>1, ParsedIs
<1>3. value[d + 1] = n \div Power[d - d]
  BY <1>2, DigitsReadAs
<1> HIDE DEF d, printed
<1>4. value[d + 1] = n
  <2>1. d - d = 0
    BY <1>1
  <2>2. n = 1 * n + 0 /\ 0 \in 0..(1 - 1)
    OBVIOUS
  <2>3. n \div 1 = n
    BY <2>2, QuotientIs
  <2> QED BY <1>3, <2>1, <2>3, PowerIs
<1> DEFINE S == {k \in Nat : d + 1 + k <= SizeLen => value[d + 1 + k] = n}
<1>5. Nat \subseteq S
  <2>1. 0 \in S
    BY <1>1, <1>4
  <2>2. ASSUME NEW k \in Nat, k \in S PROVE k + 1 \in S
    <3>1. CASE d + 1 + (k + 1) <= SizeLen
      <4> DEFINE i == d + 1 + (k + 1)
      <4>1. i \in 1..SizeLen /\ i \in (d + 2)..SizeLen /\ i - 1 = d + 1 + k
        BY <1>1, <3>1
      <4>2. value[i - 1] = n
        BY <1>1, <2>2, <3>1, <4>1
      <4> HIDE DEF i
      <4>3. value[i] = value[i - 1]
        BY <1>1, <1>2, <4>1 DEF ReadsAs
      <4> QED BY <4>2, <4>3 DEF i
    <3> QED BY <3>1
  <2> HIDE DEF S
  <2> QED BY <2>1, <2>2, Induction
<1>6. SizeLen - (d + 1) \in Nat /\ d + 1 + (SizeLen - (d + 1)) = SizeLen
  BY <1>1
<1>7. value[SizeLen] = n
  BY <1>5, <1>6
<1> QED BY <1>2, <1>7 DEF printed

\* A size with more digits than fit is read as its leading digits: for a smaller
\* image than the one that follows.
THEOREM TruncatedSize ==
  ASSUME NEW buffer \in Buffers, NEW n \in Nat, NumDigits(n) >= SizeLen
  PROVE  Parsed(Printed(buffer, n)) = n \div Power[NumDigits(n) - (SizeLen - 1)]
<1> DEFINE printed == Printed(buffer, n)
           d == NumDigits(n)
<1>1. printed \in Buffers
  BY PrintedIs
<1>2. PICK value : ReadsAs(printed, value) /\ Parsed(printed) = value[SizeLen]
  BY <1>1, ParsedIs
<1>3. d \in Nat /\ ~ (d < SizeLen)
  BY DigitsOf
<1>4. value[SizeLen - 1] = n \div Power[d - (SizeLen - 1)]
      /\ value[(SizeLen - 1) + 1] = value[SizeLen - 1]
  BY <1>2, <1>3, DigitsReadAs
<1>5. (SizeLen - 1) + 1 = SizeLen
  OBVIOUS
<1> QED BY <1>2, <1>4, <1>5
===========================================================================
