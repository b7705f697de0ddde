------------------------ MODULE ApartmentCalculationProofs ------------------------
(***************************************************************************)
(* Theorems about the calculation of an apartment's value, for all inputs  *)
(* and configurations: the arithmetic of fractions it is modelled with,    *)
(* the reconciliation of the analogs, and the formulas that agree.         *)
(***************************************************************************)
EXTENDS ApartmentCalculation, WellFoundedInduction, TLAPS

(* The greatest common divisor. *)

Divides(a, n) == \E k \in Int : n = a * k

\* z is y and a multiple of x.
Exceeds(z, y, x) == \E c \in Int : z = y + x * c

\* Candidates for the greatest common divisor, in the order of divisibility.
Greatest(m, n) == {g \in Nat : \A h \in Nat : Divides(h, g) <=> Divides(h, m) /\ Divides(h, n)}

LEMMA DivisionNat ==
  ASSUME NEW m \in Nat, NEW n \in Nat \ {0}
  PROVE  /\ m \div n \in Nat /\ m % n \in Nat /\ m % n < n
         /\ m = n * (m \div n) + (m % n)
OBVIOUS

\* A common divisor divides what is put together from the two.
LEMMA DividesSum ==
  ASSUME NEW h \in Int, NEW x \in Int, NEW y \in Int, NEW z \in Int,
         Divides(h, x), Divides(h, y), Exceeds(z, y, x)
  PROVE  Divides(h, z)
<1>1. PICK k \in Int : x = h * k
  BY DEF Divides
<1>2. PICK l \in Int : y = h * l
  BY DEF Divides
<1>3. PICK c \in Int : z = y + x * c
  BY DEF Exceeds
<1>4. z = h * (l + k * c) /\ l + k * c \in Int
  BY <1>1, <1>2, <1>3
<1> QED BY <1>4 DEF Divides

\* A number and its remainder.
LEMMA Remainder ==
  ASSUME NEW m \in Nat, NEW n \in Nat \ {0}
  PROVE  Exceeds(m, m % n, n) /\ Exceeds(m % n, m, n)
<1> DEFINE q == m \div n
           r == m % n
<1>1. q \in Int /\ r \in Int /\ m = n * q + r
  BY DivisionNat
<1> HIDE DEF q, r
<1>2. m = r + n * q /\ r = m + n * (-q) /\ -q \in Int
  BY <1>1
<1>3. Exceeds(m, r, n) /\ Exceeds(r, m, n)
  BY <1>1, <1>2 DEF Exceeds
<1> QED BY <1>3 DEF r

LEMMA EuclidStep ==
  ASSUME NEW m \in Nat, NEW n \in Nat \ {0}
  PROVE  Greatest(m, n) = Greatest(n, m % n)
<1>1. ASSUME NEW h \in Nat
      PROVE  Divides(h, m) /\ Divides(h, n) <=> Divides(h, n) /\ Divides(h, m % n)
  <2> DEFINE r == m % n
  <2>1. r \in Int /\ Exceeds(m, r, n) /\ Exceeds(r, m, n)
    BY DivisionNat, Remainder
  <2> HIDE DEF r
  <2>2. Divides(h, n) => (Divides(h, m) <=> Divides(h, r))
    BY <2>1, DividesSum
  <2> QED BY <2>2 DEF r
<1> QED BY <1>1 DEF Greatest

LEMMA DividesAntisymmetric ==
  ASSUME NEW g \in Nat, NEW m \in Nat, Divides(g, m), Divides(m, g)
  PROVE  g = m
<1>1. PICK k \in Int : m = g * k
  BY DEF Divides
<1>2. PICK j \in Int : g = m * j
  BY DEF Divides
<1>3. CASE g = 0
  BY <1>1, <1>3
<1>4. CASE g > 0
  <2>1. m > 0 /\ k > 0 /\ j > 0
    BY <1>1, <1>2, <1>4
  <2>2. m >= g
    BY <1>1, <1>4, <2>1
  <2>3. g >= m
    BY <1>2, <1>4, <2>1
  <2> QED BY <2>2, <2>3
<1> QED BY <1>3, <1>4

LEMMA EuclidEnd ==
  ASSUME NEW m \in Nat
  PROVE  Greatest(m, 0) = {m}
<1>1. \A h \in Nat : Divides(h, 0)
  <2>1. \A h \in Nat : 0 = h * 0
    OBVIOUS
  <2> QED BY <2>1 DEF Divides
<1>2. m \in Greatest(m, 0)
  BY <1>1 DEF Greatest
<1>3. ASSUME NEW g \in Greatest(m, 0) PROVE g = m
  <2>0. \A x \in Nat : Divides(x, x)
    <3>1. \A x \in Nat : x = x * 1
      OBVIOUS
    <3> QED BY <3>1 DEF Divides
  <2>1. g \in Nat /\ \A h \in Nat : Divides(h, g) <=> Divides(h, m)
    BY <1>1 DEF Greatest
  <2> QED BY <2>0, <2>1, DividesAntisymmetric
<1> QED BY <1>2, <1>3


\* The equation that Gcd is defined by holds of some function, hence of Gcd.
LEMMA GcdEquation ==
  Gcd = [p \in Nat \X Nat |-> IF p[2] = 0 THEN p[1] ELSE Gcd[<<p[2], p[1] % p[2]>>]]
<1> DEFINE F == [p \in Nat \X Nat |-> CHOOSE g : g \in Greatest(p[1], p[2])]
<1>1. F = [p \in Nat \X Nat |-> IF p[2] = 0 THEN p[1] ELSE F[<<p[2], p[1] % p[2]>>]]
  <2>1. ASSUME NEW p \in Nat \X Nat
        PROVE  (CHOOSE g : g \in Greatest(p[1], p[2]))
                 = IF p[2] = 0 THEN p[1] ELSE F[<<p[2], p[1] % p[2]>>]
    <3>0. p[1] \in Nat /\ p[2] \in Nat
      OBVIOUS
    <3>1. CASE p[2] = 0
      <4>1. Greatest(p[1], p[2]) = {p[1]}
        BY <3>0, <3>1, EuclidEnd
      <4> QED BY <3>1, <4>1
    <3>2. CASE p[2] # 0
      <4>1. p[1] % p[2] \in Nat
        BY <3>0, <3>2, DivisionNat
      <4>2. F[<<p[2], p[1] % p[2]>>] = CHOOSE g : g \in Greatest(p[2], p[1] % p[2])
        BY <3>0, <4>1
      <4>3. Greatest(p[1], p[2]) = Greatest(p[2], p[1] % p[2])
        BY <3>0, <3>2, EuclidStep
      <4> QED BY <3>2, <4>2, <4>3
    <3> QED BY <3>0, <3>1, <3>2
  <2>2. /\ F = [p \in Nat \X Nat |-> F[p]]
        /\ \A p \in Nat \X Nat : F[p] = CHOOSE g : g \in Greatest(p[1], p[2])
    OBVIOUS
  <2>3. \A p \in Nat \X Nat : F[p] = IF p[2] = 0 THEN p[1] ELSE F[<<p[2], p[1] % p[2]>>]
    BY <2>1, <2>2, Zenon
  <2> HIDE DEF F
  <2> QED BY <2>2, <2>3, Zenon
<1> HIDE DEF F
<1> QED BY <1>1, Zenon DEF Gcd

LEMMA GcdZero ==
  ASSUME NEW m \in Nat
  PROVE  Gcd[<<m, 0>>] = m
<1> DEFINE G == Gcd
<1>1. G = [p \in Nat \X Nat |-> IF p[2] = 0 THEN p[1] ELSE G[<<p[2], p[1] % p[2]>>]]
  BY GcdEquation
<1> HIDE DEF G
<1>2. <<m, 0>> \in Nat \X Nat
  OBVIOUS
<1>3. G[<<m, 0>>] = m
  BY <1>1, <1>2
<1> QED BY <1>3 DEF G

LEMMA GcdStep ==
  ASSUME NEW m \in Nat, NEW n \in Nat \ {0}
  PROVE  Gcd[<<m, n>>] = Gcd[<<n, m % n>>]
<1> DEFINE G == Gcd
<1>1. G = [p \in Nat \X Nat |-> IF p[2] = 0 THEN p[1] ELSE G[<<p[2], p[1] % p[2]>>]]
  BY GcdEquation
<1> HIDE DEF G
<1>2. <<m, n>> \in Nat \X Nat
  OBVIOUS
<1>3. G[<<m, n>>] = G[<<n, m % n>>]
  BY <1>1, <1>2
<1> QED BY <1>3 DEF G

\* g divides both numbers and is a combination of them.
IsGcd(g, m, n) ==
  /\ g \in Nat
  /\ Divides(g, m) /\ Divides(g, n)
  /\ \E a, b \in Int : g = a * m + b * n

\* There is no pair with the least second number of which Gcd is not what it
\* should be.
LEMMA GcdIs == \A n \in Nat : \A m \in Nat : IsGcd(Gcd[<<m, n>>], m, n)
<1> DEFINE Good(n) == \A m \in Nat : IsGcd(Gcd[<<m, n>>], m, n)
           T == {n \in Nat : ~Good(n)}
<1>1. SUFFICES ASSUME T # {} PROVE FALSE
  OBVIOUS
<1>2. PICK n \in T : \A y \in T : ~(<<y, n>> \in OpToRel(<, Nat))
  BY <1>1, NatLessThanWellFounded, WFMin, Zenon
<1>3. n \in Nat /\ \A y \in Nat : y < n => Good(y)
  BY <1>2 DEF OpToRel
<1>4. ASSUME NEW m \in Nat PROVE IsGcd(Gcd[<<m, n>>], m, n)
  <2>1. CASE n = 0
    <3>1. m = m * 1 /\ 0 = m * 0 /\ m = 1 * m + 0 * 0
      OBVIOUS
    <3>2. Divides(m, m) /\ Divides(m, 0)
      BY <3>1 DEF Divides
    <3>3. \E a, b \in Int : m = a * m + b * 0
      BY <3>1
    <3> QED BY <2>1, <3>2, <3>3, GcdZero DEF IsGcd
  <2>2. CASE n # 0
    <3> DEFINE q == m \div n
               r == m % n
               g == Gcd[<<m, n>>]
    <3>0. n \in Nat \ {0} /\ Exceeds(m, r, n)
      BY <1>3, <2>2, Remainder
    <3>1. q \in Int /\ r \in Nat /\ r < n /\ m = n * q + r
      BY <3>0, DivisionNat
    <3>2. IsGcd(Gcd[<<n, r>>], n, r)
      BY <1>3, <3>1
    <3>3. g = Gcd[<<n, r>>]
      BY <1>3, <2>2, GcdStep
    <3> HIDE DEF q, r, g
    <3>4. g \in Nat /\ Divides(g, n) /\ Divides(g, r)
      BY <3>2, <3>3 DEF IsGcd
    <3>5. Divides(g, m)
      BY <1>3, <3>0, <3>1, <3>4, DividesSum
    <3>6. PICK a \in Int, b \in Int : g = a * n + b * r
      BY <3>2, <3>3 DEF IsGcd
    <3>7. r = m - n * q
      BY <1>3, <3>1
    <3>8. g = b * m + (a - b * q) * n /\ a - b * q \in Int
      BY <1>3, <3>1, <3>6, <3>7
    <3> QED BY <3>4, <3>5, <3>8 DEF IsGcd, g
  <2> QED BY <1>3, <2>1, <2>2
<1> QED BY <1>2, <1>4
-------------------------------------------------------------------------------
(* Fractions in lowest terms. *)

Coprime(m, n) == \E a, b \in Int : a * m + b * n = 1

Lowest(x) == x \in Fraction /\ Coprime(x[1], x[2])

\* x is n/d in lowest terms.
Is(x, n, d) == Lowest(x) /\ x[1] * d = n * x[2]

Positives == Nat \ {0}

\* Multiplication by a positive number can be undone, and keeps the order.
LEMMA Cancel ==
  ASSUME NEW a \in Int, NEW b \in Int, NEW c \in Positives
  PROVE  /\ a * c = b * c <=> a = b
         /\ a * c <= b * c <=> a <= b
<1>1. ASSUME a < b PROVE a * c < b * c
  <2>1. b - a >= 1 /\ c >= 1 /\ (b - a) * c >= 1
    BY <1>1 DEF Positives
  <2> QED BY <2>1 DEF Positives
<1>2. ASSUME b < a PROVE b * c < a * c
  <2>1. a - b >= 1 /\ c >= 1 /\ (a - b) * c >= 1
    BY <1>2 DEF Positives
  <2> QED BY <2>1 DEF Positives
<1>3. a * c \in Int /\ b * c \in Int
  BY DEF Positives
<1> QED BY <1>1, <1>2, <1>3 DEF Positives

LEMMA DivExact ==
  ASSUME NEW k \in Int, NEW g \in Positives
  PROVE  (g * k) \div g = k
<1> DEFINE n == g * k
           q == n \div g
           r == n % g
<1>1. n \in Int /\ q \in Int /\ r \in 0..g-1 /\ n = g * q + r
  BY DEF Positives
<1>2. n = g * k
  OBVIOUS
<1> HIDE DEF n, q, r
<1>3. r = g * (k - q)
  BY <1>1, <1>2 DEF Positives
<1>4. ASSUME k - q >= 1 PROVE FALSE
  <2>1. g * (k - q) >= g
    BY <1>1, <1>4 DEF Positives
  <2> QED BY <1>1, <1>3, <2>1 DEF Positives
<1>5. ASSUME k - q <= -1 PROVE FALSE
  <2>1. g * (k - q) <= -g
    BY <1>1, <1>5 DEF Positives
  <2> QED BY <1>1, <1>3, <2>1 DEF Positives
<1>6. k = q
  BY <1>1, <1>4, <1>5
<1> QED BY <1>6 DEF q, n

\* The greatest common divisor of a number and a positive one.
LEMMA GcdOf ==
  ASSUME NEW n \in Int, NEW d \in Positives
  PROVE  LET g == Gcd[<<Abs(n), d>>]
         IN  /\ g \in Positives
             /\ \E k \in Int, l \in Positives, a \in Int, b \in Int :
                  /\ n = g * k /\ d = g * l
                  /\ a * k + b * l = 1
<1> DEFINE g == Gcd[<<Abs(n), d>>]
<1>1. Abs(n) \in Nat /\ (Abs(n) = n \/ Abs(n) = -n)
  BY DEF Abs
<1>2. IsGcd(g, Abs(n), d)
  BY <1>1, GcdIs DEF Positives
<1> HIDE DEF g
<1>3. g \in Nat
  BY <1>2 DEF IsGcd
<1>4. PICK j \in Int : Abs(n) = g * j
  BY <1>2 DEF IsGcd, Divides
<1>5. PICK l \in Int : d = g * l
  BY <1>2 DEF IsGcd, Divides
<1>6. PICK c \in Int, b \in Int : g = c * Abs(n) + b * d
  BY <1>2 DEF IsGcd
<1>7. g > 0 /\ l > 0
  BY <1>3, <1>5 DEF Positives
<1>8. PICK k \in Int, a \in Int : n = g * k /\ a * k = c * j
  <2>1. CASE Abs(n) = n
    BY <1>4, <1>6, <2>1
  <2>2. CASE Abs(n) = -n
    <3>1. n = g * (-j) /\ (-c) * (-j) = c * j /\ -j \in Int /\ -c \in Int
      BY <1>3, <1>4, <1>6, <2>2
    <3> QED BY <3>1
  <2> QED BY <1>1, <2>1, <2>2
<1>9. g * 1 = g * (c * j + b * l)
  <2>1. g = c * (g * j) + b * (g * l)
    BY <1>4, <1>5, <1>6
  <2> QED BY <1>3, <2>1
<1>10. c * j + b * l = 1
  <2>1. c * j + b * l \in Int /\ 1 * g = (c * j + b * l) * g
    BY <1>3, <1>9
  <2> QED BY <1>3, <1>7, <2>1, Cancel DEF Positives
<1>11. g \in Positives /\ l \in Positives
  BY <1>3, <1>7 DEF Positives
<1>12. a * k + b * l = 1
  BY <1>8, <1>10
<1> QED BY <1>5, <1>8, <1>11, <1>12 DEF g

LEMMA FracIs ==
  ASSUME NEW n \in Int, NEW d \in Positives
  PROVE  /\ Is(Frac(n, d), n, d)
         /\ \E g \in Positives : n = Frac(n, d)[1] * g /\ d = Frac(n, d)[2] * g
<1> DEFINE g == Gcd[<<Abs(n), d>>]
<1>1. Frac(n, d) = <<n \div g, d \div g>>
  BY DEF Frac, Reduced, Fraction, Positives
<1>2. /\ g \in Positives
      /\ \E k \in Int, l \in Positives, a \in Int, b \in Int :
           n = g * k /\ d = g * l /\ a * k + b * l = 1
  BY GcdOf
<1> HIDE DEF g
<1>3. PICK k \in Int, l \in Positives, a \in Int, b \in Int :
        n = g * k /\ d = g * l /\ a * k + b * l = 1
  BY <1>2
<1>4. n \div g = k /\ d \div g = l
  BY <1>2, <1>3, DivExact DEF Positives
<1>5. Frac(n, d) = <<k, l>> /\ <<k, l>>[1] = k /\ <<k, l>>[2] = l
  BY <1>1, <1>4
<1>6. Coprime(k, l)
  BY <1>3 DEF Coprime, Positives
<1>7. k * d = n * l
  BY <1>2, <1>3 DEF Positives
<1>8. n = k * g /\ d = l * g
  BY <1>2, <1>3 DEF Positives
<1>9. Is(Frac(n, d), n, d)
  BY <1>3, <1>5, <1>6, <1>7 DEF Is, Lowest, Fraction, Positives
<1> QED BY <1>2, <1>5, <1>8, <1>9

\* Two fractions in lowest terms that stand for the same number are one.
LEMMA Unique ==
  ASSUME NEW x, NEW y, NEW n \in Int, NEW d \in Positives, Is(x, n, d), Is(y, n, d)
  PROVE  x = y
<1> DEFINE p == x[1] q == x[2] r == y[1] s == y[2]
<1>1. /\ x = <<p, q>> /\ y = <<r, s>>
      /\ p \in Int /\ r \in Int /\ q \in Positives /\ s \in Positives
      /\ Coprime(p, q) /\ Coprime(r, s) /\ p * d = n * q /\ r * d = n * s
  BY DEF Is, Lowest, Fraction, Positives
<1> HIDE DEF p, q, r, s
<1>2. p * s = r * q
  <2>1. (p * d) * s = (n * q) * s /\ (r * d) * q = (n * s) * q
    BY <1>1
  <2>2. (p * s) * d = (r * q) * d /\ p * s \in Int /\ r * q \in Int
    BY <1>1, <2>1 DEF Positives
  <2> QED BY <2>2, Cancel
<1>3. PICK a \in Int, b \in Int : a * p + b * q = 1
  BY <1>1 DEF Coprime
<1>4. PICK e \in Int, f \in Int : e * r + f * s = 1
  BY <1>1 DEF Coprime
<1>5. s = q * (a * r + b * s)
  <2>1. s = (a * p + b * q) * s
    BY <1>1, <1>3 DEF Positives
  <2>2. (a * p + b * q) * s = a * (p * s) + b * q * s
    BY <1>1, <1>3 DEF Positives
  <2>3. s = a * (r * q) + b * q * s
    BY <1>2, <2>1, <2>2
  <2>4. a * (r * q) + b * q * s = q * (a * r + b * s)
    BY <1>1, <1>3 DEF Positives
  <2> QED BY <2>3, <2>4
<1>6. q = s * (e * p + f * q)
  <2>1. q = (e * r + f * s) * q
    BY <1>1, <1>4 DEF Positives
  <2>2. (e * r + f * s) * q = e * (r * q) + f * s * q
    BY <1>1, <1>4 DEF Positives
  <2>3. q = e * (p * s) + f * s * q
    BY <1>2, <2>1, <2>2
  <2>4. e * (p * s) + f * s * q = s * (e * p + f * q)
    BY <1>1, <1>4 DEF Positives
  <2> QED BY <2>3, <2>4
<1>7. q = s
  <2>0. a * r + b * s \in Int /\ e * p + f * q \in Int
    BY <1>1, <1>3, <1>4 DEF Positives
  <2>1. Divides(q, s) /\ Divides(s, q)
    BY <1>5, <1>6, <2>0, Zenon DEF Divides
  <2> QED BY <1>1, <2>1, DividesAntisymmetric DEF Positives
<1>8. p = r
  BY <1>1, <1>2, <1>7, Cancel
<1> QED BY <1>1, <1>7, <1>8
\* The same number over another denominator.
LEMMA SameValue ==
  ASSUME NEW x, NEW n \in Int, NEW d \in Positives, NEW m \in Int, NEW e \in Positives,
         Is(x, n, d), n * e = m * d
  PROVE  Is(x, m, e)
<1> DEFINE p == x[1] q == x[2]
<1>1. Lowest(x) /\ p \in Int /\ q \in Positives /\ p * d = n * q
  BY DEF Is, Lowest, Fraction, Positives
<1> HIDE DEF p, q
<1>2. (p * d) * e = (n * q) * e
  BY <1>1
<1>3. (p * e) * d = (m * q) * d
  <2>1. (n * q) * e = (n * e) * q
    BY <1>1 DEF Positives
  <2>2. (n * e) * q = (m * d) * q
    OBVIOUS
  <2>3. (p * e) * d = (p * d) * e /\ (m * d) * q = (m * q) * d
    BY <1>1 DEF Positives
  <2> QED BY <1>2, <2>1, <2>2, <2>3
<1>4. p * e = m * q
  <2>1. p * e \in Int /\ m * q \in Int
    BY <1>1 DEF Positives
  <2> QED BY <1>3, <2>1, Cancel
<1> QED BY <1>1, <1>4 DEF Is, p, q

LEMMA SelfIs ==
  ASSUME NEW x, Lowest(x)
  PROVE  /\ x[1] \in Int /\ x[2] \in Positives /\ x = <<x[1], x[2]>>
         /\ Is(x, x[1], x[2])
BY DEF Is, Lowest, Fraction, Positives

LEMMA IntIs ==
  ASSUME NEW n \in Int
  PROVE  Is(<<n, 1>>, n, 1)
<1>1. 0 * n + 1 * 1 = 1
  OBVIOUS
<1>2. Coprime(n, 1)
  BY <1>1 DEF Coprime
<1> QED BY <1>2 DEF Is, Lowest, Fraction

LEMMA ZeroOne == Is(Zero, 0, 1) /\ Is(One, 1, 1)
BY IntIs DEF Zero, One

LEMMA PlusIs ==
  ASSUME NEW x, NEW y, Lowest(x), Lowest(y)
  PROVE  Is(Plus(x, y), x[1] * y[2] + y[1] * x[2], x[2] * y[2])
<1> DEFINE p == x[1] q == x[2] r == y[1] s == y[2] g == Gcd[<<q, s>>]
<1>1. p \in Int /\ q \in Positives /\ r \in Int /\ s \in Positives
  BY SelfIs
<1>2. q \in Int /\ Abs(q) = q
  BY <1>1 DEF Abs, Positives
<1>3. Plus(x, y) = Frac(p * (s \div g) + r * (q \div g), q * (s \div g))
  BY DEF Plus
<1> HIDE DEF p, q, r, s
<1>4. /\ g \in Positives
      /\ \E k \in Int, l \in Positives : q = g * k /\ s = g * l
  <2>1. /\ Gcd[<<Abs(q), s>>] \in Positives
        /\ \E k \in Int, l \in Positives, a \in Int, b \in Int :
             /\ q = Gcd[<<Abs(q), s>>] * k /\ s = Gcd[<<Abs(q), s>>] * l
             /\ a * k + b * l = 1
    BY <1>1, <1>2, GcdOf
  <2> QED BY <1>2, <2>1
<1> HIDE DEF g
<1>5. PICK k \in Int, l \in Positives : q = g * k /\ s = g * l
  BY <1>4
<1>6. q \div g = k /\ s \div g = l
  BY <1>4, <1>5, DivExact DEF Positives
<1> DEFINE n == p * l + r * k
           d == q * l
<1>7. n \in Int /\ d \in Positives
  <2>1. q * l > 0 /\ q * l \in Int
    BY <1>1, <1>5 DEF Positives
  <2> QED BY <1>1, <1>5, <2>1 DEF Positives
<1>8. Is(Plus(x, y), n, d)
  BY <1>3, <1>6, <1>7, FracIs
<1>9. /\ p * s + r * q \in Int /\ q * s \in Positives
      /\ n * (q * s) = (p * s + r * q) * d
  <2>1. q * s > 0 /\ q * s \in Int
    BY <1>1 DEF Positives
  <2>2. p * s + r * q = g * n /\ q * s = g * d
    BY <1>1, <1>4, <1>5 DEF Positives
  <2>3. n * (g * d) = (g * n) * d
    BY <1>4, <1>7 DEF Positives
  <2> QED BY <1>1, <2>1, <2>2, <2>3 DEF Positives
<1> HIDE DEF n, d
<1>10. Is(Plus(x, y), p * s + r * q, q * s)
  BY <1>7, <1>8, <1>9, SameValue
<1> QED BY <1>10 DEF p, q, r, s

\* What has no factor in common with two numbers has none with their product.
LEMMA CoprimeProduct ==
  ASSUME NEW m \in Int, NEW n \in Int, NEW k \in Int, Coprime(m, n), Coprime(m, k)
  PROVE  Coprime(m, n * k)
<1>1. PICK a \in Int, b \in Int : a * m + b * n = 1
  BY DEF Coprime
<1>2. PICK c \in Int, d \in Int : c * m + d * k = 1
  BY DEF Coprime
<1>3. (a * m + b * n) * (c * m + d * k) = 1
  BY <1>1, <1>2
<1>4. (a * c * m + a * d * k + b * n * c) * m + (b * d) * (n * k) = 1
  BY <1>1, <1>2, <1>3
<1>5. a * c * m + a * d * k + b * n * c \in Int /\ b * d \in Int
  BY <1>1, <1>2
<1> QED BY <1>4, <1>5 DEF Coprime

\* Nor has a divisor of it.
LEMMA CoprimeDivisor ==
  ASSUME NEW m \in Int, NEW n \in Int, NEW k \in Int, NEW l \in Int, Coprime(m * k, n * l)
  PROVE  Coprime(m, n)
<1>1. PICK a \in Int, b \in Int : a * (m * k) + b * (n * l) = 1
  BY DEF Coprime
<1>2. (a * k) * m + (b * l) * n = 1 /\ a * k \in Int /\ b * l \in Int
  BY <1>1
<1> QED BY <1>2 DEF Coprime

LEMMA CoprimeSymmetric ==
  ASSUME NEW m \in Int, NEW n \in Int, Coprime(m, n)
  PROVE  Coprime(n, m)
<1>1. PICK a \in Int, b \in Int : a * m + b * n = 1
  BY DEF Coprime
<1>2. b * n + a * m = 1
  BY <1>1
<1> QED BY <1>2 DEF Coprime
LEMMA TimesIs ==
  ASSUME NEW x, NEW y, Lowest(x), Lowest(y)
  PROVE  Is(Times(x, y), x[1] * y[1], x[2] * y[2])
<1> DEFINE p == x[1] q == x[2] r == y[1] s == y[2] a == Frac(p, s) b == Frac(r, q)
<1>1. /\ p \in Int /\ q \in Positives /\ r \in Int /\ s \in Positives
      /\ Coprime(p, q) /\ Coprime(r, s)
  BY SelfIs DEF Lowest
<1>2. Times(x, y) = <<a[1] * b[1], a[2] * b[2]>>
  BY DEF Times
<1> HIDE DEF p, q, r, s
<1>3. /\ Lowest(a) /\ \E g \in Positives : p = a[1] * g /\ s = a[2] * g
      /\ Lowest(b) /\ \E g \in Positives : r = b[1] * g /\ q = b[2] * g
  BY <1>1, FracIs DEF Is
<1> HIDE DEF a, b
<1>4. PICK g \in Positives : p = a[1] * g /\ s = a[2] * g
  BY <1>3
<1>5. PICK h \in Positives : r = b[1] * h /\ q = b[2] * h
  BY <1>3
<1> DEFINE a1 == a[1] a2 == a[2] b1 == b[1] b2 == b[2]
<1>6. /\ a1 \in Int /\ a2 \in Positives /\ b1 \in Int /\ b2 \in Positives
      /\ Coprime(a1, a2) /\ Coprime(b1, b2)
  BY <1>3, SelfIs DEF Lowest
<1>7. p = a1 * g /\ s = a2 * g /\ r = b1 * h /\ q = b2 * h
  BY <1>4, <1>5
<1>8. Times(x, y) = <<a1 * b1, a2 * b2>>
  BY <1>2
<1> HIDE DEF a1, a2, b1, b2
<1>9. /\ a1 \in Int /\ a2 \in Int /\ b1 \in Int /\ b2 \in Int /\ g \in Int /\ h \in Int
      /\ a1 * b1 \in Int /\ a2 * b2 \in Int
  BY <1>6 DEF Positives
<1>10. Coprime(a1, b2) /\ Coprime(b1, a2)
  <2>1. Coprime(a1 * g, b2 * h) /\ Coprime(b1 * h, a2 * g)
    BY <1>1, <1>7
  <2> QED BY <1>9, <2>1, CoprimeDivisor
<1>11. Coprime(a1 * b1, a2 * b2)
  <2>1. Coprime(a1, a2 * b2) /\ Coprime(b1, a2 * b2)
    <3>1. Coprime(a1, a2 * b2)
      BY <1>6, <1>9, <1>10, CoprimeProduct
    <3>2. Coprime(b1, a2 * b2)
      BY <1>6, <1>9, <1>10, CoprimeProduct
    <3> QED BY <3>1, <3>2
  <2>2. Coprime(a2 * b2, a1) /\ Coprime(a2 * b2, b1)
    BY <1>9, <2>1, CoprimeSymmetric
  <2>3. Coprime(a2 * b2, a1 * b1)
    BY <1>9, <2>2, CoprimeProduct
  <2> QED BY <1>9, <2>3, CoprimeSymmetric
<1>12. (a1 * b1) * (q * s) = (p * r) * (a2 * b2)
  BY <1>7, <1>9
<1>13. a2 * b2 \in Nat \ {0}
  <2>1. a2 * b2 > 0
    BY <1>6 DEF Positives
  <2> QED BY <1>9, <2>1
<1>14. Is(<<a1 * b1, a2 * b2>>, p * r, q * s)
  BY <1>9, <1>11, <1>12, <1>13 DEF Is, Lowest, Fraction
<1> QED BY <1>8, <1>14 DEF p, q, r, s

-------------------------------------------------------------------------------
(* Arithmetic by numerators and denominators. *)

LEMMA PlusOf ==
  ASSUME NEW x, NEW y, NEW n \in Int, NEW d \in Positives, NEW m \in Int, NEW e \in Positives,
         Is(x, n, d), Is(y, m, e)
  PROVE  Is(Plus(x, y), n * e + m * d, d * e)
<1> DEFINE p == x[1] q == x[2] r == y[1] s == y[2]
<1>1. /\ p \in Int /\ q \in Positives /\ r \in Int /\ s \in Positives
      /\ p * d = n * q /\ r * e = m * s
      /\ Is(Plus(x, y), p * s + r * q, q * s)
  BY SelfIs, PlusIs DEF Is
<1> HIDE DEF p, q, r, s
<1>2. (p * s + r * q) * (d * e) = (n * e + m * d) * (q * s)
  <2>1. (p * s + r * q) * (d * e) = (p * d) * (s * e) + (r * e) * (q * d)
    BY <1>1 DEF Positives
  <2>2. (n * q) * (s * e) + (m * s) * (q * d) = (n * e + m * d) * (q * s)
    BY <1>1 DEF Positives
  <2> QED BY <1>1, <2>1, <2>2
<1>3. /\ p * s + r * q \in Int /\ n * e + m * d \in Int
      /\ q * s \in Positives /\ d * e \in Positives
  <2>1. q * s > 0 /\ d * e > 0
    BY <1>1 DEF Positives
  <2> QED BY <1>1, <2>1 DEF Positives
<1> QED BY <1>1, <1>2, <1>3, SameValue

LEMMA PlusSame ==
  ASSUME NEW x, NEW y, NEW n \in Int, NEW d \in Positives, NEW m \in Int,
         Is(x, n, d), Is(y, m, d)
  PROVE  Is(Plus(x, y), n + m, d)
<1>1. Is(Plus(x, y), n * d + m * d, d * d)
  BY PlusOf
<1>2. (n * d + m * d) * d = (n + m) * (d * d)
  BY DEF Positives
<1>3. n * d + m * d \in Int /\ n + m \in Int /\ d * d \in Positives
  <2>1. d * d > 0
    BY DEF Positives
  <2> QED BY <2>1 DEF Positives
<1> QED BY <1>1, <1>2, <1>3, SameValue

LEMMA TimesOf ==
  ASSUME NEW x, NEW y, NEW n \in Int, NEW d \in Positives, NEW m \in Int, NEW e \in Positives,
         Is(x, n, d), Is(y, m, e)
  PROVE  Is(Times(x, y), n * m, d * e)
<1> DEFINE p == x[1] q == x[2] r == y[1] s == y[2]
<1>1. /\ p \in Int /\ q \in Positives /\ r \in Int /\ s \in Positives
      /\ p * d = n * q /\ r * e = m * s
      /\ Is(Times(x, y), p * r, q * s)
  BY SelfIs, TimesIs DEF Is
<1> HIDE DEF p, q, r, s
<1>2. (p * r) * (d * e) = (n * m) * (q * s)
  <2>1. (p * r) * (d * e) = (p * d) * (r * e)
    BY <1>1 DEF Positives
  <2>2. (n * q) * (m * s) = (n * m) * (q * s)
    BY <1>1 DEF Positives
  <2> QED BY <1>1, <2>1, <2>2
<1>3. p * r \in Int /\ n * m \in Int /\ q * s \in Positives /\ d * e \in Positives
  <2>1. q * s > 0 /\ d * e > 0
    BY <1>1 DEF Positives
  <2> QED BY <1>1, <2>1 DEF Positives
<1> QED BY <1>1, <1>2, <1>3, SameValue

\* A numerator has the sign of its fraction.
LEMMA SignOf ==
  ASSUME NEW x, NEW n \in Int, NEW d \in Positives, Is(x, n, d)
  PROVE  /\ x[1] \in Int /\ x[2] \in Positives
         /\ x[1] > 0 <=> n > 0
         /\ x[1] = 0 <=> n = 0
<1> DEFINE p == x[1] q == x[2]
<1>1. p \in Int /\ q \in Positives /\ p * d = n * q
  BY SelfIs DEF Is
<1> HIDE DEF p, q
<1>2. /\ p > 0 => p * d > 0
      /\ p < 0 => p * d < 0
      /\ p = 0 => p * d = 0
  BY <1>1 DEF Positives
<1>3. /\ n > 0 => n * q > 0
      /\ n < 0 => n * q < 0
      /\ n = 0 => n * q = 0
  BY <1>1 DEF Positives
<1>4. (p > 0 <=> n > 0) /\ (p = 0 <=> n = 0)
  BY <1>1, <1>2, <1>3 DEF Positives
<1> QED BY <1>1, <1>4 DEF p, q

LEMMA NegOf ==
  ASSUME NEW x, NEW n \in Int, NEW d \in Positives, Is(x, n, d)
  PROVE  Is(Neg(x), -n, d)
<1> DEFINE p == x[1] q == x[2]
<1>1. p \in Int /\ q \in Positives /\ p * d = n * q /\ Coprime(p, q)
  BY SelfIs DEF Is, Lowest
<1>2. Neg(x) = <<-p, q>>
  BY DEF Neg
<1> HIDE DEF p, q
<1>3. PICK a \in Int, b \in Int : a * p + b * q = 1
  BY <1>1 DEF Coprime
<1>4. (-a) * (-p) + b * q = 1 /\ -a \in Int
  BY <1>1, <1>3 DEF Positives
<1>5. Coprime(-p, q)
  BY <1>3, <1>4, Zenon DEF Coprime
<1>6. (-p) * d = (-n) * q
  BY <1>1 DEF Positives
<1> QED BY <1>1, <1>2, <1>5, <1>6 DEF Is, Lowest, Fraction, Positives

LEMMA MinusOf ==
  ASSUME NEW x, NEW y, NEW n \in Int, NEW d \in Positives, NEW m \in Int, NEW e \in Positives,
         Is(x, n, d), Is(y, m, e)
  PROVE  Is(Minus(x, y), n * e - m * d, d * e)
<1>1. -m \in Int /\ Is(Neg(y), -m, e)
  BY NegOf
<1>2. Is(Plus(x, Neg(y)), n * e + (-m) * d, d * e)
  BY <1>1, PlusOf
<1>3. n * e + (-m) * d = n * e - m * d
  BY DEF Positives
<1> QED BY <1>2, <1>3 DEF Minus

LEMMA MinusSame ==
  ASSUME NEW x, NEW y, NEW n \in Int, NEW d \in Positives, NEW m \in Int,
         Is(x, n, d), Is(y, m, d)
  PROVE  Is(Minus(x, y), n - m, d)
<1>1. -m \in Int /\ Is(Neg(y), -m, d)
  BY NegOf
<1>2. Is(Plus(x, Neg(y)), n + (-m), d)
  BY <1>1, PlusSame
<1>3. n + (-m) = n - m
  OBVIOUS
<1> QED BY <1>2, <1>3 DEF Minus

LEMMA LeqOf ==
  ASSUME NEW x, NEW y, NEW n \in Int, NEW d \in Positives, NEW m \in Int,
         Is(x, n, d), Is(y, m, d)
  PROVE  Leq(x, y) <=> n <= m
<1>1. n - m \in Int /\ Is(Minus(x, y), n - m, d)
  BY MinusSame
<1>2. Minus(x, y)[1] \in Int /\ (Minus(x, y)[1] > 0 <=> n - m > 0)
  BY <1>1, SignOf
<1> QED BY <1>2 DEF Leq

LEMMA PositiveOf ==
  ASSUME NEW x, NEW n \in Int, NEW d \in Positives, Is(x, n, d)
  PROVE  Positive(x) <=> n > 0
BY SignOf DEF Positive

\* Division by a positive fraction; no other divisor occurs.
LEMMA OverOf ==
  ASSUME NEW x, NEW y, NEW n \in Int, NEW d \in Positives,
         NEW m \in Positives, NEW e \in Positives, Is(x, n, d), Is(y, m, e)
  PROVE  Is(Over(x, y), n * e, d * m)
<1> DEFINE p == y[1] q == y[2]
<1>0. m \in Int /\ m > 0
  BY DEF Positives
<1>1. p \in Int /\ q \in Positives /\ p * e = m * q /\ Coprime(p, q) /\ p > 0
  BY <1>0, SelfIs, SignOf DEF Is, Lowest
<1>2. Recip(y) = <<q, p>>
  BY <1>1 DEF Recip
<1> HIDE DEF p, q
<1>3. Coprime(q, p) /\ p \in Positives /\ q * m = e * p
  BY <1>1, CoprimeSymmetric DEF Positives
<1>4. Is(Recip(y), e, m)
  BY <1>1, <1>2, <1>3 DEF Is, Lowest, Fraction, Positives
<1>5. e \in Int
  BY DEF Positives
<1> QED BY <1>4, <1>5, TimesOf DEF Over
-------------------------------------------------------------------------------
(* The steps of an analog. *)

\* The scale covers an area.
Covers(cfg, object) == object.area \in DOMAIN cfg.scale

LEMMA LowestOf ==
  ASSUME NEW x, x \in Fraction, Reduced[x] = x
  PROVE  Lowest(x)
<1> DEFINE n == x[1] d == x[2]
<1>1. n \in Int /\ d \in Positives /\ x = <<n, d>>
  BY DEF Fraction, Positives
<1> HIDE DEF n, d
<1>2. Frac(n, d) = x
  BY <1>1 DEF Frac
<1> QED BY <1>1, <1>2, FracIs DEF Is

LEMMA DistrictIs ==
  ASSUME NEW cfg, ConfigType(cfg), NEW d
  PROVE  \E p \in Positives : DistrictPrice(cfg, d) = <<p, 1>>
<1>1. CASE d \in DOMAIN cfg.price /\ cfg.price[d] > 0
  <2>1. cfg.price[d] \in Positives
    BY <1>1 DEF ConfigType, Positives
  <2> QED BY <1>1, <2>1 DEF DistrictPrice
<1>2. CASE ~(d \in DOMAIN cfg.price /\ cfg.price[d] > 0)
  <2>1. 100000 \in Positives
    BY DEF Positives
  <2> QED BY <1>2, <2>1 DEF DistrictPrice
<1> QED BY <1>1, <1>2

\* All three location formulas are the ratio of the district prices.
LEMMA LocationIs ==
  ASSUME NEW cfg, NEW subject, NEW analog, NEW s \in Positives, NEW a \in Positives,
         DistrictPrice(cfg, subject.district) = <<s, 1>>,
         DistrictPrice(cfg, analog.district) = <<a, 1>>
  PROVE  Is(LocationCoeff(cfg, subject, analog), s, a)
<1> DEFINE x == <<s, 1>> y == <<a, 1>>
<1>0. s \in Int /\ a \in Int /\ 1 \in Positives
  BY DEF Positives
<1>1. Is(x, s, 1) /\ Is(y, a, 1)
  BY <1>0, IntIs
<1>2. LocationCoeff(cfg, subject, analog) =
        CASE cfg.locationFormula = "doc_formula" -> Plus(One, Over(Minus(x, y), y))
          [] cfg.locationFormula = "ratio"       -> Over(x, y)
          [] OTHER -> IF analog.district = subject.district THEN One ELSE Over(x, y)
  BY DEF LocationCoeff
<1> HIDE DEF x, y
<1>3. Is(Over(x, y), s, a)
  <2>1. Is(Over(x, y), s * 1, 1 * a)
    BY <1>0, <1>1, OverOf
  <2>2. s * 1 = s /\ 1 * a = a
    BY <1>0
  <2> QED BY <2>1, <2>2
<1>4. Is(Plus(One, Over(Minus(x, y), y)), s, a)
  <2>1. s - a \in Int /\ Is(Minus(x, y), s - a, 1)
    BY <1>0, <1>1, MinusSame
  <2>2. Is(Over(Minus(x, y), y), (s - a) * 1, 1 * a)
    BY <1>0, <1>1, <2>1, OverOf
  <2>3. (s - a) * 1 = s - a /\ 1 * a = a /\ a + (s - a) = s /\ 1 * a = a * 1
    BY <1>0
  <2>4. Is(One, a, a)
    BY <1>0, <2>3, ZeroOne, SameValue
  <2>5. Is(Plus(One, Over(Minus(x, y), y)), a + (s - a), a)
    BY <1>0, <2>1, <2>2, <2>3, <2>4, PlusSame
  <2> QED BY <2>3, <2>5
<1>5. ASSUME analog.district = subject.district PROVE Is(One, s, a)
  <2>1. <<s, 1>> = <<a, 1>>
    BY <1>5
  <2>2. s = a /\ 1 * a = s * 1
    BY <1>0, <2>1
  <2> QED BY <1>0, <2>2, ZeroOne, SameValue
<1> QED BY <1>2, <1>3, <1>4, <1>5

LEMMA AreaIs ==
  ASSUME NEW cfg, ConfigType(cfg), NEW subject, NEW analog,
         Covers(cfg, subject), Covers(cfg, analog)
  PROVE  \E n \in Positives, d \in Positives : Is(AreaCoeff(cfg, subject, analog), n, d)
<1> DEFINE s == cfg.scale[subject.area] a == cfg.scale[analog.area]
<1>1. Scale(cfg, subject.area) = <<s, 1>> /\ Scale(cfg, analog.area) = <<a, 1>>
  BY DEF Scale
<1>2. (s \in Positives /\ a \in Positives) \/ (a \in Int /\ a <= 0)
  BY DEF ConfigType, OneSign, Covers, Positives
<1>3. AreaCoeff(cfg, subject, analog) = IF a > 0 THEN Over(<<s, 1>>, <<a, 1>>) ELSE One
  BY <1>1 DEF AreaCoeff, Positive
<1> HIDE DEF s, a
<1>4. CASE s \in Positives /\ a \in Positives
  <2>1. a > 0 /\ s \in Int /\ a \in Int /\ 1 \in Positives
    BY <1>4 DEF Positives
  <2>2. Is(Over(<<s, 1>>, <<a, 1>>), s * 1, 1 * a)
    BY <1>4, <2>1, IntIs, OverOf
  <2>3. s * 1 = s /\ 1 * a = a
    BY <2>1
  <2>4. Is(AreaCoeff(cfg, subject, analog), s, a)
    BY <1>3, <2>1, <2>2, <2>3
  <2> QED BY <1>4, <2>4
<1>5. CASE a \in Int /\ a <= 0
  <2>1. 1 \in Positives
    BY DEF Positives
  <2> QED BY <1>3, <1>5, <2>1, ZeroOne
<1> QED BY <1>2, <1>4, <1>5

LEMMA BargainingIs ==
  ASSUME NEW analog, analog.price \in Positives, analog.bargaining \in Int
  PROVE  Is(AfterBargaining(analog), analog.price * (100 - analog.bargaining), 100)
<1> DEFINE p == analog.price b == analog.bargaining
<1>0. p \in Int /\ b \in Int /\ 1 \in Positives /\ 100 \in Positives /\ 100 \in Int
  BY DEF Positives
<1>1. AfterBargaining(analog) = Times(<<p, 1>>, Minus(One, Frac(b, 100)))
  BY DEF AfterBargaining
<1> HIDE DEF p, b
<1>2. Is(One, 100, 100)
  BY <1>0, ZeroOne, SameValue
<1>3. Is(Minus(One, Frac(b, 100)), 100 - b, 100) /\ 100 - b \in Int
  BY <1>0, <1>2, FracIs, MinusSame
<1>4. Is(Times(<<p, 1>>, Minus(One, Frac(b, 100))), p * (100 - b), 1 * 100)
  BY <1>0, <1>3, IntIs, TimesOf
<1>5. 1 * 100 = 100
  OBVIOUS
<1> QED BY <1>1, <1>4, <1>5 DEF p, b

LEMMA LowestTimes ==
  ASSUME NEW x, NEW y, Lowest(x), Lowest(y)
  PROVE  Lowest(Times(x, y)) /\ Lowest(Plus(x, y)) /\ Lowest(Minus(x, y))
<1>1. Lowest(Times(x, y)) /\ Lowest(Plus(x, y))
  BY TimesIs, PlusIs DEF Is
<1>2. Is(Minus(x, y), x[1] * y[2] - y[1] * x[2], x[2] * y[2])
  BY SelfIs, MinusOf
<1> QED BY <1>1, <1>2 DEF Is

LEMMA RepairIs ==
  ASSUME NEW cfg, ConfigType(cfg), NEW object
  PROVE  Lowest(Repair(cfg, object))
<1>1. Lowest(RepairCost(cfg, object.class))
  BY IntIs, ZeroOne DEF RepairCost, ConfigType, Is
<1>2. Lowest(ConditionCoeff(cfg, object.condition))
  <2>1. Lowest(<<67, 100>>)
    <3>1. 3 * 67 + (-2) * 100 = 1
      OBVIOUS
    <3>2. Coprime(67, 100)
      BY <3>1 DEF Coprime
    <3> QED BY <3>2 DEF Lowest, Fraction
  <2> QED BY <2>1, LowestOf DEF ConditionCoeff, ConfigType
<1> QED BY <1>1, <1>2, LowestTimes DEF Repair

LEMMA DeltaIs ==
  ASSUME NEW cfg, ConfigType(cfg), NEW subject, NEW analog, subject.area \in Positives
  PROVE  Lowest(RepairDelta(cfg, subject, analog))
<1> DEFINE r == Minus(Repair(cfg, subject), Repair(cfg, analog)) a == subject.area
<1>1. Lowest(r) /\ a \in Int /\ 1 \in Positives
  BY RepairIs, LowestTimes DEF Positives
<1>2. Is(r, r[1], r[2]) /\ r[1] \in Int /\ r[2] \in Positives
  BY <1>1, SelfIs
<1>3. RepairDelta(cfg, subject, analog) = Over(r, <<a, 1>>)
  BY DEF RepairDelta
<1> HIDE DEF r, a
<1>4. Is(<<a, 1>>, a, 1) /\ a \in Positives
  BY <1>1, IntIs DEF a
<1>5. Is(Over(r, <<a, 1>>), r[1] * 1, r[2] * a)
  BY <1>1, <1>2, <1>4, OverOf
<1> QED BY <1>3, <1>5 DEF Is
\* The price that the repair adjusts is positive below 100 % of bargaining.
PriceBefore(cfg, subject, analog) ==
  Times(Times(AfterBargaining(analog), LocationCoeff(cfg, subject, analog)),
        AreaCoeff(cfg, subject, analog))

LEMMA PriceBeforeIs ==
  ASSUME NEW cfg, ConfigType(cfg), NEW subject, NEW analog,
         Covers(cfg, subject), Covers(cfg, analog),
         analog.price \in Positives, analog.bargaining \in Int
  PROVE  /\ Lowest(PriceBefore(cfg, subject, analog))
         /\ Lowest(LocationCoeff(cfg, subject, analog))
         /\ Lowest(AreaCoeff(cfg, subject, analog))
         /\ analog.bargaining < 100 => Positive(PriceBefore(cfg, subject, analog))
<1> DEFINE x == AfterBargaining(analog)
           k1 == LocationCoeff(cfg, subject, analog)
           k2 == AreaCoeff(cfg, subject, analog)
           v == analog.price * (100 - analog.bargaining)
<1>1. PICK s \in Positives, a \in Positives : Is(k1, s, a)
  BY DistrictIs, LocationIs
<1>2. PICK n \in Positives, d \in Positives : Is(k2, n, d)
  BY AreaIs
<1>3. Is(x, v, 100) /\ v \in Int /\ 100 \in Positives
  BY BargainingIs DEF Positives
<1>4. analog.bargaining < 100 => v > 0
  BY DEF Positives
<1>5. PriceBefore(cfg, subject, analog) = Times(Times(x, k1), k2)
  BY DEF PriceBefore
<1> HIDE DEF x, k1, k2, v
<1>6. /\ s \in Int /\ n \in Int /\ 100 * a \in Positives /\ v * s \in Int
      /\ 100 * a * d \in Positives /\ v * s * n \in Int
  <2>1. 100 * a > 0 /\ 100 * a * d > 0
    BY DEF Positives
  <2> QED BY <1>3, <2>1 DEF Positives
<1>7. Is(Times(x, k1), v * s, 100 * a)
  BY <1>1, <1>3, <1>6, TimesOf
<1>8. Is(Times(Times(x, k1), k2), v * s * n, 100 * a * d)
  BY <1>2, <1>6, <1>7, TimesOf
<1>9. v > 0 => v * s * n > 0
  BY <1>3 DEF Positives
<1>10. v > 0 => Positive(Times(Times(x, k1), k2))
  BY <1>6, <1>8, <1>9, PositiveOf
<1> QED BY <1>1, <1>2, <1>4, <1>5, <1>8, <1>10 DEF Is, k1, k2

LEMMA RepairCoeffIs ==
  ASSUME NEW price, NEW delta, Lowest(price), Lowest(delta)
  PROVE  /\ Lowest(RepairCoeff(price, delta))
         /\ Positive(price) => Times(price, RepairCoeff(price, delta)) = Plus(price, delta)
<1> DEFINE n == price[1] d == price[2] m == delta[1] e == delta[2]
<1>1. /\ n \in Int /\ d \in Positives /\ m \in Int /\ e \in Positives
      /\ Is(price, n, d) /\ Is(delta, m, e)
  BY SelfIs
<1>2. Positive(price) <=> n > 0
  BY DEF Positive
<1> HIDE DEF n, d, m, e
<1>3. CASE Positive(price)
  <2>1. n \in Positives /\ RepairCoeff(price, delta) = Plus(One, Over(delta, price))
    BY <1>1, <1>2, <1>3 DEF Positives, RepairCoeff
  <2>2. Is(Over(delta, price), m * d, e * n)
    BY <1>1, <2>1, OverOf
  <2>3. /\ m * d \in Int /\ e * n \in Positives /\ e * n \in Int /\ 1 \in Positives
        /\ 1 * (e * n) = (e * n) * 1 /\ e * n + m * d \in Int
    <3>1. e * n > 0
      BY <1>1, <2>1 DEF Positives
    <3> QED BY <1>1, <2>1, <3>1 DEF Positives
  <2>4. Is(One, e * n, e * n)
    BY <2>3, ZeroOne, SameValue
  <2>5. Is(Plus(One, Over(delta, price)), e * n + m * d, e * n)
    BY <2>2, <2>3, <2>4, PlusSame
  <2>6. Is(Times(price, Plus(One, Over(delta, price))), n * (e * n + m * d), d * (e * n))
    BY <1>1, <2>3, <2>5, TimesOf
  <2>7. Is(Plus(price, delta), n * e + m * d, d * e)
    BY <1>1, PlusOf
  <2>8. /\ n * (e * n + m * d) \in Int /\ d * (e * n) \in Positives
        /\ n * e + m * d \in Int /\ d * e \in Positives
        /\ (n * (e * n + m * d)) * (d * e) = (n * e + m * d) * (d * (e * n))
    <3>1. d * (e * n) > 0 /\ d * e > 0
      BY <1>1, <2>1 DEF Positives
    <3> QED BY <1>1, <2>1, <3>1 DEF Positives
  <2>9. Is(Times(price, Plus(One, Over(delta, price))), n * e + m * d, d * e)
    BY <2>6, <2>8, SameValue
  <2>10. Times(price, Plus(One, Over(delta, price))) = Plus(price, delta)
    BY <2>7, <2>8, <2>9, Unique
  <2> QED BY <2>1, <2>5, <2>10 DEF Is
<1>4. CASE ~Positive(price)
  BY <1>4, ZeroOne DEF RepairCoeff, Is
<1> QED BY <1>3, <1>4

LEMMA FloorIs ==
  ASSUME NEW cfg, ConfigType(cfg), NEW subject, NEW analog
  PROVE  Lowest(FloorCoeff(cfg, subject, analog))
<1>1. 100 \in Positives
  BY DEF Positives
<1> QED BY <1>1, FracIs DEF FloorCoeff, FloorPercent, ConfigType, Is

\* Configurations that differ in the types of their formulas only.
SameButFormulas(o, cfg) ==
  /\ o.price = cfg.price /\ o.scale = cfg.scale /\ o.condition = cfg.condition
  /\ o.repair = cfg.repair /\ o.floor = cfg.floor

\* Which location formula is configured makes no difference to an analog's result,
\* and which repair formula none below 100 % of bargaining, where the price it
\* adjusts is positive.
THEOREM FormulasAgree ==
  ASSUME NEW cfg, ConfigType(cfg), NEW o, ConfigType(o), SameButFormulas(o, cfg),
         NEW subject, NEW analog, Covers(cfg, subject), Covers(cfg, analog),
         subject.area \in Positives, analog.price \in Positives, analog.bargaining \in Int,
         analog.bargaining < 100 \/ o.repairFormula = cfg.repairFormula
  PROVE  Adjusted(o, subject, analog) = Adjusted(cfg, subject, analog)
<1>1. /\ \A d : DistrictPrice(o, d) = DistrictPrice(cfg, d)
      /\ AreaCoeff(o, subject, analog) = AreaCoeff(cfg, subject, analog)
      /\ RepairDelta(o, subject, analog) = RepairDelta(cfg, subject, analog)
      /\ FloorCoeff(o, subject, analog) = FloorCoeff(cfg, subject, analog)
  BY DEF SameButFormulas, DistrictPrice, AreaCoeff, Scale, RepairDelta, Repair, RepairCost,
         ConditionCoeff, FloorCoeff, FloorPercent
<1>2. LocationCoeff(o, subject, analog) = LocationCoeff(cfg, subject, analog)
  <2>1. PICK s \in Positives : DistrictPrice(cfg, subject.district) = <<s, 1>>
    BY DistrictIs
  <2>2. PICK a \in Positives : DistrictPrice(cfg, analog.district) = <<a, 1>>
    BY DistrictIs
  <2>3. Is(LocationCoeff(o, subject, analog), s, a) /\ Is(LocationCoeff(cfg, subject, analog), s, a)
    BY <1>1, <2>1, <2>2, LocationIs
  <2>4. s \in Int
    BY DEF Positives
  <2> QED BY <2>3, <2>4, Unique
<1> DEFINE price == PriceBefore(cfg, subject, analog)
           delta == RepairDelta(cfg, subject, analog)
<1>3. PriceBefore(o, subject, analog) = price
  BY <1>1, <1>2 DEF PriceBefore
<1>4. AfterRepair(o, price, delta) = AfterRepair(cfg, price, delta)
  <2>1. CASE o.repairFormula = cfg.repairFormula
    BY <2>1 DEF AfterRepair
  <2>2. CASE analog.bargaining < 100
    <3>1. Lowest(price) /\ Positive(price) /\ Lowest(delta)
      BY <2>2, PriceBeforeIs, DeltaIs
    <3> HIDE DEF price, delta
    <3>2. Times(price, RepairCoeff(price, delta)) = Plus(price, delta)
      BY <3>1, RepairCoeffIs
    <3> QED BY <3>2 DEF AfterRepair
  <2> QED BY <2>1, <2>2
<1> QED BY <1>1, <1>2, <1>3, <1>4 DEF Adjusted, PriceBefore
-------------------------------------------------------------------------------
(* What an analog's adjustments come to. *)

Amount(x) == Lowest(x) /\ x[1] >= 0

LEMMA AmountOf ==
  ASSUME NEW x, NEW n \in Nat, NEW d \in Positives, Is(x, n, d)
  PROVE  Amount(x)
<1>1. x[1] \in Int /\ (x[1] > 0 <=> n > 0) /\ (x[1] = 0 <=> n = 0)
  BY SignOf
<1> QED BY <1>1 DEF Amount, Is

LEMMA AmountPlus ==
  ASSUME NEW x, NEW y, Amount(x), Amount(y)
  PROVE  Amount(Plus(x, y))
<1> DEFINE n == x[1] * y[2] + y[1] * x[2]
           d == x[2] * y[2]
<1>1. Is(Plus(x, y), n, d)
  BY PlusIs DEF Amount
<1>2. n \in Nat /\ d \in Positives
  <2> DEFINE p == x[1] q == x[2] r == y[1] s == y[2]
  <2>1. p \in Nat /\ q \in Positives /\ r \in Nat /\ s \in Positives
    BY SelfIs DEF Amount
  <2>2. n = p * s + r * q /\ d = q * s
    OBVIOUS
  <2> HIDE DEF p, q, r, s, n, d
  <2>3. p * s >= 0 /\ r * q >= 0 /\ q * s > 0
    BY <2>1 DEF Positives
  <2> QED BY <2>1, <2>2, <2>3 DEF Positives
<1> HIDE DEF n, d
<1> QED BY <1>1, <1>2, AmountOf

LEMMA AbsIs ==
  ASSUME NEW x, NEW n \in Int, NEW d \in Positives, Is(x, n, d)
  PROVE  Is(<<Abs(x[1]), x[2]>>, Abs(n), d)
<1>1. /\ x[1] \in Int /\ x = <<x[1], x[2]>>
      /\ (x[1] > 0 <=> n > 0) /\ (x[1] = 0 <=> n = 0)
  BY SignOf, SelfIs DEF Is
<1>2. CASE x[1] < 0
  <2>1. Abs(n) = -n /\ <<Abs(x[1]), x[2]>> = Neg(x)
    BY <1>1, <1>2 DEF Abs, Neg
  <2> QED BY <2>1, NegOf
<1>3. CASE x[1] >= 0
  <2>1. Abs(n) = n /\ <<Abs(x[1]), x[2]>> = x
    BY <1>1, <1>3 DEF Abs
  <2> QED BY <2>1
<1> QED BY <1>1, <1>2, <1>3

\* |k - 1| * 100 of a coefficient n/d.
LEMMA AdjustmentIs ==
  ASSUME NEW k, NEW n \in Int, NEW d \in Positives, Is(k, n, d)
  PROVE  Is(Adjustment(k), 100 * Abs(n - d), d) /\ Amount(Adjustment(k))
<1> DEFINE m == Minus(k, One)
           a == <<Abs(m[1]), m[2]>>
<1>1. 1 \in Positives /\ d \in Int /\ 100 \in Int /\ n - d \in Int /\ 1 * d = d * 1
  BY DEF Positives
<1>2. Is(One, d, d)
  BY <1>1, ZeroOne, SameValue
<1>3. Is(m, n - d, d)
  BY <1>1, <1>2, MinusSame
<1>4. Adjustment(k) = Times(<<100, 1>>, a)
  BY DEF Adjustment, Percent
<1>5. Is(a, Abs(n - d), d)
  BY <1>1, <1>3, AbsIs
<1> HIDE DEF m, a
<1>6. Abs(n - d) \in Nat
  BY <1>1 DEF Abs
<1>7. Is(Times(<<100, 1>>, a), 100 * Abs(n - d), 1 * d)
  BY <1>1, <1>5, <1>6, IntIs, TimesOf
<1>8. 1 * d = d /\ 100 * Abs(n - d) \in Nat
  BY <1>1, <1>6
<1>9. Is(Adjustment(k), 100 * Abs(n - d), d)
  BY <1>4, <1>7, <1>8
<1> QED BY <1>8, <1>9, AmountOf

LEMMA HundredthsNat ==
  ASSUME NEW x, Amount(x)
  PROVE  Hundredths(x) \in Nat
<1> DEFINE n == x[1] d == x[2]
<1>1. n \in Nat /\ d \in Positives
  BY SelfIs DEF Amount
<1>2. Hundredths(x) = 100 * (n \div d) + (200 * (n % d) + d) \div (2 * d)
  BY <1>1 DEF Hundredths, Abs
<1> HIDE DEF n, d
<1>3. n \div d \in Nat /\ n % d \in Nat
  BY <1>1, DivisionNat DEF Positives
<1> DEFINE e == 200 * (n % d) + d
           f == 2 * d
<1>4. e \in Nat /\ f \in Nat \ {0}
  BY <1>1, <1>3 DEF Positives
<1> HIDE DEF e, f
<1>5. e \div f \in Nat
  BY <1>4, DivisionNat
<1> QED BY <1>2, <1>3, <1>5 DEF e, f

\* A whole number in hundredths.
LEMMA HundredthsInt ==
  ASSUME NEW n \in Nat
  PROVE  Hundredths(<<n, 1>>) = 100 * n
<1>1. n \div 1 = n /\ n % 1 = 0 /\ (200 * 0 + 1) \div (2 * 1) = 0
  OBVIOUS
<1> QED BY <1>1 DEF Hundredths, Abs

\* The price of an analog is a fraction in lowest terms, and its adjustments are
\* not negative, whatever is configured.
LEMMA AdjustedIs ==
  ASSUME NEW cfg, ConfigType(cfg), NEW subject, NEW analog,
         Covers(cfg, subject), Covers(cfg, analog),
         subject.area \in Positives, analog.price \in Positives, analog.bargaining \in Int
  PROVE  /\ Lowest(Adjusted(cfg, subject, analog).price)
         /\ Adjusted(cfg, subject, analog).total \in Nat
<1> DEFINE k1    == LocationCoeff(cfg, subject, analog)
           k2    == AreaCoeff(cfg, subject, analog)
           price == PriceBefore(cfg, subject, analog)
           delta == RepairDelta(cfg, subject, analog)
           k3    == RepairCoeff(price, delta)
           k4    == FloorCoeff(cfg, subject, analog)
           moves == Plus(Plus(Adjustment(k1), Adjustment(k2)),
                         Plus(Adjustment(k3), Adjustment(k4)))
           b     == <<Abs(analog.bargaining), 1>>
<1>1. /\ Adjusted(cfg, subject, analog).price = Times(AfterRepair(cfg, price, delta), k4)
      /\ Adjusted(cfg, subject, analog).total = Hundredths(Plus(b, moves))
  BY DEF Adjusted, PriceBefore
<1>2. Lowest(k1) /\ Lowest(k2) /\ Lowest(price)
  BY PriceBeforeIs
<1>3. Lowest(delta) /\ Lowest(k4)
  BY DeltaIs, FloorIs
<1>4. Amount(b)
  <2>1. Abs(analog.bargaining) \in Nat /\ 1 \in Positives
    BY DEF Abs, Positives
  <2> QED BY <2>1, IntIs, AmountOf
<1> HIDE DEF k1, k2, price, delta, k4, b
<1>5. Lowest(k3)
  BY <1>2, <1>3, RepairCoeffIs
<1>6. Lowest(AfterRepair(cfg, price, delta))
  BY <1>2, <1>3, <1>5, LowestTimes DEF AfterRepair
<1> HIDE DEF k3
<1>7. \A k : Lowest(k) => Amount(Adjustment(k))
  BY SelfIs, AdjustmentIs
<1>8. Amount(moves)
  BY <1>2, <1>3, <1>5, <1>7, AmountPlus
<1> QED BY <1>1, <1>3, <1>4, <1>6, <1>8, LowestTimes, AmountPlus, HundredthsNat
-------------------------------------------------------------------------------
(* An analog like the subject. *)

LEMMA Identities ==
  ASSUME NEW x, Lowest(x)
  PROVE  /\ Times(x, One) = x /\ Plus(x, Zero) = x /\ Plus(Zero, x) = x
         /\ Minus(x, x) = Zero
         /\ Positive(x) => Over(x, x) = One /\ Over(Zero, x) = Zero
<1> DEFINE n == x[1] d == x[2]
<1>1. n \in Int /\ d \in Positives /\ Is(x, n, d) /\ (Positive(x) <=> n > 0)
  BY SelfIs DEF Positive
<1> HIDE DEF n, d
<1>2. 1 \in Positives /\ d \in Int /\ 0 * d = 0 * 1 /\ 0 \in Int /\ 1 \in Int
  BY <1>1 DEF Positives
<1>3. Is(Zero, 0, d) /\ Is(Zero, 0, 1) /\ Is(One, 1, 1)
  BY <1>1, <1>2, ZeroOne, SameValue
<1>4. Times(x, One) = x
  <2>1. Is(Times(x, One), n * 1, d * 1) /\ n * 1 = n /\ d * 1 = d
    BY <1>1, <1>2, <1>3, TimesOf
  <2>2. Is(Times(x, One), n, d)
    BY <2>1
  <2> QED BY <1>1, <2>2, Unique
<1>5. Plus(x, Zero) = x /\ Plus(Zero, x) = x
  <2>1. Is(Plus(x, Zero), n + 0, d) /\ Is(Plus(Zero, x), 0 + n, d) /\ n + 0 = n /\ 0 + n = n
    BY <1>1, <1>2, <1>3, PlusSame
  <2>2. Is(Plus(x, Zero), n, d) /\ Is(Plus(Zero, x), n, d)
    BY <2>1
  <2> QED BY <1>1, <2>2, Unique
<1>6. Minus(x, x) = Zero
  <2>1. Is(Minus(x, x), n - n, d) /\ n - n = 0
    BY <1>1, MinusSame
  <2>2. Is(Minus(x, x), 0, d)
    BY <2>1
  <2> QED BY <1>1, <1>2, <1>3, <2>2, Unique
<1>7. ASSUME Positive(x) PROVE Over(x, x) = One /\ Over(Zero, x) = Zero
  <2>1. n \in Positives
    BY <1>1, <1>7 DEF Positives
  <2> DEFINE m == n * d e == d * n z == 0 * d f == 1 * n
  <2>2. Is(Over(x, x), m, e) /\ Is(Over(Zero, x), z, f)
    BY <1>1, <1>2, <1>3, <2>1, OverOf
  <2>3. m \in Int /\ e \in Positives /\ m * 1 = 1 * e /\ z = 0 /\ f = n
    <3>1. n * d > 0 /\ n * d = d * n
      BY <1>1, <2>1 DEF Positives
    <3> QED BY <1>1, <2>1, <3>1 DEF Positives
  <2> HIDE DEF m, e, z, f
  <2>4. Is(Over(x, x), 1, 1) /\ Is(Over(Zero, x), 0, n) /\ 0 * 1 = 0 * n
    BY <1>2, <2>1, <2>2, <2>3, SameValue DEF Positives
  <2>5. Is(Over(Zero, x), 0, 1)
    BY <1>2, <2>1, <2>4, SameValue
  <2> QED BY <1>2, <1>3, <2>4, <2>5, Unique
<1> QED BY <1>4, <1>5, <1>6, <1>7

\* The whole effect on an analog that differs from the subject in nothing, and
\* needs no bargaining, is that of the floor matrix.
THEOREM LikeMovesByFloor ==
  ASSUME NEW cfg, ConfigType(cfg), NEW subject, NEW analog, Covers(cfg, subject),
         subject.area \in Positives, analog.price \in Positives, analog.bargaining = 0,
         analog.area = subject.area, analog.district = subject.district,
         analog.condition = subject.condition, analog.class = subject.class,
         analog.floor = subject.floor
  PROVE  LET k == FloorPercent(cfg, subject, analog)
         IN  Adjusted(cfg, subject, analog)
               = [price |-> Frac(analog.price * k, 100), total |-> 100 * Abs(k - 100)]
<1> DEFINE p == analog.price
           k == FloorPercent(cfg, subject, analog)
           x == AfterBargaining(analog)
           k4 == FloorCoeff(cfg, subject, analog)
           m == Abs(k - 100)
<1>0. /\ p \in Int /\ k \in Int /\ 0 \in Int /\ 100 \in Int
      /\ 1 \in Positives /\ 100 \in Positives /\ m \in Nat
  BY DEF FloorPercent, ConfigType, Positives, Abs
<1>1. x = <<p, 1>> /\ Lowest(x) /\ Positive(x)
  <2>1. Is(x, p * (100 - 0), 100)
    BY <1>0, BargainingIs
  <2>2. p * (100 - 0) \in Int /\ (p * (100 - 0)) * 1 = p * 100
    BY <1>0
  <2>3. Is(x, p, 1)
    BY <1>0, <2>1, <2>2, SameValue
  <2>4. x = <<p, 1>>
    BY <1>0, <2>3, IntIs, Unique
  <2> QED BY <2>3, <2>4 DEF Is, Positive, Positives
<1>2. LocationCoeff(cfg, subject, analog) = One
  <2>1. PICK s \in Positives : DistrictPrice(cfg, subject.district) = <<s, 1>>
    BY DistrictIs
  <2>2. s \in Int /\ 1 * s = s * 1
    BY DEF Positives
  <2>3. Is(LocationCoeff(cfg, subject, analog), s, s)
    BY <2>1, LocationIs
  <2>4. Is(One, s, s)
    BY <1>0, <2>2, ZeroOne, SameValue
  <2> QED BY <2>2, <2>3, <2>4, Unique
<1>3. AreaCoeff(cfg, subject, analog) = One
  <2>1. cfg.scale[subject.area] \in Int
    BY DEF ConfigType, OneSign, Covers
  <2>2. Lowest(Scale(cfg, subject.area))
    BY <2>1, IntIs DEF Scale, Is
  <2> QED BY <2>2, Identities DEF AreaCoeff
<1>4. RepairDelta(cfg, subject, analog) = Zero
  <2>1. Repair(cfg, analog) = Repair(cfg, subject)
    BY DEF Repair
  <2>2. Minus(Repair(cfg, subject), Repair(cfg, analog)) = Zero
    BY <2>1, RepairIs, Identities
  <2>3. Lowest(<<subject.area, 1>>) /\ Positive(<<subject.area, 1>>)
    BY IntIs DEF Is, Positive, Positives
  <2> QED BY <2>2, <2>3, Identities DEF RepairDelta
<1>5. k4 = Frac(k, 100) /\ Is(k4, k, 100)
  <2>1. k4 = Frac(k, 100)
    BY DEF FloorCoeff
  <2> QED BY <1>0, <2>1, FracIs
<1> HIDE DEF p, k, x, k4
<1>6. PriceBefore(cfg, subject, analog) = x
  BY <1>1, <1>2, <1>3, Identities DEF PriceBefore, x
<1>7. RepairCoeff(x, Zero) = One
  <2>1. Over(Zero, x) = Zero /\ Plus(One, Zero) = One
    BY <1>1, ZeroOne, Identities DEF Is
  <2> QED BY <2>1 DEF RepairCoeff
<1>8. AfterRepair(cfg, x, Zero) = x
  BY <1>1, <1>7, Identities DEF AfterRepair
<1>9. Times(x, k4) = Frac(p * k, 100)
  <2>1. Is(Times(x, k4), p * k, 1 * 100)
    BY <1>0, <1>1, <1>5, IntIs, TimesOf
  <2>2. p * k \in Int /\ 1 * 100 = 100
    BY <1>0
  <2> QED BY <1>0, <2>1, <2>2, FracIs, Unique
<1>10. Plus(<<Abs(0), 1>>, Plus(Plus(Adjustment(One), Adjustment(One)),
                                Plus(Adjustment(One), Adjustment(k4)))) = <<m, 1>>
  <2>1. Adjustment(One) = Zero
    <3>1. Is(Adjustment(One), 100 * Abs(1 - 1), 1) /\ 100 * Abs(1 - 1) = 0
      BY <1>0, ZeroOne, AdjustmentIs DEF Abs
    <3>2. Is(Adjustment(One), 0, 1)
      BY <3>1
    <3> QED BY <1>0, <3>2, ZeroOne, Unique
  <2>2. Adjustment(k4) = <<m, 1>> /\ Lowest(<<m, 1>>)
    <3>1. Is(Adjustment(k4), 100 * m, 100)
      BY <1>0, <1>5, AdjustmentIs
    <3> HIDE DEF m
    <3>2. m \in Int /\ 100 * m \in Int /\ (100 * m) * 1 = m * 100
      BY <1>0
    <3>3. Is(Adjustment(k4), m, 1)
      BY <1>0, <3>1, <3>2, SameValue
    <3> QED BY <1>0, <3>2, <3>3, IntIs, Unique DEF Is
  <2>3. <<Abs(0), 1>> = Zero /\ Lowest(Zero)
    BY ZeroOne DEF Abs, Zero, Is
  <2> QED BY <2>1, <2>2, <2>3, Identities
<1>11. Hundredths(<<m, 1>>) = 100 * m
  BY <1>0, HundredthsInt
<1>12. Adjusted(cfg, subject, analog) = [price |-> Times(x, k4), total |-> Hundredths(<<m, 1>>)]
  BY <1>2, <1>3, <1>4, <1>6, <1>7, <1>8, <1>10 DEF Adjusted, PriceBefore, k4
<1> QED BY <1>9, <1>11, <1>12 DEF p, k
-------------------------------------------------------------------------------
(* The reconciliation, for all adjustments and prices. *)

\* The weights sum to one, none is negative, none exceeds a third unless nothing
\* was adjusted and all are a quarter, and the less adjusted analog weighs no less.
THEOREM WeightsSumToOne ==
  ASSUME NEW M \in [AnalogNo -> Nat]
  PROVE  /\ WeightDen(M) > 0
         /\ WeightNum(M, 1) + WeightNum(M, 2) + WeightNum(M, 3) + WeightNum(M, 4)
              = WeightDen(M)
         /\ \A i \in AnalogNo :
              0 <= WeightNum(M, i) /\ 3 * WeightNum(M, i) <= WeightDen(M)
         /\ \A i, j \in AnalogNo : M[i] <= M[j] => WeightNum(M, j) <= WeightNum(M, i)
<1>1. /\ M[1] \in Nat /\ M[2] \in Nat /\ M[3] \in Nat /\ M[4] \in Nat
      /\ \A i \in AnalogNo : i = 1 \/ i = 2 \/ i = 3 \/ i = 4
  BY DEF AnalogNo
<1>2. CASE SumM(M) > 0
  BY <1>1, <1>2 DEF SumM, WeightDen, WeightNum
<1>3. CASE ~(SumM(M) > 0)
  BY <1>1, <1>3 DEF SumM, WeightDen, WeightNum
<1> QED BY <1>2, <1>3

\* n times p grows with p.
LEMMA TimesGrows ==
  ASSUME NEW n \in Nat, NEW p \in Int, NEW q \in Int, p <= q
  PROVE  n * p <= n * q
OBVIOUS

\* The weighted price lies between any bounds of the four prices.
THEOREM WeightedWithinPrices ==
  ASSUME NEW M \in [AnalogNo -> Nat], NEW price \in [AnalogNo -> Int],
         NEW lo \in Int, NEW hi \in Int,
         \A i \in AnalogNo : lo <= price[i] /\ price[i] <= hi
  PROVE  LET weighted == WeightNum(M, 1) * price[1] + WeightNum(M, 2) * price[2]
                         + WeightNum(M, 3) * price[3] + WeightNum(M, 4) * price[4]
         IN  WeightDen(M) * lo <= weighted /\ weighted <= WeightDen(M) * hi
<1> DEFINE n(i) == WeightNum(M, i)
<1>1. 1 \in AnalogNo /\ 2 \in AnalogNo /\ 3 \in AnalogNo /\ 4 \in AnalogNo
  BY DEF AnalogNo
<1>2. \A i \in AnalogNo : n(i) \in Nat
  BY <1>1, WeightsSumToOne DEF WeightNum, SumM
<1>3. \A i \in AnalogNo : n(i) * lo <= n(i) * price[i] /\ n(i) * price[i] <= n(i) * hi
  BY <1>2, TimesGrows
<1>4. n(1) + n(2) + n(3) + n(4) = WeightDen(M)
  BY WeightsSumToOne
<1>5. \A x \in Int : WeightDen(M) * x = n(1) * x + n(2) * x + n(3) * x + n(4) * x
  BY <1>1, <1>2, <1>4
<1> HIDE DEF n
<1>6. \A i \in AnalogNo : n(i) * lo \in Int /\ n(i) * price[i] \in Int /\ n(i) * hi \in Int
  BY <1>2
<1>7. /\ WeightDen(M) * lo <= n(1) * price[1] + n(2) * price[2] + n(3) * price[3] + n(4) * price[4]
      /\ n(1) * price[1] + n(2) * price[2] + n(3) * price[3] + n(4) * price[4] <= WeightDen(M) * hi
  BY <1>1, <1>3, <1>5, <1>6
<1> QED BY <1>7 DEF n

\* Four fractions over one denominator.
LEMMA CommonDenominator ==
  ASSUME NEW P, \A i \in AnalogNo : Lowest(P[i])
  PROVE  \E N \in [AnalogNo -> Int], D \in Positives : \A i \in AnalogNo : Is(P[i], N[i], D)
<1> DEFINE n1 == P[1][1] n2 == P[2][1] n3 == P[3][1] n4 == P[4][1]
           d1 == P[1][2] d2 == P[2][2] d3 == P[3][2] d4 == P[4][2]
           D  == d1 * d2 * (d3 * d4)
           m1 == n1 * (d2 * (d3 * d4))
           m2 == n2 * (d1 * (d3 * d4))
           m3 == n3 * (d1 * d2 * d4)
           m4 == n4 * (d1 * d2 * d3)
           N  == [i \in AnalogNo |-> IF i = 1 THEN m1 ELSE IF i = 2 THEN m2
                                      ELSE IF i = 3 THEN m3 ELSE m4]
<1>1. 1 \in AnalogNo /\ 2 \in AnalogNo /\ 3 \in AnalogNo /\ 4 \in AnalogNo
  BY DEF AnalogNo
<1>2. /\ n1 \in Int /\ d1 \in Positives /\ Is(P[1], n1, d1)
      /\ n2 \in Int /\ d2 \in Positives /\ Is(P[2], n2, d2)
      /\ n3 \in Int /\ d3 \in Positives /\ Is(P[3], n3, d3)
      /\ n4 \in Int /\ d4 \in Positives /\ Is(P[4], n4, d4)
  BY <1>1, SelfIs
<1> HIDE DEF n1, n2, n3, n4, d1, d2, d3, d4
<1>3. d1 * d2 > 0 /\ d3 * d4 > 0 /\ d1 * d2 \in Int /\ d3 * d4 \in Int
  BY <1>2 DEF Positives
<1>4. D \in Positives
  <2>1. D > 0 /\ D \in Int
    BY <1>3
  <2> QED BY <2>1 DEF Positives
<1>5. m1 \in Int /\ m2 \in Int /\ m3 \in Int /\ m4 \in Int
  BY <1>2, <1>3 DEF Positives
<1>6. n1 * D = m1 * d1 /\ n2 * D = m2 * d2 /\ n3 * D = m3 * d3 /\ n4 * D = m4 * d4
  BY <1>2 DEF Positives
<1> HIDE DEF D, m1, m2, m3, m4
<1>7. Is(P[1], m1, D) /\ Is(P[2], m2, D) /\ Is(P[3], m3, D) /\ Is(P[4], m4, D)
  BY <1>2, <1>4, <1>5, <1>6, SameValue
<1>8. N \in [AnalogNo -> Int] /\ \A i \in AnalogNo : Is(P[i], N[i], D)
  BY <1>5, <1>7 DEF AnalogNo
<1> QED BY <1>4, <1>8

LEMMA TotalIs ==
  ASSUME NEW P, NEW N \in [AnalogNo -> Int], NEW D \in Positives,
         \A i \in AnalogNo : Is(P[i], N[i], D)
  PROVE  Is(Total(P), N[1] + N[2] + (N[3] + N[4]), D)
<1>1. 1 \in AnalogNo /\ 2 \in AnalogNo /\ 3 \in AnalogNo /\ 4 \in AnalogNo
  BY DEF AnalogNo
<1>2. N[1] \in Int /\ N[2] \in Int /\ N[3] \in Int /\ N[4] \in Int
  BY <1>1
<1>3. Is(Plus(P[1], P[2]), N[1] + N[2], D) /\ N[1] + N[2] \in Int
  BY <1>1, <1>2, PlusSame
<1>4. Is(Plus(P[3], P[4]), N[3] + N[4], D) /\ N[3] + N[4] \in Int
  BY <1>1, <1>2, PlusSame
<1> QED BY <1>3, <1>4, PlusSame DEF Total

\* One of four numbers is the least, and one is the greatest.
LEMMA Extremes ==
  ASSUME NEW N \in [AnalogNo -> Int]
  PROVE  /\ \E i \in AnalogNo : \A j \in AnalogNo : N[i] <= N[j]
         /\ \E i \in AnalogNo : \A j \in AnalogNo : N[j] <= N[i]
<1>1. /\ 1 \in AnalogNo /\ 2 \in AnalogNo /\ 3 \in AnalogNo /\ 4 \in AnalogNo
      /\ \A i \in AnalogNo : i = 1 \/ i = 2 \/ i = 3 \/ i = 4
  BY DEF AnalogNo
<1>2. N[1] \in Int /\ N[2] \in Int /\ N[3] \in Int /\ N[4] \in Int
  BY <1>1
<1> DEFINE Least(i) == N[i] <= N[1] /\ N[i] <= N[2] /\ N[i] <= N[3] /\ N[i] <= N[4]
           Most(i) == N[1] <= N[i] /\ N[2] <= N[i] /\ N[3] <= N[i] /\ N[4] <= N[i]
<1>3. Least(1) \/ Least(2) \/ Least(3) \/ Least(4)
  BY <1>2
<1>4. Most(1) \/ Most(2) \/ Most(3) \/ Most(4)
  BY <1>2
<1>5. \A i : /\ Least(i) => \A j \in AnalogNo : N[i] <= N[j]
             /\ Most(i) => \A j \in AnalogNo : N[j] <= N[i]
  BY <1>1
<1> HIDE DEF Least, Most
<1> QED BY <1>1, <1>3, <1>4, <1>5
LEMMA WeightIs ==
  ASSUME NEW M \in [AnalogNo -> Nat]
  PROVE  /\ WeightDen(M) \in Positives
         /\ \A i \in AnalogNo : /\ WeightNum(M, i) \in Nat
                                /\ Is(Weights(M)[i], WeightNum(M, i), WeightDen(M))
<1>1. \A i \in AnalogNo : M[i] \in Nat
  OBVIOUS
<1>2. SumM(M) \in Nat
  BY <1>1 DEF SumM, AnalogNo
<1>3. WeightDen(M) \in Positives
  BY <1>2 DEF WeightDen, Positives
<1>4. \A i \in AnalogNo : WeightNum(M, i) \in Int
  BY <1>1, <1>2 DEF WeightNum
<1>5. \A i \in AnalogNo : WeightNum(M, i) \in Nat
  <2>1. \A i \in AnalogNo : 0 <= WeightNum(M, i)
    BY WeightsSumToOne
  <2> QED BY <1>4, <2>1
<1>6. \A i \in AnalogNo : Weights(M)[i] = Frac(WeightNum(M, i), WeightDen(M))
  BY DEF Weights
<1> QED BY <1>3, <1>4, <1>5, <1>6, FracIs

\* The weights as the fractions that a calculation returns.
THEOREM WeightsReconcile ==
  ASSUME NEW M \in [AnalogNo -> Nat]
  PROVE  /\ Total(Weights(M)) = One
         /\ \A i \in AnalogNo : Leq(Zero, Weights(M)[i]) /\ Leq(Weights(M)[i], <<1, 3>>)
         /\ \A i, j \in AnalogNo : M[i] <= M[j] => Leq(Weights(M)[j], Weights(M)[i])
<1> DEFINE w == Weights(M)
           D == WeightDen(M)
           N == [i \in AnalogNo |-> WeightNum(M, i)]
<1>1. /\ D \in Positives /\ N \in [AnalogNo -> Nat]
      /\ \A i \in AnalogNo : Is(w[i], N[i], D)
  BY WeightIs
<1>2. /\ N[1] + N[2] + N[3] + N[4] = D
      /\ \A i \in AnalogNo : 3 * N[i] <= D
      /\ \A i, j \in AnalogNo : M[i] <= M[j] => N[j] <= N[i]
  BY WeightsSumToOne DEF AnalogNo
<1> HIDE DEF w, D, N
<1>3. /\ D \in Int /\ 1 \in Positives /\ 1 \in Int /\ 0 \in Int
      /\ 1 * D = D * 1 /\ 0 * D = 0 * 1 /\ 1 * D = D /\ N \in [AnalogNo -> Int]
  BY <1>1 DEF Positives
<1>4. Total(w) = One
  <2>1. Is(Total(w), N[1] + N[2] + (N[3] + N[4]), D)
    BY <1>1, <1>3, TotalIs
  <2>2. N[1] + N[2] + (N[3] + N[4]) = D
    BY <1>1, <1>2 DEF AnalogNo
  <2>3. Is(One, D, D)
    BY <1>1, <1>3, ZeroOne, SameValue
  <2> QED BY <1>1, <1>3, <2>1, <2>2, <2>3, Unique
<1>5. ASSUME NEW i \in AnalogNo
      PROVE  Leq(Zero, w[i]) /\ Leq(w[i], <<1, 3>>)
  <2>0. N[i] \in Nat /\ N[i] \in Int /\ Is(w[i], N[i], D) /\ 3 * N[i] <= D
    BY <1>1, <1>2
  <2>1. Is(Zero, 0, D)
    BY <1>1, <1>3, ZeroOne, SameValue
  <2>2. Leq(Zero, w[i])
    BY <1>1, <1>3, <2>0, <2>1, LeqOf
  <2>3. Is(<<1, 3>>, 1, 3)
    <3>1. 1 * 1 + 0 * 3 = 1
      OBVIOUS
    <3>2. Coprime(1, 3)
      BY <3>1 DEF Coprime
    <3> QED BY <3>2 DEF Is, Lowest, Fraction
  <2> DEFINE E == 3 * D
             n == 3 * N[i]
  <2>4. E \in Positives /\ n \in Int /\ 3 \in Positives /\ N[i] * E = n * D /\ 1 * E = D * 3
    BY <1>1, <2>0 DEF Positives
  <2>5. n <= D
    BY <2>0
  <2> HIDE DEF E, n
  <2>6. Is(w[i], n, E) /\ Is(<<1, 3>>, D, E)
    BY <1>1, <1>3, <2>0, <2>3, <2>4, SameValue
  <2> QED BY <1>3, <2>2, <2>4, <2>5, <2>6, LeqOf
<1>6. ASSUME NEW i \in AnalogNo, NEW j \in AnalogNo, M[i] <= M[j]
      PROVE  Leq(w[j], w[i])
  <2>1. N[i] \in Int /\ N[j] \in Int /\ Is(w[i], N[i], D) /\ Is(w[j], N[j], D) /\ N[j] <= N[i]
    BY <1>1, <1>2, <1>6
  <2> QED BY <1>1, <2>1, LeqOf
<1> QED BY <1>4, <1>5, <1>6 DEF w

\* The value per square metre lies within the prices it is made of.
THEOREM ValueWithinPrices ==
  ASSUME NEW M \in [AnalogNo -> Nat], NEW P, \A i \in AnalogNo : Lowest(P[i])
  PROVE  LET value == Total([i \in AnalogNo |-> Times(P[i], Weights(M)[i])])
         IN  /\ \E i \in AnalogNo : Leq(P[i], value)
             /\ \E i \in AnalogNo : Leq(value, P[i])
<1> DEFINE W == WeightDen(M)
           n(i) == WeightNum(M, i)
           Q == [i \in AnalogNo |-> Times(P[i], Weights(M)[i])]
           value == Total(Q)
<1>1. PICK N \in [AnalogNo -> Int], D \in Positives : \A i \in AnalogNo : Is(P[i], N[i], D)
  BY CommonDenominator
<1>2. W \in Positives /\ \A i \in AnalogNo : n(i) \in Nat /\ Is(Weights(M)[i], n(i), W)
  BY WeightIs
<1>3. \A i \in AnalogNo : Q[i] = Times(P[i], Weights(M)[i])
  OBVIOUS
<1> DEFINE S == [i \in AnalogNo |-> n(i) * N[i]]
           E == W * D
           sum == n(1) * N[1] + n(2) * N[2] + n(3) * N[3] + n(4) * N[4]
<1>4. \A lo, hi \in Int : (\A i \in AnalogNo : lo <= N[i] /\ N[i] <= hi)
                            => W * lo <= sum /\ sum <= W * hi
  BY WeightedWithinPrices
<1> HIDE DEF W, n, Q
<1>5. E \in Positives /\ W \in Int /\ D \in Int
  <2>1. W * D > 0 /\ W * D \in Int
    BY <1>1, <1>2 DEF Positives
  <2> QED BY <1>1, <1>2, <2>1 DEF Positives
<1>6. S \in [AnalogNo -> Int] /\ \A i \in AnalogNo : S[i] = n(i) * N[i]
  BY <1>1, <1>2
<1>7. sum = S[1] + S[2] + (S[3] + S[4]) /\ sum \in Int
  BY <1>6 DEF AnalogNo
<1>8. \A i \in AnalogNo : Is(Q[i], S[i], E)
  <2>1. ASSUME NEW i \in AnalogNo PROVE Is(Q[i], S[i], E)
    <3>1. N[i] \in Int /\ n(i) \in Int /\ Is(P[i], N[i], D) /\ Is(Weights(M)[i], n(i), W)
      BY <1>1, <1>2
    <3>2. Is(Times(P[i], Weights(M)[i]), N[i] * n(i), D * W)
      BY <1>1, <1>2, <3>1, TimesOf
    <3>3. N[i] * n(i) = S[i] /\ D * W = E
      BY <1>5, <1>6, <3>1
    <3> QED BY <1>3, <3>2, <3>3
  <2> QED BY <2>1
<1> HIDE DEF S, E, sum
<1>9. Is(value, sum, E)
  BY <1>5, <1>6, <1>7, <1>8, TotalIs
<1> HIDE DEF value
<1>10. \A i \in AnalogNo : Is(P[i], W * N[i], E) /\ W * N[i] \in Int
  <2>1. ASSUME NEW i \in AnalogNo PROVE Is(P[i], W * N[i], E) /\ W * N[i] \in Int
    <3>1. N[i] \in Int /\ Is(P[i], N[i], D)
      BY <1>1
    <3>2. W * N[i] \in Int /\ N[i] * E = (W * N[i]) * D
      BY <1>5, <3>1 DEF E
    <3> QED BY <1>1, <1>5, <3>1, <3>2, SameValue
  <2> QED BY <2>1
<1>11. PICK i \in AnalogNo : \A j \in AnalogNo : N[i] <= N[j]
  BY <1>1, Extremes
<1>12. PICK k \in AnalogNo : \A j \in AnalogNo : N[j] <= N[k]
  BY <1>1, Extremes
<1>13. W * N[i] <= sum /\ sum <= W * N[k]
  <2>1. N[i] \in Int /\ N[k] \in Int
    BY <1>1
  <2> QED BY <1>4, <1>11, <1>12, <2>1
<1>14. Leq(P[i], value) /\ Leq(value, P[k])
  BY <1>5, <1>7, <1>9, <1>10, <1>13, LeqOf
<1> QED BY <1>14 DEF value, Q
================================================================================
