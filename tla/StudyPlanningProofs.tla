------------------------ MODULE StudyPlanningProofs ------------------------
(***************************************************************************)
(* Theorems about StudyPlanning, for all studies, datasets and rates.      *)
(***************************************************************************)
EXTENDS StudyPlanning, WellOrdering, SequenceTheorems

----------------------------------------------------------------------------
(* Numbers with mixed radix: what a counter over several axes enumerates.  *)

\* Division leaves a remainder.
LEMMA Division ==
    ASSUME NEW a \in Nat, NEW n \in Nat \ {0}
    PROVE  a \div n \in Nat /\ a % n \in 0 .. n - 1 /\ a = n * (a \div n) + (a % n)
  <1>0. (a \div n) \in Int /\ n * (a \div n) <= a /\ a < n * (a \div n) + n
      OBVIOUS
  <1>3. a % n \in 0 .. n - 1
      OBVIOUS
  <1>4. a = n * (a \div n) + (a % n)
      OBVIOUS
  <1>1. (a \div n) \in Int /\ a % n \in 0 .. n - 1 /\ a = n * (a \div n) + (a % n)
      BY <1>0, <1>3, <1>4
  <1>2. ASSUME a \div n < 0 PROVE FALSE
    <2>1. n * (a \div n) <= -n
      <3> DEFINE q == a \div n
      <3>1. q \in Int /\ q <= -1
          BY <1>1, <1>2
      <3> HIDE DEF q
      <3>2. n * q <= n * (-1)
          BY <3>1
      <3> QED
          BY <3>2 DEF q
    <2> QED
        BY <1>1, <2>1
  <1> QED
      BY <1>1, <1>2

\* Products of positive numbers are positive.
LEMMA PositiveProduct ==
    ASSUME NEW x \in Nat \ {0}, NEW y \in Nat \ {0} PROVE x * y \in Nat \ {0}
  <1>1. y - 1 \in Nat /\ x * (y - 1) \in Nat
      OBVIOUS
  <1>2. x * (y - 1) = x * y - x
      OBVIOUS
  <1> QED
      BY <1>1, <1>2

\* A quotient and a remainder are unique.
LEMMA DivisionIsUnique ==
    ASSUME NEW n \in Nat \ {0}, NEW q \in Nat, NEW r \in 0 .. n - 1, NEW a \in Nat,
           a = n * q + r
    PROVE  a \div n = q /\ a % n = r
  <1> DEFINE p == a \div n
             t == a % n
  <1>2. p \in Nat /\ t \in 0 .. n - 1 /\ a = n * p + t
      BY Division
  <1> HIDE DEF p, t
  <1>3. ASSUME NEW x \in Nat, NEW y \in Nat, x < y PROVE n * x + n <= n * y
    <2>1. y - x - 1 \in Nat
        BY <1>3
    <2>2. n * (y - x - 1) \in Nat
        BY <2>1
    <2>3. n * (y - x - 1) = n * y - n * x - n
        BY <2>1
    <2> QED
        BY <2>2, <2>3
  <1>4. ~(p < q) /\ ~(q < p)
    <2>1. CASE p < q
        BY <1>2, <1>3, <2>1
    <2>2. CASE q < p
        BY <1>2, <1>3, <2>2
    <2> QED
        BY <2>1, <2>2
  <1>5. p = q
      BY <1>2, <1>4
  <1> QED
      BY <1>2, <1>5 DEF p, t

\* A number smaller than the divisor is the remainder.
LEMMA SmallNumber ==
    ASSUME NEW n \in Nat \ {0}, NEW x \in 0 .. n - 1 PROVE x % n = x
  <1>1. x = n * 0 + x /\ x \in Nat
      OBVIOUS
  <1> QED
      BY <1>1, DivisionIsUnique

\* The quotient grows with the number.
LEMMA DivisionGrows ==
    ASSUME NEW n \in Nat \ {0}, NEW a \in Nat, NEW b \in Nat, a <= b
    PROVE  a \div n <= b \div n
  <1> DEFINE p == a \div n
             q == b \div n
             s == a % n
             t == b % n
  <1>1. /\ p \in Nat /\ q \in Nat /\ s \in 0 .. n - 1 /\ t \in 0 .. n - 1
        /\ a = n * p + s /\ b = n * q + t
      BY Division
  <1> HIDE DEF p, q, s, t
  <1>2. ASSUME q < p PROVE FALSE
    <2>1. p - q - 1 \in Nat
        BY <1>1, <1>2
    <2>2. n * (p - q - 1) \in Nat
        BY <2>1
    <2>3. n * (p - q - 1) = n * p - n * q - n
        BY <1>1
    <2> QED
        BY <1>1, <2>2, <2>3
  <1> QED
      BY <1>1, <1>2 DEF p, q

\* Products of the first factors.
LEMMA Products ==
    ASSUME NEW n \in Nat, NEW a \in [1 .. n -> Nat]
    PROVE  \E f : f = [i \in 0 .. n |-> IF i = 0 THEN 1 ELSE f[i - 1] * a[i]]
  <1> DEFINE Until(f, m) == f = [i \in 0 .. m |-> IF i = 0 THEN 1 ELSE f[i - 1] * a[i]]
             bad == {m \in 0 .. n : ~\E f : Until(f, m)}
  <1>1. ASSUME bad # {} PROVE FALSE
    <2>0. bad \subseteq Nat
        OBVIOUS
    <2>1. PICK m \in bad : \A k \in bad : m <= k
      <3> HIDE DEF bad
      <3> QED
          BY <1>1, <2>0, LeastNumber
    <2>2. CASE m = 0
      <3>1. Until([i \in 0 .. 0 |-> 1], 0)
          OBVIOUS
      <3> QED
          BY <2>1, <2>2, <3>1
    <2>3. CASE m # 0
      <3>0. m \in 0 .. n
          OBVIOUS
      <3>1. m \in 1 .. n /\ m - 1 \in 0 .. n /\ m - 1 \notin bad
        <4> HIDE DEF bad
        <4> QED
            BY <2>1, <2>3, <3>0
      <3>2. PICK g : Until(g, m - 1)
          BY <3>1
      <3> DEFINE f == [i \in 0 .. m |-> IF i = m THEN g[m - 1] * a[m] ELSE g[i]]
      <3>3. \A i \in 0 .. m - 1 : f[i] = g[i]
          BY <3>1
      <3>4. \A i \in 0 .. m - 1 : g[i] = IF i = 0 THEN 1 ELSE g[i - 1] * a[i]
          BY <3>2
      <3>5. \A i \in 0 .. m : f[i] = IF i = 0 THEN 1 ELSE f[i - 1] * a[i]
        <4> SUFFICES ASSUME NEW i \in 0 .. m
                     PROVE  f[i] = IF i = 0 THEN 1 ELSE f[i - 1] * a[i]
            OBVIOUS
        <4>1. i = 0 \/ f[i - 1] = g[i - 1]
          <5>1. i = 0 \/ i - 1 \in 0 .. m - 1
              BY <3>1
          <5> QED
              BY <3>3, <5>1
        <4>2. CASE i = m
            BY <2>3, <4>1, <4>2
        <4>3. CASE i # m
          <5>1. i \in 0 .. m - 1
              BY <3>1, <4>3
          <5> QED
              BY <3>3, <3>4, <4>1, <5>1
        <4> QED
            BY <4>2, <4>3
      <3>6. Until(f, m)
          BY <3>5
      <3> QED
          BY <2>1, <3>6
    <2> QED
        BY <2>2, <2>3
  <1>2. n \in 0 .. n /\ n \notin bad
    <2> HIDE DEF bad
    <2> QED
        BY <1>1
  <1> QED
      BY <1>2

\* The places of a mixed radix: place i counts for c[i], one digit at place i + 1
\* has a[i + 1] values.
Places(c, a, n) ==
    /\ n \in Nat
    /\ a \in [1 .. n -> Nat \ {0}]
    /\ c \in [0 .. n -> Nat]
    /\ c[0] = 1
    /\ \A i \in 1 .. n : c[i] = c[i - 1] * a[i]

Digit(c, a, x, i) == (x \div c[i - 1]) % a[i]

\* No place counts for nothing, and each counts for a multiple of those before.
LEMMA PlacesDivide ==
    ASSUME NEW c, NEW a, NEW n, Places(c, a, n)
    PROVE  /\ \A m \in 0 .. n : c[m] \in Nat \ {0}
           /\ \A i, m \in 0 .. n : i <= m => \E k \in Nat : c[m] = c[i] * k
  <1> USE DEF Places
  <1>1. \A m \in 0 .. n : c[m] \in Nat \ {0}
    <2> DEFINE bad == {m \in 0 .. n : c[m] = 0}
    <2>1. ASSUME bad # {} PROVE FALSE
      <3>0. bad \subseteq 0 .. n
          OBVIOUS
      <3>1. PICK m \in bad : \A k \in bad : m <= k
        <4> HIDE DEF bad
        <4> QED
            BY <2>1, <3>0, LeastNumber
      <3>2. m \in 1 .. n /\ m - 1 \in 0 .. n /\ m - 1 \notin bad
          BY <3>1
      <3>3. c[m - 1] \in Nat \ {0} /\ a[m] \in Nat \ {0} /\ c[m] = c[m - 1] * a[m] /\ c[m] = 0
          BY <3>1, <3>2
      <3> QED
          BY <3>3, PositiveProduct
    <2> QED
        BY <2>1
  <1>2. ASSUME NEW i \in 0 .. n
        PROVE  \A m \in 0 .. n : i <= m => \E k \in Nat : c[m] = c[i] * k
    <2> DEFINE bad == {m \in 0 .. n : i <= m /\ ~\E k \in Nat : c[m] = c[i] * k}
    <2>1. ASSUME bad # {} PROVE FALSE
      <3>0. bad \subseteq 0 .. n
          OBVIOUS
      <3>1. PICK m \in bad : \A k \in bad : m <= k
        <4> HIDE DEF bad
        <4> QED
            BY <2>1, <3>0, LeastNumber
      <3>2. CASE m = i
        <4>1. c[m] = c[i] * 1
            BY <1>1, <3>2
        <4> QED
            BY <3>1, <4>1
      <3>3. CASE m # i
        <4>1. m \in 1 .. n /\ m - 1 \in 0 .. n /\ i <= m - 1 /\ m - 1 \notin bad
            BY <3>1, <3>3
        <4>2. PICK k \in Nat : c[m - 1] = c[i] * k
            BY <4>1
        <4>3. c[m] = c[m - 1] * a[m] /\ a[m] \in Nat /\ c[i] \in Nat
            BY <4>1
        <4>4. c[m] = c[i] * (k * a[m]) /\ k * a[m] \in Nat
          <5> DEFINE x == c[i]
                     y == a[m]
          <5>1. x \in Nat /\ y \in Nat /\ k \in Nat
              BY <4>3
          <5> HIDE DEF x, y
          <5>2. (x * k) * y = x * (k * y) /\ k * y \in Nat
              BY <5>1
          <5> QED
              BY <4>2, <4>3, <5>2 DEF x, y
        <4> QED
            BY <3>1, <4>4
      <3> QED
          BY <3>2, <3>3
    <2> QED
        BY <2>1
  <1> QED
      BY <1>1, <1>2

\* What is divided and reduced in turn is reduced at once.
LEMMA Reduction ==
    ASSUME NEW x \in Nat, NEW y \in Nat, NEW m \in Nat \ {0}, NEW k \in Nat \ {0},
           x % m = y % m, (x \div m) % k = (y \div m) % k
    PROVE  x % (m * k) = y % (m * k)
  <1>1. m * k \in Nat \ {0}
      BY PositiveProduct
  <1>2. ASSUME NEW z \in Nat
        PROVE  z % (m * k) = m * ((z \div m) % k) + (z % m)
    <2> DEFINE p == z \div m
               r == z % m
               q == p \div k
               d == p % k
    <2>1. p \in Nat /\ r \in 0 .. m - 1 /\ z = m * p + r
        BY Division
    <2>2. q \in Nat /\ d \in 0 .. k - 1 /\ p = k * q + d
      <3> HIDE DEF p
      <3> QED
          BY <2>1, Division
    <2> HIDE DEF p, r, q, d
    <2>3. z = (m * k) * q + (m * d + r)
      <3>1. m * p = m * (k * q) + m * d
          BY <2>2
      <3>2. m * (k * q) = (m * k) * q
          BY <2>2
      <3> QED
          BY <2>1, <2>2, <3>1, <3>2
    <2>4. m * d + r \in 0 .. m * k - 1
      <3>1. k - 1 - d \in Nat
          BY <2>2
      <3>2. m * (k - 1 - d) \in Nat
          BY <3>1
      <3>3. m * (k - 1 - d) = m * k - m - m * d
          BY <2>2
      <3>4. m * d \in Nat
          BY <2>2
      <3> QED
          BY <2>1, <1>1, <3>2, <3>3, <3>4
    <2> DEFINE n == m * k
               s == m * d + r
    <2>5. n \in Nat \ {0} /\ s \in 0 .. n - 1 /\ z = n * q + s
        BY <1>1, <2>3, <2>4
    <2> HIDE DEF n, s
    <2>6. z % n = s
        BY <1>2, <2>2, <2>5, DivisionIsUnique
    <2> QED
        BY <2>6 DEF n, s, p, r, d
  <1> QED
      BY <1>2

\* Two numbers with the same digits agree up to the last place.
LEMMA DigitsIdentify ==
    ASSUME NEW c, NEW a, NEW n, Places(c, a, n), NEW x \in Nat, NEW y \in Nat,
           \A i \in 1 .. n : Digit(c, a, x, i) = Digit(c, a, y, i)
    PROVE  x % c[n] = y % c[n]
  <1>1. n \in Nat /\ \A m \in 0 .. n : c[m] \in Nat \ {0}
      BY PlacesDivide DEF Places
  <1> DEFINE bad == {m \in 0 .. n : x % c[m] # y % c[m]}
  <1>2. ASSUME bad # {} PROVE FALSE
    <2>0. bad \subseteq 0 .. n
        OBVIOUS
    <2>1. PICK m \in bad : \A k \in bad : m <= k
      <3> HIDE DEF bad
      <3> QED
          BY <1>1, <1>2, <2>0, LeastNumber
    <2>2. m \in 0 .. n /\ x % c[m] # y % c[m]
        OBVIOUS
    <2>3. CASE m = 0
      <3>1. c[m] = 1
          BY <2>3 DEF Places
      <3>2. x % 1 = 0 /\ y % 1 = 0
          OBVIOUS
      <3> QED
          BY <2>2, <3>1, <3>2
    <2>4. CASE m # 0
      <3>1. m \in 1 .. n /\ m - 1 \in 0 .. n
          BY <1>1, <2>2, <2>4
      <3>2. m - 1 \notin bad
        <4> HIDE DEF bad
        <4> QED
            BY <2>1, <3>1
      <3>3. x % c[m - 1] = y % c[m - 1]
          BY <3>1, <3>2
      <3>4. c[m] = c[m - 1] * a[m] /\ a[m] \in Nat \ {0} /\ c[m - 1] \in Nat \ {0}
          BY <1>1, <3>1 DEF Places
      <3>5. (x \div c[m - 1]) % a[m] = (y \div c[m - 1]) % a[m]
          BY <3>1 DEF Digit
      <3> DEFINE u == c[m - 1]
                 v == a[m]
      <3>6. x % (u * v) = y % (u * v)
        <4>1. /\ u \in Nat \ {0} /\ v \in Nat \ {0} /\ x % u = y % u
              /\ (x \div u) % v = (y \div u) % v
            BY <3>3, <3>4, <3>5
        <4> HIDE DEF u, v
        <4> QED
            BY <4>1, Reduction
      <3> QED
          BY <2>2, <3>4, <3>6
    <2> QED
        BY <2>3, <2>4
  <1>3. n \in 0 .. n /\ n \notin bad
    <2> HIDE DEF bad
    <2> QED
        BY <1>1, <1>2
  <1> QED
      BY <1>3

\* Every choice of digits is a number below the last place.
LEMMA DigitsAreFree ==
    ASSUME NEW c, NEW a, NEW n, Places(c, a, n),
           NEW d, \A i \in 1 .. n : d[i] \in 0 .. a[i] - 1
    PROVE  \E x \in 0 .. c[n] - 1 : \A i \in 1 .. n : Digit(c, a, x, i) = d[i]
  <1>0. n \in Nat
      BY DEF Places
  <1>1. /\ n \in Nat /\ \A m \in 0 .. n : c[m] \in Nat \ {0}
        /\ \A i, m \in 0 .. n : i <= m => \E k \in Nat : c[m] = c[i] * k
      BY <1>0, PlacesDivide
  <1> DEFINE Chosen(m) == \E x \in 0 .. c[m] - 1 : \A i \in 1 .. m : Digit(c, a, x, i) = d[i]
             bad == {m \in 0 .. n : ~Chosen(m)}
  <1>2. Chosen(0)
    <2>1. 0 \in 0 .. c[0] - 1
        BY DEF Places
    <2> QED
        BY <2>1
  <1>3. ASSUME NEW m \in 1 .. n, Chosen(m - 1) PROVE Chosen(m)
    <2>1. m - 1 \in 0 .. n /\ m \in Nat
        BY <1>1
    <2>2. PICK x \in 0 .. c[m - 1] - 1 : \A i \in 1 .. m - 1 : Digit(c, a, x, i) = d[i]
        BY <1>3
    <2>3. /\ c[m] = c[m - 1] * a[m] /\ a[m] \in Nat \ {0} /\ c[m - 1] \in Nat \ {0}
          /\ d[m] \in 0 .. a[m] - 1
        BY <1>1, <2>1 DEF Places
    <2> DEFINE u == c[m - 1]
               v == a[m]
               e == d[m]
               y == u * e + x
    <2>4. /\ u \in Nat \ {0} /\ v \in Nat \ {0} /\ e \in 0 .. v - 1 /\ x \in 0 .. u - 1
          /\ c[m] = u * v
        BY <2>2, <2>3
    <2>5. y \in 0 .. c[m] - 1
      <3> HIDE DEF u, v, e
      <3>1. v - 1 - e \in Nat /\ u * (v - 1 - e) \in Nat
          BY <2>4
      <3>2. u * (v - 1 - e) = u * v - u - u * e
          BY <2>4
      <3>3. u * e \in Nat /\ u * v \in Nat
          BY <2>4
      <3> QED
          BY <2>4, <3>1, <3>2, <3>3
    <2>6. Digit(c, a, y, m) = d[m]
      <3>1. y \div u = e
        <4>1. y \in Nat /\ e \in Nat
            BY <2>4, <2>5
        <4>2. y = u * e + x
            OBVIOUS
        <4> HIDE DEF u, v, e, y
        <4> QED
            BY <2>4, <4>1, <4>2, DivisionIsUnique
      <3>2. e % v = e
        <4> HIDE DEF u, v, e
        <4> QED
            BY <2>4, SmallNumber
      <3> QED
          BY <3>1, <3>2 DEF Digit
    <2>7. ASSUME NEW i \in 1 .. m - 1 PROVE Digit(c, a, y, i) = d[i]
      <3>1. i \in 1 .. n /\ i - 1 \in 0 .. n /\ i \in 0 .. n /\ i <= m - 1
          BY <1>1, <2>1
      <3>2. PICK k \in Nat : c[m - 1] = c[i] * k
          BY <1>1, <2>1, <3>1
      <3>3. /\ c[i] = c[i - 1] * a[i] /\ a[i] \in Nat \ {0} /\ c[i - 1] \in Nat \ {0}
            /\ Digit(c, a, x, i) = d[i]
          BY <1>1, <2>2, <3>1 DEF Places
      <3> DEFINE g == c[i - 1]
                 h == a[i]
                 p == x \div g
                 r == x % g
                 t == k * e
      <3>4. /\ g \in Nat \ {0} /\ h \in Nat \ {0} /\ u = (g * h) * k /\ x \in Nat /\ k \in Nat
            /\ e \in Nat
          BY <2>4, <3>2, <3>3
      <3>5. p \in Nat /\ r \in 0 .. g - 1 /\ x = g * p + r /\ t \in Nat
        <4> HIDE DEF g, u, e
        <4>1. k * e \in Nat
            BY <3>4
        <4> QED
            BY <3>4, <4>1, Division
      <3>6. y = g * (h * t + p) + r
        <4> HIDE DEF g, h, p, r, u, e
        <4>1. u * e = g * (h * t)
          <5>1. ((g * h) * k) * e = (g * h) * (k * e)
              BY <3>4
          <5>2. (g * h) * (k * e) = g * (h * (k * e))
            <6> HIDE DEF t
            <6>1. \A w \in Nat : (g * h) * w = g * (h * w)
                BY <3>4
            <6>2. k * e \in Nat
                BY <3>4
            <6> QED
                BY <6>1, <6>2
          <5> QED
              BY <3>4, <5>1, <5>2
        <4> HIDE DEF t
        <4>2. g * (h * t + p) = g * (h * t) + g * p
            BY <3>4, <3>5
        <4>3. g * (h * t) \in Nat /\ g * p \in Nat
            BY <3>4, <3>5
        <4> QED
            BY <3>5, <4>1, <4>2, <4>3
      <3>7. y \div g = h * t + p
        <4> HIDE DEF g, h, p, r, t, y
        <4> DEFINE w == h * t + p
        <4>1. w \in Nat
            BY <3>4, <3>5
        <4>2. y \in Nat
            BY <2>5 DEF y
        <4> HIDE DEF w
        <4>3. y = g * w + r
            BY <3>6 DEF w
        <4>4. y \div g = w
            BY <3>4, <3>5, <4>1, <4>2, <4>3, DivisionIsUnique
        <4> QED
            BY <4>4 DEF w
      <3>8. (h * t + p) % h = p % h
        <4> HIDE DEF g, h, p, r, t, y
        <4> DEFINE s == p \div h
                   w == p % h
        <4>1. s \in Nat /\ w \in 0 .. h - 1 /\ p = h * s + w
            BY <3>4, <3>5, Division
        <4> HIDE DEF s, w
        <4>2. h * t + p = h * (t + s) + w
            BY <3>4, <3>5, <4>1
        <4> DEFINE z == h * t + p
        <4>3. z \in Nat /\ t + s \in Nat
            BY <3>4, <3>5, <4>1
        <4>4. z = h * (t + s) + w
            BY <4>2
        <4> HIDE DEF z
        <4>5. z % h = w
            BY <3>4, <4>1, <4>3, <4>4, DivisionIsUnique
        <4> QED
            BY <4>5 DEF w, z
      <3> QED
          BY <3>3, <3>7, <3>8 DEF Digit
    <2>8. \A i \in 1 .. m : i = m \/ i \in 1 .. m - 1
        BY <2>1
    <2>9. \A i \in 1 .. m : Digit(c, a, y, i) = d[i]
      <3> HIDE DEF y
      <3> QED
          BY <2>6, <2>7, <2>8
    <2> QED
      <3> HIDE DEF y
      <3> QED
          BY <2>5, <2>9
  <1>4. ASSUME bad # {} PROVE FALSE
    <2>0. bad \subseteq 0 .. n
        OBVIOUS
    <2>1. PICK m \in bad : \A k \in bad : m <= k
      <3> HIDE DEF bad
      <3> QED
          BY <1>1, <1>4, <2>0, LeastNumber
    <2>2. m \in 0 .. n /\ ~Chosen(m)
        OBVIOUS
    <2> HIDE DEF Chosen
    <2>3. m # 0
        BY <1>2, <2>2
    <2>4. m \in 1 .. n /\ m - 1 \in 0 .. n
        BY <1>1, <2>2, <2>3
    <2>5. m - 1 \notin bad
      <3> HIDE DEF bad
      <3> QED
          BY <2>1, <2>4
    <2> QED
        BY <1>3, <2>2, <2>4, <2>5
  <1>5. n \in 0 .. n /\ n \notin bad
    <2> HIDE DEF bad
    <2> QED
        BY <1>1, <1>4
  <1> QED
      BY <1>5

----------------------------------------------------------------------------
(* What a study declares.                                                  *)

\* Of a study, what the proofs need of its types.
LEMMA StudyTypes ==
    ASSUME NEW s \in Studies
    PROVE  /\ s.explicit \in BOOLEAN /\ s.omy \in BOOLEAN /\ s.yaml \in BOOLEAN
           /\ s.floating \in BOOLEAN /\ s.cohort_horizon \in Nat
           /\ \A name \in Settings : Values(s, name) \in Seq(ToSet(Values(s, name)))
           /\ s.configurations \in Seq(ToSet(s.configurations))
           /\ ToSet(Values(s, "horizon_years")) \subseteq Int
           /\ ~s.yaml => /\ Values(s, "horizon_years") # <<>>
                         /\ \A y \in ToSet(Values(s, "horizon_years")) : y > 0
  BY StudiesAssumption DEF Values

\* Sequences without repetition and without a common element are such a sequence.
LEMMA Joined ==
    ASSUME NEW S, NEW a \in Seq(S), NEW b \in Seq(S), IsInjective(a), IsInjective(b),
           ToSet(a) \cap ToSet(b) = {}
    PROVE  /\ a \o b \in Seq(S) /\ IsInjective(a \o b)
           /\ ToSet(a \o b) = ToSet(a) \union ToSet(b)
  <1> DEFINE m == Len(a)
             n == Len(b)
             ab == a \o b
  <1>1. /\ ab \in Seq(S) /\ Len(ab) = m + n /\ m \in Nat /\ n \in Nat
        /\ DOMAIN a = 1 .. m /\ DOMAIN b = 1 .. n /\ DOMAIN ab = 1 .. m + n
        /\ \A i \in 1 .. m : ab[i] = a[i]
        /\ \A i \in 1 .. n : ab[i + m] = b[i]
      OBVIOUS
  <1> HIDE DEF m, n, ab
  <1>2. \A i \in 1 .. m + n : i \in 1 .. m \/ (i - m \in 1 .. n /\ i = (i - m) + m)
      BY <1>1
  <1>3. \A i \in 1 .. m + n : (i \in 1 .. m /\ ab[i] = a[i]) \/ (i - m \in 1 .. n /\ ab[i] = b[i - m])
      BY <1>1, <1>2
  <1>4. \A i \in 1 .. m, j \in 1 .. n : a[i] # b[j]
      BY <1>1 DEF ToSet
  <1>5. ASSUME NEW i \in 1 .. m + n, NEW j \in 1 .. m + n, ab[i] = ab[j] PROVE i = j
    <2>1. CASE i \in 1 .. m /\ j \in 1 .. m
        BY <1>1, <1>5, <2>1 DEF IsInjective
    <2>2. CASE i \notin 1 .. m /\ j \notin 1 .. m
      <3>1. b[i - m] = b[j - m] /\ i - m \in 1 .. n /\ j - m \in 1 .. n
          BY <1>3, <1>5, <2>2
      <3>2. i - m = j - m
          BY <1>1, <3>1 DEF IsInjective
      <3> QED
          BY <1>1, <3>2
    <2>3. CASE i \in 1 .. m /\ j \notin 1 .. m
      <3>1. ab[i] = a[i] /\ j - m \in 1 .. n /\ ab[j] = b[j - m]
          BY <1>1, <1>3, <2>3
      <3> QED
          BY <1>4, <1>5, <2>3, <3>1
    <2>4. CASE i \notin 1 .. m /\ j \in 1 .. m
      <3>1. ab[j] = a[j] /\ i - m \in 1 .. n /\ ab[i] = b[i - m]
          BY <1>1, <1>3, <2>4
      <3> QED
          BY <1>4, <1>5, <2>4, <3>1
    <2> QED
        BY <2>1, <2>2, <2>3, <2>4
  <1>6. IsInjective(ab)
      BY <1>1, <1>5 DEF IsInjective
  <1>7. ToSet(ab) \subseteq ToSet(a) \union ToSet(b)
      BY <1>1, <1>3 DEF ToSet
  <1>8. ToSet(a) \subseteq ToSet(ab)
      BY <1>1 DEF ToSet
  <1>9. ToSet(b) \subseteq ToSet(ab)
    <2>1. \A i \in 1 .. n : i + m \in 1 .. m + n
        BY <1>1
    <2> QED
        BY <1>1, <2>1 DEF ToSet
  <1> QED
      BY <1>1, <1>6, <1>7, <1>8, <1>9 DEF ab

\* A setting that is declared is an axis, once.
LEMMA DeclaredOnce ==
    ASSUME NEW s, NEW name \in Settings
    PROVE  /\ IfDeclared(s, name) \in Seq(Settings) /\ IsInjective(IfDeclared(s, name))
           /\ ToSet(IfDeclared(s, name)) = IF Declared(s, name) THEN {name} ELSE {}
  BY DEF IfDeclared, IsInjective, ToSet

\* The axes of a study are some of its settings, each once, among them the rate
\* and the horizon, and those of the allocation unless it is configured.
LEMMA AxesAreSettings ==
    ASSUME NEW s
    PROVE  /\ Axes(s) \in Seq(Settings) /\ IsInjective(Axes(s))
           /\ {"withdrawal_rate", "horizon_years"} \subseteq ToSet(Axes(s))
           /\ ~s.explicit => ToSet(AllocationNames(s)) \subseteq ToSet(Axes(s))
           /\ Declared(s, "final_value_target") => "final_value_target" \in ToSet(Axes(s))
  <1> DEFINE a == AllocationNames(s)
             b == <<"withdrawal_rate", "horizon_years">>
             c == IfDeclared(s, "final_value_target")
             d == IfDeclared(s, "interest_rate")
             e == IfDeclared(s, "borrow_pct")
             f == IfDeclared(s, "drawdown_threshold")
  <1>1. /\ c \in Seq(Settings) /\ IsInjective(c) /\ ToSet(c) \subseteq {"final_value_target"}
        /\ d \in Seq(Settings) /\ IsInjective(d) /\ ToSet(d) \subseteq {"interest_rate"}
        /\ e \in Seq(Settings) /\ IsInjective(e) /\ ToSet(e) \subseteq {"borrow_pct"}
        /\ f \in Seq(Settings) /\ IsInjective(f) /\ ToSet(f) \subseteq {"drawdown_threshold"}
        /\ Declared(s, "final_value_target") => "final_value_target" \in ToSet(c)
    <2>1. {"final_value_target", "interest_rate", "borrow_pct", "drawdown_threshold"} \subseteq Settings
        BY DEF Settings, Arrays, ScalarsOrArrays
    <2> QED
        BY <2>1, DeclaredOnce
  <1>2. b \in Seq(Settings) /\ IsInjective(b) /\ ToSet(b) = {"withdrawal_rate", "horizon_years"}
    <2>1. b \in Seq(Settings) /\ DOMAIN b = 1 .. 2
        BY DEF Settings, Arrays
    <2>2. b[1] = "withdrawal_rate" /\ b[2] = "horizon_years"
        OBVIOUS
    <2>3. \A i \in 1 .. 2 : i = 1 \/ i = 2
        OBVIOUS
    <2> HIDE DEF b
    <2>4. ToSet(b) = {"withdrawal_rate", "horizon_years"}
        BY <2>1, <2>2, <2>3 DEF ToSet
    <2> QED
        BY <2>1, <2>2, <2>3, <2>4 DEF IsInjective
  <1>3. /\ a \in Seq(Settings) /\ IsInjective(a)
        /\ ToSet(a) \subseteq {"equity_allocation", "start_equity", "end_equity", "slope", "mode"}
    <2>1. CASE s.allocation # "glidepath"
      <3>1. a = <<"equity_allocation">>
          BY <2>1 DEF AllocationNames
      <3> QED
          BY <3>1 DEF IsInjective, ToSet, Settings, Arrays
    <2>2. CASE s.allocation = "glidepath"
      <3>1. a = Glidepath
          BY <2>2 DEF AllocationNames
      <3>2. Glidepath \in Seq(Settings) /\ DOMAIN Glidepath = 1 .. 4
          BY DEF Glidepath, Settings, Arrays
      <3>3. /\ Glidepath[1] = "start_equity" /\ Glidepath[2] = "end_equity"
            /\ Glidepath[3] = "slope" /\ Glidepath[4] = "mode"
          BY DEF Glidepath
      <3>4. \A i \in 1 .. 4 : i = 1 \/ i = 2 \/ i = 3 \/ i = 4
          OBVIOUS
      <3>5. IsInjective(Glidepath)
          BY <3>2, <3>3, <3>4 DEF IsInjective
      <3>6. ToSet(Glidepath) \subseteq {"start_equity", "end_equity", "slope", "mode"}
          BY <3>2, <3>3, <3>4 DEF ToSet
      <3> QED
          BY <3>1, <3>2, <3>5, <3>6
    <2> QED
        BY <2>1, <2>2
  <1> DEFINE shared == b \o c
  <1>4. /\ shared \in Seq(Settings) /\ IsInjective(shared)
        /\ ToSet(shared) = ToSet(b) \union ToSet(c)
    <2> HIDE DEF b, c
    <2>1. ToSet(b) \cap ToSet(c) = {}
        BY <1>1, <1>2
    <2> QED
        BY <1>1, <1>2, <2>1, Joined
  <1>5. SharedAxes(s) = shared
      BY DEF SharedAxes
  <1> HIDE DEF a, b, c, d, e, f, shared
  <1>6. CASE s.explicit
    <2>1. Axes(s) = shared
        BY <1>5, <1>6 DEF Axes
    <2> QED
        BY <1>1, <1>2, <1>4, <1>6, <2>1 DEF c
  <1>7. CASE ~s.explicit
    <2> DEFINE w == a \o shared
               x == w \o d
               y == x \o e
               z == y \o f
    <2>1. w \in Seq(Settings) /\ IsInjective(w) /\ ToSet(w) = ToSet(a) \union ToSet(shared)
      <3>1. ToSet(a) \cap ToSet(shared) = {}
          BY <1>1, <1>2, <1>3, <1>4
      <3> QED
          BY <1>3, <1>4, <3>1, Joined
    <2> HIDE DEF w
    <2>2. x \in Seq(Settings) /\ IsInjective(x) /\ ToSet(x) = ToSet(w) \union ToSet(d)
      <3>1. ToSet(w) \cap ToSet(d) = {}
          BY <1>1, <1>2, <1>3, <1>4, <2>1
      <3> QED
          BY <1>1, <2>1, <3>1, Joined
    <2> HIDE DEF x
    <2>3. y \in Seq(Settings) /\ IsInjective(y) /\ ToSet(y) = ToSet(x) \union ToSet(e)
      <3>1. ToSet(x) \cap ToSet(e) = {}
          BY <1>1, <1>2, <1>3, <1>4, <2>1, <2>2
      <3> QED
          BY <1>1, <2>2, <3>1, Joined
    <2> HIDE DEF y
    <2>4. z \in Seq(Settings) /\ IsInjective(z) /\ ToSet(z) = ToSet(y) \union ToSet(f)
      <3>1. ToSet(y) \cap ToSet(f) = {}
          BY <1>1, <1>2, <1>3, <1>4, <2>1, <2>2, <2>3
      <3> QED
          BY <1>1, <2>3, <3>1, Joined
    <2>5. Axes(s) = z
        BY <1>5, <1>7 DEF Axes, a, d, e, f, w, x, y
    <2> HIDE DEF z
    <2>6. ToSet(a) \union ToSet(b) \union ToSet(c) \subseteq ToSet(z)
        BY <1>4, <2>1, <2>2, <2>3, <2>4
    <2> QED
        BY <1>1, <1>2, <2>4, <2>5, <2>6 DEF a
  <1> QED
      BY <1>6, <1>7

----------------------------------------------------------------------------
(* The product of the axes.                                                *)

ValidAxes(s) == \A name \in ToSet(Axes(s)) : ValidAxis(s, name)

\* The number of values of each axis, the last axis first.
Sizes(s) == [i \in 1 .. Len(Axes(s)) |-> Len(Values(s, Axes(s)[Len(Axes(s)) - i + 1]))]

\* A combination is a number whose digits are positions in the arrays of values.
LEMMA AxesArePlaces ==
    ASSUME NEW s \in Studies, ValidAxes(s)
    PROVE  Places(Combinations(s), Sizes(s), Len(Axes(s)))
  <1> DEFINE n == Len(Axes(s))
             a == Sizes(s)
             size(i) == Len(Values(s, Axes(s)[n - i + 1]))
  <1>1. n \in Nat /\ DOMAIN Axes(s) = 1 .. n /\ \A p \in 1 .. n : Axes(s)[p] \in Settings
      BY AxesAreSettings
  <1>2. ASSUME NEW i \in 1 .. n PROVE size(i) \in Nat \ {0}
    <2> DEFINE name == Axes(s)[n - i + 1]
    <2>1. n - i + 1 \in 1 .. n
        BY <1>1
    <2>2. name \in Settings /\ ValidAxis(s, name)
        BY <1>1, <2>1 DEF ValidAxes, ToSet
    <2> HIDE DEF name
    <2>3. Values(s, name) \in Seq(ToSet(Values(s, name))) /\ Values(s, name) # <<>>
        BY <2>2, StudyTypes DEF ValidAxis
    <2>4. Len(Values(s, name)) \in Nat \ {0}
        BY <2>3
    <2> QED
        BY <2>4 DEF name
  <1>3. a = [i \in 1 .. n |-> size(i)]
      BY DEF Sizes
  <1>4. a \in [1 .. n -> Nat \ {0}]
    <2> HIDE DEF a, size, n
    <2> QED
        BY <1>2, <1>3
  <1> DEFINE Number(c) == c = [i \in 0 .. n |-> IF i = 0 THEN 1 ELSE c[i - 1] * size(i)]
             c == CHOOSE c : Number(c)
  <1>5. \E f : Number(f)
    <2>1. PICK f : f = [i \in 0 .. n |-> IF i = 0 THEN 1 ELSE f[i - 1] * a[i]]
      <3> HIDE DEF a, n, size
      <3>1. a \in [1 .. n -> Nat]
          BY <1>4
      <3> QED
          BY <1>1, <3>1, Products
    <2>2. \A i \in 0 .. n : i # 0 => a[i] = size(i)
      <3> HIDE DEF size, a
      <3>1. \A i \in 0 .. n : i # 0 => i \in 1 .. n
          BY <1>1
      <3> QED
          BY <1>3, <3>1
    <2> HIDE DEF a, size
    <2>3. f = [i \in 0 .. n |-> IF i = 0 THEN 1 ELSE f[i - 1] * size(i)]
        BY <2>1, <2>2
    <2> QED
        BY <2>3
  <1>6. Combinations(s) = c
      BY DEF Combinations
  <1>7. Number(c)
    <2> HIDE DEF Number
    <2> QED
        BY <1>5
  <1> HIDE DEF c, size, n, a
  <1>8. DOMAIN c = 0 .. n /\ c = [i \in 0 .. n |-> c[i]]
      BY <1>7
  <1>9. c[0] = 1 /\ \A i \in 1 .. n : c[i] = c[i - 1] * a[i]
    <2>1. 0 \in 0 .. n /\ \A i \in 1 .. n : i \in 0 .. n /\ i # 0 /\ a[i] = size(i)
        BY <1>1, <1>3
    <2> QED
        BY <1>7, <2>1
  <1>10. \A i \in 0 .. n : c[i] \in Nat
    <2> DEFINE bad == {i \in 0 .. n : c[i] \notin Nat}
    <2>1. ASSUME bad # {} PROVE FALSE
      <3>1. PICK m \in bad : \A k \in bad : m <= k
        <4>1. bad \subseteq Nat
            OBVIOUS
        <4> HIDE DEF bad
        <4> QED
            BY <2>1, <4>1, LeastNumber
      <3>2. m \in 0 .. n /\ c[m] \notin Nat
          OBVIOUS
      <3>3. m # 0
          BY <1>9, <3>2
      <3>4. m \in 1 .. n /\ m - 1 \in 0 .. n
          BY <1>1, <3>2, <3>3
      <3>5. m - 1 \notin bad
        <4> HIDE DEF bad
        <4> QED
            BY <3>1, <3>4
      <3>6. c[m - 1] \in Nat /\ a[m] \in Nat /\ c[m] = c[m - 1] * a[m]
          BY <1>4, <1>9, <3>4, <3>5
      <3>7. c[m - 1] * a[m] \in Nat
          BY <3>6
      <3> QED
          BY <3>2, <3>6, <3>7
    <2> QED
        BY <2>1
  <1>11. c \in [0 .. n -> Nat]
      BY <1>8, <1>10
  <1> QED
      BY <1>1, <1>4, <1>6, <1>9, <1>11 DEF Places, n, a

\* What is known of a valid study's axes and the places they make.
AxisFacts(s, names, c, a, n) ==
    /\ names = Axes(s) /\ n = Len(names) /\ c = Combinations(s) /\ a = Sizes(s)
    /\ n \in Nat /\ DOMAIN names = 1 .. n
    /\ \A p, q \in 1 .. n : names[p] = names[q] => p = q
    /\ Places(c, a, n)
    /\ c[n] \in Nat \ {0}
    /\ \A p \in 1 .. n :
          /\ n - p + 1 \in 1 .. n
          /\ a[n - p + 1] = Len(Values(s, names[p]))
          /\ Len(Values(s, names[p])) \in Nat \ {0}
          /\ DOMAIN Values(s, names[p]) = 1 .. Len(Values(s, names[p]))
          /\ IsInjective(Values(s, names[p]))

\* The axes of a study that is not refused, counted from the last one.
LEMMA AxisFactsHold ==
    ASSUME NEW s \in Studies, ValidAxes(s)
    PROVE  AxisFacts(s, Axes(s), Combinations(s), Sizes(s), Len(Axes(s)))
  <1> DEFINE names == Axes(s)
             n == Len(names)
             c == Combinations(s)
             a == Sizes(s)
  <1>1. n \in Nat /\ DOMAIN names = 1 .. n /\ \A p \in 1 .. n : names[p] \in Settings
      BY AxesAreSettings
  <1>2. \A p, q \in 1 .. n : names[p] = names[q] => p = q
      BY <1>1, AxesAreSettings DEF IsInjective
  <1>3. Places(c, a, n)
      BY AxesArePlaces
  <1>4. c[n] \in Nat \ {0}
    <2> HIDE DEF c, a, n
    <2>1. n \in 0 .. n
        BY <1>1
    <2> QED
        BY <1>3, <2>1, PlacesDivide
  <1>5. ASSUME NEW p \in 1 .. n
        PROVE  /\ n - p + 1 \in 1 .. n
               /\ a[n - p + 1] = Len(Values(s, names[p]))
               /\ Len(Values(s, names[p])) \in Nat \ {0}
               /\ DOMAIN Values(s, names[p]) = 1 .. Len(Values(s, names[p]))
               /\ IsInjective(Values(s, names[p]))
    <2>1. n - p + 1 \in 1 .. n /\ n - (n - p + 1) + 1 = p
        BY <1>1
    <2>2. a[n - p + 1] = Len(Values(s, names[n - (n - p + 1) + 1]))
        BY <2>1 DEF Sizes
    <2> DEFINE name == names[p]
    <2>3. name \in Settings /\ ValidAxis(s, name)
        BY <1>1 DEF ValidAxes, ToSet
    <2> HIDE DEF name
    <2>4. /\ Values(s, name) \in Seq(ToSet(Values(s, name))) /\ Values(s, name) # <<>>
          /\ IsInjective(Values(s, name))
        BY <2>3, StudyTypes DEF ValidAxis
    <2>5. Len(Values(s, name)) \in Nat \ {0} /\ DOMAIN Values(s, name) = 1 .. Len(Values(s, name))
        BY <2>4
    <2> QED
        BY <2>1, <2>2, <2>4, <2>5 DEF name
  <1> HIDE DEF names, c, a
  <1> QED
      BY <1>1, <1>2, <1>3, <1>4, <1>5 DEF AxisFacts, names, c, a

\* A function on the first numbers is a sequence.
LEMMA FunctionIsSequence ==
    ASSUME NEW m \in Nat, NEW f, DOMAIN f = 1 .. m, f = [k \in 1 .. m |-> f[k]]
    PROVE  f \in Seq(ToSet(f)) /\ Len(f) = m
  <1>1. f \in [1 .. m -> ToSet(f)]
      BY DEF ToSet
  <1> QED
      BY <1>1

\* The combinations P in turn: the value of each axis is given by its digit.
ByDigits(P, s, names, c, a, n) ==
    /\ DOMAIN P = 1 .. c[n] /\ P \in Seq(ToSet(P)) /\ Len(P) = c[n]
    /\ \A k \in 1 .. c[n] :
          /\ DOMAIN P[k] = ToSet(names)
          /\ P[k] = [name \in ToSet(names) |-> P[k][name]]
    /\ \A k \in 1 .. c[n], p \in 1 .. n :
          /\ Digit(c, a, k - 1, n - p + 1) \in 0 .. a[n - p + 1] - 1
          /\ P[k][names[p]] = Values(s, names[p])[Digit(c, a, k - 1, n - p + 1) + 1]

\* The product is enumerated by the digits of a counter.
LEMMA ProductByDigits ==
    ASSUME NEW s \in Studies, ValidAxes(s), NEW names, NEW c, NEW a, NEW n,
           AxisFacts(s, names, c, a, n)
    PROVE  ByDigits(CartesianProduct(s), s, names, c, a, n)
  <1> DEFINE P == CartesianProduct(s)
             axis == [name \in ToSet(names) |-> CHOOSE p \in DOMAIN names : names[p] = name]
             row(k) == [name \in ToSet(names) |-> AxisValue(s, k, axis[name])]
  <1>1. /\ names = Axes(s) /\ n = Len(names) /\ c = Combinations(s) /\ a = Sizes(s)
        /\ n \in Nat /\ DOMAIN names = 1 .. n
        /\ \A p, q \in 1 .. n : names[p] = names[q] => p = q
        /\ c[n] \in Nat \ {0} /\ Places(c, a, n)
      BY DEF AxisFacts
  <1>2. P = [k \in 1 .. c[n] |-> [name \in DOMAIN axis |-> AxisValue(s, k, axis[name])]]
      BY <1>1 DEF CartesianProduct
  <1>3. P = [k \in 1 .. c[n] |-> row(k)]
      BY <1>2
  <1>4. \A p \in 1 .. n : names[p] \in ToSet(names) /\ axis[names[p]] = p
    <2> TAKE p \in 1 .. n
    <2>1. names[p] \in ToSet(names)
        BY <1>1 DEF ToSet
    <2>2. axis[names[p]] = CHOOSE q \in 1 .. n : names[q] = names[p]
        BY <1>1, <2>1
    <2> DEFINE q == CHOOSE q \in 1 .. n : names[q] = names[p]
    <2>3. q \in 1 .. n /\ names[q] = names[p]
        OBVIOUS
    <2>4. q = p
      <3> HIDE DEF q
      <3> QED
          BY <1>1, <2>3
    <2> QED
        BY <2>1, <2>2, <2>4
  <1> HIDE DEF P, axis
  <1>5. ASSUME NEW k \in 1 .. c[n], NEW p \in 1 .. n
        PROVE  /\ Digit(c, a, k - 1, n - p + 1) \in 0 .. a[n - p + 1] - 1
               /\ row(k)[names[p]] = Values(s, names[p])[Digit(c, a, k - 1, n - p + 1) + 1]
    <2>1. row(k)[names[p]] = AxisValue(s, k, p)
        BY <1>4
    <2>2. n - p + 1 - 1 = n - p /\ n - p + 1 \in 1 .. n /\ n - p \in 0 .. n /\ k - 1 \in Nat
        BY <1>1
    <2>3. a[n - p + 1] = Len(Values(s, names[p])) /\ a[n - p + 1] \in Nat \ {0}
        BY DEF AxisFacts
    <2>4. c[n - p] \in Nat \ {0}
        BY <1>1, <2>2, PlacesDivide
    <2>5. Digit(c, a, k - 1, n - p + 1) = ((k - 1) \div c[n - p]) % a[n - p + 1]
        BY <2>2 DEF Digit
    <2>6. AxisValue(s, k, p) = Values(s, names[p])[Digit(c, a, k - 1, n - p + 1) + 1]
        BY <1>1, <2>3, <2>5 DEF AxisValue
    <2>7. (k - 1) \div c[n - p] \in Nat
        BY <2>2, <2>4, Division
    <2> QED
        BY <2>1, <2>3, <2>5, <2>6, <2>7, Division
  <1>6. \A k \in 1 .. c[n] : P[k] = row(k)
      BY <1>3
  <1> HIDE DEF row
  <1>7. DOMAIN P = 1 .. c[n] /\ P = [k \in 1 .. c[n] |-> P[k]]
      BY <1>3
  <1>8. P \in Seq(ToSet(P)) /\ Len(P) = c[n]
      BY <1>1, <1>7, FunctionIsSequence
  <1>9. ASSUME NEW k \in 1 .. c[n]
        PROVE  DOMAIN P[k] = ToSet(names) /\ P[k] = [name \in ToSet(names) |-> P[k][name]]
      BY <1>6 DEF row
  <1>10. ASSUME NEW k \in 1 .. c[n], NEW p \in 1 .. n
         PROVE  /\ Digit(c, a, k - 1, n - p + 1) \in 0 .. a[n - p + 1] - 1
                /\ P[k][names[p]] = Values(s, names[p])[Digit(c, a, k - 1, n - p + 1) + 1]
      BY <1>5, <1>6
  <1> QED
      BY <1>7, <1>8, <1>9, <1>10 DEF ByDigits, P

\* No two combinations are alike.
LEMMA ProductIsInjective ==
    ASSUME NEW s \in Studies, ValidAxes(s) PROVE IsInjective(CartesianProduct(s))
  <1>1. PICK names, c, a, n : AxisFacts(s, names, c, a, n)
      BY AxisFactsHold
  <1> DEFINE P == CartesianProduct(s)
  <1>0. ByDigits(P, s, names, c, a, n)
      BY <1>1, ProductByDigits
  <1> HIDE DEF P
  <1>2. /\ DOMAIN P = 1 .. c[n]
        /\ \A k \in 1 .. c[n], p \in 1 .. n :
              /\ Digit(c, a, k - 1, n - p + 1) \in 0 .. a[n - p + 1] - 1
              /\ P[k][names[p]] = Values(s, names[p])[Digit(c, a, k - 1, n - p + 1) + 1]
      BY <1>0 DEF ByDigits
  <1>3. n \in Nat /\ c[n] \in Nat \ {0} /\ Places(c, a, n)
      BY <1>1 DEF AxisFacts
  <1>4. ASSUME NEW k \in 1 .. c[n], NEW l \in 1 .. c[n], P[k] = P[l] PROVE k = l
    <2>1. ASSUME NEW i \in 1 .. n PROVE Digit(c, a, k - 1, i) = Digit(c, a, l - 1, i)
      <3> DEFINE p == n - i + 1
                 d == Digit(c, a, k - 1, i)
                 e == Digit(c, a, l - 1, i)
                 values == Values(s, names[p])
      <3>1. p \in 1 .. n /\ n - p + 1 = i
          BY <1>3
      <3>2. a[i] = Len(values) /\ DOMAIN values = 1 .. Len(values) /\ IsInjective(values)
            /\ Len(values) \in Nat
          BY <1>1, <3>1 DEF AxisFacts
      <3>3. d \in 0 .. a[i] - 1 /\ e \in 0 .. a[i] - 1 /\ values[d + 1] = values[e + 1]
        <4> HIDE DEF p
        <4>1. /\ Digit(c, a, k - 1, n - p + 1) \in 0 .. a[n - p + 1] - 1
              /\ Digit(c, a, l - 1, n - p + 1) \in 0 .. a[n - p + 1] - 1
              /\ P[k][names[p]] = Values(s, names[p])[Digit(c, a, k - 1, n - p + 1) + 1]
              /\ P[l][names[p]] = Values(s, names[p])[Digit(c, a, l - 1, n - p + 1) + 1]
            BY <1>2, <3>1
        <4> QED
            BY <1>4, <3>1, <4>1
      <3> HIDE DEF d, e, values
      <3>4. d + 1 \in DOMAIN values /\ e + 1 \in DOMAIN values
          BY <3>2, <3>3
      <3>5. d + 1 = e + 1
          BY <3>2, <3>3, <3>4 DEF IsInjective
      <3>6. d = e
          BY <3>2, <3>3, <3>5
      <3> QED
          BY <3>6 DEF d, e
    <2>2. k - 1 \in Nat /\ l - 1 \in Nat
        BY <1>3
    <2>3. (k - 1) % c[n] = (l - 1) % c[n]
        BY <1>3, <2>1, <2>2, DigitsIdentify
    <2>4. \A x \in 0 .. c[n] - 1 : x % c[n] = x
        BY <1>3, SmallNumber
    <2>5. k - 1 \in 0 .. c[n] - 1 /\ l - 1 \in 0 .. c[n] - 1
        BY <1>3
    <2>6. k - 1 = l - 1
        BY <2>3, <2>4, <2>5
    <2> QED
        BY <1>3, <2>6
  <1> QED
      BY <1>2, <1>4 DEF IsInjective, P

\* The combinations are all ways to choose a value of each axis.
LEMMA ProductIsComplete ==
    ASSUME NEW s \in Studies, ValidAxes(s), NEW f
    PROVE  f \in ToSet(CartesianProduct(s)) <=>
              /\ f = [name \in ToSet(Axes(s)) |-> f[name]]
              /\ \A name \in ToSet(Axes(s)) : f[name] \in ToSet(Values(s, name))
  <1>1. PICK names, c, a, n : AxisFacts(s, names, c, a, n)
      BY AxisFactsHold
  <1> DEFINE P == CartesianProduct(s)
  <1>0. ByDigits(P, s, names, c, a, n)
      BY <1>1, ProductByDigits
  <1> HIDE DEF P
  <1>2. /\ DOMAIN P = 1 .. c[n]
        /\ \A k \in 1 .. c[n] : P[k] = [name \in ToSet(names) |-> P[k][name]]
        /\ \A k \in 1 .. c[n], p \in 1 .. n :
              /\ Digit(c, a, k - 1, n - p + 1) \in 0 .. a[n - p + 1] - 1
              /\ P[k][names[p]] = Values(s, names[p])[Digit(c, a, k - 1, n - p + 1) + 1]
      BY <1>0 DEF ByDigits
  <1>3. /\ names = Axes(s) /\ n \in Nat /\ c[n] \in Nat \ {0} /\ Places(c, a, n)
        /\ DOMAIN names = 1 .. n
      BY <1>1 DEF AxisFacts
  <1>4. ASSUME NEW p \in 1 .. n
        PROVE  /\ n - p + 1 \in 1 .. n /\ a[n - p + 1] = Len(Values(s, names[p]))
               /\ Len(Values(s, names[p])) \in Nat
               /\ DOMAIN Values(s, names[p]) = 1 .. Len(Values(s, names[p]))
      BY <1>1 DEF AxisFacts
  <1>5. ASSUME NEW k \in 1 .. c[n]
        PROVE  /\ P[k] = [name \in ToSet(names) |-> P[k][name]]
               /\ \A name \in ToSet(names) : P[k][name] \in ToSet(Values(s, name))
    <2>1. ASSUME NEW p \in 1 .. n PROVE P[k][names[p]] \in ToSet(Values(s, names[p]))
      <3> DEFINE d == Digit(c, a, k - 1, n - p + 1)
                 values == Values(s, names[p])
      <3>1. d \in 0 .. Len(values) - 1 /\ P[k][names[p]] = values[d + 1]
            /\ Len(values) \in Nat /\ DOMAIN values = 1 .. Len(values)
          BY <1>2, <1>4
      <3> HIDE DEF d, values
      <3>2. d + 1 \in DOMAIN values
          BY <3>1
      <3> QED
          BY <3>1, <3>2 DEF ToSet, values
    <2>2. \A name \in ToSet(names) : \E p \in 1 .. n : name = names[p]
        BY <1>3 DEF ToSet
    <2>3. \A name \in ToSet(names) : P[k][name] \in ToSet(Values(s, name))
        BY <2>1, <2>2
    <2> QED
        BY <1>2, <2>3
  <1>6. ASSUME f = [name \in ToSet(names) |-> f[name]],
               \A name \in ToSet(names) : f[name] \in ToSet(Values(s, name))
        PROVE  \E k \in 1 .. c[n] : P[k] = f
    <2> DEFINE position(p) == CHOOSE j \in DOMAIN Values(s, names[p]) :
                                  Values(s, names[p])[j] = f[names[p]]
               d == [i \in 1 .. n |-> position(n - i + 1) - 1]
    <2>1. ASSUME NEW p \in 1 .. n
          PROVE  /\ position(p) \in DOMAIN Values(s, names[p])
                 /\ Values(s, names[p])[position(p)] = f[names[p]]
      <3>1. f[names[p]] \in ToSet(Values(s, names[p]))
          BY <1>3, <1>6 DEF ToSet
      <3>2. \E j \in DOMAIN Values(s, names[p]) : Values(s, names[p])[j] = f[names[p]]
          BY <3>1 DEF ToSet
      <3> QED
          BY <3>2
    <2> HIDE DEF position
    <2>2. ASSUME NEW i \in 1 .. n PROVE d[i] \in 0 .. a[i] - 1
      <3> DEFINE p == n - i + 1
      <3>1. p \in 1 .. n /\ n - p + 1 = i /\ d[i] = position(p) - 1
          BY <1>3
      <3>2. a[i] = Len(Values(s, names[p])) /\ Len(Values(s, names[p])) \in Nat
            /\ position(p) \in 1 .. Len(Values(s, names[p]))
          BY <1>4, <2>1, <3>1
      <3> QED
          BY <3>1, <3>2
    <2> HIDE DEF d
    <2>3. PICK x \in 0 .. c[n] - 1 : \A i \in 1 .. n : Digit(c, a, x, i) = d[i]
        BY <1>3, <2>2, DigitsAreFree, SMTT(30)
    <2>4. x + 1 \in 1 .. c[n] /\ x + 1 - 1 = x
        BY <1>3
    <2>5. ASSUME NEW p \in 1 .. n PROVE P[x + 1][names[p]] = f[names[p]]
      <3>1. n - p + 1 \in 1 .. n /\ n - (n - p + 1) + 1 = p
          BY <1>3
      <3>2. Digit(c, a, x, n - p + 1) = position(p) - 1
          BY <2>3, <3>1 DEF d
      <3>3. P[x + 1][names[p]] = Values(s, names[p])[Digit(c, a, x, n - p + 1) + 1]
          BY <1>2, <2>4
      <3>4. position(p) \in Int
          BY <1>4, <2>1
      <3>5. position(p) - 1 + 1 = position(p)
          BY <3>4
      <3> QED
          BY <2>1, <3>2, <3>3, <3>5
    <2>6. \A name \in ToSet(names) : P[x + 1][name] = f[name]
        BY <1>3, <2>5 DEF ToSet
    <2>7. P[x + 1] = [name \in ToSet(names) |-> P[x + 1][name]]
        BY <1>2, <2>4
    <2>8. P[x + 1] = f
        BY <1>6, <2>6, <2>7
    <2> QED
        BY <2>4, <2>8
  <1>7. f \in ToSet(P) <=> \E k \in 1 .. c[n] : P[k] = f
      BY <1>2 DEF ToSet
  <1> QED
      BY <1>3, <1>5, <1>6, <1>7 DEF P

\* The combinations of the first m axes.
FirstCombinations(s, m) ==
    {f \in [{Axes(s)[i] : i \in 1 .. m} -> UNION {ToSet(Values(s, name)) : name \in Settings}] :
        \A i \in 1 .. m : f[Axes(s)[i]] \in ToSet(Values(s, Axes(s)[i]))}

\* All ways to set one more entry.
Extended(combinations, x, values) ==
    {WithEntry(f, x, v) : f \in combinations, v \in values}

\* With one more axis come all its values.
LEMMA OneMoreAxis ==
    ASSUME NEW s \in Studies, ValidAxes(s), NEW m \in 1 .. Len(Axes(s))
    PROVE  FirstCombinations(s, m) =
              Extended(FirstCombinations(s, m - 1), Axes(s)[m], ToSet(Values(s, Axes(s)[m])))
  <1> DEFINE names == Axes(s)
             n == Len(names)
             V == UNION {ToSet(Values(s, name)) : name \in Settings}
             D == {names[i] : i \in 1 .. m}
             C == {names[i] : i \in 1 .. m - 1}
             x == names[m]
             W(y) == ToSet(Values(s, y))
  <1>1. /\ n \in Nat /\ m \in Nat /\ m - 1 \in Nat /\ DOMAIN names = 1 .. n
        /\ \A i \in 1 .. n : names[i] \in Settings
        /\ \A i, j \in 1 .. n : names[i] = names[j] => i = j
      BY AxesAreSettings DEF IsInjective
  <1>2. \A i \in 1 .. m : i = m \/ i \in 1 .. m - 1
      BY <1>1
  <1>3. x \notin C /\ D = C \union {x} /\ \A i \in 1 .. m - 1 : i \in 1 .. m
    <2>1. \A i \in 1 .. m - 1 : i \in 1 .. n /\ i # m /\ i \in 1 .. m
        BY <1>1
    <2>2. m \in 1 .. m /\ m \in 1 .. n
        BY <1>1
    <2> HIDE DEF names
    <2> QED
        BY <1>1, <1>2, <2>1, <2>2
  <1>4. FirstCombinations(s, m) = {f \in [D -> V] : \A y \in D : f[y] \in W(y)}
      BY DEF FirstCombinations
  <1>5. FirstCombinations(s, m - 1) = {f \in [C -> V] : \A y \in C : f[y] \in W(y)}
      BY DEF FirstCombinations
  <1>6. W(x) \subseteq V
      BY <1>1
  <1> HIDE DEF names, D, C, V, W, x
  <1>7. ASSUME NEW f \in FirstCombinations(s, m)
        PROVE  \E g \in FirstCombinations(s, m - 1), v \in W(x) : f = WithEntry(g, x, v)
    <2> DEFINE g == [y \in C |-> f[y]]
    <2>1. f \in [D -> V] /\ \A y \in D : f[y] \in W(y)
        BY <1>4
    <2>2. g \in FirstCombinations(s, m - 1) /\ f[x] \in W(x)
        BY <1>3, <1>5, <2>1
    <2>3. f = WithEntry(g, x, f[x])
        BY <1>3, <2>1 DEF WithEntry
    <2> QED
        BY <2>2, <2>3
  <1>8. ASSUME NEW g \in FirstCombinations(s, m - 1), NEW v \in W(x)
        PROVE  WithEntry(g, x, v) \in FirstCombinations(s, m)
    <2>1. g \in [C -> V] /\ \A y \in C : g[y] \in W(y)
        BY <1>5
    <2> DEFINE f == WithEntry(g, x, v)
    <2>2. f = [y \in D |-> IF y = x THEN v ELSE g[y]]
        BY <1>3, <2>1 DEF WithEntry
    <2> HIDE DEF f
    <2>3. \A y \in D : f[y] \in W(y) /\ f[y] \in V
        BY <1>3, <1>6, <2>1, <2>2
    <2>4. f \in [D -> V]
        BY <2>2, <2>3
    <2> QED
        BY <1>4, <2>3, <2>4 DEF f
  <1>9. FirstCombinations(s, m) = Extended(FirstCombinations(s, m - 1), x, W(x))
      BY <1>7, <1>8 DEF Extended
  <1> QED
      BY <1>9 DEF x, names, W

\* What is declared, one axis after the other, is what is multiplied out.
LEMMA CombinationsAreDeclared ==
    ASSUME NEW s \in Studies, ValidAxes(s)
    PROVE  DeclaredCombinations(s) = ToSet(CartesianProduct(s))
  <1> DEFINE names == Axes(s)
             n == Len(names)
             step(g, m) == Extended(g[m - 1], names[m], ToSet(Values(s, names[m])))
             First(g) == g = [m \in 0 .. n |-> IF m = 0 THEN {<<>>} ELSE step(g, m)]
             g == CHOOSE g : First(g)
             all == [m \in 0 .. n |-> FirstCombinations(s, m)]
  <1>1. /\ n \in Nat /\ DOMAIN names = 1 .. n /\ \A i \in 1 .. n : names[i] \in Settings
      BY AxesAreSettings
  <1>2. FirstCombinations(s, 0) = {<<>>}
    <2> DEFINE V == UNION {ToSet(Values(s, name)) : name \in Settings}
    <2>1. {names[i] : i \in 1 .. 0} = {}
        OBVIOUS
    <2>2. FirstCombinations(s, 0) = [{} -> V]
        BY <2>1 DEF FirstCombinations
    <2> HIDE DEF V
    <2>3. DOMAIN <<>> = {} /\ <<>> = [i \in {} |-> <<>>[i]]
        OBVIOUS
    <2>4. <<>> \in [{} -> V] /\ \A f \in [{} -> V] : f = <<>>
        BY <2>3
    <2> QED
        BY <2>2, <2>4
  <1>3. \A m \in 0 .. n : m # 0 => m \in 1 .. n /\ m - 1 \in 0 .. n
      BY <1>1
  <1>4. \A m \in 0 .. n : m # 0 => FirstCombinations(s, m) =
            Extended(FirstCombinations(s, m - 1), names[m], ToSet(Values(s, names[m])))
      BY <1>3, OneMoreAxis
  <1>5. \A m \in 0 .. n : m # 0 => step(all, m) = FirstCombinations(s, m)
    <2>1. \A m \in 0 .. n : m # 0 => all[m - 1] = FirstCombinations(s, m - 1)
        BY <1>3
    <2> HIDE DEF all
    <2> QED
        BY <1>4, <2>1
  <1>6. First(all)
    <2> HIDE DEF step
    <2>1. \A m \in 0 .. n : FirstCombinations(s, m) = IF m = 0 THEN {<<>>} ELSE step(all, m)
        BY <1>2, <1>5
    <2> QED
        BY <2>1
  <1>7. First(g)
    <2> HIDE DEF First, all
    <2> QED
        BY <1>6
  <1>8. DeclaredCombinations(s) = g[n]
      BY DEF DeclaredCombinations, Extended
  <1> HIDE DEF g, all
  <1>9. \A m \in 0 .. n : g[m] = FirstCombinations(s, m)
    <2> DEFINE bad == {m \in 0 .. n : g[m] # FirstCombinations(s, m)}
    <2>1. ASSUME bad # {} PROVE FALSE
      <3>1. PICK m \in bad : \A k \in bad : m <= k
        <4>1. bad \subseteq Nat
            OBVIOUS
        <4> HIDE DEF bad
        <4> QED
            BY <2>1, <4>1, LeastNumber
      <3>2. m \in 0 .. n /\ g[m] # FirstCombinations(s, m)
          OBVIOUS
      <3>3. m # 0
        <4>1. 0 \in 0 .. n
            BY <1>1
        <4>2. g[0] = {<<>>}
            BY <1>7, <4>1
        <4> QED
            BY <1>2, <3>2, <4>2
      <3>4. m - 1 \in 0 .. n /\ m - 1 \notin bad
        <4>1. m - 1 < m
            BY <3>2
        <4> HIDE DEF bad
        <4> QED
            BY <1>3, <3>1, <3>2, <3>3, <4>1
      <3>5. g[m - 1] = FirstCombinations(s, m - 1)
          BY <3>4
      <3>6. g[m] = step(g, m)
          BY <1>7, <3>2, <3>3
      <3>7. step(g, m) = FirstCombinations(s, m)
          BY <1>4, <3>2, <3>3, <3>5
      <3> QED
          BY <3>2, <3>6, <3>7
    <2> QED
        BY <2>1
  <1>10. g[n] = FirstCombinations(s, n)
      BY <1>1, <1>9
  <1>11. \A f : f \in FirstCombinations(s, n) <=>
            /\ f = [name \in ToSet(names) |-> f[name]]
            /\ \A name \in ToSet(names) : f[name] \in ToSet(Values(s, name))
    <2> DEFINE V == UNION {ToSet(Values(s, name)) : name \in Settings}
               D == ToSet(names)
    <2>1. D = {names[i] : i \in 1 .. n}
        BY <1>1 DEF ToSet
    <2>2. FirstCombinations(s, n) = {f \in [D -> V] : \A y \in D : f[y] \in ToSet(Values(s, y))}
        BY <2>1 DEF FirstCombinations
    <2>3. \A y \in D : ToSet(Values(s, y)) \subseteq V
        BY <1>1, <2>1
    <2> HIDE DEF V, D, names
    <2>4. ASSUME NEW f, f = [y \in D |-> f[y]], \A y \in D : f[y] \in ToSet(Values(s, y))
          PROVE  f \in [D -> V]
      <3>1. \A y \in D : f[y] \in V
          BY <2>3, <2>4
      <3> QED
          BY <2>4, <3>1
    <2>5. \A f \in [D -> V] : f = [y \in D |-> f[y]]
        OBVIOUS
    <2> QED
        BY <2>2, <2>4, <2>5 DEF D
  <1> HIDE DEF n
  <1>12. \A f : f \in FirstCombinations(s, n) <=> f \in ToSet(CartesianProduct(s))
      BY <1>11, ProductIsComplete
  <1> QED
      BY <1>8, <1>10, <1>12

\* The place of a number in rows of a length.
LEMMA RowsAndColumns ==
    ASSUME NEW m \in Nat, NEW n \in Nat \ {0}
    PROVE  /\ m * n \in Nat
           /\ \A k \in 1 .. m * n : /\ ((k - 1) \div n) + 1 \in 1 .. m
                                    /\ ((k - 1) % n) + 1 \in 1 .. n
           /\ \A i \in 1 .. m, j \in 1 .. n :
                 \E k \in 1 .. m * n : ((k - 1) \div n) + 1 = i /\ ((k - 1) % n) + 1 = j
           /\ \A k, l \in 1 .. m * n :
                 ((k - 1) \div n) + 1 = ((l - 1) \div n) + 1 /\ ((k - 1) % n) + 1 = ((l - 1) % n) + 1
                 => k = l
  <1>1. m * n \in Nat
      OBVIOUS
  <1>2. ASSUME NEW k \in 1 .. m * n
        PROVE  ((k - 1) \div n) + 1 \in 1 .. m /\ ((k - 1) % n) + 1 \in 1 .. n
    <2> DEFINE q == (k - 1) \div n
               r == (k - 1) % n
    <2>1. k - 1 \in Nat /\ k - 1 < m * n
        BY <1>1
    <2>2. q \in Nat /\ r \in 0 .. n - 1 /\ k - 1 = n * q + r
        BY <2>1, Division
    <2> HIDE DEF q, r
    <2>3. ASSUME q >= m PROVE FALSE
      <3>1. q - m \in Nat /\ n * (q - m) \in Nat
          BY <2>2, <2>3
      <3>2. n * (q - m) = n * q - m * n
          BY <2>2
      <3> QED
          BY <1>1, <2>1, <2>2, <3>1, <3>2
    <2>4. q + 1 \in 1 .. m /\ r + 1 \in 1 .. n
        BY <2>2, <2>3
    <2> QED
        BY <2>4 DEF q, r
  <1>3. ASSUME NEW i \in 1 .. m, NEW j \in 1 .. n
        PROVE  \E k \in 1 .. m * n : ((k - 1) \div n) + 1 = i /\ ((k - 1) % n) + 1 = j
    <2> DEFINE x == n * (i - 1) + (j - 1)
    <2>1. n * (i - 1) \in Nat /\ n * (m - i) \in Nat /\ n * (m - i) = m * n - n * (i - 1) - n
      <3>1. i - 1 \in Nat /\ m - i \in Nat
          OBVIOUS
      <3> QED
          BY <3>1
    <2>2. x \in Nat /\ x + 1 \in 1 .. m * n
        BY <1>1, <2>1
    <2>3. i - 1 \in Nat /\ j - 1 \in 0 .. n - 1 /\ x = n * (i - 1) + (j - 1)
        OBVIOUS
    <2> HIDE DEF x
    <2>4. x \div n = i - 1 /\ x % n = j - 1
      <3> DEFINE p == i - 1
                 t == j - 1
      <3>1. p \in Nat /\ t \in 0 .. n - 1 /\ x = n * p + t
          BY <2>3
      <3> HIDE DEF p, t
      <3>2. x \div n = p /\ x % n = t
          BY <2>2, <3>1, DivisionIsUnique
      <3> QED
          BY <3>2 DEF p, t
    <2> DEFINE k == x + 1
    <2>5. k \in 1 .. m * n /\ k - 1 = x
        BY <2>2
    <2> HIDE DEF k
    <2>6. ((k - 1) \div n) + 1 = i /\ ((k - 1) % n) + 1 = j
        BY <2>4, <2>5
    <2> QED
        BY <2>5, <2>6
  <1>4. ASSUME NEW k \in 1 .. m * n, NEW l \in 1 .. m * n,
               ((k - 1) \div n) + 1 = ((l - 1) \div n) + 1, ((k - 1) % n) + 1 = ((l - 1) % n) + 1
        PROVE  k = l
    <2> DEFINE q == (k - 1) \div n
               r == (k - 1) % n
               p == (l - 1) \div n
               t == (l - 1) % n
    <2>1. k - 1 \in Nat /\ l - 1 \in Nat
        BY <1>1
    <2>2. /\ q \in Nat /\ r \in 0 .. n - 1 /\ k - 1 = n * q + r
          /\ p \in Nat /\ t \in 0 .. n - 1 /\ l - 1 = n * p + t
        BY <2>1, Division
    <2>3. q + 1 = p + 1 /\ r + 1 = t + 1
        BY <1>4
    <2> HIDE DEF q, r, p, t
    <2>4. q = p /\ r = t
        BY <2>2, <2>3
    <2> QED
        BY <2>1, <2>2, <2>4
  <1> QED
      BY <1>1, <1>2, <1>3, <1>4

\* The parameter configurations are those that the study declares; without a list
\* of them no two are alike. Each has a rate and a declared horizon, and if there are
\* any, there are some for each horizon.
LEMMA ConfigurationsAreDeclared ==
    ASSUME NEW s \in Studies, ValidAxes(s)
    PROVE  /\ Configurations(s) \in Seq(ToSet(Configurations(s)))
           /\ ToSet(Configurations(s)) = DeclaredConfigurations(s)
           /\ ~s.explicit => IsInjective(Configurations(s)) /\ Configurations(s) # <<>>
           /\ \A config \in ToSet(Configurations(s)) :
                 /\ {"withdrawal_rate", "horizon_years"} \subseteq DOMAIN config
                 /\ config["horizon_years"] \in ToSet(Values(s, "horizon_years"))
           /\ Configurations(s) # <<>> =>
                 \A y \in ToSet(Values(s, "horizon_years")) :
                    \E config \in ToSet(Configurations(s)) : config["horizon_years"] = y
  <1> DEFINE P == CartesianProduct(s)
             n == Len(P)
             C == Configurations(s)
             B == s.configurations
             m == Len(B)
             H == ToSet(Values(s, "horizon_years"))
             A == ToSet(Axes(s))
  <1>1. n \in Nat \ {0} /\ P \in Seq(ToSet(P)) /\ DOMAIN P = 1 .. n
    <2>1. PICK names, c, a, k : AxisFacts(s, names, c, a, k)
        BY AxisFactsHold
    <2>2. ByDigits(P, s, names, c, a, k)
        BY <2>1, ProductByDigits
    <2> HIDE DEF P
    <2> QED
        BY <2>1, <2>2 DEF ByDigits, AxisFacts
  <1>2. m \in Nat /\ B \in Seq(ToSet(B)) /\ DOMAIN B = 1 .. m /\ s.explicit \in BOOLEAN
      BY StudyTypes
  <1>3. DeclaredCombinations(s) = ToSet(P) /\ IsInjective(P)
      BY CombinationsAreDeclared, ProductIsInjective
  <1>4. "withdrawal_rate" \in A /\ "horizon_years" \in A
      BY AxesAreSettings
  <1>5. \A f \in ToSet(P) : DOMAIN f = A /\ f["horizon_years"] \in H
      BY <1>4, ProductIsComplete
  <1>6. ASSUME NEW y \in H PROVE \E f \in ToSet(P) : f["horizon_years"] = y
    <2>0. PICK g : g \in ToSet(P)
        BY <1>1 DEF ToSet
    <2>1. \A name \in A : g[name] \in ToSet(Values(s, name))
        BY <2>0, ProductIsComplete
    <2> DEFINE f == [name \in A |-> IF name = "horizon_years" THEN y ELSE g[name]]
    <2>2. /\ f = [name \in A |-> f[name]]
          /\ \A name \in A : f[name] \in ToSet(Values(s, name))
        BY <2>1
    <2>3. f["horizon_years"] = y
        BY <1>4
    <2> HIDE DEF f, P
    <2>4. f \in ToSet(P)
        BY <2>2, ProductIsComplete DEF P
    <2> QED
        BY <2>3, <2>4
  <1> HIDE DEF P
  <1>7. CASE ~s.explicit
    <2>1. C = P /\ DeclaredConfigurations(s) = ToSet(P)
        BY <1>3, <1>7 DEF Configurations, DeclaredConfigurations, P
    <2>2. P # <<>>
        BY <1>1
    <2> QED
        BY <1>1, <1>3, <1>4, <1>5, <1>6, <2>1, <2>2
  <1>8. CASE s.explicit
    <2> DEFINE row(k) == Merged(P[((k - 1) % n) + 1], B[((k - 1) \div n) + 1])
    <2>1. C = [k \in 1 .. m * n |-> row(k)] /\ m * n \in Nat
        BY <1>1, <1>2, <1>8 DEF Configurations, P
    <2>2. DeclaredConfigurations(s) = {Merged(f, base) : f \in ToSet(P), base \in ToSet(B)}
        BY <1>3, <1>8 DEF DeclaredConfigurations
    <2> HIDE DEF C, B, m, n
    <2>3. C \in Seq(ToSet(C)) /\ DOMAIN C = 1 .. m * n
      <3> HIDE DEF row
      <3>1. DOMAIN C = 1 .. m * n /\ C = [k \in 1 .. m * n |-> C[k]]
          BY <2>1
      <3> QED
          BY <2>1, <3>1, FunctionIsSequence
    <2>4. ASSUME NEW k \in 1 .. m * n
          PROVE  \E f \in ToSet(P), base \in ToSet(B) : C[k] = Merged(f, base)
      <3>1. ((k - 1) \div n) + 1 \in 1 .. m /\ ((k - 1) % n) + 1 \in 1 .. n
          BY <1>1, <1>2, RowsAndColumns
      <3>2. P[((k - 1) % n) + 1] \in ToSet(P) /\ B[((k - 1) \div n) + 1] \in ToSet(B)
          BY <1>1, <1>2, <3>1 DEF ToSet
      <3> QED
          BY <2>1, <3>2
    <2>5. ASSUME NEW f \in ToSet(P), NEW base \in ToSet(B)
          PROVE  \E k \in 1 .. m * n : C[k] = Merged(f, base)
      <3>1. PICK j \in 1 .. n : P[j] = f
          BY <1>1 DEF ToSet
      <3>2. PICK i \in 1 .. m : B[i] = base
          BY <1>2 DEF ToSet
      <3>0. \A u \in 1 .. m, v \in 1 .. n :
                \E k \in 1 .. m * n : ((k - 1) \div n) + 1 = u /\ ((k - 1) % n) + 1 = v
          BY <1>1, <1>2, RowsAndColumns
      <3>3. PICK k \in 1 .. m * n : ((k - 1) \div n) + 1 = i /\ ((k - 1) % n) + 1 = j
          BY <3>0
      <3> QED
          BY <2>1, <3>1, <3>2, <3>3
    <2>6. ToSet(C) = DeclaredConfigurations(s)
      <3>1. \A x \in ToSet(C) : \E f \in ToSet(P), base \in ToSet(B) : x = Merged(f, base)
          BY <2>3, <2>4 DEF ToSet
      <3>2. \A f \in ToSet(P), base \in ToSet(B) : Merged(f, base) \in ToSet(C)
          BY <2>3, <2>5 DEF ToSet
      <3> QED
          BY <2>2, <3>1, <3>2
    <2>7. ASSUME NEW f \in ToSet(P), NEW base
          PROVE  /\ {"withdrawal_rate", "horizon_years"} \subseteq DOMAIN Merged(f, base)
                 /\ Merged(f, base)["horizon_years"] = f["horizon_years"]
        BY <1>4, <1>5 DEF Merged
    <2>8. \A x \in ToSet(C) : \E f \in ToSet(P), base \in ToSet(B) : x = Merged(f, base)
        BY <2>3, <2>4 DEF ToSet
    <2>9. ASSUME NEW x \in ToSet(C)
          PROVE  /\ {"withdrawal_rate", "horizon_years"} \subseteq DOMAIN x
                 /\ x["horizon_years"] \in H
      <3>1. PICK f \in ToSet(P), base \in ToSet(B) : x = Merged(f, base)
          BY <2>8
      <3> QED
          BY <1>5, <2>7, <3>1
    <2>10. ASSUME C # <<>>, NEW y \in H PROVE \E x \in ToSet(C) : x["horizon_years"] = y
      <3>1. PICK f \in ToSet(P) : f["horizon_years"] = y
          BY <1>6
      <3>0. 1 \in DOMAIN C
        <4>1. C \in Seq(ToSet(C)) /\ C # <<>>
            BY <2>3, <2>10
        <4> QED
            BY <4>1
      <3>2. PICK k \in DOMAIN C : TRUE
          BY <3>0
      <3>3. PICK base \in ToSet(B) : TRUE
          BY <2>3, <2>4, <3>2
      <3>4. PICK l \in DOMAIN C : C[l] = Merged(f, base)
          BY <2>3, <2>5
      <3>5. C[l] \in ToSet(C) /\ C[l]["horizon_years"] = y
          BY <2>7, <3>1, <3>4 DEF ToSet
      <3> QED
          BY <3>5
    <2> HIDE DEF H
    <2> QED
        BY <1>8, <2>3, <2>6, <2>9, <2>10 DEF C, H
  <1> QED
      BY <1>2, <1>7, <1>8

----------------------------------------------------------------------------
(* Dates, horizons and slices.                                             *)

\* The elements of a sequence over a set are in the set.
LEMMA ElementsOfSequence ==
    ASSUME NEW S, NEW v \in Seq(S)
    PROVE  /\ Len(v) \in Nat /\ DOMAIN v = 1 .. Len(v)
           /\ \A i \in 1 .. Len(v) : v[i] \in S
  OBVIOUS

\* A sequence of numbers that is not empty has a greatest one.
LEMMA GreatestOfSequence ==
    ASSUME NEW v \in Seq(Int), v # <<>> PROVE \E j \in DOMAIN v : \A i \in DOMAIN v : v[i] <= v[j]
  <1> DEFINE n == Len(v)
             Has(m) == \E j \in 1 .. m : \A i \in 1 .. m : v[i] <= v[j]
             bad == {m \in 1 .. n : ~Has(m)}
  <1>1. n \in Nat \ {0} /\ DOMAIN v = 1 .. n /\ \A i \in 1 .. n : v[i] \in Int
      OBVIOUS
  <1> HIDE DEF n
  <1>2. ASSUME bad # {} PROVE FALSE
    <2>1. PICK m \in bad : \A k \in bad : m <= k
      <3>1. bad \subseteq Nat
          OBVIOUS
      <3> HIDE DEF bad
      <3> QED
          BY <1>2, <3>1, LeastNumber
    <2>2. m \in 1 .. n /\ ~Has(m)
        OBVIOUS
    <2>3. CASE m = 1
      <3>1. \A i \in 1 .. 1 : i = 1
          OBVIOUS
      <3>2. v[1] <= v[1]
          BY <1>1
      <3>3. 1 \in 1 .. 1
          OBVIOUS
      <3> QED
          BY <2>2, <2>3, <3>1, <3>2, <3>3
    <2>4. CASE m # 1
      <3>1. m - 1 \in 1 .. n
          BY <1>1, <2>2, <2>4
      <3>2. m - 1 \notin bad
        <4>1. m - 1 < m
            BY <2>2
        <4> HIDE DEF bad
        <4> QED
            BY <1>1, <2>1, <2>2, <3>1, <4>1
      <3>3. PICK j \in 1 .. m - 1 : \A i \in 1 .. m - 1 : v[i] <= v[j]
          BY <3>1, <3>2
      <3> HIDE DEF bad
      <3>4. /\ \A i \in 1 .. m : i = m \/ i \in 1 .. m - 1
            /\ j \in 1 .. m /\ m \in 1 .. m /\ j \in 1 .. n
            /\ v[j] \in Int /\ v[m] \in Int /\ \A i \in 1 .. m - 1 : v[i] \in Int
        <4>1. m \in Nat /\ m \in 1 .. n /\ m - 1 \in 1 .. n
            BY <1>1, <2>2, <3>1
        <4> HIDE DEF Has
        <4> QED
            BY <1>1, <4>1
      <3>5. CASE v[m] <= v[j]
          BY <2>2, <3>3, <3>4, <3>5
      <3>6. CASE ~(v[m] <= v[j])
        <4>1. \A i \in 1 .. m - 1 : v[i] <= v[m]
            BY <3>3, <3>4, <3>6
        <4>2. v[m] <= v[m]
            BY <3>4
        <4>3. \A i \in 1 .. m : v[i] <= v[m]
            BY <3>4, <4>1, <4>2
        <4> QED
            BY <2>2, <3>4, <4>3
      <3> QED
          BY <3>5, <3>6
    <2> QED
        BY <2>3, <2>4
  <1>3. n \in 1 .. n /\ n \notin bad
    <2> HIDE DEF bad
    <2> QED
        BY <1>1, <1>2
  <1> QED
      BY <1>1, <1>3

\* What parsing has made sure of, and constructing a study: whole years to simulate.
HasHorizons(s) ==
    /\ Values(s, "horizon_years") # <<>>
    /\ \A y \in ToSet(Values(s, "horizon_years")) : y > 0

\* There is a longest horizon, and it is one of those declared.
LEMMA LongestHorizonIsDeclared ==
    ASSUME NEW s \in Studies, HasHorizons(s)
    PROVE  /\ LongestHorizon(s) \in ToSet(Values(s, "horizon_years"))
           /\ \A y \in ToSet(Values(s, "horizon_years")) :
                 y \in Nat \ {0} /\ y <= LongestHorizon(s)
           /\ LongestHorizon(s) \in Nat \ {0}
  <1> DEFINE v == Values(s, "horizon_years")
             H == ToSet(v)
             L == CHOOSE y \in H : \A z \in H : z <= y
  <1>1. v \in Seq(H) /\ H \subseteq Int /\ v # <<>> /\ \A y \in H : y > 0
    <2>1. "horizon_years" \in Settings
        BY DEF Settings, Arrays
    <2> QED
        BY <2>1, StudyTypes DEF HasHorizons
  <1> HIDE DEF v
  <1>2. \E y \in H : \A z \in H : z <= y
    <2>1. v \in Seq(Int)
        BY <1>1
    <2>2. PICK j \in DOMAIN v : \A i \in DOMAIN v : v[i] <= v[j]
        BY <1>1, <2>1, GreatestOfSequence
    <2> QED
        BY <2>2 DEF ToSet
  <1>3. L \in H /\ \A z \in H : z <= L
    <2> HIDE DEF H
    <2> QED
        BY <1>2
  <1>4. LongestHorizon(s) = L
      BY DEF LongestHorizon, v
  <1> HIDE DEF L, H
  <1> QED
      BY <1>1, <1>3, <1>4 DEF H, v

\* More years are more observations.
LEMMA ObservationsGrow ==
    ASSUME NEW x \in Nat, NEW y \in Nat
    PROVE  /\ Observations(x) \in Nat \ {0}
           /\ x <= y => Observations(x) <= Observations(y)
           /\ x < y => Observations(x) < Observations(y)
  <1> DEFINE m == MonthsPerYear
  <1>1. m \in Nat \ {0}
      BY BoundsAssumption
  <1>2. Observations(x) = x * m + 1 /\ Observations(y) = y * m + 1
      BY DEF Observations
  <1> HIDE DEF m
  <1>3. x * m \in Nat /\ y * m \in Nat
      BY <1>1
  <1>4. ASSUME x <= y PROVE x * m <= y * m
    <2>1. y - x \in Nat /\ (y - x) * m \in Nat
        BY <1>1, <1>4
    <2>2. (y - x) * m = y * m - x * m
        BY <1>1
    <2> QED
        BY <1>3, <2>1, <2>2
  <1>5. ASSUME x < y PROVE x * m < y * m
    <2>1. y - x \in Nat \ {0} /\ (y - x) * m \in Nat \ {0}
      <3>1. y - x \in Nat \ {0}
          BY <1>5
      <3> QED
          BY <1>1, <3>1, PositiveProduct
    <2>2. (y - x) * m = y * m - x * m
        BY <1>1
    <2> QED
        BY <1>3, <2>1, <2>2
  <1> QED
      BY <1>2, <1>3, <1>4, <1>5

\* Data misses no month, so no two dates are alike.
LEMMA MonthsFollow ==
    ASSUME NEW d \in Datasets
    PROVE  /\ d \in Seq([month : Nat, day : Nat]) /\ Len(d) \in Nat \ {0} /\ DOMAIN d = 1 .. Len(d)
           /\ \A i, j \in 1 .. Len(d) : i <= j => d[j].month = d[i].month + (j - i)
           /\ IsInjective(d)
  <1> DEFINE n == Len(d)
  <1>1. /\ d \in Seq([month : Nat, day : Nat]) /\ n \in Nat \ {0} /\ DOMAIN d = 1 .. n
        /\ \A i \in 1 .. n : d[i] \in [month : Nat, day : Nat]
        /\ \A i \in 1 .. n - 1 : d[i + 1].month = d[i].month + 1
    <2>1. /\ d \in Seq([month : Nat, day : Nat]) /\ d # <<>>
          /\ \A i \in 1 .. n - 1 : d[i + 1].month = d[i].month + 1
        BY DatasetsAssumption
    <2>2. \A i \in 1 .. n : d[i] \in [month : Nat, day : Nat]
        BY <2>1, ElementsOfSequence
    <2> QED
        BY <2>1, <2>2
  <1> HIDE DEF n
  <1>2. ASSUME NEW i \in 1 .. n
        PROVE  \A j \in 1 .. n : i <= j => d[j].month = d[i].month + (j - i)
    <2> DEFINE bad == {j \in 1 .. n : i <= j /\ d[j].month # d[i].month + (j - i)}
    <2>1. ASSUME bad # {} PROVE FALSE
      <3>1. PICK m \in bad : \A k \in bad : m <= k
        <4>1. bad \subseteq Nat
            OBVIOUS
        <4> HIDE DEF bad
        <4> QED
            BY <2>1, <4>1, LeastNumber
      <3>2. m \in 1 .. n /\ i <= m /\ d[m].month # d[i].month + (m - i)
          OBVIOUS
      <3>3. m # i
        <4>1. d[i].month \in Nat
            BY <1>1
        <4> QED
            BY <3>2, <4>1
      <3>4. m - 1 \in 1 .. n - 1 /\ m - 1 \in 1 .. n /\ i <= m - 1 /\ m - 1 < m /\ m - 1 + 1 = m
          BY <1>1, <3>2, <3>3
      <3>5. m - 1 \notin bad
        <4> HIDE DEF bad
        <4> QED
            BY <3>1, <3>4
      <3>6. d[m - 1].month = d[i].month + (m - 1 - i)
          BY <3>4, <3>5
      <3>7. d[m].month = d[m - 1].month + 1
          BY <1>1, <3>4
      <3>8. d[i].month \in Nat /\ d[m].month \in Nat /\ d[m - 1].month \in Nat
          BY <1>1, <3>2, <3>4
      <3> QED
          BY <3>2, <3>6, <3>7, <3>8
    <2> QED
        BY <2>1
  <1>3. ASSUME NEW i \in 1 .. n, NEW j \in 1 .. n, d[i] = d[j] PROVE i = j
    <2>1. d[i].month \in Nat /\ d[i].month = d[j].month
        BY <1>1, <1>3
    <2>2. CASE i <= j
      <3>1. d[j].month = d[i].month + (j - i)
          BY <1>2, <2>2
      <3> QED
          BY <2>1, <3>1
    <2>3. CASE j <= i
      <3>1. d[i].month = d[j].month + (i - j)
          BY <1>2, <2>3
      <3> QED
          BY <2>1, <3>1
    <2> QED
        BY <2>2, <2>3
  <1>4. IsInjective(d)
      BY <1>1, <1>3 DEF IsInjective
  <1> QED
      BY <1>1, <1>2, <1>4 DEF n

\* A start date at a position of the dataset and a horizon, and the data of both.
Fits(d, i, horizon) == i + horizon - 1 <= Len(d)
DataOf(d, i, horizon) == SubSeq(d, i, i + horizon - 1)
StartOf(d, date) == CHOOSE i \in DOMAIN d : d[i] = date

\* A slice is there if the dataset has enough; it begins at its date.
LEMMA SliceOfDataset ==
    ASSUME NEW d \in Datasets, NEW i \in 1 .. Len(d), NEW h \in Nat \ {0}
    PROVE  /\ StartOf(d, d[i]) = i
           /\ Slice(d, d[i], h) = IF Fits(d, i, h) THEN {DataOf(d, i, h)} ELSE {}
           /\ i + h - 1 <= Len(d) =>
                 /\ SubSeq(d, i, i + h - 1) \in Seq([month : Nat, day : Nat])
                 /\ Len(SubSeq(d, i, i + h - 1)) = h
                 /\ \A k \in 1 .. h : SubSeq(d, i, i + h - 1)[k] = d[i + k - 1]
                 /\ SubSeq(d, i, i + h - 1)[1] = d[i]
  <1>1. /\ d \in Seq([month : Nat, day : Nat]) /\ Len(d) \in Nat \ {0} /\ DOMAIN d = 1 .. Len(d)
        /\ IsInjective(d)
      BY MonthsFollow
  <1> DEFINE j == CHOOSE j \in DOMAIN d : d[j] = d[i]
  <1>2. j \in DOMAIN d /\ d[j] = d[i]
      BY <1>1
  <1>3. j = i
    <2> HIDE DEF j
    <2> QED
        BY <1>1, <1>2 DEF IsInjective
  <1>4. Slice(d, d[i], h) = IF j + h - 1 > Len(d) THEN {} ELSE {SubSeq(d, j, j + h - 1)}
      BY DEF Slice
  <1> HIDE DEF j
  <1>5. ASSUME i + h - 1 <= Len(d)
        PROVE  /\ SubSeq(d, i, i + h - 1) \in Seq([month : Nat, day : Nat])
               /\ Len(SubSeq(d, i, i + h - 1)) = h
               /\ \A k \in 1 .. h : SubSeq(d, i, i + h - 1)[k] = d[i + k - 1]
    <2> DEFINE m == i + h - 1
    <2>1. m \in 1 .. Len(d) /\ m - i + 1 = h /\ i <= m /\ i \in 1 .. Len(d) + 1 /\ m \in 0 .. Len(d)
        BY <1>1, <1>5
    <2> HIDE DEF m
    <2>2. /\ SubSeq(d, i, m) \in Seq([month : Nat, day : Nat])
          /\ Len(SubSeq(d, i, m)) = IF i <= m THEN m - i + 1 ELSE 0
          /\ \A k \in 1 .. m - i + 1 : SubSeq(d, i, m)[k] = d[i + k - 1]
      <3>1. \A k \in i .. m : d[k] \in [month : Nat, day : Nat]
        <4>1. \A k \in i .. m : k \in 1 .. Len(d)
            BY <1>1, <2>1
        <4> QED
            BY <1>1, <4>1, ElementsOfSequence
      <3> QED
          BY <2>1, <3>1, SubSeqProperties
    <2> QED
        BY <2>1, <2>2 DEF m
  <1>6. 1 \in 1 .. h /\ i + 1 - 1 = i
      BY <1>1
  <1>7. Slice(d, d[i], h) = IF Fits(d, i, h) THEN {DataOf(d, i, h)} ELSE {}
    <2>1. i + h - 1 > Len(d) <=> ~Fits(d, i, h)
        BY <1>1 DEF Fits
    <2> QED
        BY <1>3, <1>4, <2>1 DEF DataOf
  <1> QED
      BY <1>3, <1>5, <1>6, <1>7 DEF j, StartOf

\* The feasible snapshots are the first ones, as many as leave room for the horizon.
LEMMA FeasibleComeFirst ==
    ASSUME NEW d \in Datasets, NEW h \in Nat \ {0}, h <= Len(d)
    PROVE  /\ Cardinality({i \in DOMAIN d : Feasible(d, i, h)}) = Len(d) - h + 1
           /\ Len(d) - h + 1 \in 1 .. Len(d)
           /\ SubSeq(d, 1, Len(d) - h + 1) \in Seq([month : Nat, day : Nat])
           /\ Len(SubSeq(d, 1, Len(d) - h + 1)) = Len(d) - h + 1
           /\ \A k \in 1 .. Len(d) - h + 1 : SubSeq(d, 1, Len(d) - h + 1)[k] = d[k]
  <1> DEFINE n == Len(d)
             m == n - h + 1
  <1>1. n \in Nat \ {0} /\ DOMAIN d = 1 .. n /\ d \in Seq([month : Nat, day : Nat])
      BY MonthsFollow
  <1>2. m \in 1 .. n
      BY <1>1
  <1>3. {i \in DOMAIN d : Feasible(d, i, h)} = 1 .. m
    <2>1. \A i \in 1 .. n : n - (i - 1) >= h <=> i \in 1 .. m
        BY <1>1
    <2>2. \A i \in 1 .. m : i \in 1 .. n
        BY <1>1
    <2> QED
        BY <1>1, <2>1, <2>2 DEF Feasible
  <1>4. Cardinality(1 .. m) = m
    <2> HIDE DEF m
    <2>1. m \in Int /\ 1 <= m
        BY <1>2
    <2>2. Cardinality(1 .. m) = IF 1 > m THEN 0 ELSE m - 1 + 1
        BY <2>1, FS_Interval
    <2> QED
        BY <2>1, <2>2
  <1>5. /\ SubSeq(d, 1, m) \in Seq([month : Nat, day : Nat])
        /\ Len(SubSeq(d, 1, m)) = m
        /\ \A k \in 1 .. m : SubSeq(d, 1, m)[k] = d[k]
    <2> HIDE DEF m
    <2>1. \A k \in 1 .. m : d[k] \in [month : Nat, day : Nat]
      <3>1. \A k \in 1 .. m : k \in 1 .. n
          BY <1>1, <1>2
      <3> QED
          BY <1>1, <3>1, ElementsOfSequence
    <2>2. /\ SubSeq(d, 1, m) \in Seq([month : Nat, day : Nat])
          /\ Len(SubSeq(d, 1, m)) = IF 1 <= m THEN m - 1 + 1 ELSE 0
          /\ \A k \in 1 .. m - 1 + 1 : SubSeq(d, 1, m)[k] = d[1 + k - 1]
        BY <1>2, <2>1, SubSeqProperties
    <2>3. 1 <= m /\ m - 1 + 1 = m /\ \A k \in 1 .. m : 1 + k - 1 = k
        BY <1>2
    <2> QED
        BY <2>2, <2>3
  <1> QED
      BY <1>2, <1>3, <1>4, <1>5

\* The horizon that cohorts are feasible for has a number of observations.
LEMMA CohortHorizonIsPositive ==
    ASSUME NEW s \in Studies, HasHorizons(s) PROVE CohortHorizon(s) \in Nat \ {0}
  <1>1. Observations(LongestHorizon(s)) \in Nat \ {0}
      BY LongestHorizonIsDeclared, ObservationsGrow
  <1>2. s.omy \in BOOLEAN /\ s.cohort_horizon \in Nat
      BY StudyTypes
  <1>3. Observations(s.cohort_horizon) \in Nat \ {0}
      BY <1>2, ObservationsGrow
  <1>4. AccumulationMonths \in Nat
      BY BoundsAssumption
  <1>5. AccumulationMonths + Observations(LongestHorizon(s)) \in Nat \ {0}
      BY <1>1, <1>4
  <1>6. CASE s.omy
      BY <1>5, <1>6 DEF CohortHorizon
  <1>7. CASE ~s.omy /\ s.cohort_horizon > 0
      BY <1>3, <1>7 DEF CohortHorizon
  <1>8. CASE ~s.omy /\ s.cohort_horizon = 0
      BY <1>1, <1>8 DEF CohortHorizon
  <1> QED
      BY <1>2, <1>6, <1>7, <1>8

----------------------------------------------------------------------------
(* Policies by their keys.                                                 *)

\* The key of the resolver's cache tells apart what the policies tell apart.
LEMMA KeyDeterminesPolicy ==
    ASSUME NEW s, NEW f, NEW g, PolicyKey(s, f) = PolicyKey(s, g)
    PROVE  PolicyFor(s, f) = PolicyFor(s, g)
  <1>1. /\ f["withdrawal_rate"] = g["withdrawal_rate"]
        /\ OrElse(ValueOf(s, f, "borrow_pct"), 0) = OrElse(ValueOf(s, g, "borrow_pct"), 0)
        /\ OrElse(ValueOf(s, f, "drawdown_threshold"), 0) = OrElse(ValueOf(s, g, "drawdown_threshold"), 0)
      BY DEF PolicyKey
  <1>2. ASSUME NEW x, NEW y, NEW z, OrElse(x, 0) = OrElse(y, 0) PROVE OrElse(x, z) = OrElse(y, z)
      BY <1>2 DEF OrElse
  <1>3. OrElse(ValueOf(s, f, "drawdown_threshold"), DefaultThreshold) =
            OrElse(ValueOf(s, g, "drawdown_threshold"), DefaultThreshold)
      BY <1>1, <1>2
  <1> QED
      BY <1>1, <1>3 DEF PolicyFor, BuildWithdrawalPolicy

\* Horizon and target make no difference to the policies and the interest.
Lasting(config) == Restrict(config, DOMAIN config \ {"horizon_years", "final_value_target"})

\* Configurations that differ in horizon and target only have the same policies.
LEMMA LastingDeterminesPolicies ==
    ASSUME NEW s, NEW f, NEW g, Lasting(f) = Lasting(g),
           "withdrawal_rate" \in DOMAIN f, "withdrawal_rate" \in DOMAIN g,
           ToSet(AllocationNames(s)) \subseteq DOMAIN f, ToSet(AllocationNames(s)) \subseteq DOMAIN g
    PROVE  /\ PolicyFor(s, f) = PolicyFor(s, g)
           /\ AllocationFor(s, f) = AllocationFor(s, g)
           /\ ValueOf(s, f, "interest_rate") = ValueOf(s, g, "interest_rate")
  <1> DEFINE D == {"horizon_years", "final_value_target"}
  <1>1. [x \in DOMAIN f \ D |-> f[x]] = [x \in DOMAIN g \ D |-> g[x]]
      BY DEF Lasting, Restrict
  <1>2. /\ \A x : x \notin D => (x \in DOMAIN f <=> x \in DOMAIN g)
        /\ \A x \in DOMAIN f : x \notin D => f[x] = g[x]
    <2> DEFINE p == [x \in DOMAIN f \ D |-> f[x]]
               q == [x \in DOMAIN g \ D |-> g[x]]
    <2>1. /\ DOMAIN p = DOMAIN f \ D /\ DOMAIN q = DOMAIN g \ D
          /\ \A x \in DOMAIN f \ D : p[x] = f[x]
          /\ \A x \in DOMAIN g \ D : q[x] = g[x]
        OBVIOUS
    <2>2. p = q
        BY <1>1
    <2> HIDE DEF p, q, D
    <2> QED
        BY <2>1, <2>2
  <1>3. "withdrawal_rate" \notin D /\ "borrow_pct" \notin D /\ "drawdown_threshold" \notin D
        /\ "interest_rate" \notin D
      OBVIOUS
  <1>4. ToSet(AllocationNames(s)) \cap D = {}
    <2>1. CASE s.allocation = "glidepath"
      <3>1. AllocationNames(s) = <<"start_equity", "end_equity", "slope", "mode">>
          BY <2>1 DEF AllocationNames, Glidepath
      <3> QED
          BY <3>1 DEF ToSet
    <2>2. CASE s.allocation # "glidepath"
      <3>1. AllocationNames(s) = <<"equity_allocation">>
          BY <2>2 DEF AllocationNames
      <3> QED
          BY <3>1 DEF ToSet
    <2> QED
        BY <2>1, <2>2
  <1> HIDE DEF D
  <1>5. f["withdrawal_rate"] = g["withdrawal_rate"]
      BY <1>2, <1>3
  <1>6. ASSUME NEW x, x \notin D PROVE ValueOf(s, f, x) = ValueOf(s, g, x)
    <2>1. CASE x \in DOMAIN f
      <3>1. x \in DOMAIN g /\ f[x] = g[x]
          BY <1>2, <1>6, <2>1
      <3>2. ValueOf(s, f, x) = f[x] /\ ValueOf(s, g, x) = g[x]
          BY <2>1, <3>1 DEF ValueOf
      <3> QED
          BY <3>1, <3>2
    <2>2. CASE x \notin DOMAIN f
      <3>1. x \notin DOMAIN g
          BY <1>2, <1>6, <2>2
      <3> QED
          BY <2>2, <3>1 DEF ValueOf
    <2> QED
        BY <2>1, <2>2
  <1>7. PolicyFor(s, f) = PolicyFor(s, g) /\ ValueOf(s, f, "interest_rate") = ValueOf(s, g, "interest_rate")
      BY <1>3, <1>5, <1>6 DEF PolicyFor
  <1>8. \A x \in ToSet(AllocationNames(s)) : f[x] = g[x]
      BY <1>2, <1>4
  <1>9. AllocationFor(s, f) = AllocationFor(s, g)
      BY <1>8 DEF AllocationFor
  <1> QED
      BY <1>7, <1>9

----------------------------------------------------------------------------
(* The inductive invariant: cohorts, configurations and the caches hold    *)
(* what the study and the dataset say, and a unit is determined by its     *)
(* place in the double loop.                                               *)

CohortsOf(s, d) == SubSeq(d, 1, Len(d) - CohortHorizon(s) + 1)

AccumulatedOf(d, i) ==
    [bought |-> d[1], contributed |-> SubSeq(d, i, i + AccumulationMonths - 1),
     valued |-> d[i + AccumulationMonths]]

HorizonOf(s, config) ==
    Observations(IF s.omy THEN LongestHorizon(s) ELSE config["horizon_years"])

ScheduleOf(s, date, horizon) ==
    IF s.floating /\ ~s.omy THEN Periods(date, horizon) ELSE <<>>

\* The unit of a configuration and the cohort that starts at a position of the dataset.
UnitOf(s, d, i, config) ==
    [cohort |-> d[i], config |-> config,
     allocation |-> AllocationFor(s, config), withdrawal |-> PolicyFor(s, config),
     portfolio |-> IF s.omy THEN AccumulatedOf(d, i)
                   ELSE InitialPortfolio(DataOf(d, i, HorizonOf(s, config))),
     dataset |-> DataOf(d, i, HorizonOf(s, config)), horizon |-> HorizonOf(s, config),
     target |-> TargetOf(s, config),
     interest |-> IF s.omy THEN NoValue ELSE ValueOf(s, config, "interest_rate"),
     schedule |-> ScheduleOf(s, d[i], HorizonOf(s, config))]

\* Nothing that the unit needs is missing.
Plannable(s, d, R, i, config) ==
    /\ ToSet(AllocationNames(s)) \subseteq DOMAIN config
    /\ Fits(d, i, HorizonOf(s, config))
    /\ ToSet(ScheduleOf(s, d[i], HorizonOf(s, config))) \subseteq R

InputsTyped ==
    /\ study \in Studies /\ dataset \in Datasets /\ rates \in RateFiles
    /\ pc \in {"parse", "cohorts", "configurations", "experiment", "rates", "accumulation",
               "units", "done", "raised"}
    /\ (pc = "raised") <=> (error # "none")

Generated ==
    /\ HasHorizons(study) /\ CohortHorizon(study) <= Len(dataset)
    /\ cohorts = CohortsOf(study, dataset)

Configured ==
    /\ Generated /\ ValidAxes(study)
    /\ configs = Configurations(study)

\* How far the build has come.
Progress ==
    /\ pc \notin {"parse", "raised"} => HasHorizons(study)
    /\ cohorts = <<>> \/ Generated
    /\ configs = <<>> \/ Configured
    /\ pc \in {"parse", "cohorts"} => cohorts = <<>>
    /\ pc \in {"parse", "cohorts", "configurations"} => configs = <<>>
    /\ pc = "configurations" => Generated
    /\ pc \in {"accumulation", "experiment", "rates", "units", "done"} => Configured
    /\ pc \in {"rates", "units", "done"} => configs # <<>>
    /\ pc = "rates" => study.floating /\ ~study.omy
    /\ pc = "accumulation" => study.omy

Accumulated(i) == cohorts[i] \in DOMAIN accumulated

AccumulationsAreOwn ==
    /\ accumulations \in Seq(ToSet(cohorts)) /\ IsInjective(accumulations)
    /\ ToSet(accumulations) = DOMAIN accumulated
    /\ \A i \in DOMAIN cohorts : Accumulated(i) => accumulated[cohorts[i]] = AccumulatedOf(dataset, i)
    /\ pc \in {"experiment", "rates", "units", "done"} /\ study.omy =>
          \A i \in DOMAIN cohorts : Accumulated(i)

SlicesAreOwn ==
    \A key \in DOMAIN sliced :
       \E i \in DOMAIN cohorts, horizon \in Nat \ {0} :
          /\ key = <<cohorts[i], horizon>> /\ Fits(dataset, i, horizon)
          /\ sliced[key] = DataOf(dataset, i, horizon)

PoliciesAreOwn ==
    \A key \in DOMAIN policies :
       \E config \in ToSet(configs) :
          key = PolicyKey(study, config) /\ policies[key] = PolicyFor(study, config)

UnitsAreOwn ==
    /\ units \in Seq(ToSet(units))
    /\ units # <<>> => Configured /\ configs # <<>>
    /\ Len(units) <= Len(cohorts) * Len(configs)
    /\ \A k \in 1 .. Len(units) :
          LET i == LoopPosition(k)[1]
              config == configs[LoopPosition(k)[2]]
          IN  /\ units[k] = UnitOf(study, dataset, i, config)
              /\ Plannable(study, dataset, rates, i, config)
    /\ pc = "done" =>
          Planned /\ IsInjective([k \in DOMAIN units |-> <<units[k].cohort, units[k].config>>])

\* What must be so for the build to fail with an error.
ReasonFor(why) ==
    /\ why = "dataset" => Len(dataset) < CohortHorizon(study)
    /\ why = "history" => study.cohort_horizon \in 1 .. LongestHorizon(study) - 1
    /\ why = "rates" => study.floating /\ ~study.omy /\ ~(NeededDates \subseteq rates)
    /\ why = "duplicate" => study.explicit

PlanInvariant ==
    InputsTyped /\ Progress /\ AccumulationsAreOwn /\ SlicesAreOwn /\ PoliciesAreOwn
    /\ UnitsAreOwn /\ ReasonFor(error)

----------------------------------------------------------------------------
(* What the invariant says of cohorts, horizons and caches.                *)

\* The cohorts are the first dates of the dataset.
LEMMA CohortsComeFirst ==
    ASSUME NEW s \in Studies, NEW d \in Datasets, HasHorizons(s), CohortHorizon(s) <= Len(d)
    PROVE  /\ CohortsOf(s, d) \in Seq([month : Nat, day : Nat])
           /\ Len(CohortsOf(s, d)) = Len(d) - CohortHorizon(s) + 1
           /\ Len(CohortsOf(s, d)) \in 1 .. Len(d)
           /\ DOMAIN CohortsOf(s, d) = 1 .. Len(CohortsOf(s, d))
           /\ \A k \in DOMAIN CohortsOf(s, d) : CohortsOf(s, d)[k] = d[k]
           /\ IsInjective(CohortsOf(s, d))
  <1> DEFINE h == CohortHorizon(s)
             c == SubSeq(d, 1, Len(d) - h + 1)
             m == Len(d) - h + 1
  <1>1. h \in Nat \ {0}
      BY CohortHorizonIsPositive
  <1>2. h <= Len(d)
      OBVIOUS
  <1> HIDE DEF h
  <1>3. /\ m \in 1 .. Len(d) /\ c \in Seq([month : Nat, day : Nat]) /\ Len(c) = m
        /\ \A k \in 1 .. m : c[k] = d[k]
      BY <1>1, <1>2, FeasibleComeFirst
  <1>4. DOMAIN d = 1 .. Len(d) /\ IsInjective(d) /\ Len(d) \in Nat
      BY MonthsFollow
  <1>5. DOMAIN c = 1 .. m
    <2> HIDE DEF c, m
    <2> QED
        BY <1>3, ElementsOfSequence
  <1>6. IsInjective(c)
    <2> HIDE DEF c, m
    <2>1. \A i \in 1 .. m : i \in 1 .. Len(d)
        BY <1>3, <1>4
    <2> QED
        BY <1>3, <1>4, <1>5, <2>1 DEF IsInjective
  <1>7. CohortsOf(s, d) = c
      BY DEF CohortsOf, h
  <1> HIDE DEF c
  <1> QED
      BY <1>3, <1>5, <1>6, <1>7 DEF h

\* No unit is longer than a retirement of the longest horizon.
LEMMA HorizonIsBounded ==
    ASSUME NEW s \in Studies, HasHorizons(s), ValidAxes(s), NEW config \in ToSet(Configurations(s))
    PROVE  /\ HorizonOf(s, config) \in Nat \ {0}
           /\ Observations(config["horizon_years"]) \in Nat \ {0}
           /\ Observations(config["horizon_years"]) <= HorizonOf(s, config)
           /\ HorizonOf(s, config) <= Observations(LongestHorizon(s))
           /\ Observations(LongestHorizon(s)) \in Nat \ {0}
  <1> DEFINE y == config["horizon_years"]
             L == LongestHorizon(s)
  <1>1. y \in ToSet(Values(s, "horizon_years"))
      BY ConfigurationsAreDeclared
  <1>2. y \in Nat \ {0} /\ y <= L /\ L \in Nat \ {0}
      BY <1>1, LongestHorizonIsDeclared
  <1>3. HorizonOf(s, config) = Observations(IF s.omy THEN L ELSE y)
      BY DEF HorizonOf
  <1>4. s.omy \in BOOLEAN
      BY StudyTypes
  <1> HIDE DEF y, L
  <1>5. Observations(y) \in Nat \ {0} /\ Observations(L) \in Nat \ {0}
        /\ Observations(y) <= Observations(L)
      BY <1>2, ObservationsGrow
  <1>6. CASE s.omy
      BY <1>3, <1>5, <1>6 DEF y, L
  <1>7. CASE ~s.omy
      BY <1>3, <1>5, <1>7 DEF y, L
  <1> QED
      BY <1>4, <1>6, <1>7

\* An entry that is set is there, and the others are as they were.
LEMMA EntryIsSet ==
    ASSUME NEW f, NEW x, NEW y
    PROVE  /\ DOMAIN WithEntry(f, x, y) = DOMAIN f \union {x}
           /\ WithEntry(f, x, y)[x] = y
           /\ \A z \in DOMAIN f : z # x => WithEntry(f, x, y)[z] = f[z]
  BY DEF WithEntry

\* From the cache or not, a slice is the data of its cohort and horizon.
LEMMA CachedSliceIsOwn ==
    ASSUME InputsTyped, Generated, SlicesAreOwn, NEW i \in DOMAIN cohorts, NEW h \in Nat \ {0}
    PROVE  CachedSlice(cohorts[i], h) = IF Fits(dataset, i, h) THEN {DataOf(dataset, i, h)} ELSE {}
  <1>1. /\ \A k \in DOMAIN cohorts : cohorts[k] = dataset[k] /\ k \in 1 .. Len(dataset)
        /\ IsInjective(cohorts) /\ Len(dataset) \in Nat
    <2>1. /\ cohorts = CohortsOf(study, dataset) /\ study \in Studies /\ dataset \in Datasets
          /\ HasHorizons(study) /\ CohortHorizon(study) <= Len(dataset)
        BY DEF Generated, InputsTyped
    <2>2. Len(dataset) \in Nat
        BY <2>1, MonthsFollow
    <2>3. /\ Len(cohorts) \in 1 .. Len(dataset) /\ DOMAIN cohorts = 1 .. Len(cohorts)
          /\ \A k \in DOMAIN cohorts : cohorts[k] = dataset[k]
          /\ IsInjective(cohorts)
        BY <2>1, CohortsComeFirst
    <2> QED
        BY <2>2, <2>3
  <1>2. Slice(dataset, cohorts[i], h) = IF Fits(dataset, i, h) THEN {DataOf(dataset, i, h)} ELSE {}
    <2>1. dataset \in Datasets /\ i \in 1 .. Len(dataset) /\ cohorts[i] = dataset[i]
        BY <1>1 DEF InputsTyped
    <2> QED
        BY <2>1, SliceOfDataset
  <1>3. CASE <<cohorts[i], h>> \in DOMAIN sliced
    <2>1. PICK j \in DOMAIN cohorts, g \in Nat \ {0} :
              /\ <<cohorts[i], h>> = <<cohorts[j], g>> /\ Fits(dataset, j, g)
              /\ sliced[<<cohorts[i], h>>] = DataOf(dataset, j, g)
        BY <1>3 DEF SlicesAreOwn
    <2>2. cohorts[i] = cohorts[j] /\ h = g
        BY <2>1
    <2>3. i = j
        BY <1>1, <2>2 DEF IsInjective
    <2> QED
        BY <1>3, <2>1, <2>2, <2>3 DEF CachedSlice
  <1>4. CASE <<cohorts[i], h>> \notin DOMAIN sliced
      BY <1>2, <1>4 DEF CachedSlice
  <1> QED
      BY <1>3, <1>4

\* A slice that is cached is that of its key.
LEMMA SlicesGrow ==
    ASSUME InputsTyped, SlicesAreOwn, UNCHANGED <<dataset, cohorts>>,
           NEW i \in DOMAIN cohorts, NEW h \in Nat \ {0}, Fits(dataset, i, h),
           sliced' = WithEntry(sliced, <<cohorts[i], h>>, DataOf(dataset, i, h))
    PROVE  SlicesAreOwn'
  <1> DEFINE Own(key, value) == \E j \in DOMAIN cohorts, g \in Nat \ {0} :
                                   /\ key = <<cohorts[j], g>> /\ Fits(dataset, j, g)
                                   /\ value = DataOf(dataset, j, g)
             new == <<cohorts[i], h>>
  <1>1. \A key \in DOMAIN sliced : Own(key, sliced[key])
      BY DEF SlicesAreOwn
  <1>2. Own(new, DataOf(dataset, i, h))
      OBVIOUS
  <1> DEFINE value == DataOf(dataset, i, h)
  <1>5. /\ DOMAIN sliced' = DOMAIN sliced \union {new} /\ sliced'[new] = value
        /\ \A z \in DOMAIN sliced : z # new => sliced'[z] = sliced[z]
      BY DEF WithEntry
  <1> HIDE DEF Own, new, value
  <1>3. ASSUME NEW key \in DOMAIN sliced' PROVE Own(key, sliced'[key])
    <2>1. CASE key = new
        BY <1>2, <1>5, <2>1 DEF value
    <2>2. CASE key # new
      <3>1. key \in DOMAIN sliced /\ sliced'[key] = sliced[key]
          BY <1>3, <1>5, <2>2
      <3> QED
          BY <1>1, <3>1
    <2> QED
        BY <2>1, <2>2
  <1>4. \A key \in DOMAIN sliced' : \E j \in DOMAIN cohorts, g \in Nat \ {0} :
            /\ key = <<cohorts[j], g>> /\ Fits(dataset, j, g)
            /\ sliced'[key] = DataOf(dataset, j, g)
      BY <1>3 DEF Own
  <1> QED
      BY <1>4 DEF SlicesAreOwn, Fits, DataOf

\* A policy that is cached is that of its key.
LEMMA PoliciesGrow ==
    ASSUME PoliciesAreOwn, UNCHANGED <<study, configs>>, NEW config \in ToSet(configs),
           policies' = WithEntry(policies, PolicyKey(study, config), PolicyFor(study, config))
    PROVE  PoliciesAreOwn'
  <1> DEFINE Own(key, value) == \E f \in ToSet(configs) :
                                   key = PolicyKey(study, f) /\ value = PolicyFor(study, f)
             new == PolicyKey(study, config)
  <1>1. \A key \in DOMAIN policies : Own(key, policies[key])
      BY DEF PoliciesAreOwn
  <1>2. Own(new, PolicyFor(study, config))
      OBVIOUS
  <1> DEFINE value == PolicyFor(study, config)
  <1>5. /\ DOMAIN policies' = DOMAIN policies \union {new} /\ policies'[new] = value
        /\ \A z \in DOMAIN policies : z # new => policies'[z] = policies[z]
      BY DEF WithEntry
  <1> HIDE DEF Own, new, value
  <1>3. ASSUME NEW key \in DOMAIN policies' PROVE Own(key, policies'[key])
    <2>1. CASE key = new
        BY <1>2, <1>5, <2>1 DEF value
    <2>2. CASE key # new
      <3>1. key \in DOMAIN policies /\ policies'[key] = policies[key]
          BY <1>3, <1>5, <2>2
      <3> QED
          BY <1>1, <3>1
    <2> QED
        BY <2>1, <2>2
  <1>4. \A key \in DOMAIN policies' : \E f \in ToSet(configs) :
            key = PolicyKey(study, f) /\ policies'[key] = PolicyFor(study, f)
      BY <1>3 DEF Own
  <1>7. ToSet(configs') = ToSet(configs) /\ study' = study
      OBVIOUS
  <1>6. \A f : PolicyKey(study, f)' = PolicyKey(study, f) /\ PolicyFor(study, f)' = PolicyFor(study, f)
      BY <1>7
  <1> QED
      BY <1>4, <1>6, <1>7 DEF PoliciesAreOwn

\* From the cache or not, a policy is that of its configuration.
LEMMA CachedPolicyIsOwn ==
    ASSUME PoliciesAreOwn, NEW config
    PROVE  (IF PolicyKey(study, config) \in DOMAIN policies THEN policies[PolicyKey(study, config)]
            ELSE PolicyFor(study, config)) = PolicyFor(study, config)
  <1> DEFINE key == PolicyKey(study, config)
  <1>1. ASSUME key \in DOMAIN policies PROVE policies[key] = PolicyFor(study, config)
    <2>1. PICK f \in ToSet(configs) :
              key = PolicyKey(study, f) /\ policies[key] = PolicyFor(study, f)
        BY <1>1 DEF PoliciesAreOwn
    <2>2. PolicyFor(study, f) = PolicyFor(study, config)
        BY <2>1, KeyDeterminesPolicy
    <2> QED
        BY <2>1, <2>2
  <1> HIDE DEF key
  <1>2. (IF key \in DOMAIN policies THEN policies[key] ELSE PolicyFor(study, config))
            = PolicyFor(study, config)
      BY <1>1
  <1> QED
      BY <1>2 DEF key

\* Cohorts and configurations at the places of the double loop.
LEMMA PlacesOfUnits ==
    ASSUME InputsTyped, Configured, configs # <<>>
    PROVE  /\ Len(cohorts) \in 1 .. Len(dataset) /\ DOMAIN cohorts = 1 .. Len(cohorts)
           /\ \A i \in DOMAIN cohorts : cohorts[i] = dataset[i] /\ i \in 1 .. Len(dataset)
           /\ IsInjective(cohorts)
           /\ Len(configs) \in Nat \ {0} /\ DOMAIN configs = 1 .. Len(configs)
           /\ \A j \in DOMAIN configs : configs[j] \in ToSet(configs)
           /\ ToSet(configs) = ToSet(Configurations(study))
           /\ Len(cohorts) * Len(configs) \in Nat
           /\ \A k \in 1 .. Len(cohorts) * Len(configs) :
                 LoopPosition(k)[1] \in DOMAIN cohorts /\ LoopPosition(k)[2] \in DOMAIN configs
           /\ \A i \in DOMAIN cohorts, j \in DOMAIN configs :
                 \E k \in 1 .. Len(cohorts) * Len(configs) :
                    LoopPosition(k)[1] = i /\ LoopPosition(k)[2] = j
           /\ \A k, l \in 1 .. Len(cohorts) * Len(configs) :
                 LoopPosition(k)[1] = LoopPosition(l)[1] /\ LoopPosition(k)[2] = LoopPosition(l)[2]
                 => k = l
           /\ \A k, l \in 1 .. Len(cohorts) * Len(configs) :
                 k <= l => LoopPosition(k)[1] <= LoopPosition(l)[1]
  <1> DEFINE m == Len(cohorts)
             n == Len(configs)
  <1>1. /\ study \in Studies /\ dataset \in Datasets /\ HasHorizons(study) /\ ValidAxes(study)
        /\ CohortHorizon(study) <= Len(dataset)
        /\ cohorts = CohortsOf(study, dataset) /\ configs = Configurations(study)
      BY DEF InputsTyped, Configured, Generated
  <1>2. /\ m \in 1 .. Len(dataset) /\ DOMAIN cohorts = 1 .. m
        /\ \A i \in DOMAIN cohorts : cohorts[i] = dataset[i]
        /\ IsInjective(cohorts) /\ Len(dataset) \in Nat
    <2>1. Len(dataset) \in Nat
        BY <1>1, MonthsFollow
    <2> QED
        BY <1>1, <2>1, CohortsComeFirst
  <1>3. configs \in Seq(ToSet(configs))
      BY <1>1, ConfigurationsAreDeclared
  <1>4. n \in Nat \ {0} /\ DOMAIN configs = 1 .. n /\ \A j \in DOMAIN configs : configs[j] \in ToSet(configs)
      BY <1>3 DEF ToSet
  <1>5. m \in Nat
      BY <1>2
  <1> DEFINE row(k) == ((k - 1) \div n) + 1
             column(k) == ((k - 1) % n) + 1
  <1>6. \A k : LoopPosition(k)[1] = row(k) /\ LoopPosition(k)[2] = column(k)
      BY DEF LoopPosition
  <1>7. \A i \in DOMAIN cohorts : i \in 1 .. Len(dataset)
      BY <1>2
  <1> HIDE DEF m, n
  <1>8. /\ m * n \in Nat
        /\ \A k \in 1 .. m * n : row(k) \in 1 .. m /\ column(k) \in 1 .. n
        /\ \A i \in 1 .. m, j \in 1 .. n : \E k \in 1 .. m * n : row(k) = i /\ column(k) = j
        /\ \A k, l \in 1 .. m * n : row(k) = row(l) /\ column(k) = column(l) => k = l
      BY <1>4, <1>5, RowsAndColumns
  <1>9. ASSUME NEW k \in 1 .. m * n, NEW l \in 1 .. m * n, k <= l PROVE row(k) <= row(l)
    <2>1. k - 1 \in Nat /\ l - 1 \in Nat /\ k - 1 <= l - 1
        BY <1>8, <1>9
    <2>2. (k - 1) \div n <= (l - 1) \div n
        BY <1>4, <2>1, DivisionGrows
    <2>3. (k - 1) \div n \in Nat /\ (l - 1) \div n \in Nat
        BY <1>4, <2>1, Division
    <2> QED
        BY <2>2, <2>3
  <1> HIDE DEF row, column
  <1> DEFINE C == m * n
  <1>10. /\ C = Len(cohorts) * Len(configs) /\ m = Len(cohorts) /\ n = Len(configs)
      BY DEF m, n
  <1>11. /\ C \in Nat
         /\ \A k \in 1 .. C : LoopPosition(k)[1] \in 1 .. m /\ LoopPosition(k)[2] \in 1 .. n
         /\ \A i \in 1 .. m, j \in 1 .. n :
               \E k \in 1 .. C : LoopPosition(k)[1] = i /\ LoopPosition(k)[2] = j
         /\ \A k, l \in 1 .. C :
               LoopPosition(k)[1] = LoopPosition(l)[1] /\ LoopPosition(k)[2] = LoopPosition(l)[2]
               => k = l
         /\ \A k, l \in 1 .. C : k <= l => LoopPosition(k)[1] <= LoopPosition(l)[1]
    <2> HIDE DEF C
    <2> QED
        BY <1>6, <1>8, <1>9 DEF C
  <1> HIDE DEF C
  <1>12. /\ DOMAIN cohorts = 1 .. m /\ DOMAIN configs = 1 .. n /\ m \in 1 .. Len(dataset)
         /\ ToSet(configs) = ToSet(Configurations(study))
      BY <1>1, <1>2, <1>4
  <1>13. /\ \A k \in 1 .. C : LoopPosition(k)[1] \in DOMAIN cohorts /\ LoopPosition(k)[2] \in DOMAIN configs
         /\ \A i \in DOMAIN cohorts, j \in DOMAIN configs :
               \E k \in 1 .. C : LoopPosition(k)[1] = i /\ LoopPosition(k)[2] = j
    <2> DEFINE M == 1 .. m
               N == 1 .. n
    <2>1. /\ \A k \in 1 .. C : LoopPosition(k)[1] \in M /\ LoopPosition(k)[2] \in N
          /\ \A i \in M, j \in N : \E k \in 1 .. C : LoopPosition(k)[1] = i /\ LoopPosition(k)[2] = j
        BY <1>11
    <2>2. DOMAIN cohorts = M /\ DOMAIN configs = N
        BY <1>12
    <2> HIDE DEF M, N
    <2> QED
        BY <2>1, <2>2
  <1> QED
      BY <1>2, <1>4, <1>7, <1>10, <1>11, <1>12, <1>13

----------------------------------------------------------------------------
(* Steps of the build.                                                     *)

\* A sequence is one of its own elements.
LEMMA SequenceOfItsElements ==
    ASSUME NEW T, NEW v \in Seq(T) PROVE v \in Seq(ToSet(v))
  BY DEF ToSet

\* The unit of the next place joins the others.
LEMMA UnitsGrow ==
    ASSUME InputsTyped, Configured, configs # <<>>, UnitsAreOwn, pc = "units", ~Planned,
           UNCHANGED <<inputs, pc, cohorts, configs>>,
           NEW i, i = LoopPosition(Len(units) + 1)[1],
           NEW config, config = configs[LoopPosition(Len(units) + 1)[2]],
           Plannable(study, dataset, rates, i, config),
           units' = Append(units, UnitOf(study, dataset, i, config))
    PROVE  UnitsAreOwn'
  <1> DEFINE n == Len(units)
             u == UnitOf(study, dataset, i, config)
             C == Len(cohorts) * Len(configs)
             Own(k, v) == /\ v = UnitOf(study, dataset, LoopPosition(k)[1], configs[LoopPosition(k)[2]])
                          /\ Plannable(study, dataset, rates, LoopPosition(k)[1],
                                       configs[LoopPosition(k)[2]])
  <1>1. /\ units \in Seq(ToSet(units)) /\ n <= C /\ n # C
        /\ \A k \in 1 .. n : Own(k, units[k])
      BY DEF UnitsAreOwn, Planned
  <1>2. Own(n + 1, u)
      OBVIOUS
  <1>3. C \in Nat
      BY PlacesOfUnits
  <1>4. units' = Append(units, u)
      OBVIOUS
  <1> HIDE DEF u, C, Own
  <1>5. /\ units' \in Seq(ToSet(units) \union {u}) /\ Len(units') = n + 1 /\ n \in Nat
        /\ \A k \in 1 .. n : units'[k] = units[k]
        /\ units'[n + 1] = u
      BY <1>1, <1>4
  <1>6. units' \in Seq(ToSet(units'))
      BY <1>5, SequenceOfItsElements
  <1>7. n + 1 <= C
      BY <1>1, <1>3, <1>5
  <1>8. \A k \in 1 .. n + 1 : Own(k, units'[k])
    <2> TAKE k \in 1 .. n + 1
    <2>1. CASE k = n + 1
        BY <1>2, <1>5, <2>1
    <2>2. CASE k # n + 1
      <3>1. k \in 1 .. n
          BY <1>5, <2>2
      <3> QED
          BY <1>1, <1>5, <3>1
    <2> QED
        BY <2>1, <2>2
  <1>9. \A k : LoopPosition(k)' = LoopPosition(k)
      BY DEF LoopPosition
  <1>10. \A k \in 1 .. Len(units') :
            /\ units'[k] = UnitOf(study, dataset, LoopPosition(k)[1], configs[LoopPosition(k)[2]])'
            /\ Plannable(study, dataset, rates, LoopPosition(k)[1], configs[LoopPosition(k)[2]])'
    <2> TAKE k \in 1 .. Len(units')
    <2>1. Own(k, units'[k])
        BY <1>5, <1>8
    <2>2. LoopPosition(k)' = LoopPosition(k) /\ configs' = configs /\ study' = study
          /\ dataset' = dataset /\ rates' = rates
        BY <1>9 DEF inputs
    <2> QED
        BY <2>1, <2>2 DEF Own
  <1>11. Configured' /\ (configs # <<>>)' /\ pc' # "done"
      BY DEF Configured, Generated, inputs
  <1>12. (Len(units) <= Len(cohorts) * Len(configs))'
      BY <1>5, <1>7 DEF C
  <1> QED
      BY <1>6, <1>10, <1>11, <1>12 DEF UnitsAreOwn

\* An exception that has a reason leaves everything as it was.
LEMMA RaiseKeeps ==
    ASSUME PlanInvariant, NEW why, why # "none", ReasonFor(why), Raise(why)
    PROVE  PlanInvariant'
  <1> USE DEF Raise, inputs
  <1>1. InputsTyped'
      BY DEF PlanInvariant, InputsTyped
  <1>2. Progress'
      BY DEF PlanInvariant, Progress, Configured, Generated
  <1>3. AccumulationsAreOwn'
      BY DEF PlanInvariant, AccumulationsAreOwn, Accumulated
  <1>4. SlicesAreOwn'
      BY DEF PlanInvariant, SlicesAreOwn
  <1>5. PoliciesAreOwn'
      BY DEF PlanInvariant, PoliciesAreOwn
  <1>6. UnitsAreOwn'
      BY DEF PlanInvariant, UnitsAreOwn, Configured, Generated, LoopPosition
  <1>7. ReasonFor(error)'
      BY DEF ReasonFor, NeededDates
  <1> QED
      BY <1>1, <1>2, <1>3, <1>4, <1>5, <1>6, <1>7 DEF PlanInvariant

\* So does a step of the builder that only goes on, if it may.
LEMMA GotoKeeps ==
    ASSUME PlanInvariant, UNCHANGED <<inputs, error, cohorts, configs, sliced, policies, accumulated,
                                      accumulations, units>>,
           pc # "raised", pc' # "raised", InputsTyped', Progress',
           pc' \in {"experiment", "rates", "units", "done"} /\ study.omy =>
              \A i \in DOMAIN cohorts : Accumulated(i),
           pc' = "done" =>
              Planned /\ IsInjective([k \in DOMAIN units |-> <<units[k].cohort, units[k].config>>])
    PROVE  PlanInvariant'
  <1> USE DEF inputs
  <1>3. AccumulationsAreOwn'
      BY DEF PlanInvariant, AccumulationsAreOwn, Accumulated
  <1>4. SlicesAreOwn'
      BY DEF PlanInvariant, SlicesAreOwn
  <1>5. PoliciesAreOwn'
      BY DEF PlanInvariant, PoliciesAreOwn
  <1>6. UnitsAreOwn'
      BY DEF PlanInvariant, UnitsAreOwn, Configured, Generated, LoopPosition, Planned
  <1>7. ReasonFor(error)'
      BY DEF PlanInvariant, ReasonFor, NeededDates
  <1> QED
      BY <1>3, <1>4, <1>5, <1>6, <1>7 DEF PlanInvariant

\* Nothing is there before the build begins.
LEMMA InitSatisfies == ASSUME Init PROVE PlanInvariant
  <1>1. /\ study \in Studies /\ dataset \in Datasets /\ rates \in RateFiles
        /\ pc = IF study.yaml THEN "parse" ELSE "cohorts"
        /\ error = "none" /\ cohorts = <<>> /\ configs = <<>> /\ sliced = <<>> /\ policies = <<>>
        /\ accumulated = <<>> /\ accumulations = <<>> /\ units = <<>>
      BY DEF Init
  <1>2. InputsTyped
      BY <1>1 DEF InputsTyped
  <1>3. Progress
    <2>1. pc = "cohorts" => HasHorizons(study)
        BY <1>1, StudyTypes DEF HasHorizons
    <2> QED
        BY <1>1, <2>1 DEF Progress
  <1>4. AccumulationsAreOwn
    <2>1. accumulations \in Seq(ToSet(cohorts)) /\ IsInjective(accumulations)
        BY <1>1 DEF IsInjective
    <2>2. ToSet(accumulations) = DOMAIN accumulated
        BY <1>1 DEF ToSet
    <2> QED
        BY <1>1, <2>1, <2>2 DEF AccumulationsAreOwn
  <1>5. SlicesAreOwn /\ PoliciesAreOwn
      BY <1>1 DEF SlicesAreOwn, PoliciesAreOwn
  <1>6. UnitsAreOwn
      BY <1>1 DEF UnitsAreOwn, Planned
  <1>7. ReasonFor(error)
      BY <1>1 DEF ReasonFor
  <1> QED
      BY <1>2, <1>3, <1>4, <1>5, <1>6, <1>7 DEF PlanInvariant

\* A study that is not malformed has horizons.
LEMMA ParseStudyKeeps == ASSUME PlanInvariant, ParseStudy PROVE PlanInvariant'
  <1>1. InputsTyped /\ Progress /\ pc = "parse"
      BY DEF PlanInvariant, ParseStudy
  <1>2. CASE Malformed(study)
    <2>1. Raise("study") /\ ReasonFor("study")
        BY <1>2 DEF ParseStudy, ReasonFor
    <2> QED
        BY <2>1, RaiseKeeps
  <1>3. CASE ~Malformed(study)
    <2>1. pc' = "cohorts" /\ UNCHANGED <<inputs, error, cohorts, configs, sliced, policies,
                                         accumulated, accumulations, units>>
        BY <1>3 DEF ParseStudy, Goto
    <2>2. HasHorizons(study)
      <3>1. study \in Studies /\ "horizon_years" \in Settings
          BY <1>1 DEF InputsTyped, Settings, Arrays
      <3>2. Kind(study, "horizon_years") \in {"absent", "scalar", "array"}
          BY <3>1, StudiesAssumption DEF Kind
      <3>3. Kind(study, "horizon_years") = "array" /\ Values(study, "horizon_years") # <<>>
          BY <1>3, <3>2 DEF Malformed, ParsedArrays, Required, Declared
      <3>4. \A k \in DOMAIN Values(study, "horizon_years") : Values(study, "horizon_years")[k] > 0
        <4>1. \A k \in DOMAIN Values(study, "horizon_years") :
                  /\ ~(Values(study, "horizon_years")[k] <= 0)
                  /\ Values(study, "horizon_years")[k] \in ToSet(Values(study, "horizon_years"))
            BY <1>3 DEF Malformed, ToSet
        <4>2. ToSet(Values(study, "horizon_years")) \subseteq Int
            BY <3>1, StudyTypes
        <4> QED
            BY <4>1, <4>2
      <3> QED
          BY <3>3, <3>4 DEF HasHorizons, ToSet
    <2>3. InputsTyped' /\ Progress'
        BY <1>1, <2>1, <2>2 DEF InputsTyped, Progress, Configured, Generated, inputs
    <2> QED
        BY <1>1, <2>1, <2>3, GotoKeeps
  <1> QED
      BY <1>2, <1>3

\* The cohorts come before anything that is made of them.
LEMMA GenerateCohortsKeeps == ASSUME PlanInvariant, GenerateCohorts PROVE PlanInvariant'
  <1> DEFINE h == CohortHorizon(study)
  <1>1. /\ InputsTyped /\ Progress /\ pc = "cohorts" /\ cohorts = <<>> /\ configs = <<>>
        /\ HasHorizons(study) /\ study \in Studies /\ dataset \in Datasets
      BY DEF PlanInvariant, GenerateCohorts, Progress, InputsTyped
  <1>2. h \in Nat \ {0} /\ Len(dataset) \in Nat
      BY <1>1, CohortHorizonIsPositive, MonthsFollow
  <1>3. CASE Len(dataset) < h
    <2>1. Raise("dataset") /\ ReasonFor("dataset")
        BY <1>3 DEF GenerateCohorts, ReasonFor
    <2> QED
        BY <2>1, RaiseKeeps
  <1>4. CASE ~(Len(dataset) < h)
    <2>1. h <= Len(dataset)
        BY <1>2, <1>4
    <2>2. /\ cohorts' = SubSeq(dataset, 1, Cardinality({i \in DOMAIN dataset : Feasible(dataset, i, h)}))
          /\ pc' = "configurations"
          /\ UNCHANGED <<inputs, error, configs, sliced, policies, accumulated, accumulations, units>>
        BY <1>4 DEF GenerateCohorts, Goto
    <2>3. Cardinality({i \in DOMAIN dataset : Feasible(dataset, i, h)}) = Len(dataset) - h + 1
        BY <1>1, <1>2, <2>1, FeasibleComeFirst
    <2>4. cohorts' = CohortsOf(study, dataset)
        BY <2>2, <2>3 DEF CohortsOf
    <2>5. Generated'
        BY <1>1, <2>1, <2>2, <2>4 DEF Generated, inputs
    <2>6. InputsTyped'
        BY <1>1, <2>2 DEF InputsTyped, inputs
    <2>7. Progress'
        BY <1>1, <2>2, <2>5 DEF Progress, inputs
    <2>8. /\ DOMAIN accumulated = {} /\ ToSet(accumulations) = {} /\ accumulations = <<>>
          /\ DOMAIN sliced = {} /\ DOMAIN policies = {} /\ units = <<>>
      <3>1. /\ accumulations \in Seq(ToSet(cohorts)) /\ ToSet(accumulations) = DOMAIN accumulated
            /\ \A key \in DOMAIN sliced : \E i \in DOMAIN cohorts : TRUE
            /\ \A key \in DOMAIN policies : \E config \in ToSet(configs) : TRUE
            /\ Len(units) <= Len(cohorts) * Len(configs) /\ units \in Seq(ToSet(units))
          BY DEF PlanInvariant, AccumulationsAreOwn, SlicesAreOwn, PoliciesAreOwn, UnitsAreOwn
      <3>2. ToSet(<<>>) = {} /\ DOMAIN <<>> = {} /\ Len(<<>>) = 0
          BY DEF ToSet
      <3>3. accumulations = <<>>
          BY <1>1, <3>1, <3>2
      <3>4. units = <<>>
          BY <1>1, <3>1, <3>2
      <3> QED
          BY <1>1, <3>1, <3>2, <3>3, <3>4
    <2>9. AccumulationsAreOwn'
      <3>1. (accumulations \in Seq(ToSet(cohorts)) /\ IsInjective(accumulations))'
          BY <2>2, <2>8 DEF IsInjective
      <3>2. (ToSet(accumulations) = DOMAIN accumulated)'
          BY <2>2, <2>8
      <3>3. (\A i \in DOMAIN cohorts : ~Accumulated(i))'
          BY <2>2, <2>8 DEF Accumulated
      <3> QED
          BY <2>2, <3>1, <3>2, <3>3 DEF AccumulationsAreOwn
    <2>10. SlicesAreOwn' /\ PoliciesAreOwn'
        BY <2>2, <2>8 DEF SlicesAreOwn, PoliciesAreOwn
    <2>11. UnitsAreOwn'
      <3>1. configs' = <<>> /\ units' = <<>> /\ pc' # "done"
          BY <1>1, <2>2, <2>8
      <3>2. cohorts' \in Seq([month : Nat, day : Nat])
          BY <1>1, <2>1, <2>4, CohortsComeFirst
      <3>3. Len(cohorts') * Len(configs') = 0
          BY <3>1, <3>2
      <3> QED
          BY <3>1, <3>3 DEF UnitsAreOwn
    <2>12. ReasonFor(error)'
      <3>1. error' = "none"
          BY <1>1, <2>2 DEF InputsTyped
      <3> QED
          BY <3>1 DEF ReasonFor
    <2> QED
        BY <2>6, <2>7, <2>9, <2>10, <2>11, <2>12 DEF PlanInvariant
  <1> QED
      BY <1>3, <1>4

\* The configurations come before any unit.
LEMMA ConfigureParametersKeeps == ASSUME PlanInvariant, ConfigureParameters PROVE PlanInvariant'
  <1>1. /\ InputsTyped /\ Progress /\ pc = "configurations" /\ configs = <<>> /\ Generated
        /\ HasHorizons(study) /\ study \in Studies /\ dataset \in Datasets
      BY DEF PlanInvariant, ConfigureParameters, Progress, InputsTyped
  <1> DEFINE refused == \/ \E name \in ToSet(Axes(study)) : ~ValidAxis(study, name)
                        \/ study.explicit /\ <<>> \in ToSet(study.configurations)
  <1>2. CASE refused
    <2>1. Raise("configuration") /\ ReasonFor("configuration")
        BY <1>2 DEF ConfigureParameters, ReasonFor
    <2> QED
        BY <2>1, RaiseKeeps
  <1>3. CASE ~refused
    <2>1. /\ configs' = Configurations(study)
          /\ pc' = IF study.omy THEN "accumulation" ELSE "experiment"
          /\ UNCHANGED <<inputs, error, cohorts, sliced, policies, accumulated, accumulations, units>>
        BY <1>3 DEF ConfigureParameters, Goto
    <2>2. ValidAxes(study)
        BY <1>3 DEF ValidAxes
    <2>3. Configured' /\ Generated'
        BY <1>1, <2>1, <2>2 DEF Configured, Generated, inputs
    <2>4. InputsTyped'
        BY <1>1, <2>1 DEF InputsTyped, inputs
    <2>5. Progress'
        BY <1>1, <2>1, <2>3 DEF Progress, inputs
    <2>6. DOMAIN policies = {} /\ units = <<>> /\ ToSet(<<>>) = {}
      <3>1. /\ \A key \in DOMAIN policies : \E config \in ToSet(configs) : TRUE
            /\ Len(units) <= Len(cohorts) * Len(configs) /\ units \in Seq(ToSet(units))
          BY DEF PlanInvariant, PoliciesAreOwn, UnitsAreOwn
      <3>2. ToSet(<<>>) = {} /\ Len(<<>>) = 0
          BY DEF ToSet
      <3>3. Len(cohorts) \in Nat
          BY <1>1, CohortsComeFirst DEF Generated
      <3>4. Len(cohorts) * Len(configs) = 0
          BY <1>1, <3>2, <3>3
      <3>5. units = <<>>
          BY <3>1, <3>4
      <3> QED
          BY <1>1, <3>1, <3>2, <3>5
    <2>7. PoliciesAreOwn'
        BY <2>1, <2>6 DEF PoliciesAreOwn
    <2>8. AccumulationsAreOwn'
      <3>1. ~(pc' \in {"experiment", "rates", "units", "done"} /\ study.omy)
          BY <1>1, <2>1, StudyTypes
      <3>2. UNCHANGED <<study, dataset, cohorts, accumulated, accumulations>>
          BY <2>1 DEF inputs
      <3>3. AccumulationsAreOwn
          BY DEF PlanInvariant
      <3> QED
          BY <3>1, <3>2, <3>3 DEF AccumulationsAreOwn, Accumulated
    <2>9. SlicesAreOwn'
        BY <2>1 DEF PlanInvariant, SlicesAreOwn, inputs
    <2>10. UnitsAreOwn'
      <3>1. units' = <<>> /\ pc' # "done"
          BY <2>1, <2>6
      <3>2. Len(configs') \in Nat /\ Len(cohorts') \in Nat
        <4>1. Configurations(study) \in Seq(ToSet(Configurations(study)))
            BY <1>1, <2>2, ConfigurationsAreDeclared
        <4>2. Len(cohorts) \in Nat
            BY <1>1, CohortsComeFirst DEF Generated
        <4> QED
            BY <2>1, <4>1, <4>2
      <3>3. Len(cohorts') * Len(configs') \in Nat
          BY <3>2
      <3> QED
          BY <3>1, <3>3 DEF UnitsAreOwn
    <2>11. ReasonFor(error)'
      <3>1. error' = "none"
          BY <1>1, <2>1 DEF InputsTyped
      <3> QED
          BY <3>1 DEF ReasonFor
    <2> QED
        BY <2>4, <2>5, <2>7, <2>8, <2>9, <2>10, <2>11 DEF PlanInvariant
  <1> QED
      BY <1>2, <1>3

\* The first configuration has what the experiment needs.
LEMMA DefineExperimentKeeps == ASSUME PlanInvariant, DefineExperiment PROVE PlanInvariant'
  <1>1. InputsTyped /\ Progress /\ pc = "experiment" /\ Configured
      BY DEF PlanInvariant, DefineExperiment, Progress
  <1> DEFINE there == configs # <<>> /\ ToSet(AllocationNames(study)) \subseteq DOMAIN configs[1]
  <1>2. CASE ~there
    <2>1. Raise("configuration") /\ ReasonFor("configuration")
        BY <1>2 DEF DefineExperiment, ReasonFor
    <2> QED
        BY <2>1, RaiseKeeps
  <1>3. CASE there
    <2>1. /\ pc' = IF study.floating /\ ~study.omy THEN "rates" ELSE "units"
          /\ UNCHANGED <<inputs, error, cohorts, configs, sliced, policies, accumulated,
                         accumulations, units>>
        BY <1>3 DEF DefineExperiment, Goto
    <2>2. study.omy => \A i \in DOMAIN cohorts : Accumulated(i)
        BY <1>1 DEF PlanInvariant, AccumulationsAreOwn
    <2>3. InputsTyped' /\ Progress'
        BY <1>1, <1>3, <2>1 DEF InputsTyped, Progress, Configured, Generated, inputs
    <2> QED
        BY <1>1, <2>1, <2>2, <2>3, GotoKeeps
  <1> QED
      BY <1>2, <1>3

\* The first month of the first cohort needs a rate, so no file will not do.
LEMMA RatesAreNeeded ==
    ASSUME InputsTyped, Configured, NEW i \in DOMAIN cohorts
    PROVE  /\ ToSet(Periods(cohorts[i], Observations(LongestHorizon(study)))) \subseteq NeededDates
           /\ ToSet(Periods(cohorts[i], Observations(LongestHorizon(study)))) # {}
  <1> DEFINE O == Observations(LongestHorizon(study))
  <1>1. O \in Nat \ {0}
      BY LongestHorizonIsDeclared, ObservationsGrow DEF Configured, Generated, InputsTyped
  <1> HIDE DEF O
  <1>2. ToSet(Periods(cohorts[i], O)) \subseteq UNION {ToSet(Periods(cohorts[j], O)) : j \in DOMAIN cohorts}
      OBVIOUS
  <1>3. 1 \in DOMAIN Periods(cohorts[i], O)
      BY <1>1 DEF Periods
  <1>4. Periods(cohorts[i], O)[1] \in ToSet(Periods(cohorts[i], O))
      BY <1>3 DEF ToSet
  <1> QED
      BY <1>2, <1>4 DEF NeededDates, O

\* Borrowing needs rates, and a file with some is there.
LEMMA LoadRatesKeeps == ASSUME PlanInvariant, LoadRates PROVE PlanInvariant'
  <1>1. InputsTyped /\ Progress /\ pc = "rates" /\ Configured /\ configs # <<>>
        /\ study.floating /\ ~study.omy
      BY DEF PlanInvariant, LoadRates, Progress
  <1>2. CASE rates = {}
    <2>1. 1 \in DOMAIN cohorts
        BY <1>1, PlacesOfUnits
    <2>2. ~(NeededDates \subseteq rates)
        BY <1>1, <1>2, <2>1, RatesAreNeeded
    <2>3. Raise("rates") /\ ReasonFor("rates")
        BY <1>1, <1>2, <2>2 DEF LoadRates, ReasonFor
    <2> QED
        BY <2>3, RaiseKeeps
  <1>3. CASE rates # {}
    <2>1. /\ pc' = "units"
          /\ UNCHANGED <<inputs, error, cohorts, configs, sliced, policies, accumulated,
                         accumulations, units>>
        BY <1>3 DEF LoadRates, Goto
    <2>2. InputsTyped' /\ Progress'
        BY <1>1, <1>3, <2>1 DEF InputsTyped, Progress, Configured, Generated, inputs
    <2> QED
        BY <1>1, <2>1, <2>2, GotoKeeps
  <1> QED
      BY <1>2, <1>3

\* What is accumulated from a cohort on: contributions at its prices and the next
\* ones, worth what they are at the prices after the last.
LEMMA AccumulationIsOwn ==
    ASSUME NEW d \in Datasets, NEW i \in 1 .. Len(d), Fits(d, i, AccumulationMonths + 1)
    PROVE  Accumulation(InitialPortfolio(d), DataOf(d, i, AccumulationMonths + 1)) = AccumulatedOf(d, i)
  <1> DEFINE A == AccumulationMonths
             e == DataOf(d, i, A + 1)
             Months == [month : Nat, day : Nat]
  <1>1. A \in Nat \ {0} /\ A + 1 \in Nat \ {0} /\ Len(d) \in Nat
      BY BoundsAssumption, MonthsFollow
  <1>2. i + (A + 1) - 1 <= Len(d) /\ i + A - 1 <= Len(d)
      BY <1>1 DEF Fits
  <1> HIDE DEF A
  <1>3. /\ e \in Seq(Months) /\ Len(e) = A + 1
        /\ \A k \in 1 .. A + 1 : e[k] = d[i + k - 1]
      BY <1>1, <1>2, SliceOfDataset DEF DataOf
  <1>4. /\ SubSeq(d, i, i + A - 1) \in Seq(Months) /\ Len(SubSeq(d, i, i + A - 1)) = A
        /\ \A k \in 1 .. A : SubSeq(d, i, i + A - 1)[k] = d[i + k - 1]
      BY <1>1, <1>2, SliceOfDataset
  <1> DEFINE c == SubSeq(e, 1, A)
             f == SubSeq(d, i, i + A - 1)
  <1>5. c \in Seq(Months) /\ Len(c) = A /\ \A k \in 1 .. A : c[k] = e[k]
    <2> HIDE DEF e
    <2>1. /\ c \in Seq(Months)
          /\ Len(c) = IF 1 <= A THEN A - 1 + 1 ELSE 0
          /\ \A k \in 1 .. A - 1 + 1 : c[k] = e[1 + k - 1]
      <3>1. 1 \in 1 .. Len(e) + 1 /\ A \in 0 .. Len(e)
          BY <1>1, <1>3
      <3>2. \A k \in 1 .. A : e[k] \in Months
        <4> HIDE DEF Months
        <4>1. \A k \in 1 .. Len(e) : e[k] \in Months
            BY <1>3, ElementsOfSequence
        <4> QED
            BY <1>1, <1>3, <4>1
      <3> QED
          BY <1>3, <3>1, <3>2, SubSeqProperties
    <2> QED
        BY <1>1, <2>1
  <1>6. c = f
    <2> HIDE DEF c, f, e, Months
    <2>1. \A k \in 1 .. A : c[k] = f[k]
        BY <1>1, <1>3, <1>4, <1>5 DEF f
    <2> QED
        BY <1>4, <1>5, <2>1, SeqEqual DEF f
  <1>7. e[A + 1] = d[i + A]
    <2> HIDE DEF e
    <2>1. A + 1 \in 1 .. A + 1 /\ i + (A + 1) - 1 = i + A
        BY <1>1
    <2> QED
        BY <1>3, <2>1
  <1>8. <<>> \o f = f
      BY <1>4
  <1>9. Accumulation(InitialPortfolio(d), e) =
            [bought |-> d[1], contributed |-> <<>> \o c, valued |-> e[A + 1]]
    <2> HIDE DEF e
    <2> DEFINE p == InitialPortfolio(d)
               x == <<>> \o c
               y == e[A + 1]
    <2>1. p = [bought |-> d[1], contributed |-> <<>>, valued |-> d[1]] /\ p.contributed = <<>>
        BY DEF InitialPortfolio
    <2>2. Accumulation(p, e) = [p EXCEPT !.contributed = p.contributed \o c, !.valued = y]
        BY DEF Accumulation, A
    <2>3. Accumulation(p, e) = [p EXCEPT !.contributed = x, !.valued = y]
        BY <2>1, <2>2
    <2> HIDE DEF p, x, y
    <2>4. [p EXCEPT !.contributed = x, !.valued = y] = [bought |-> d[1], contributed |-> x, valued |-> y]
      <3>1. [p EXCEPT !.contributed = x] = [bought |-> d[1], contributed |-> x, valued |-> d[1]]
          BY <2>1
      <3> DEFINE q == [bought |-> d[1], contributed |-> x, valued |-> d[1]]
      <3>2. [q EXCEPT !.valued = y] = [bought |-> d[1], contributed |-> x, valued |-> y]
          OBVIOUS
      <3> QED
          BY <3>1, <3>2
    <2> QED
        BY <2>3, <2>4 DEF p, x, y
  <1> HIDE DEF c, e
  <1> QED
      BY <1>6, <1>7, <1>8, <1>9 DEF AccumulatedOf, A, e

\* Each cohort accumulates once, from its own data.
LEMMA AccumulateKeeps == ASSUME PlanInvariant, Accumulate PROVE PlanInvariant'
  <1>1. /\ InputsTyped /\ Progress /\ pc = "accumulation" /\ Configured /\ Generated /\ study.omy
        /\ AccumulationsAreOwn /\ study \in Studies /\ dataset \in Datasets
      BY DEF PlanInvariant, Accumulate, Progress, Configured, InputsTyped
  <1>2. /\ DOMAIN cohorts = 1 .. Len(cohorts) /\ Len(cohorts) \in Nat
        /\ \A k \in DOMAIN cohorts : cohorts[k] = dataset[k] /\ k \in 1 .. Len(dataset)
        /\ IsInjective(cohorts)
    <2>1. /\ cohorts = CohortsOf(study, dataset)
          /\ HasHorizons(study) /\ CohortHorizon(study) <= Len(dataset)
        BY <1>1 DEF Generated
    <2>2. Len(dataset) \in Nat
        BY <1>1, MonthsFollow
    <2>3. /\ Len(cohorts) \in 1 .. Len(dataset) /\ DOMAIN cohorts = 1 .. Len(cohorts)
          /\ \A k \in DOMAIN cohorts : cohorts[k] = dataset[k]
          /\ IsInjective(cohorts)
        BY <1>1, <2>1, CohortsComeFirst
    <2> QED
        BY <2>2, <2>3
  <1> DEFINE todo == {i \in DOMAIN cohorts : cohorts[i] \notin DOMAIN accumulated}
             least == CHOOSE i \in todo : \A j \in todo : i <= j
  <1>3. CASE todo = {}
    <2>1. pc' = "experiment" /\ UNCHANGED <<inputs, error, cohorts, configs, sliced, policies,
                                            accumulated, accumulations, units>>
        BY <1>3 DEF Accumulate, Goto
    <2>2. \A i \in DOMAIN cohorts : Accumulated(i)
        BY <1>3 DEF Accumulated
    <2>3. InputsTyped' /\ Progress'
        BY <1>1, <2>1 DEF InputsTyped, Progress, Configured, Generated, inputs
    <2> QED
        BY <1>1, <2>1, <2>2, <2>3, GotoKeeps
  <1>4. CASE todo # {}
    <2> DEFINE date == cohorts[least]
               H == AccumulationMonths + 1
    <2>1. least \in todo
      <3>1. \E i \in todo : \A j \in todo : i <= j
        <4>1. todo \subseteq Nat
            BY <1>2
        <4> HIDE DEF todo
        <4> QED
            BY <1>4, <4>1, LeastNumber
      <3> HIDE DEF todo
      <3> QED
          BY <3>1
    <2>2. PICK d \in Slice(dataset, date, H) :
              /\ accumulated' = WithEntry(accumulated, date, Accumulation(InitialPortfolio(dataset), d))
              /\ accumulations' = Append(accumulations, date)
              /\ Goto("accumulation")
        BY <1>4 DEF Accumulate
    <2>3. UNCHANGED <<study, dataset, rates, pc, error, cohorts, configs, sliced, policies, units>>
        BY <1>1, <1>4, <2>2 DEF Accumulate, Goto, inputs
    <2>4. least \in DOMAIN cohorts /\ date \notin DOMAIN accumulated /\ date = dataset[least]
          /\ least \in 1 .. Len(dataset) /\ date \in ToSet(cohorts)
      <3>1. least \in DOMAIN cohorts /\ date \notin DOMAIN accumulated
          BY <2>1
      <3> HIDE DEF least
      <3> QED
          BY <1>2, <3>1 DEF ToSet
    <2> HIDE DEF least, todo
    <2>5. H \in Nat \ {0}
        BY BoundsAssumption
    <2>6. Fits(dataset, least, H) /\ d = DataOf(dataset, least, H)
      <3>1. Slice(dataset, date, H) =
                IF Fits(dataset, least, H) THEN {DataOf(dataset, least, H)} ELSE {}
        <4> HIDE DEF H
        <4>1. dataset \in Datasets /\ least \in 1 .. Len(dataset) /\ date = dataset[least]
            BY <1>1, <2>4
        <4>2. Slice(dataset, dataset[least], H) =
                  IF Fits(dataset, least, H) THEN {DataOf(dataset, least, H)} ELSE {}
            BY <2>5, <4>1, SliceOfDataset
        <4> QED
            BY <4>1, <4>2
      <3> HIDE DEF H
      <3> QED
          BY <3>1
    <2> DEFINE value == AccumulatedOf(dataset, least)
    <2>7. Accumulation(InitialPortfolio(dataset), d) = value
        BY <1>1, <2>4, <2>6, AccumulationIsOwn
    <2>8. /\ accumulated' = WithEntry(accumulated, date, value)
          /\ accumulations' = Append(accumulations, date)
        BY <2>2, <2>7
    <2>9. /\ DOMAIN accumulated' = DOMAIN accumulated \union {date} /\ accumulated'[date] = value
          /\ \A z \in DOMAIN accumulated : z # date => accumulated'[z] = accumulated[z]
      <3> HIDE DEF value, date
      <3> QED
          BY <2>8 DEF WithEntry
    <2>10. AccumulationsAreOwn'
      <3>1. /\ accumulations \in Seq(ToSet(cohorts)) /\ IsInjective(accumulations)
            /\ ToSet(accumulations) = DOMAIN accumulated
            /\ \A i \in DOMAIN cohorts :
                  Accumulated(i) => accumulated[cohorts[i]] = AccumulatedOf(dataset, i)
          BY <1>1 DEF AccumulationsAreOwn
      <3> HIDE DEF date, value
      <3>2. DOMAIN accumulations = 1 .. Len(accumulations) /\ Len(accumulations) \in Nat
          BY <3>1
      <3>3. /\ accumulations' \in Seq(ToSet(cohorts)) /\ Len(accumulations') = Len(accumulations) + 1
            /\ DOMAIN accumulations' = 1 .. Len(accumulations) + 1
            /\ \A k \in 1 .. Len(accumulations) : accumulations'[k] = accumulations[k]
            /\ accumulations'[Len(accumulations) + 1] = date
          BY <2>4, <2>8, <3>1
      <3>4. \A k \in 1 .. Len(accumulations) : accumulations[k] # date
          BY <2>4, <3>1, <3>2 DEF ToSet
      <3>5. IsInjective(accumulations')
        <4>1. ASSUME NEW k \in 1 .. Len(accumulations) + 1, NEW l \in 1 .. Len(accumulations) + 1,
                     accumulations'[k] = accumulations'[l]
              PROVE  k = l
          <5>1. CASE k \in 1 .. Len(accumulations) /\ l \in 1 .. Len(accumulations)
              BY <3>1, <3>2, <3>3, <4>1, <5>1 DEF IsInjective
          <5>2. CASE k \in 1 .. Len(accumulations) /\ l = Len(accumulations) + 1
              BY <3>3, <3>4, <4>1, <5>2
          <5>3. CASE l \in 1 .. Len(accumulations) /\ k = Len(accumulations) + 1
              BY <3>3, <3>4, <4>1, <5>3
          <5>4. CASE k = Len(accumulations) + 1 /\ l = Len(accumulations) + 1
              BY <5>4
          <5> QED
              BY <3>2, <5>1, <5>2, <5>3, <5>4
        <4> QED
            BY <3>3, <4>1 DEF IsInjective
      <3>6. ToSet(accumulations') = ToSet(accumulations) \union {date}
        <4>1. \A x : x \in ToSet(accumulations') <=> x \in ToSet(accumulations) \/ x = date
          <5>1. ASSUME NEW x \in ToSet(accumulations') PROVE x \in ToSet(accumulations) \/ x = date
            <6>1. PICK k \in 1 .. Len(accumulations) + 1 : x = accumulations'[k]
                BY <3>3, <5>1 DEF ToSet
            <6>2. k \in 1 .. Len(accumulations) \/ k = Len(accumulations) + 1
                BY <3>2
            <6> QED
                BY <3>2, <3>3, <6>1, <6>2 DEF ToSet
          <5>2. ASSUME NEW x \in ToSet(accumulations) PROVE x \in ToSet(accumulations')
            <6>1. PICK k \in 1 .. Len(accumulations) : x = accumulations[k]
                BY <3>2, <5>2 DEF ToSet
            <6>2. k \in 1 .. Len(accumulations) + 1 /\ x = accumulations'[k]
                BY <3>2, <3>3, <6>1
            <6> QED
                BY <3>3, <6>2 DEF ToSet
          <5>3. date \in ToSet(accumulations')
            <6>1. Len(accumulations) + 1 \in 1 .. Len(accumulations) + 1
                BY <3>2
            <6> QED
                BY <3>3, <6>1 DEF ToSet
          <5> QED
              BY <5>1, <5>2, <5>3
        <4> QED
            BY <4>1
      <3>7. ASSUME NEW i \in DOMAIN cohorts, cohorts[i] \in DOMAIN accumulated'
            PROVE  accumulated'[cohorts[i]] = AccumulatedOf(dataset, i)
        <4>1. CASE i = least
            BY <2>9, <4>1 DEF date, value
        <4>2. CASE i # least
          <5>1. cohorts[i] # date
              BY <1>2, <2>4, <4>2 DEF IsInjective, date
          <5> QED
              BY <2>9, <3>1, <3>7, <5>1 DEF Accumulated
        <4> QED
            BY <4>1, <4>2
      <3>8. ToSet(accumulations') = DOMAIN accumulated'
          BY <2>9, <3>1, <3>6
      <3>9. pc' = "accumulation"
          BY <1>1, <2>3
      <3>10. \A i \in DOMAIN cohorts' :
                Accumulated(i)' => accumulated'[cohorts'[i]] = AccumulatedOf(dataset', i)
          BY <2>3, <3>7 DEF Accumulated
      <3>11. accumulations' \in Seq(ToSet(cohorts'))
          BY <2>3, <3>3
      <3> QED
          BY <3>5, <3>8, <3>9, <3>10, <3>11 DEF AccumulationsAreOwn
    <2>11. InputsTyped' /\ Progress'
        BY <1>1, <2>3 DEF InputsTyped, Progress, Configured, Generated
    <2>12. SlicesAreOwn'
        BY <2>3 DEF PlanInvariant, SlicesAreOwn
    <2>13. PoliciesAreOwn'
        BY <2>3 DEF PlanInvariant, PoliciesAreOwn
    <2>14. UnitsAreOwn'
        BY <2>3 DEF PlanInvariant, UnitsAreOwn, Configured, Generated, LoopPosition, Planned
    <2>15. ReasonFor(error)'
        BY <2>3 DEF PlanInvariant, ReasonFor, NeededDates
    <2> QED
        BY <2>10, <2>11, <2>12, <2>13, <2>14, <2>15 DEF PlanInvariant
  <1> QED
      BY <1>3, <1>4

\* Cohorts are feasible for less than the longest horizon only if a shorter one is set.
LEMMA ShorterHorizonIsSet ==
    ASSUME NEW s \in Studies, HasHorizons(s), ~s.omy
    PROVE  CohortHorizon(s) < Observations(LongestHorizon(s))
              <=> s.cohort_horizon \in 1 .. LongestHorizon(s) - 1
  <1> DEFINE L == LongestHorizon(s)
             c == s.cohort_horizon
  <1>1. L \in Nat \ {0} /\ c \in Nat
      BY LongestHorizonIsDeclared, StudyTypes
  <1>2. CohortHorizon(s) = IF c > 0 THEN Observations(c) ELSE Observations(L)
    <2>1. CASE c > 0
        BY <2>1 DEF CohortHorizon
    <2>2. CASE c = 0
        BY <2>2 DEF CohortHorizon
    <2> QED
        BY <1>1, <2>1, <2>2
  <1> HIDE DEF L, c
  <1>3. /\ Observations(c) \in Nat \ {0} /\ Observations(L) \in Nat \ {0}
        /\ c < L => Observations(c) < Observations(L)
        /\ L <= c => Observations(L) <= Observations(c)
      BY <1>1, ObservationsGrow
  <1>4. CohortHorizon(s) < Observations(L) <=> c \in 1 .. L - 1
      BY <1>1, <1>2, <1>3
  <1> QED
      BY <1>4 DEF L, c

\* Longer schedules begin with shorter ones.
LEMMA PeriodsGrow ==
    ASSUME NEW date, NEW g \in Nat, NEW h \in Nat, g <= h
    PROVE  ToSet(Periods(date, g)) \subseteq ToSet(Periods(date, h))
  <1>1. /\ DOMAIN Periods(date, g) = 1 .. g /\ DOMAIN Periods(date, h) = 1 .. h
        /\ \A k \in 1 .. g : Periods(date, g)[k] = PeriodDate(date, k - 1)
        /\ \A k \in 1 .. h : Periods(date, h)[k] = PeriodDate(date, k - 1)
      BY DEF Periods
  <1>2. ASSUME NEW x \in ToSet(Periods(date, g)) PROVE x \in ToSet(Periods(date, h))
    <2>1. PICK k \in 1 .. g : x = Periods(date, g)[k]
        BY <1>1, <1>2 DEF ToSet
    <2>2. k \in 1 .. h /\ x = Periods(date, h)[k]
        BY <1>1, <2>1
    <2> QED
        BY <1>1, <2>2 DEF ToSet
  <1> QED
      BY <1>2

\* The place of the next unit, its cohort and its configuration.
LEMMA NextPlace ==
    ASSUME InputsTyped, Configured, configs # <<>>, UnitsAreOwn, ~Planned,
           NEW i, i = LoopPosition(Len(units) + 1)[1],
           NEW config, config = configs[LoopPosition(Len(units) + 1)[2]]
    PROVE  /\ i \in DOMAIN cohorts /\ i \in 1 .. Len(dataset)
           /\ cohorts[i] = dataset[i] /\ NextCohort = cohorts[i]
           /\ i <= Len(dataset) - CohortHorizon(study) + 1
           /\ config \in ToSet(configs) /\ config \in ToSet(Configurations(study))
           /\ NextConfig = config
           /\ HorizonOf(study, config) \in Nat \ {0}
           /\ HorizonOf(study, config) <= Observations(LongestHorizon(study))
           /\ Observations(LongestHorizon(study)) \in Nat \ {0}
  <1> DEFINE n == Len(units) + 1
             C == Len(cohorts) * Len(configs)
  <1>1. /\ C \in Nat
        /\ \A k \in 1 .. C : LoopPosition(k)[1] \in DOMAIN cohorts /\ LoopPosition(k)[2] \in DOMAIN configs
        /\ \A k \in DOMAIN cohorts : cohorts[k] = dataset[k] /\ k \in 1 .. Len(dataset)
        /\ \A j \in DOMAIN configs : configs[j] \in ToSet(configs)
        /\ ToSet(configs) = ToSet(Configurations(study))
        /\ DOMAIN cohorts = 1 .. Len(cohorts)
      BY PlacesOfUnits
  <1>2. n \in 1 .. C
    <2>1. Len(units) \in Nat /\ Len(units) <= C /\ Len(units) # C
        BY DEF UnitsAreOwn, Planned
    <2> HIDE DEF C
    <2> QED
        BY <1>1, <2>1
  <1> HIDE DEF C, n
  <1>3. /\ i \in DOMAIN cohorts /\ i \in 1 .. Len(dataset) /\ cohorts[i] = dataset[i]
        /\ config \in ToSet(configs) /\ config \in ToSet(Configurations(study))
    <2>1. i = LoopPosition(n)[1] /\ config = configs[LoopPosition(n)[2]]
        BY DEF n
    <2> QED
        BY <1>1, <1>2, <2>1
  <1>4. NextCohort = cohorts[i] /\ NextConfig = config
      BY DEF NextCohort, NextConfig
  <1>5. i <= Len(dataset) - CohortHorizon(study) + 1
    <2>1. Len(cohorts) = Len(dataset) - CohortHorizon(study) + 1
        BY CohortsComeFirst DEF InputsTyped, Configured, Generated
    <2>2. i <= Len(cohorts)
        BY <1>1, <1>3
    <2> QED
        BY <2>1, <2>2
  <1>6. /\ HorizonOf(study, config) \in Nat \ {0}
        /\ HorizonOf(study, config) <= Observations(LongestHorizon(study))
        /\ Observations(LongestHorizon(study)) \in Nat \ {0}
      BY <1>3, HorizonIsBounded DEF InputsTyped, Configured, Generated
  <1> QED
      BY <1>3, <1>4, <1>5, <1>6

\* A unit is refused for a reason, or is that of its place.
LEMMA PlanUnitKeeps == ASSUME PlanInvariant, PlanUnit PROVE PlanInvariant'
  <1> DEFINE i == LoopPosition(Len(units) + 1)[1]
             config == configs[LoopPosition(Len(units) + 1)[2]]
             h == HorizonOf(study, config)
             date == cohorts[i]
             key == PolicyKey(study, config)
             schedule == ScheduleOf(study, date, h)
             longest == Observations(LongestHorizon(study))
  <1>1. /\ InputsTyped /\ Progress /\ Configured /\ Generated /\ configs # <<>> /\ UnitsAreOwn
        /\ SlicesAreOwn /\ PoliciesAreOwn /\ pc = "units" /\ ~study.omy /\ ~Planned
      BY DEF PlanInvariant, PlanUnit, Progress, Configured
  <1>2. /\ i \in DOMAIN cohorts /\ i \in 1 .. Len(dataset) /\ date = dataset[i] /\ NextCohort = date
        /\ i <= Len(dataset) - CohortHorizon(study) + 1
        /\ config \in ToSet(configs) /\ NextConfig = config
        /\ h \in Nat \ {0} /\ h <= longest /\ longest \in Nat \ {0}
      BY <1>1, NextPlace
  <1>3. h = Observations(config["horizon_years"])
      BY <1>1 DEF HorizonOf
  <1>4. CachedSlice(date, h) = IF Fits(dataset, i, h) THEN {DataOf(dataset, i, h)} ELSE {}
    <2> HIDE DEF i, h
    <2> QED
        BY <1>1, <1>2, CachedSliceIsOwn
  <1>5. (IF key \in DOMAIN policies THEN policies[key] ELSE PolicyFor(study, config))
            = PolicyFor(study, config)
    <2> HIDE DEF config
    <2> QED
        BY <1>1, CachedPolicyIsOwn
  <1>6. (IF study.floating THEN Periods(date, h) ELSE <<>>) = schedule
      BY <1>1 DEF ScheduleOf
  <1> DEFINE u == [cohort |-> date, config |-> config,
                   allocation |-> AllocationFor(study, config),
                   withdrawal |-> PolicyFor(study, config),
                   portfolio |-> InitialPortfolio(DataOf(dataset, i, h)),
                   dataset |-> DataOf(dataset, i, h), horizon |-> h,
                   target |-> TargetOf(study, config),
                   interest |-> ValueOf(study, config, "interest_rate"),
                   schedule |-> schedule]
  <1>7. u = UnitOf(study, dataset, i, config)
      BY <1>1, <1>2 DEF UnitOf
  <1> HIDE DEF i, config, h, date, key, schedule, longest
  <1> DEFINE unitWith(d) == [cohort |-> date, config |-> config,
                             allocation |-> AllocationFor(study, config),
                             withdrawal |-> PolicyFor(study, config),
                             portfolio |-> InitialPortfolio(d), dataset |-> d, horizon |-> h,
                             target |-> TargetOf(study, config),
                             interest |-> ValueOf(study, config, "interest_rate"),
                             schedule |-> schedule]
             Plan(d) == /\ units' = Append(units, unitWith(d))
                        /\ sliced' = WithEntry(sliced, <<date, h>>, d)
                        /\ policies' = WithEntry(policies, key, PolicyFor(study, config))
                        /\ UNCHANGED <<inputs, pc, error, cohorts, configs, accumulated, accumulations>>
  <1>8. /\ Missing(config) => Raise("configuration")
        /\ ~Missing(config) /\ CachedSlice(date, h) = {} => Raise("history")
        /\ ~Missing(config) /\ CachedSlice(date, h) # {} /\ ~(ToSet(schedule) \subseteq rates) =>
              Raise("rates")
        /\ ~Missing(config) /\ CachedSlice(date, h) # {} /\ ToSet(schedule) \subseteq rates =>
              \E d \in CachedSlice(date, h) : Plan(d)
    <2>1. /\ NextCohort = date /\ NextConfig = config /\ Observations(config["horizon_years"]) = h
          /\ PolicyKey(study, config) = key
          /\ (IF key \in DOMAIN policies THEN policies[key] ELSE PolicyFor(study, config))
                = PolicyFor(study, config)
          /\ (IF study.floating THEN Periods(date, h) ELSE <<>>) = schedule
        BY <1>2, <1>3, <1>5, <1>6 DEF key
    <2>2. CASE Missing(config)
        BY <2>1, <2>2 DEF PlanUnit
    <2>3. CASE ~Missing(config) /\ CachedSlice(date, h) = {}
        BY <2>1, <2>3 DEF PlanUnit
    <2>4. CASE ~Missing(config) /\ CachedSlice(date, h) # {} /\ ~(ToSet(schedule) \subseteq rates)
        BY <2>1, <2>4 DEF PlanUnit
    <2>5. CASE ~Missing(config) /\ CachedSlice(date, h) # {} /\ ToSet(schedule) \subseteq rates
        BY <2>1, <2>5 DEF PlanUnit
    <2> QED
        BY <2>2, <2>3, <2>4, <2>5
  <1>9. CASE Missing(config)
    <2>1. Raise("configuration") /\ ReasonFor("configuration")
        BY <1>8, <1>9 DEF ReasonFor
    <2> QED
        BY <2>1, RaiseKeeps
  <1>10. CASE ~Missing(config) /\ ~Fits(dataset, i, h)
    <2>1. Raise("history")
        BY <1>4, <1>8, <1>10
    <2>2. study \in Studies /\ HasHorizons(study) /\ CohortHorizon(study) \in Nat /\ Len(dataset) \in Nat
        BY <1>1, CohortHorizonIsPositive, MonthsFollow DEF InputsTyped, Generated
    <2>3. CohortHorizon(study) < longest
        BY <1>2, <1>10, <2>2 DEF Fits
    <2>4. study.cohort_horizon \in 1 .. LongestHorizon(study) - 1
        BY <1>1, <2>2, <2>3, ShorterHorizonIsSet DEF longest
    <2>5. ReasonFor("history")
        BY <2>4 DEF ReasonFor
    <2> QED
        BY <2>1, <2>5, RaiseKeeps
  <1>11. CASE ~Missing(config) /\ Fits(dataset, i, h) /\ ~(ToSet(schedule) \subseteq rates)
    <2>1. Raise("rates")
        BY <1>4, <1>8, <1>11
    <2>2. study.floating /\ schedule = Periods(date, h)
      <3>1. ToSet(<<>>) = {}
          BY DEF ToSet
      <3> QED
          BY <1>11, <3>1 DEF schedule, ScheduleOf
    <2>3. ToSet(Periods(date, h)) \subseteq ToSet(Periods(date, longest))
        BY <1>2, PeriodsGrow
    <2>4. ToSet(Periods(date, longest)) \subseteq NeededDates
        BY <1>1, <1>2, RatesAreNeeded DEF date, longest
    <2>5. ReasonFor("rates")
        BY <1>1, <1>11, <2>2, <2>3, <2>4 DEF ReasonFor
    <2> QED
        BY <2>1, <2>5, RaiseKeeps
  <1>12. CASE ~Missing(config) /\ Fits(dataset, i, h) /\ ToSet(schedule) \subseteq rates
    <2>1. /\ units' = Append(units, UnitOf(study, dataset, i, config))
          /\ sliced' = WithEntry(sliced, <<date, h>>, DataOf(dataset, i, h))
          /\ policies' = WithEntry(policies, key, PolicyFor(study, config))
          /\ UNCHANGED <<inputs, pc, error, cohorts, configs, accumulated, accumulations>>
        BY <1>4, <1>7, <1>8, <1>12
    <2>2. Plannable(study, dataset, rates, i, config)
        BY <1>2, <1>12 DEF Plannable, Missing, h, schedule
    <2>3. UnitsAreOwn'
        BY <1>1, <2>1, <2>2, UnitsGrow DEF i, config
    <2>4. SlicesAreOwn'
        BY <1>1, <1>2, <1>12, <2>1, SlicesGrow DEF date, inputs
    <2>5. PoliciesAreOwn'
        BY <1>1, <1>2, <2>1, PoliciesGrow DEF key, inputs
    <2>6. InputsTyped' /\ Progress'
        BY <1>1, <2>1 DEF InputsTyped, Progress, Configured, Generated, inputs
    <2>7. AccumulationsAreOwn'
        BY <2>1 DEF PlanInvariant, AccumulationsAreOwn, Accumulated, inputs
    <2>8. ReasonFor(error)'
        BY <2>1 DEF PlanInvariant, ReasonFor, NeededDates, inputs
    <2> QED
        BY <2>3, <2>4, <2>5, <2>6, <2>7, <2>8 DEF PlanInvariant
  <1> QED
      BY <1>9, <1>10, <1>11, <1>12

\* A unit of a retirement begins with what its cohort has accumulated.
LEMMA PlanRetirementUnitKeeps == ASSUME PlanInvariant, PlanRetirementUnit PROVE PlanInvariant'
  <1> DEFINE i == LoopPosition(Len(units) + 1)[1]
             config == configs[LoopPosition(Len(units) + 1)[2]]
             h == HorizonOf(study, config)
             date == cohorts[i]
  <1>1. /\ InputsTyped /\ Progress /\ Configured /\ Generated /\ configs # <<>> /\ UnitsAreOwn
        /\ SlicesAreOwn /\ AccumulationsAreOwn /\ pc = "units" /\ study.omy /\ ~Planned
      BY DEF PlanInvariant, PlanRetirementUnit, Progress, Configured
  <1>2. /\ i \in DOMAIN cohorts /\ i \in 1 .. Len(dataset) /\ date = dataset[i] /\ NextCohort = date
        /\ config \in ToSet(configs) /\ NextConfig = config /\ h \in Nat \ {0}
      BY <1>1, NextPlace
  <1>3. h = Observations(LongestHorizon(study))
      BY <1>1 DEF HorizonOf
  <1>4. CachedSlice(date, h) = IF Fits(dataset, i, h) THEN {DataOf(dataset, i, h)} ELSE {}
    <2> HIDE DEF i, h
    <2> QED
        BY <1>1, <1>2, CachedSliceIsOwn
  <1>5. accumulated[date] = AccumulatedOf(dataset, i)
    <2>1. Accumulated(i)
        BY <1>1, <1>2 DEF AccumulationsAreOwn
    <2> QED
        BY <1>1, <1>2, <2>1 DEF AccumulationsAreOwn
  <1> DEFINE u == [cohort |-> date, config |-> config,
                   allocation |-> AllocationFor(study, config),
                   withdrawal |-> PolicyFor(study, config),
                   portfolio |-> AccumulatedOf(dataset, i),
                   dataset |-> DataOf(dataset, i, h), horizon |-> h,
                   target |-> TargetOf(study, config),
                   interest |-> NoValue, schedule |-> <<>>]
  <1>6. u = UnitOf(study, dataset, i, config) /\ ScheduleOf(study, dataset[i], h) = <<>>
      BY <1>1, <1>2 DEF UnitOf, ScheduleOf
  <1> HIDE DEF i, config, h, date
  <1>7. IF Missing(config) THEN Raise("configuration")
        ELSE \E d \in CachedSlice(date, h) :
                /\ units' = Append(units,
                      [cohort |-> date, config |-> config,
                       allocation |-> AllocationFor(study, config),
                       withdrawal |-> PolicyFor(study, config),
                       portfolio |-> AccumulatedOf(dataset, i), dataset |-> d, horizon |-> h,
                       target |-> TargetOf(study, config),
                       interest |-> NoValue, schedule |-> <<>>])
                /\ sliced' = WithEntry(sliced, <<date, h>>, d)
                /\ UNCHANGED <<inputs, pc, error, cohorts, configs, policies, accumulated,
                               accumulations>>
      BY <1>2, <1>3, <1>5 DEF PlanRetirementUnit
  <1>8. CASE Missing(config)
    <2>1. Raise("configuration") /\ ReasonFor("configuration")
        BY <1>7, <1>8 DEF ReasonFor
    <2> QED
        BY <2>1, RaiseKeeps
  <1>9. CASE ~Missing(config)
    <2>1. /\ Fits(dataset, i, h)
          /\ units' = Append(units, UnitOf(study, dataset, i, config))
          /\ sliced' = WithEntry(sliced, <<date, h>>, DataOf(dataset, i, h))
          /\ UNCHANGED <<inputs, pc, error, cohorts, configs, policies, accumulated, accumulations>>
      <3>1. CASE Fits(dataset, i, h)
          BY <1>4, <1>6, <1>7, <1>9, <3>1
      <3>2. CASE ~Fits(dataset, i, h)
          BY <1>4, <1>7, <1>9, <3>2
      <3> QED
          BY <3>1, <3>2
    <2>2. Plannable(study, dataset, rates, i, config)
      <3>1. ToSet(<<>>) = {}
          BY DEF ToSet
      <3> QED
          BY <1>6, <1>9, <2>1, <3>1 DEF Plannable, Missing, h
    <2>3. UnitsAreOwn'
        BY <1>1, <2>1, <2>2, UnitsGrow DEF i, config
    <2>4. SlicesAreOwn'
        BY <1>1, <1>2, <2>1, SlicesGrow DEF date, inputs
    <2>5. PoliciesAreOwn'
        BY <2>1 DEF PlanInvariant, PoliciesAreOwn, inputs
    <2>6. InputsTyped' /\ Progress'
        BY <1>1, <2>1 DEF InputsTyped, Progress, Configured, Generated, inputs
    <2>7. AccumulationsAreOwn'
        BY <2>1 DEF PlanInvariant, AccumulationsAreOwn, Accumulated, inputs
    <2>8. ReasonFor(error)'
        BY <2>1 DEF PlanInvariant, ReasonFor, NeededDates, inputs
    <2> QED
        BY <2>3, <2>4, <2>5, <2>6, <2>7, <2>8 DEF PlanInvariant
  <1> QED
      BY <1>8, <1>9

\* The pairs of cohort and configuration that the units are of.
Pairs == [k \in DOMAIN units |-> <<units[k].cohort, units[k].config>>]

\* A unit at each place of the double loop, and what it is of.
LEMMA UnitsAtPlaces ==
    ASSUME InputsTyped, UnitsAreOwn
    PROVE  /\ DOMAIN units = 1 .. Len(units) /\ Len(units) \in Nat
           /\ \A k \in DOMAIN units :
                 /\ k \in 1 .. Len(cohorts) * Len(configs)
                 /\ LoopPosition(k)[1] \in DOMAIN cohorts /\ LoopPosition(k)[2] \in DOMAIN configs
                 /\ units[k] = UnitOf(study, dataset, LoopPosition(k)[1], configs[LoopPosition(k)[2]])
                 /\ Plannable(study, dataset, rates, LoopPosition(k)[1], configs[LoopPosition(k)[2]])
                 /\ units[k].cohort = cohorts[LoopPosition(k)[1]]
                 /\ cohorts[LoopPosition(k)[1]] = dataset[LoopPosition(k)[1]]
                 /\ units[k].config = configs[LoopPosition(k)[2]]
           /\ units # <<>> => Configured /\ configs # <<>>
  <1>1. DOMAIN units = 1 .. Len(units) /\ Len(units) \in Nat
      BY DEF UnitsAreOwn
  <1>2. ASSUME NEW k \in DOMAIN units
        PROVE  /\ k \in 1 .. Len(cohorts) * Len(configs)
               /\ LoopPosition(k)[1] \in DOMAIN cohorts /\ LoopPosition(k)[2] \in DOMAIN configs
               /\ units[k] = UnitOf(study, dataset, LoopPosition(k)[1], configs[LoopPosition(k)[2]])
               /\ Plannable(study, dataset, rates, LoopPosition(k)[1], configs[LoopPosition(k)[2]])
               /\ units[k].cohort = cohorts[LoopPosition(k)[1]]
               /\ cohorts[LoopPosition(k)[1]] = dataset[LoopPosition(k)[1]]
               /\ units[k].config = configs[LoopPosition(k)[2]]
    <2> DEFINE C == Len(cohorts) * Len(configs)
               i == LoopPosition(k)[1]
               config == configs[LoopPosition(k)[2]]
    <2>1. Configured /\ configs # <<>> /\ Len(units) <= C
        BY <1>1 DEF UnitsAreOwn
    <2>2. /\ C \in Nat
          /\ \A l \in 1 .. C : LoopPosition(l)[1] \in DOMAIN cohorts /\ LoopPosition(l)[2] \in DOMAIN configs
          /\ \A l \in DOMAIN cohorts : cohorts[l] = dataset[l]
        BY <2>1, PlacesOfUnits
    <2>3. k \in 1 .. C
      <3> HIDE DEF C
      <3> QED
          BY <1>1, <2>1, <2>2
    <2>4. i \in DOMAIN cohorts /\ LoopPosition(k)[2] \in DOMAIN configs /\ cohorts[i] = dataset[i]
        BY <2>2, <2>3
    <2>5. units[k] = UnitOf(study, dataset, i, config) /\ Plannable(study, dataset, rates, i, config)
        BY <1>1 DEF UnitsAreOwn
    <2> HIDE DEF i, config, C
    <2>6. units[k].cohort = dataset[i] /\ units[k].config = config
        BY <2>5 DEF UnitOf
    <2> QED
        BY <2>3, <2>4, <2>5, <2>6 DEF i, config, C
  <1> QED
      BY <1>1, <1>2 DEF UnitsAreOwn

\* Only configurations that are given can repeat.
LEMMA PairsAreInjective ==
    ASSUME InputsTyped, UnitsAreOwn, ~study.explicit PROVE IsInjective(Pairs)
  <1>1. /\ DOMAIN Pairs = DOMAIN units
        /\ \A k \in DOMAIN units : Pairs[k] = <<units[k].cohort, units[k].config>>
      BY DEF Pairs
  <1>2. ASSUME NEW k \in DOMAIN units, NEW l \in DOMAIN units, Pairs[k] = Pairs[l] PROVE k = l
    <2> DEFINE C == Len(cohorts) * Len(configs)
    <2>1. units[k].cohort = units[l].cohort /\ units[k].config = units[l].config
        BY <1>1, <1>2
    <2>2. Configured /\ configs # <<>>
        BY UnitsAtPlaces
    <2>3. /\ k \in 1 .. C /\ l \in 1 .. C
          /\ LoopPosition(k)[1] \in DOMAIN cohorts /\ LoopPosition(k)[2] \in DOMAIN configs
          /\ LoopPosition(l)[1] \in DOMAIN cohorts /\ LoopPosition(l)[2] \in DOMAIN configs
          /\ cohorts[LoopPosition(k)[1]] = cohorts[LoopPosition(l)[1]]
          /\ configs[LoopPosition(k)[2]] = configs[LoopPosition(l)[2]]
        BY <2>1, UnitsAtPlaces
    <2>4. IsInjective(cohorts)
        BY <2>2, PlacesOfUnits
    <2>5. IsInjective(configs)
        BY <2>2, ConfigurationsAreDeclared DEF InputsTyped, Configured
    <2>6. LoopPosition(k)[1] = LoopPosition(l)[1] /\ LoopPosition(k)[2] = LoopPosition(l)[2]
        BY <2>3, <2>4, <2>5 DEF IsInjective
    <2>7. \A p, q \in 1 .. C :
              LoopPosition(p)[1] = LoopPosition(q)[1] /\ LoopPosition(p)[2] = LoopPosition(q)[2] => p = q
        BY <2>2, PlacesOfUnits
    <2> QED
        BY <2>3, <2>6, <2>7
  <1> QED
      BY <1>1, <1>2 DEF IsInjective

\* A plan is finished if no pair repeats.
LEMMA FinishPlanKeeps == ASSUME PlanInvariant, FinishPlan PROVE PlanInvariant'
  <1>1. /\ InputsTyped /\ Progress /\ AccumulationsAreOwn /\ UnitsAreOwn /\ pc = "units" /\ Planned
        /\ Configured /\ configs # <<>>
      BY DEF PlanInvariant, FinishPlan, Progress
  <1>2. CASE ~IsInjective(Pairs)
    <2>1. study.explicit
        BY <1>1, <1>2, PairsAreInjective
    <2>2. Raise("duplicate") /\ ReasonFor("duplicate")
        BY <1>2, <2>1 DEF FinishPlan, ReasonFor, Pairs
    <2> QED
        BY <2>2, RaiseKeeps
  <1>3. CASE IsInjective(Pairs)
    <2>1. /\ pc' = "done"
          /\ UNCHANGED <<inputs, error, cohorts, configs, sliced, policies, accumulated,
                         accumulations, units>>
        BY <1>3 DEF FinishPlan, Goto, Pairs
    <2>2. study.omy => \A i \in DOMAIN cohorts : Accumulated(i)
        BY <1>1 DEF AccumulationsAreOwn
    <2>3. InputsTyped' /\ Progress'
        BY <1>1, <2>1 DEF InputsTyped, Progress, Configured, Generated, inputs
    <2>4. IsInjective([k \in DOMAIN units |-> <<units[k].cohort, units[k].config>>])
        BY <1>3 DEF Pairs
    <2> QED
        BY <1>1, <2>1, <2>2, <2>3, <2>4, GotoKeeps
  <1> QED
      BY <1>2, <1>3

\* Nothing but the steps above changes what the invariant speaks of.
LEMMA StutterKeeps == ASSUME PlanInvariant, UNCHANGED vars PROVE PlanInvariant'
  <1> USE DEF vars
  <1>1. InputsTyped' /\ Progress'
      BY DEF PlanInvariant, InputsTyped, Progress, Configured, Generated
  <1>2. AccumulationsAreOwn'
      BY DEF PlanInvariant, AccumulationsAreOwn, Accumulated
  <1>3. SlicesAreOwn' /\ PoliciesAreOwn'
      BY DEF PlanInvariant, SlicesAreOwn, PoliciesAreOwn
  <1>4. UnitsAreOwn'
      BY DEF PlanInvariant, UnitsAreOwn, Configured, Generated, LoopPosition, Planned
  <1>5. ReasonFor(error)'
      BY DEF PlanInvariant, ReasonFor, NeededDates
  <1> QED
      BY <1>1, <1>2, <1>3, <1>4, <1>5 DEF PlanInvariant

\* Throughout a build, all that is planned is what the study, the dataset and the
\* place of a unit say.
THEOREM PlanInvariantHolds == Spec => []PlanInvariant
  <1>1. Init => PlanInvariant
      BY InitSatisfies
  <1>2. PlanInvariant /\ [Next]_vars => PlanInvariant'
    <2> SUFFICES ASSUME PlanInvariant, [Next]_vars PROVE PlanInvariant'
        OBVIOUS
    <2>1. CASE ParseStudy
        BY <2>1, ParseStudyKeeps
    <2>2. CASE GenerateCohorts
        BY <2>2, GenerateCohortsKeeps
    <2>3. CASE ConfigureParameters
        BY <2>3, ConfigureParametersKeeps
    <2>4. CASE DefineExperiment
        BY <2>4, DefineExperimentKeeps
    <2>5. CASE LoadRates
        BY <2>5, LoadRatesKeeps
    <2>6. CASE Accumulate
        BY <2>6, AccumulateKeeps
    <2>7. CASE PlanUnit
        BY <2>7, PlanUnitKeeps
    <2>8. CASE PlanRetirementUnit
        BY <2>8, PlanRetirementUnitKeeps
    <2>9. CASE FinishPlan
        BY <2>9, FinishPlanKeeps
    <2>10. CASE Terminating
        BY <2>10, StutterKeeps DEF Terminating
    <2>11. CASE UNCHANGED vars
        BY <2>11, StutterKeeps
    <2> QED
        BY <2>1, <2>2, <2>3, <2>4, <2>5, <2>6, <2>7, <2>8, <2>9, <2>10, <2>11 DEF Next
  <1> QED
      BY <1>1, <1>2, PTL DEF Spec

----------------------------------------------------------------------------
(* The properties.                                                         *)

\* TypeOK: the caches hold slices of the horizon of their keys and accumulations of
\* cohorts, each made once.
THEOREM TypeCorrect == Spec => []TypeOK
  <1>1. PlanInvariant => TypeOK
    <2> SUFFICES ASSUME PlanInvariant PROVE TypeOK
        OBVIOUS
    <2>1. InputsTyped /\ Progress /\ AccumulationsAreOwn /\ SlicesAreOwn
        BY DEF PlanInvariant
    <2>2. \A k \in DOMAIN cohorts : cohorts[k] = dataset[k] /\ k \in DOMAIN dataset
      <3>1. CASE cohorts = <<>>
          BY <3>1
      <3>2. CASE cohorts # <<>>
        <4>1. /\ study \in Studies /\ dataset \in Datasets /\ HasHorizons(study)
              /\ CohortHorizon(study) <= Len(dataset) /\ cohorts = CohortsOf(study, dataset)
            BY <2>1, <3>2 DEF InputsTyped, Progress, Generated
        <4>2. /\ Len(cohorts) \in 1 .. Len(dataset) /\ DOMAIN cohorts = 1 .. Len(cohorts)
              /\ \A k \in DOMAIN cohorts : cohorts[k] = dataset[k]
            BY <4>1, CohortsComeFirst
        <4>3. DOMAIN dataset = 1 .. Len(dataset) /\ Len(dataset) \in Nat
            BY <4>1, MonthsFollow
        <4> QED
            BY <4>2, <4>3
      <3> QED
          BY <3>1, <3>2
    <2>3. ToSet(cohorts) \subseteq ToSet(dataset)
        BY <2>2 DEF ToSet
    <2>4. ASSUME NEW key \in DOMAIN sliced PROVE key[1] \in ToSet(cohorts) /\ Len(sliced[key]) = key[2]
      <3>1. PICK i \in DOMAIN cohorts, h \in Nat \ {0} :
                /\ key = <<cohorts[i], h>> /\ Fits(dataset, i, h)
                /\ sliced[key] = DataOf(dataset, i, h)
          BY <2>1, <2>4 DEF SlicesAreOwn
      <3>2. dataset \in Datasets /\ i \in 1 .. Len(dataset) /\ i + h - 1 <= Len(dataset)
          BY <2>1, <2>2, <3>1, MonthsFollow DEF InputsTyped, Fits
      <3>3. Len(DataOf(dataset, i, h)) = h
          BY <3>2, SliceOfDataset DEF DataOf
      <3>4. cohorts[i] \in ToSet(cohorts)
          BY <3>1 DEF ToSet
      <3> QED
          BY <3>1, <3>3, <3>4
    <2>5. /\ IsInjective(accumulations) /\ ToSet(accumulations) = DOMAIN accumulated
          /\ DOMAIN accumulated \subseteq ToSet(cohorts)
      <3>1. /\ accumulations \in Seq(ToSet(cohorts)) /\ IsInjective(accumulations)
            /\ ToSet(accumulations) = DOMAIN accumulated
          BY <2>1 DEF AccumulationsAreOwn
      <3>2. \A k \in DOMAIN accumulations : accumulations[k] \in ToSet(cohorts)
          BY <3>1
      <3> QED
          BY <3>1, <3>2 DEF ToSet
    <2> QED
        BY <2>1, <2>3, <2>4, <2>5 DEF TypeOK, InputsTyped
  <1> QED
      BY <1>1, PlanInvariantHolds, PTL

\* PlanIsProduct: a finished plan has each feasible cohort with each declared
\* combination in exactly one unit, whatever the axes and their values are.
THEOREM PlanIsTheProduct == Spec => []PlanIsProduct
  <1>1. PlanInvariant => PlanIsProduct
    <2> SUFFICES ASSUME PlanInvariant, pc = "done"
                 PROVE  /\ IsInjective(Pairs)
                        /\ ToSet(Pairs) = {dataset[i] : i \in 1 .. Len(dataset) - CohortHorizon(study) + 1}
                                             \X DeclaredConfigurations(study)
        BY DEF PlanIsProduct, Pairs
    <2>1. /\ InputsTyped /\ Configured /\ configs # <<>> /\ UnitsAreOwn /\ Planned
          /\ IsInjective(Pairs)
        BY DEF PlanInvariant, Progress, UnitsAreOwn, Pairs
    <2> DEFINE C == Len(cohorts) * Len(configs)
               feasible == {dataset[i] : i \in 1 .. Len(dataset) - CohortHorizon(study) + 1}
    <2>2. feasible = ToSet(cohorts)
      <3>1. /\ DOMAIN cohorts = 1 .. Len(dataset) - CohortHorizon(study) + 1
            /\ \A k \in DOMAIN cohorts : cohorts[k] = dataset[k]
          BY <2>1, CohortsComeFirst DEF InputsTyped, Configured, Generated
      <3> QED
          BY <3>1 DEF ToSet
    <2>3. DeclaredConfigurations(study) = ToSet(configs)
        BY <2>1, ConfigurationsAreDeclared DEF InputsTyped, Configured
    <2>4. /\ DOMAIN Pairs = DOMAIN units
          /\ \A k \in DOMAIN units : Pairs[k] = <<units[k].cohort, units[k].config>>
        BY DEF Pairs
    <2>5. DOMAIN units = 1 .. C
        BY <2>1, UnitsAtPlaces DEF Planned
    <2> HIDE DEF C, feasible
    <2>6. ASSUME NEW k \in DOMAIN units
          PROVE  Pairs[k] = <<cohorts[LoopPosition(k)[1]], configs[LoopPosition(k)[2]]>>
                 /\ LoopPosition(k)[1] \in DOMAIN cohorts /\ LoopPosition(k)[2] \in DOMAIN configs
        BY <2>1, <2>4, UnitsAtPlaces
    <2>7. ASSUME NEW x \in ToSet(Pairs) PROVE x \in ToSet(cohorts) \X ToSet(configs)
      <3>1. PICK k \in DOMAIN units : x = Pairs[k]
          BY <2>4, <2>7 DEF ToSet
      <3>2. cohorts[LoopPosition(k)[1]] \in ToSet(cohorts) /\ configs[LoopPosition(k)[2]] \in ToSet(configs)
          BY <2>6 DEF ToSet
      <3> DEFINE a == cohorts[LoopPosition(k)[1]]
                 b == configs[LoopPosition(k)[2]]
      <3>3. x = <<a, b>> /\ a \in ToSet(cohorts) /\ b \in ToSet(configs)
          BY <2>6, <3>1, <3>2
      <3> HIDE DEF a, b
      <3> QED
          BY <3>3
    <2>8. ASSUME NEW x \in ToSet(cohorts), NEW y \in ToSet(configs) PROVE <<x, y>> \in ToSet(Pairs)
      <3>1. PICK i \in DOMAIN cohorts : x = cohorts[i]
          BY <2>8 DEF ToSet
      <3>2. PICK j \in DOMAIN configs : y = configs[j]
          BY <2>8 DEF ToSet
      <3>3. \A p \in DOMAIN cohorts, q \in DOMAIN configs :
                \E k \in 1 .. C : LoopPosition(k)[1] = p /\ LoopPosition(k)[2] = q
          BY <2>1, PlacesOfUnits DEF C
      <3>4. PICK k \in DOMAIN units : LoopPosition(k)[1] = i /\ LoopPosition(k)[2] = j
          BY <2>5, <3>3
      <3>5. Pairs[k] = <<x, y>>
          BY <2>6, <3>1, <3>2, <3>4
      <3> QED
          BY <2>4, <3>5 DEF ToSet
    <2>9. ToSet(Pairs) = ToSet(cohorts) \X ToSet(configs)
        BY <2>7, <2>8
    <2> QED
        BY <2>1, <2>2, <2>3, <2>9 DEF feasible
  <1> QED
      BY <1>1, PlanInvariantHolds, PTL

\* What makes a study fail is said, and none succeeds in spite of it: every month
\* that a loan may be drawn in has its rate, and every unit has its data.
THEOREM FailureHasAReason == Spec => []FailsForAReason
  <1>1. PlanInvariant => FailsForAReason
    <2> SUFFICES ASSUME PlanInvariant PROVE FailsForAReason
        OBVIOUS
    <2>1. ReasonFor(error)
        BY DEF PlanInvariant
    <2>2. ASSUME pc = "done", ~study.omy
          PROVE  /\ study.floating => NeededDates \subseteq rates
                 /\ ~(study.cohort_horizon \in 1 .. LongestHorizon(study) - 1)
      <3> DEFINE L == LongestHorizon(study)
                 C == Len(cohorts) * Len(configs)
      <3>1. /\ InputsTyped /\ Configured /\ configs # <<>> /\ UnitsAreOwn /\ Planned
            /\ study \in Studies /\ dataset \in Datasets /\ ValidAxes(study) /\ HasHorizons(study)
            /\ CohortHorizon(study) <= Len(dataset) /\ cohorts = CohortsOf(study, dataset)
          BY <2>2 DEF PlanInvariant, Progress, UnitsAreOwn, InputsTyped, Configured, Generated
      <3>2. L \in ToSet(Values(study, "horizon_years"))
          BY <3>1, LongestHorizonIsDeclared
      <3>3. PICK config \in ToSet(configs) : config["horizon_years"] = L
          BY <3>1, <3>2, ConfigurationsAreDeclared DEF Configured
      <3>4. PICK j \in DOMAIN configs : configs[j] = config
          BY DEF ToSet
      <3>5. HorizonOf(study, config) = Observations(L)
          BY <2>2, <3>3 DEF HorizonOf
      <3> HIDE DEF L
      <3>6. DOMAIN units = 1 .. C
          BY <3>1, UnitsAtPlaces DEF Planned
      <3> HIDE DEF C
      <3>7. ASSUME NEW i \in DOMAIN cohorts
            PROVE  Plannable(study, dataset, rates, i, config) /\ cohorts[i] = dataset[i]
        <4>1. \A p \in DOMAIN cohorts, q \in DOMAIN configs :
                  \E k \in 1 .. C : LoopPosition(k)[1] = p /\ LoopPosition(k)[2] = q
            BY <3>1, PlacesOfUnits DEF C
        <4>2. PICK k \in DOMAIN units : LoopPosition(k)[1] = i /\ LoopPosition(k)[2] = j
            BY <3>4, <3>6, <4>1
        <4> QED
            BY <3>1, <3>4, <4>2, UnitsAtPlaces
      <3>8. ASSUME study.floating PROVE NeededDates \subseteq rates
        <4>1. ASSUME NEW i \in DOMAIN cohorts
              PROVE  ToSet(Periods(cohorts[i], Observations(L))) \subseteq rates
          <5>1. ToSet(ScheduleOf(study, cohorts[i], Observations(L))) \subseteq rates
              BY <3>5, <3>7 DEF Plannable
          <5> QED
              BY <2>2, <3>8, <5>1 DEF ScheduleOf
        <4> QED
            BY <4>1 DEF NeededDates, L
      <3>9. ~(CohortHorizon(study) < Observations(L))
        <4> DEFINE m == Len(cohorts)
        <4>1. /\ m \in DOMAIN cohorts /\ m = Len(dataset) - CohortHorizon(study) + 1
              /\ Len(dataset) \in Nat
            BY <3>1, CohortsComeFirst, MonthsFollow
        <4>2. m + Observations(L) - 1 <= Len(dataset)
            BY <3>5, <3>7, <4>1 DEF Plannable, Fits
        <4>3. CohortHorizon(study) \in Nat /\ Observations(L) \in Nat
            BY <3>1, CohortHorizonIsPositive, LongestHorizonIsDeclared, ObservationsGrow DEF L
        <4> QED
            BY <4>1, <4>2, <4>3
      <3> QED
          BY <2>2, <3>1, <3>8, <3>9, ShorterHorizonIsSet DEF L
    <2> QED
        BY <2>1, <2>2 DEF FailsForAReason, ReasonFor
  <1> QED
      BY <1>1, PlanInvariantHolds, PTL

\* As much data as fits is there.
LEMMA DataIsThere ==
    ASSUME NEW d \in Datasets, NEW i \in 1 .. Len(d), NEW h \in Nat \ {0}, i + h - 1 <= Len(d)
    PROVE  /\ DataOf(d, i, h) \in Seq([month : Nat, day : Nat])
           /\ Len(DataOf(d, i, h)) = h
           /\ \A p \in 1 .. h : DataOf(d, i, h)[p] = d[i + p - 1]
  <1>1. Len(SubSeq(d, i, i + h - 1)) = h
      BY SliceOfDataset
  <1>2. SubSeq(d, i, i + h - 1) \in Seq([month : Nat, day : Nat])
      BY SliceOfDataset, Zenon
  <1>3. ASSUME NEW p \in 1 .. h PROVE SubSeq(d, i, i + h - 1)[p] = d[i + p - 1]
      BY SliceOfDataset
  <1> QED
      BY <1>1, <1>2, <1>3 DEF DataOf

\* A unit has the data of its cohort and its horizon.
LEMMA DataOfUnit ==
    ASSUME PlanInvariant, NEW k \in DOMAIN units,
           NEW i, i = LoopPosition(k)[1], NEW config, config = configs[LoopPosition(k)[2]],
           NEW h, h = HorizonOf(study, config)
    PROVE  /\ i \in 1 .. Len(dataset) /\ i \in DOMAIN cohorts /\ Len(dataset) \in Nat
           /\ StartOf(dataset, dataset[i]) = i
           /\ units[k].cohort = dataset[i] /\ units[k].config = config
           /\ units[k] = UnitOf(study, dataset, i, config)
           /\ Plannable(study, dataset, rates, i, config)
           /\ config \in ToSet(Configurations(study))
           /\ h \in Nat \ {0} /\ i + h - 1 <= Len(dataset)
           /\ Observations(config["horizon_years"]) <= h
           /\ DataOf(dataset, i, h) \in Seq([month : Nat, day : Nat])
           /\ Len(DataOf(dataset, i, h)) = h
           /\ \A p \in 1 .. h : DataOf(dataset, i, h)[p] = dataset[i + p - 1]
           /\ InputsTyped /\ Configured /\ configs # <<>>
  <1>1. InputsTyped /\ UnitsAreOwn /\ Configured /\ configs # <<>>
      BY UnitsAtPlaces DEF PlanInvariant
  <1>2. /\ i \in DOMAIN cohorts /\ LoopPosition(k)[2] \in DOMAIN configs
        /\ units[k] = UnitOf(study, dataset, i, config)
        /\ Plannable(study, dataset, rates, i, config)
        /\ units[k].cohort = dataset[i] /\ units[k].config = config
      BY <1>1, UnitsAtPlaces
  <1>3. i \in 1 .. Len(dataset) /\ config \in ToSet(Configurations(study))
    <2>1. /\ \A l \in DOMAIN cohorts : l \in 1 .. Len(dataset)
          /\ \A j \in DOMAIN configs : configs[j] \in ToSet(configs)
          /\ ToSet(configs) = ToSet(Configurations(study))
        BY <1>1, PlacesOfUnits
    <2> QED
        BY <1>2, <2>1
  <1>4. study \in Studies /\ dataset \in Datasets /\ HasHorizons(study) /\ ValidAxes(study)
      BY <1>1 DEF InputsTyped, Configured, Generated
  <1>5. h \in Nat \ {0} /\ Observations(config["horizon_years"]) <= h
      BY <1>3, <1>4, HorizonIsBounded
  <1>6. i + h - 1 <= Len(dataset)
      BY <1>2 DEF Plannable, Fits
  <1>7. /\ StartOf(dataset, dataset[i]) = i
        /\ DataOf(dataset, i, h) \in Seq([month : Nat, day : Nat])
        /\ Len(DataOf(dataset, i, h)) = h
        /\ \A p \in 1 .. h : DataOf(dataset, i, h)[p] = dataset[i + p - 1]
    <2>1. StartOf(dataset, dataset[i]) = i
        BY <1>3, <1>4, <1>5, SliceOfDataset
    <2> QED
        BY <1>3, <1>4, <1>5, <1>6, <2>1, DataIsThere
  <1>8. Len(dataset) \in Nat
      BY <1>4, MonthsFollow
  <1> QED
      BY <1>1, <1>2, <1>3, <1>5, <1>6, <1>7, <1>8

\* A unit of a study that does not accumulate starts at the prices of its cohort.
LEMMA UnitStartsAtItsCohort ==
    ASSUME PlanInvariant, NEW k \in DOMAIN units, NEW i, i = LoopPosition(k)[1]
    PROVE  units[k].portfolio =
              IF study.omy THEN AccumulatedOf(dataset, i)
              ELSE [bought |-> dataset[i], contributed |-> <<>>, valued |-> dataset[i]]
  <1> DEFINE config == configs[LoopPosition(k)[2]]
             h == HorizonOf(study, config)
  <1>1. /\ units[k] = UnitOf(study, dataset, i, config) /\ h \in Nat \ {0}
        /\ i \in 1 .. Len(dataset) /\ Len(dataset) \in Nat
        /\ \A p \in 1 .. h : DataOf(dataset, i, h)[p] = dataset[i + p - 1]
      BY DataOfUnit
  <1> HIDE DEF config, h
  <1>2. DataOf(dataset, i, h)[1] = dataset[i]
    <2>1. 1 \in 1 .. h /\ i + 1 - 1 = i
        BY <1>1
    <2> QED
        BY <1>1, <2>1
  <1>3. units[k].portfolio = IF study.omy THEN AccumulatedOf(dataset, i)
                             ELSE InitialPortfolio(DataOf(dataset, i, h))
      BY <1>1 DEF UnitOf, h
  <1>4. InitialPortfolio(DataOf(dataset, i, h)) =
            [bought |-> dataset[i], contributed |-> <<>>, valued |-> dataset[i]]
      BY <1>2 DEF InitialPortfolio
  <1> QED
      BY <1>3, <1>4

\* UnitsAreTheirOwn: through two caches and an accumulation, each unit has the
\* dataset, the policies, the wealth and the borrowing rates of its own cohort and
\* configuration.
THEOREM UnitsHaveTheirOwn == Spec => []UnitsAreTheirOwn
  <1>1. PlanInvariant => UnitsAreTheirOwn
    <2> SUFFICES ASSUME PlanInvariant, NEW k \in DOMAIN units
                 PROVE  LET u == units[k]
                            start == CHOOSE i \in DOMAIN dataset : dataset[i] = u.cohort
                        IN  /\ u.dataset = SubSeq(dataset, start, start + u.horizon - 1)
                            /\ u.withdrawal = PolicyFor(study, u.config)
                            /\ u.allocation = AllocationFor(study, u.config)
                            /\ IF study.omy
                               THEN /\ u.portfolio.contributed =
                                          SubSeq(dataset, start, start + AccumulationMonths - 1)
                                    /\ u.horizon >= Observations(u.config["horizon_years"])
                               ELSE /\ u.portfolio.valued = u.cohort /\ u.portfolio.contributed = <<>>
                                    /\ u.horizon = Observations(u.config["horizon_years"])
                            /\ u.schedule # <<>> =>
                                  /\ Len(u.schedule) = Len(u.dataset)
                                  /\ \A i \in DOMAIN u.schedule :
                                        /\ u.schedule[i].month = u.dataset[i].month
                                        /\ u.schedule[i] \in rates
        BY DEF UnitsAreTheirOwn
    <2> DEFINE u == units[k]
               i == LoopPosition(k)[1]
               config == configs[LoopPosition(k)[2]]
               h == HorizonOf(study, config)
               d == DataOf(dataset, i, h)
    <2>1. /\ i \in 1 .. Len(dataset) /\ Len(dataset) \in Nat
          /\ StartOf(dataset, dataset[i]) = i
          /\ u.cohort = dataset[i] /\ u.config = config
          /\ u = UnitOf(study, dataset, i, config)
          /\ Plannable(study, dataset, rates, i, config)
          /\ config \in ToSet(Configurations(study))
          /\ h \in Nat \ {0} /\ i + h - 1 <= Len(dataset)
          /\ Observations(config["horizon_years"]) <= h
          /\ Len(d) = h /\ \A p \in 1 .. h : d[p] = dataset[i + p - 1]
          /\ InputsTyped /\ Configured
      <3>1. i = LoopPosition(k)[1] /\ config = configs[LoopPosition(k)[2]] /\ h = HorizonOf(study, config)
          OBVIOUS
      <3> HIDE DEF i, config, h
      <3> QED
          BY <3>1, DataOfUnit
    <2>2. u.portfolio = IF study.omy THEN AccumulatedOf(dataset, i)
                        ELSE [bought |-> dataset[i], contributed |-> <<>>, valued |-> dataset[i]]
        BY UnitStartsAtItsCohort
    <2> HIDE DEF u, i, config, h, d
    <2>3. /\ u.dataset = d /\ u.withdrawal = PolicyFor(study, config)
          /\ u.allocation = AllocationFor(study, config) /\ u.horizon = h
          /\ u.schedule = ScheduleOf(study, dataset[i], h)
        BY <2>1 DEF UnitOf, h, d
    <2>4. d = SubSeq(dataset, i, i + h - 1)
        BY DEF d, DataOf
    <2>5. IF study.omy
          THEN u.portfolio.contributed = SubSeq(dataset, i, i + AccumulationMonths - 1)
          ELSE u.portfolio.valued = dataset[i] /\ u.portfolio.contributed = <<>>
      <3>1. CASE study.omy
        <4>1. u.portfolio = AccumulatedOf(dataset, i)
            BY <2>2, <3>1
        <4>2. AccumulatedOf(dataset, i).contributed = SubSeq(dataset, i, i + AccumulationMonths - 1)
            BY DEF AccumulatedOf
        <4> QED
            BY <3>1, <4>1, <4>2
      <3>2. CASE ~study.omy
          BY <2>2, <3>2
      <3> QED
          BY <3>1, <3>2
    <2>6. IF study.omy THEN h >= Observations(config["horizon_years"])
          ELSE h = Observations(config["horizon_years"])
      <3>1. CASE study.omy
        <4>1. Observations(config["horizon_years"]) \in Nat
            BY <2>1, HorizonIsBounded DEF InputsTyped, Configured, Generated
        <4> QED
            BY <2>1, <3>1, <4>1
      <3>2. CASE ~study.omy
          BY <3>2 DEF h, HorizonOf
      <3> QED
          BY <3>1, <3>2
    <2>7. ASSUME u.schedule # <<>>
          PROVE  /\ Len(u.schedule) = Len(u.dataset)
                 /\ \A p \in DOMAIN u.schedule :
                       /\ u.schedule[p].month = u.dataset[p].month
                       /\ u.schedule[p] \in rates
      <3>1. u.schedule = Periods(dataset[i], h)
          BY <2>3, <2>7 DEF ScheduleOf
      <3>2. DOMAIN u.schedule = 1 .. h /\ Len(u.schedule) = h
          BY <2>1, <3>1 DEF Periods
      <3>3. ToSet(u.schedule) \subseteq rates
          BY <2>1, <2>3 DEF Plannable, h
      <3>4. ASSUME NEW p \in 1 .. h
            PROVE  u.schedule[p].month = d[p].month /\ u.schedule[p] \in rates
        <4>1. u.schedule[p] = PeriodDate(dataset[i], p - 1)
            BY <3>1 DEF Periods
        <4>2. u.schedule[p].month = dataset[i].month + (p - 1)
            BY <4>1 DEF PeriodDate, Date
        <4>3. i + p - 1 \in 1 .. Len(dataset) /\ i <= i + p - 1 /\ (i + p - 1) - i = p - 1
            BY <2>1
        <4>4. dataset[i + p - 1].month = dataset[i].month + ((i + p - 1) - i)
            BY <2>1, <4>3, MonthsFollow DEF InputsTyped
        <4>5. d[p] = dataset[i + p - 1]
            BY <2>1
        <4>6. u.schedule[p] \in ToSet(u.schedule)
            BY <3>2 DEF ToSet
        <4> QED
            BY <3>3, <4>2, <4>3, <4>4, <4>5, <4>6
      <3> QED
          BY <2>1, <2>3, <3>2, <3>4
    <2>8. (CHOOSE j \in DOMAIN dataset : dataset[j] = u.cohort) = i
        BY <2>1 DEF StartOf
    <2> QED
        BY <2>1, <2>3, <2>4, <2>5, <2>6, <2>7, <2>8 DEF u
  <1> QED
      BY <1>1, PlanInvariantHolds, PTL

\* A sequence that agrees with a longer one is a prefix of it.
LEMMA AgreeingIsPrefix ==
    ASSUME NEW s, NEW t, NEW m \in Nat, NEW n \in Nat, Len(s) = m, Len(t) = n, m <= n,
           \A k \in 1 .. m : s[k] = t[k]
    PROVE  IsPrefix(s, t)
  <1> DEFINE S == {t[k] : k \in 1 .. m}
             p == SubSeq(s, 1, m)
             q == SubSeq(t, 1, m)
  <1>1. (\A k \in 1 .. m : s[k] \in S) /\ (\A k \in 1 .. m : t[k] \in S)
      OBVIOUS
  <1> HIDE DEF S
  <1>2. /\ p \in Seq(S) /\ Len(p) = IF 1 <= m THEN m - 1 + 1 ELSE 0
        /\ \A k \in 1 .. m - 1 + 1 : p[k] = s[1 + k - 1]
      BY <1>1, SubSeqProperties
  <1>3. /\ q \in Seq(S) /\ Len(q) = IF 1 <= m THEN m - 1 + 1 ELSE 0
        /\ \A k \in 1 .. m - 1 + 1 : q[k] = t[1 + k - 1]
      BY <1>1, SubSeqProperties
  <1> HIDE DEF p, q
  <1>4. Len(p) = m /\ Len(q) = m /\ \A k \in 1 .. m : p[k] = q[k]
    <2>1. Len(p) = m /\ Len(q) = m
        BY <1>2, <1>3
    <2>2. ASSUME NEW k \in 1 .. m PROVE p[k] = q[k]
      <3>1. k \in 1 .. m - 1 + 1 /\ 1 + k - 1 = k
          OBVIOUS
      <3>2. p[k] = s[k] /\ q[k] = t[k]
          BY <1>2, <1>3, <3>1
      <3> QED
          BY <3>2
    <2> QED
        BY <2>1, <2>2
  <1>5. p = q
      BY <1>2, <1>3, <1>4, SeqEqual
  <1> QED
      BY <1>5 DEF IsPrefix, p, q

\* FamiliesShareTrajectory: what the executors rest on when they derive the results
\* of a cohort's other horizons and targets from one simulation.
THEOREM FamiliesShare == Spec => []FamiliesShareTrajectory
  <1>1. PlanInvariant => FamiliesShareTrajectory
    <2> SUFFICES ASSUME PlanInvariant, NEW k \in DOMAIN units, NEW l \in DOMAIN units,
                        k < l, units[k].cohort = units[l].cohort
                 PROVE  /\ \A m \in k .. l : units[m].cohort = units[k].cohort
                        /\ units[k].portfolio = units[l].portfolio
                        /\ units[k].horizon <= units[l].horizon =>
                              /\ IsPrefix(units[k].dataset, units[l].dataset)
                              /\ IsPrefix(units[k].schedule, units[l].schedule)
                        /\ Lasting(units[k].config) = Lasting(units[l].config) =>
                              /\ units[k].withdrawal = units[l].withdrawal
                              /\ units[k].allocation = units[l].allocation
                              /\ units[k].interest = units[l].interest
        BY DEF FamiliesShareTrajectory, Lasting
    <2> DEFINE u == units[k]
               v == units[l]
               i == LoopPosition(k)[1]
               f == configs[LoopPosition(k)[2]]
               g == configs[LoopPosition(l)[2]]
               C == Len(cohorts) * Len(configs)
    <2>1. InputsTyped /\ UnitsAreOwn
        BY DEF PlanInvariant
    <2>2. Configured /\ configs # <<>> /\ DOMAIN units = 1 .. Len(units) /\ Len(units) \in Nat
          /\ study \in Studies /\ dataset \in Datasets /\ ValidAxes(study) /\ HasHorizons(study)
        BY <2>1, UnitsAtPlaces DEF InputsTyped, Configured, Generated
    <2>3. \A m \in DOMAIN units : /\ m \in 1 .. C /\ LoopPosition(m)[1] \in DOMAIN cohorts
                                  /\ units[m].cohort = cohorts[LoopPosition(m)[1]]
        BY <2>1, UnitsAtPlaces
    <2>4. /\ IsInjective(cohorts) /\ DOMAIN cohorts = 1 .. Len(cohorts)
          /\ \A p, q \in 1 .. C : p <= q => LoopPosition(p)[1] <= LoopPosition(q)[1]
        BY <2>1, <2>2, PlacesOfUnits
    <2>5. LoopPosition(l)[1] = i
        BY <2>3, <2>4 DEF IsInjective
    <2>6. \A m \in k .. l : units[m].cohort = u.cohort
      <3> TAKE m \in k .. l
      <3>1. m \in DOMAIN units /\ k <= m /\ m <= l
          BY <2>2
      <3>2. i <= LoopPosition(m)[1] /\ LoopPosition(m)[1] <= LoopPosition(l)[1]
        <4> HIDE DEF C
        <4> QED
            BY <2>3, <2>4, <3>1
      <3>3. LoopPosition(m)[1] = i
        <4>1. i \in 1 .. Len(cohorts) /\ LoopPosition(m)[1] \in 1 .. Len(cohorts)
            BY <2>3, <2>4, <3>1
        <4> HIDE DEF i
        <4> QED
            BY <2>5, <3>2, <4>1
      <3> QED
          BY <2>3, <3>1, <3>3
    <2>7. u.portfolio = v.portfolio
      <3> DEFINE start == IF study.omy THEN AccumulatedOf(dataset, i)
                          ELSE [bought |-> dataset[i], contributed |-> <<>>, valued |-> dataset[i]]
      <3>1. i = LoopPosition(k)[1]
          OBVIOUS
      <3> HIDE DEF i
      <3>2. u.portfolio = start
          BY <3>1, UnitStartsAtItsCohort
      <3>3. v.portfolio = start
          BY <2>5, UnitStartsAtItsCohort
      <3> HIDE DEF start
      <3> QED
          BY <3>2, <3>3
    <2> DEFINE h == HorizonOf(study, f)
               r == HorizonOf(study, g)
    <2>8. /\ u = UnitOf(study, dataset, i, f) /\ Plannable(study, dataset, rates, i, f)
          /\ f \in ToSet(Configurations(study)) /\ h \in Nat \ {0}
          /\ Len(DataOf(dataset, i, h)) = h
          /\ \A p \in 1 .. h : DataOf(dataset, i, h)[p] = dataset[i + p - 1]
          /\ u.config = f
      <3>1. i = LoopPosition(k)[1] /\ f = configs[LoopPosition(k)[2]] /\ h = HorizonOf(study, f)
          OBVIOUS
      <3> HIDE DEF i, f, h
      <3> QED
          BY <3>1, DataOfUnit
    <2>9. /\ v = UnitOf(study, dataset, i, g) /\ Plannable(study, dataset, rates, i, g)
          /\ g \in ToSet(Configurations(study)) /\ r \in Nat \ {0}
          /\ Len(DataOf(dataset, i, r)) = r
          /\ \A p \in 1 .. r : DataOf(dataset, i, r)[p] = dataset[i + p - 1]
          /\ v.config = g
      <3>1. i = LoopPosition(l)[1] /\ g = configs[LoopPosition(l)[2]] /\ r = HorizonOf(study, g)
          BY <2>5
      <3> HIDE DEF i, g, r
      <3> QED
          BY <3>1, DataOfUnit
    <2> HIDE DEF u, v, i, f, g, C, h, r
    <2>10. /\ u.dataset = DataOf(dataset, i, h) /\ u.horizon = h
           /\ u.schedule = ScheduleOf(study, dataset[i], h)
           /\ u.withdrawal = PolicyFor(study, f) /\ u.allocation = AllocationFor(study, f)
           /\ u.interest = IF study.omy THEN NoValue ELSE ValueOf(study, f, "interest_rate")
        BY <2>8 DEF UnitOf, h
    <2>11. /\ v.dataset = DataOf(dataset, i, r) /\ v.horizon = r
           /\ v.schedule = ScheduleOf(study, dataset[i], r)
           /\ v.withdrawal = PolicyFor(study, g) /\ v.allocation = AllocationFor(study, g)
           /\ v.interest = IF study.omy THEN NoValue ELSE ValueOf(study, g, "interest_rate")
        BY <2>9 DEF UnitOf, r
    <2>12. ASSUME u.horizon <= v.horizon
           PROVE  IsPrefix(u.dataset, v.dataset) /\ IsPrefix(u.schedule, v.schedule)
      <3>1. h <= r
          BY <2>10, <2>11, <2>12
      <3>2. IsPrefix(DataOf(dataset, i, h), DataOf(dataset, i, r))
        <4>1. \A p \in 1 .. h : DataOf(dataset, i, h)[p] = DataOf(dataset, i, r)[p]
            BY <2>8, <2>9, <3>1
        <4> QED
            BY <2>8, <2>9, <3>1, <4>1, AgreeingIsPrefix
      <3>3. IsPrefix(ScheduleOf(study, dataset[i], h), ScheduleOf(study, dataset[i], r))
        <4>1. CASE study.floating /\ ~study.omy
          <5> DEFINE s == Periods(dataset[i], h)
                     t == Periods(dataset[i], r)
          <5>1. /\ Len(s) = h /\ Len(t) = r
                /\ \A p \in 1 .. h : s[p] = PeriodDate(dataset[i], p - 1)
                /\ \A p \in 1 .. r : t[p] = PeriodDate(dataset[i], p - 1)
              BY <2>8, <2>9 DEF Periods
          <5> HIDE DEF s, t
          <5>2. \A p \in 1 .. h : s[p] = t[p]
              BY <2>8, <2>9, <3>1, <5>1
          <5>3. IsPrefix(s, t)
              BY <2>8, <2>9, <3>1, <5>1, <5>2, AgreeingIsPrefix
          <5> QED
              BY <4>1, <5>3 DEF ScheduleOf, s, t
        <4>2. CASE ~(study.floating /\ ~study.omy)
          <5>1. IsPrefix(<<>>, <<>>)
              BY DEF IsPrefix
          <5> QED
              BY <4>2, <5>1 DEF ScheduleOf
        <4> QED
            BY <4>1, <4>2
      <3> QED
          BY <2>10, <2>11, <3>2, <3>3
    <2>13. ASSUME Lasting(f) = Lasting(g)
           PROVE  u.withdrawal = v.withdrawal /\ u.allocation = v.allocation /\ u.interest = v.interest
      <3>1. "withdrawal_rate" \in DOMAIN f /\ "withdrawal_rate" \in DOMAIN g
          BY <2>2, <2>8, <2>9, ConfigurationsAreDeclared
      <3>2. /\ ToSet(AllocationNames(study)) \subseteq DOMAIN f
            /\ ToSet(AllocationNames(study)) \subseteq DOMAIN g
          BY <2>8, <2>9 DEF Plannable
      <3>3. /\ PolicyFor(study, f) = PolicyFor(study, g)
            /\ AllocationFor(study, f) = AllocationFor(study, g)
            /\ ValueOf(study, f, "interest_rate") = ValueOf(study, g, "interest_rate")
          BY <2>13, <3>1, <3>2, LastingDeterminesPolicies
      <3> QED
          BY <2>10, <2>11, <3>3
    <2> QED
        BY <2>6, <2>7, <2>8, <2>9, <2>12, <2>13 DEF u, v
  <1> QED
      BY <1>1, PlanInvariantHolds, PTL

----------------------------------------------------------------------------
(* One more year.                                                          *)

\* RetirementIsReady: for whatever study and dataset, no accumulation and no
\* retirement unit lacks the history or the portfolio that it needs.
THEOREM RetirementCorrect == Spec => []RetirementIsReady
  <1>1. PlanInvariant => RetirementIsReady
    <2> SUFFICES ASSUME PlanInvariant PROVE RetirementIsReady
        OBVIOUS
    <2>1. /\ InputsTyped /\ Progress /\ AccumulationsAreOwn /\ SlicesAreOwn /\ UnitsAreOwn
          /\ study \in Studies /\ dataset \in Datasets
        BY DEF PlanInvariant, InputsTyped
    <2> DEFINE L == Observations(LongestHorizon(study))
               A == AccumulationMonths
    <2>2. A \in Nat \ {0} /\ A + 1 \in Nat \ {0}
        BY BoundsAssumption
    <2>3. ASSUME Configured, study.omy
          PROVE  L \in Nat \ {0} /\ CohortHorizon(study) = A + L
      <3>1. HasHorizons(study)
          BY <2>3 DEF Configured, Generated
      <3>2. L \in Nat \ {0}
          BY <2>1, <3>1, LongestHorizonIsDeclared, ObservationsGrow
      <3> QED
          BY <2>3, <3>2 DEF CohortHorizon
    <2>4. ASSUME pc = "accumulation", NEW i \in DOMAIN cohorts
          PROVE  Slice(dataset, cohorts[i], A + 1) # {}
      <3>1. Configured /\ Generated /\ study.omy
          BY <2>1, <2>4 DEF Progress, Configured
      <3>2. /\ cohorts = CohortsOf(study, dataset) /\ HasHorizons(study)
            /\ CohortHorizon(study) <= Len(dataset)
          BY <3>1 DEF Generated
      <3>3. /\ Len(cohorts) = Len(dataset) - CohortHorizon(study) + 1
            /\ Len(cohorts) \in 1 .. Len(dataset) /\ DOMAIN cohorts = 1 .. Len(cohorts)
            /\ \A k \in DOMAIN cohorts : cohorts[k] = dataset[k]
          BY <2>1, <3>2, CohortsComeFirst
      <3>4. Len(dataset) \in Nat
          BY <2>1, MonthsFollow
      <3> HIDE DEF A, L
      <3>5. i \in 1 .. Len(dataset) /\ cohorts[i] = dataset[i] /\ i + (A + 1) - 1 <= Len(dataset)
          BY <2>2, <2>3, <2>4, <3>1, <3>3, <3>4
      <3>6. Slice(dataset, dataset[i], A + 1) = {DataOf(dataset, i, A + 1)}
          BY <2>1, <2>2, <3>5, SliceOfDataset DEF Fits
      <3> QED
          BY <3>5, <3>6
    <2>5. ASSUME pc = "units", study.omy, ~Planned
          PROVE  NextCohort \in DOMAIN accumulated /\ CachedSlice(NextCohort, L) # {}
      <3> DEFINE i == LoopPosition(Len(units) + 1)[1]
                 config == configs[LoopPosition(Len(units) + 1)[2]]
      <3>1. Configured /\ Generated /\ configs # <<>>
          BY <2>1, <2>5 DEF Progress, Configured
      <3>2. /\ i \in DOMAIN cohorts /\ i \in 1 .. Len(dataset) /\ NextCohort = cohorts[i]
            /\ i <= Len(dataset) - CohortHorizon(study) + 1
          BY <2>1, <2>5, <3>1, NextPlace
      <3>3. Accumulated(i)
          BY <2>1, <2>5, <3>2 DEF AccumulationsAreOwn
      <3>4. Len(dataset) \in Nat
          BY <2>1, MonthsFollow
      <3> HIDE DEF i, L, A
      <3>5. Fits(dataset, i, L)
          BY <2>2, <2>3, <2>5, <3>1, <3>2, <3>4 DEF Fits
      <3>6. CachedSlice(cohorts[i], L) = {DataOf(dataset, i, L)}
          BY <2>1, <2>3, <2>5, <3>1, <3>2, <3>5, CachedSliceIsOwn
      <3> QED
          BY <3>2, <3>3, <3>6 DEF Accumulated
    <2> QED
        BY <2>4, <2>5 DEF RetirementIsReady
  <1> QED
      BY <1>1, PlanInvariantHolds, PTL

=============================================================================
