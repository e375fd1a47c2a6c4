-------------------------- MODULE HllSketchProofs --------------------------
(***************************************************************************)
(* The HyperLogLog for any width of hash, any precision and any number of  *)
(* sketches: what sketch.Add computes with shifts and a count of leading   *)
(* zeros is the textbook's register and rank, the registers hold the       *)
(* largest ranks of the ids counted, and the estimate is zero exactly for  *)
(* an empty sketch.                                                        *)
(***************************************************************************)
EXTENDS HllSketch, TLAPS, WellFoundedInduction

\* A set of naturals that is not empty has a least element.
LEMMA LeastNat ==
  ASSUME NEW T \in SUBSET Nat, T # {}
  PROVE  \E m \in T : \A x \in T : m <= x
<1> DEFINE R == {ss \in Nat \X Nat : ss[1] < ss[2]}
<1>1. IsWellFoundedOn(R, Nat)
  BY NatLessThanWellFounded DEF OpToRel
<1>2. PICK m \in T : \A y \in T : <<y, m>> \notin R
  BY <1>1, WFMin, Zenon
<1>3. ASSUME NEW x \in T PROVE m <= x
  <2>1. <<x, m>> \notin R /\ <<x, m>> \in Nat \X Nat
    BY <1>2, <1>3
  <2>2. ~ (x < m)
    BY <2>1
  <2> QED BY <2>2
<1> QED BY <1>3

-----------------------------------------------------------------------------
(* Powers of two.  That the equation which defines Pow2 has a solution is  *)
(* to be shown: ever longer tables satisfy it up to their end, two of them *)
(* agree, and the solution takes each value from the table that ends there.*)

\* g satisfies the equation up to k.
Table(g, k) ==
  /\ g \in [Nat -> Nat] /\ g[0] = 1
  /\ \A n \in Nat : n < k => g[n + 1] = 2 * g[n]

\* There is a table of every length.
LEMMA Tables ==
  \A k \in Nat : \E g : Table(g, k)
<1> DEFINE T == {k \in Nat : ~ \E g : Table(g, k)}
<1>1. SUFFICES ASSUME T # {} PROVE FALSE
  BY Zenon
<1>2. PICK m \in T : \A x \in T : m <= x
  BY <1>1, LeastNat, Zenon
<1>3. m # 0
  <2>1. Table([n \in Nat |-> 1], 0)
    BY DEF Table
  <2> QED BY <2>1, <1>2
<1>4. m - 1 \in Nat /\ m - 1 \notin T
  BY <1>2, <1>3
<1>5. PICK g : Table(g, m - 1)
  BY <1>4, Zenon
<1>6. Table([g EXCEPT ![m] = 2 * g[m - 1]], m)
  BY <1>2, <1>3, <1>5 DEF Table
<1> QED BY <1>2, <1>6, Zenon

\* Two tables agree as far as both go.
LEMMA TablesAgree ==
  ASSUME NEW k \in Nat, NEW l \in Nat, NEW g, NEW h, Table(g, k), Table(h, l)
  PROVE  \A n \in Nat : n <= k /\ n <= l => g[n] = h[n]
<1> DEFINE T == {n \in Nat : n <= k /\ n <= l /\ g[n] # h[n]}
<1>1. SUFFICES ASSUME T # {} PROVE FALSE
  BY Zenon
<1>2. PICK m \in T : \A x \in T : m <= x
  BY <1>1, LeastNat, Zenon
<1>3. m # 0
  BY <1>2 DEF Table
<1>4. m - 1 \in Nat /\ g[m - 1] = h[m - 1]
  BY <1>2, <1>3
<1>5. g[m - 1 + 1] = 2 * g[m - 1] /\ h[m - 1 + 1] = 2 * h[m - 1]
  BY <1>2, <1>3 DEF Table
<1> QED BY <1>2, <1>4, <1>5

\* So the equation has a solution, and Pow2 is one.
LEMMA PowEquation ==
  /\ Pow2 \in [Nat -> Nat] /\ Pow2[0] = 1
  /\ \A n \in Nat : Pow2[n + 1] = 2 * Pow2[n]
<1> DEFINE Solves(f) == f = [n \in Nat |-> IF n = 0 THEN 1 ELSE 2 * f[n - 1]]
           tab(n) == CHOOSE g : Table(g, n)
           f == [n \in Nat |-> tab(n)[n]]
<1>1. \A n \in Nat : Table(tab(n), n)
  BY Tables, Zenon
<1> HIDE DEF tab
<1>2. f \in [Nat -> Nat] /\ f[0] = 1
  BY <1>1 DEF Table
<1>3. ASSUME NEW n \in Nat, n # 0 PROVE f[n] = 2 * f[n - 1]
  <2>1. n - 1 \in Nat /\ n - 1 < n /\ n - 1 <= n /\ n - 1 + 1 = n
    BY <1>3
  <2>2. Table(tab(n), n) /\ Table(tab(n - 1), n - 1)
    BY <1>1, <2>1
  <2>3. tab(n)[n] = 2 * tab(n)[n - 1]
    BY <2>1, <2>2 DEF Table
  <2>4. tab(n)[n - 1] = tab(n - 1)[n - 1]
    BY <2>1, <2>2, TablesAgree
  <2> QED BY <2>1, <2>3, <2>4
<1>4. Solves(f)
  BY <1>2, <1>3
<1>5. Pow2 = CHOOSE g : Solves(g)
  BY Zenon DEF Pow2
<1> HIDE DEF f
<1>6. Solves(Pow2)
  <2> HIDE DEF Solves
  <2> QED BY <1>4, <1>5, Zenon
<1>7. /\ Pow2[0] = 1
      /\ \A n \in Nat : Pow2[n + 1] = 2 * Pow2[n]
  <2> DEFINE body == [n \in Nat |-> IF n = 0 THEN 1 ELSE 2 * Pow2[n - 1]]
  <2>1. Pow2 = body
    BY <1>6, Zenon
  <2>2. \A k \in Nat : body[k] = IF k = 0 THEN 1 ELSE 2 * Pow2[k - 1]
    BY Zenon
  <2> HIDE DEF body
  <2>3. body[0] = 1
    BY <2>2
  <2>4. ASSUME NEW n \in Nat PROVE body[n + 1] = 2 * Pow2[n]
    BY <2>2
  <2> QED BY <2>1, <2>3, <2>4, Zenon
<1>8. ASSUME NEW n \in Nat PROVE Pow2[n] \in Nat
  <2> DEFINE T == {k \in Nat : Pow2[k] \notin Nat}
  <2>1. SUFFICES ASSUME T # {} PROVE FALSE
    BY Zenon
  <2>2. PICK m \in T : \A x \in T : m <= x
    BY <2>1, LeastNat, Zenon
  <2>3. m # 0 
    BY <1>7, <2>2
  <2>4. m - 1 \in Nat /\ Pow2[m - 1] \in Nat
    BY <2>2, <2>3
  <2>5. Pow2[m - 1 + 1] = 2 * Pow2[m - 1]
    BY <1>7, <2>4
  <2> QED BY <2>2, <2>4, <2>5
<1>9. Pow2 \in [Nat -> Nat]
  <2> DEFINE body == [n \in Nat |-> IF n = 0 THEN 1 ELSE 2 * Pow2[n - 1]]
  <2>1. Pow2 = body /\ body = [n \in Nat |-> body[n]]
    BY <1>6, Zenon
  <2> HIDE DEF body
  <2> QED BY <2>1, <1>8, Zenon
<1> QED BY <1>7, <1>9, Zenon

\* They are positive and grow.
LEMMA PowGrows ==
  /\ \A n \in Nat : Pow2[n] \in Nat \ {0}
  /\ \A m, n \in Nat : m <= n => Pow2[m] <= Pow2[n]
<1>1. ASSUME NEW n \in Nat PROVE Pow2[n] \in Nat \ {0}
  <2> DEFINE T == {k \in Nat : Pow2[k] \notin Nat \ {0}}
  <2>1. SUFFICES ASSUME T # {} PROVE FALSE
    BY Zenon
  <2>2. PICK m \in T : \A x \in T : m <= x
    BY <2>1, LeastNat, Zenon
  <2>3. m # 0
    BY <2>2, PowEquation
  <2>4. m - 1 \in Nat /\ m - 1 \notin T /\ Pow2[m - 1 + 1] = 2 * Pow2[m - 1]
    BY <2>2, <2>3, PowEquation
  <2> QED BY <2>2, <2>4
<1>2. ASSUME NEW m \in Nat, NEW n \in Nat, m <= n PROVE Pow2[m] <= Pow2[n]
  <2> DEFINE T == {k \in Nat : m <= k /\ ~ (Pow2[m] <= Pow2[k])}
  <2>1. SUFFICES ASSUME T # {} PROVE FALSE
    BY <1>2, Zenon
  <2>2. PICK k \in T : \A x \in T : k <= x
    BY <2>1, LeastNat, Zenon
  <2>3. k # m
    BY <2>2, <1>1
  <2>4. k - 1 \in Nat /\ m <= k - 1 /\ k - 1 \notin T /\ k - 1 + 1 = k
    BY <2>2, <2>3
  <2>5. Pow2[k] = 2 * Pow2[k - 1] /\ Pow2[k - 1] \in Nat /\ Pow2[m] \in Nat
    BY <2>4, PowEquation, <1>1
  <2> QED BY <2>2, <2>4, <2>5
<1> QED BY <1>1, <1>2

\* Products by a doubled factor.
LEMMA Doubled == \A x, y \in Nat : x * (2 * y) = 2 * (x * y) /\ x * y \in Nat
OBVIOUS

\* Exponents add up.
LEMMA PowSum ==
  \A m, n \in Nat : Pow2[m + n] = Pow2[m] * Pow2[n]
<1>1. ASSUME NEW m \in Nat, NEW n \in Nat PROVE Pow2[m + n] = Pow2[m] * Pow2[n]
  <2> DEFINE T == {k \in Nat : Pow2[m + k] # Pow2[m] * Pow2[k]}
  <2>1. SUFFICES ASSUME T # {} PROVE FALSE
    BY Zenon
  <2>2. PICK k \in T : \A x \in T : k <= x
    BY <2>1, LeastNat, Zenon
  <2>3. k # 0
    BY <2>2, PowEquation
  <2> DEFINE j == k - 1
  <2>4. j \in Nat /\ j \notin T /\ k = j + 1 /\ m + k = (m + j) + 1 /\ m + j \in Nat
    BY <2>2, <2>3
  <2> HIDE DEF j
  <2>5. Pow2[k] = 2 * Pow2[j] /\ Pow2[m + k] = 2 * Pow2[m + j] /\ Pow2[j] \in Nat /\ Pow2[m] \in Nat
    BY <2>4, PowEquation
  <2>6. Pow2[m + k] = Pow2[m] * Pow2[k]
    BY <2>4, <2>5, Doubled
  <2> QED BY <2>2, <2>6
<1> QED BY <1>1

-----------------------------------------------------------------------------
(* Division.                                                               *)

\* Quotient and remainder.
LEMMA Division ==
  ASSUME NEW n \in Nat, NEW d \in Nat \ {0}
  PROVE  /\ n \div d \in Nat /\ n % d \in Nat /\ n % d < d
         /\ n = (n \div d) * d + (n % d)
OBVIOUS

\* There is one way to divide.
LEMMA DivisionUnique ==
  ASSUME NEW d \in Nat \ {0}, NEW q \in Nat, NEW r \in Nat, r < d
  PROVE  (q * d + r) \div d = q /\ (q * d + r) % d = r
OBVIOUS

\* A larger factor makes a larger product.
LEMMA Products ==
  \A x, y, d \in Nat : x <= y => x * d <= y * d /\ x * d \in Nat /\ y * d \in Nat
OBVIOUS

\* The last bit of a quotient is what is lost when the divisor doubles.
LEMMA HalveQuotient ==
  ASSUME NEW n \in Nat, NEW q \in Nat \ {0}
  PROVE  /\ n \div (2 * q) \in Nat /\ n \div q \in Nat /\ (n \div q) % 2 \in {0, 1}
         /\ n \div q = 2 * (n \div (2 * q)) + ((n \div q) % 2)
<1> DEFINE d == n \div q
           r == n % q
           e == d \div 2
           b == d % 2
<1>1. d \in Nat /\ r \in Nat /\ r < q /\ n = d * q + r
  BY Division
<1> HIDE DEF d, r
<1>2. e \in Nat /\ b \in {0, 1} /\ d = 2 * e + b
  BY <1>1
<1> HIDE DEF e, b
<1>3. d * q = e * (2 * q) + b * q /\ e * (2 * q) \in Nat
  BY <1>1, <1>2
<1>4. b * q \in Nat /\ b * q <= q
  BY <1>2
<1>5. n = e * (2 * q) + (b * q + r) /\ b * q + r \in Nat /\ b * q + r < 2 * q /\ 2 * q \in Nat \ {0}
  BY <1>1, <1>3, <1>4
<1>6. n \div (2 * q) = e
  <2> DEFINE rest == b * q + r
             dd == 2 * q
  <2>1. n = e * dd + rest /\ rest \in Nat /\ rest < dd /\ dd \in Nat \ {0}
    BY <1>5
  <2> HIDE DEF rest, dd
  <2>2. n \div dd = e
    BY <1>2, <2>1, DivisionUnique
  <2> QED BY <2>2 DEF dd
<1> QED BY <1>1, <1>2, <1>6 DEF d, b

-----------------------------------------------------------------------------
(* A number of w bits, read from the top: its first i bits.                *)

Top(x, w, i) == x \div Pow2[w - i]

\* One more bit.
LEMMA TopStep ==
  ASSUME NEW x \in Nat, NEW w \in Nat, NEW i \in Nat, i < w
  PROVE  /\ Top(x, w, i) \in Nat /\ Top(x, w, i + 1) \in Nat /\ Top(x, w, i + 1) % 2 \in {0, 1}
         /\ Top(x, w, i + 1) = 2 * Top(x, w, i) + (Top(x, w, i + 1) % 2)
<1> DEFINE q == Pow2[w - (i + 1)]
<1>1. w - (i + 1) \in Nat /\ (w - (i + 1)) + 1 = w - i
  OBVIOUS
<1>2. q \in Nat \ {0} /\ Pow2[w - i] = 2 * q
  <2>1. Pow2[(w - (i + 1)) + 1] = 2 * Pow2[w - (i + 1)]
    BY <1>1, PowEquation, Zenon
  <2> QED BY <1>1, <2>1, PowGrows
<1> HIDE DEF q
<1>3. /\ x \div (2 * q) \in Nat /\ x \div q \in Nat /\ (x \div q) % 2 \in {0, 1}
      /\ x \div q = 2 * (x \div (2 * q)) + ((x \div q) % 2)
  BY <1>2, HalveQuotient, Zenon
<1>4. Top(x, w, i + 1) = x \div q /\ Top(x, w, i) = x \div (2 * q)
  BY <1>2, Zenon DEF Top, q
<1> QED BY <1>3, <1>4, Zenon

\* No bit of it, and all of them.
LEMMA TopEnds ==
  ASSUME NEW x \in Nat, NEW w \in Nat
  PROVE  /\ Top(x, w, w) = x
         /\ x < Pow2[w] => Top(x, w, 0) = 0
<1>1. w - w = 0 /\ w - 0 = w /\ Pow2[0] = 1 /\ Pow2[w] \in Nat \ {0}
  BY PowEquation, PowGrows
<1>2. x \div 1 = x
  OBVIOUS
<1>3. ASSUME x < Pow2[w] PROVE x \div Pow2[w] = 0
  <2> DEFINE d == Pow2[w]
  <2>1. d \in Nat \ {0} /\ x < d /\ 0 \in Nat
    BY <1>1, <1>3
  <2> HIDE DEF d
  <2>2. 0 * d + x = x
    BY <2>1
  <2>3. (0 * d + x) \div d = 0
    BY <2>1, DivisionUnique
  <2> QED BY <2>2, <2>3 DEF d
<1> QED BY <1>1, <1>2, <1>3 DEF Top

\* The first i bits are zero exactly when each of them is, and when the
\* number is below 2^(w-i).
LEMMA TopZero ==
  ASSUME NEW x \in Nat, NEW w \in Nat, x < Pow2[w], NEW k \in Nat, k <= w
  PROVE  /\ (\A j \in 1 .. k : Top(x, w, j) % 2 = 0) <=> Top(x, w, k) = 0
         /\ Top(x, w, k) = 0 <=> x < Pow2[w - k]
<1>1. ASSUME \A j \in 1 .. k : Top(x, w, j) % 2 = 0 PROVE Top(x, w, k) = 0
  <2> DEFINE T == {j \in Nat : j <= k /\ Top(x, w, j) # 0}
  <2>1. SUFFICES ASSUME T # {} PROVE FALSE
    <3>1. k <= k
      OBVIOUS
    <3> QED BY <3>1, Zenon
  <2>2. PICK m \in T : \A y \in T : m <= y
    BY <2>1, LeastNat, Zenon
  <2>3. m # 0
    BY <2>2, TopEnds
  <2> DEFINE i == m - 1
  <2>4. i \in Nat /\ i < w /\ i <= k /\ m = i + 1 /\ i \notin T /\ m \in 1 .. k
    BY <2>2, <2>3
  <2> HIDE DEF i
  <2>5. Top(x, w, m) = 2 * Top(x, w, i) + (Top(x, w, m) % 2)
    BY <2>4, TopStep
  <2>6. Top(x, w, i) = 0 /\ Top(x, w, m) % 2 = 0
    BY <2>4, <1>1
  <2>7. Top(x, w, m) = 0
    BY <2>5, <2>6
  <2> QED BY <2>2, <2>7
<1>2. ASSUME Top(x, w, k) = 0, NEW j \in 1 .. k PROVE Top(x, w, j) % 2 = 0
  <2> DEFINE T == {l \in Nat : l <= k /\ Top(x, w, k - l) # 0}
  <2>1. T = {}
    <3>1. SUFFICES ASSUME T # {} PROVE FALSE
      OBVIOUS
    <3>2. PICK m \in T : \A y \in T : m <= y
      BY <3>1, LeastNat, Zenon
    <3>3. m # 0
      BY <3>2, <1>2
    <3> DEFINE i == k - m
    <3>4. m - 1 \in Nat /\ m - 1 \notin T /\ i + 1 = k - (m - 1)
      BY <3>2, <3>3
    <3>5. i \in Nat /\ i < w
      BY <3>2, <3>3
    <3>6. Top(x, w, i + 1) = 0 /\ Top(x, w, i) # 0
      BY <3>2, <3>3, <3>4
    <3> HIDE DEF i, T
    <3>7. /\ Top(x, w, i) \in Nat /\ Top(x, w, i + 1) % 2 \in {0, 1}
          /\ Top(x, w, i + 1) = 2 * Top(x, w, i) + (Top(x, w, i + 1) % 2)
      BY <3>5, TopStep, Zenon
    <3> QED BY <3>6, <3>7
  <2>2. k - j \in Nat /\ k - j <= k /\ k - (k - j) = j
    OBVIOUS
  <2>3. Top(x, w, j) = 0
    BY <2>1, <2>2, Zenon
  <2> QED BY <2>3
<1>3. Top(x, w, k) = 0 <=> x < Pow2[w - k]
  <2> DEFINE d == Pow2[w - k]
  <2>1. d \in Nat \ {0} /\ Top(x, w, k) = x \div d
    BY PowGrows DEF Top
  <2> HIDE DEF d
  <2>2. x \div d \in Nat /\ x % d \in Nat /\ x % d < d /\ x = (x \div d) * d + (x % d)
    BY <2>1, Division
  <2>3. x \div d = 0 => x < d
    <3>1. 0 * d = 0
      BY <2>1
    <3> QED BY <2>1, <2>2, <3>1
  <2>4. x < d => x \div d = 0
    <3>1. ASSUME x \div d >= 1 PROVE x >= d
      <4>1. 1 * d <= (x \div d) * d /\ 1 * d = d /\ (x \div d) * d \in Nat
        BY <2>1, <2>2, <3>1, Products
      <4> QED BY <2>1, <2>2, <4>1
    <3> QED BY <2>1, <2>2, <3>1
  <2> QED BY <2>1, <2>3, <2>4 DEF d
<1> QED BY <1>1, <1>2, <1>3

-----------------------------------------------------------------------------
(* The register: hash >> (64 - precision).                                 *)

\* The widths.
LEMMA Widths ==
  /\ HashBits \in Nat /\ P \in Nat \ {0} /\ HashBits - P \in Nat \ {0}
  /\ P < HashBits /\ HashBits = P + (HashBits - P)
  /\ Pow2[P] \in Nat \ {0} /\ Pow2[HashBits - P] \in Nat \ {0} /\ Pow2[HashBits] \in Nat \ {0}
  /\ Pow2[HashBits] = Pow2[P] * Pow2[HashBits - P]
<1>1. /\ HashBits \in Nat /\ P \in Nat \ {0} /\ HashBits - P \in Nat \ {0}
      /\ P < HashBits /\ HashBits = P + (HashBits - P)
  BY WidthAssumption
<1>2. Pow2[P + (HashBits - P)] = Pow2[P] * Pow2[HashBits - P]
  BY <1>1, PowSum
<1> QED BY <1>1, <1>2, PowGrows

\* A hash is its first P bits and the rest.
LEMMA HashParts ==
  ASSUME NEW h \in Hashes
  PROVE  /\ h \in Nat /\ h < Pow2[HashBits]
         /\ IdxOf(h) \in Registers
         /\ h % Pow2[HashBits - P] \in Nat /\ h % Pow2[HashBits - P] < Pow2[HashBits - P]
         /\ h = IdxOf(h) * Pow2[HashBits - P] + (h % Pow2[HashBits - P])
<1> DEFINE q == Pow2[HashBits - P]
           top == Pow2[P]
           d == h \div q
           m == h % q
<1>1. h \in Nat /\ h < Pow2[HashBits] /\ q \in Nat \ {0} /\ top \in Nat \ {0} /\ Pow2[HashBits] = top * q
  BY Widths DEF Hashes
<1>2. d \in Nat /\ m \in Nat /\ m < q /\ h = d * q + m
  BY <1>1, Division, Zenon
<1> HIDE DEF q, top, d, m
<1>3. d < top
  <2>1. ASSUME top <= d PROVE FALSE
    <3>1. top * q <= d * q /\ top * q \in Nat /\ d * q \in Nat
      BY <1>1, <1>2, <2>1, Products
    <3> QED BY <1>1, <1>2, <3>1
  <2> QED BY <1>1, <1>2, <2>1
<1>4. d \in 0 .. top - 1
  BY <1>1, <1>2, <1>3
<1> QED BY <1>1, <1>2, <1>4 DEF q, d, m, top, IdxOf, Registers, NumRegs

\* The register the code computes is the one whose number the first P bits
\* of the hash spell.
LEMMA IdxIsSelected ==
  ASSUME NEW h \in Hashes, NEW r \in Registers
  PROVE  Selects(h, r) <=> IdxOf(h) = r
<1> DEFINE H(i) == Top(h, HashBits, i)
           R(i) == Top(r, P, i)
<1>1. /\ h \in Nat /\ h < Pow2[HashBits] /\ r \in Nat /\ r < Pow2[P]
      /\ HashBits \in Nat /\ P \in Nat /\ P < HashBits
  BY HashParts, Widths DEF Registers, NumRegs
<1>2. H(0) = 0 /\ R(0) = 0 /\ R(P) = r /\ H(P) = IdxOf(h)
  BY <1>1, TopEnds DEF Top, IdxOf
<1>3. Selects(h, r) <=> \A i \in 1 .. P : H(i) % 2 = R(i) % 2
  BY DEF Selects, Bit, Top
<1>4. ASSUME NEW i \in Nat, i < P
      PROVE  /\ H(i) \in Nat /\ H(i + 1) = 2 * H(i) + (H(i + 1) % 2) /\ H(i + 1) % 2 \in {0, 1}
             /\ R(i) \in Nat /\ R(i + 1) = 2 * R(i) + (R(i + 1) % 2) /\ R(i + 1) % 2 \in {0, 1}
  <2>1. i < HashBits
    BY <1>1, <1>4
  <2>2. H(i) \in Nat /\ H(i + 1) = 2 * H(i) + (H(i + 1) % 2) /\ H(i + 1) % 2 \in {0, 1}
    <3>1. h \in Nat /\ HashBits \in Nat
      BY <1>1, Zenon
    <3> QED BY <3>1, <2>1, TopStep, Zenon
  <2>3. R(i) \in Nat /\ R(i + 1) = 2 * R(i) + (R(i + 1) % 2) /\ R(i + 1) % 2 \in {0, 1}
    <3>1. r \in Nat /\ P \in Nat
      BY <1>1, Zenon
    <3> QED BY <3>1, <1>4, TopStep, Zenon
  <2> QED BY <2>2, <2>3, Zenon
<1> HIDE DEF H, R
<1>5. ASSUME \A i \in 1 .. P : H(i) % 2 = R(i) % 2 PROVE H(P) = R(P)
  <2> DEFINE T == {i \in Nat : i <= P /\ H(i) # R(i)}
  <2>1. SUFFICES ASSUME T # {} PROVE FALSE
    <3>1. P <= P
      BY <1>1
    <3> QED BY <1>1, <3>1, Zenon
  <2>2. PICK m \in T : \A y \in T : m <= y
    BY <2>1, LeastNat, Zenon
  <2>3. m # 0
    BY <1>2, <2>2
  <2> DEFINE i == m - 1
  <2>4. i \in Nat /\ i < P /\ i <= P /\ m = i + 1 /\ i \notin T /\ m \in 1 .. P
    BY <1>1, <2>2, <2>3
  <2> HIDE DEF i
  <2>5. H(i) = R(i) /\ H(i + 1) % 2 = R(i + 1) % 2 /\ H(i + 1) # R(i + 1)
    BY <1>5, <2>2, <2>4
  <2> QED BY <1>4, <2>4, <2>5
<1>6. ASSUME H(P) = R(P), NEW j \in 1 .. P PROVE H(j) % 2 = R(j) % 2
  <2> DEFINE T == {l \in Nat : l <= P /\ H(P - l) # R(P - l)}
  <2>1. T = {}
    <3>1. SUFFICES ASSUME T # {} PROVE FALSE
      OBVIOUS
    <3>2. PICK m \in T : \A y \in T : m <= y
      BY <3>1, LeastNat, Zenon
    <3>3. m # 0
      BY <1>1, <1>6, <3>2
    <3> DEFINE i == P - m
    <3>4. i \in Nat /\ i < P /\ m - 1 \in Nat /\ m - 1 \notin T /\ i + 1 = P - (m - 1)
      BY <1>1, <3>2, <3>3
    <3>5. H(i + 1) = R(i + 1) /\ H(i) # R(i)
      BY <1>1, <3>2, <3>3, <3>4
    <3> HIDE DEF i
    <3>6. H(i + 1) % 2 = R(i + 1) % 2
      BY <3>5
    <3> QED BY <1>4, <3>4, <3>5, <3>6
  <2>2. P - j \in Nat /\ P - j <= P /\ P - (P - j) = j
    BY <1>1
  <2>3. H(j) = R(j)
    BY <2>1, <2>2
  <2> QED BY <2>3
<1> QED BY <1>2, <1>3, <1>5, <1>6

-----------------------------------------------------------------------------
(* The rank: the position of the first 1 in the rest of the hash.          *)

Width == HashBits - P
Rest(h) == h % Pow2[Width]

\* k is the rank of a number m of Width bits.
IsRank(m, k) ==
  /\ m < Pow2[Width - k + 1]
  /\ k = Width + 1 \/ Pow2[Width - k] <= m

\* Every number has one rank.
LEMMA OneRank ==
  ASSUME NEW m \in Nat, m < Pow2[Width]
  PROVE  /\ \E k \in 1 .. Width + 1 : IsRank(m, k)
         /\ \A k, l \in 1 .. Width + 1 : IsRank(m, k) /\ IsRank(m, l) => k = l
<1>1. Width \in Nat \ {0}
  BY Widths DEF Width
<1>2. \E k \in 1 .. Width + 1 : IsRank(m, k)
  <2> DEFINE T == {k \in Nat : k >= 1 /\ (k = Width + 1 \/ (k <= Width /\ Pow2[Width - k] <= m))}
  <2>1. Width + 1 \in T
    BY <1>1
  <2>2. PICK k \in T : \A y \in T : k <= y
    BY <2>1, LeastNat, Zenon
  <2>3. k \in 1 .. Width + 1
    BY <1>1, <2>1, <2>2
  <2>4. m < Pow2[Width - k + 1]
    <3>1. CASE k = 1
      BY <1>1, <3>1
    <3>2. CASE k # 1
      <4>1. k - 1 \in Nat /\ k - 1 >= 1 /\ k - 1 <= Width /\ k - 1 \notin T /\ Width - (k - 1) = Width - k + 1
        BY <1>1, <2>2, <2>3, <3>2
      <4>2. ~ (Pow2[Width - k + 1] <= m) /\ Width - k + 1 \in Nat
        BY <1>1, <2>3, <4>1
      <4>3. Pow2[Width - k + 1] \in Nat
        BY <4>2, PowGrows
      <4> QED BY <4>2, <4>3
    <3> QED BY <3>1, <3>2
  <2> QED BY <2>2, <2>3, <2>4 DEF IsRank
<1>3. ASSUME NEW k \in 1 .. Width + 1, NEW l \in 1 .. Width + 1, IsRank(m, k), IsRank(m, l), k < l
      PROVE  FALSE
  <2>1. /\ Width - k \in Nat /\ Width - l + 1 \in Nat /\ Width - l + 1 <= Width - k /\ k # Width + 1
    BY <1>1, <1>3
  <2>2. Pow2[Width - l + 1] <= Pow2[Width - k] /\ Pow2[Width - l + 1] \in Nat /\ Pow2[Width - k] \in Nat
    BY <2>1, PowGrows
  <2>3. m < Pow2[Width - l + 1] /\ Pow2[Width - k] <= m
    BY <1>3, <2>1 DEF IsRank
  <2> QED BY <2>2, <2>3
<1>4. ASSUME NEW k \in 1 .. Width + 1, NEW l \in 1 .. Width + 1, IsRank(m, k), IsRank(m, l)
      PROVE  k = l
  <2>1. k \in Nat /\ l \in Nat /\ ~ (k < l) /\ ~ (l < k)
    BY <1>1, <1>3, <1>4
  <2> QED BY <2>1
<1> QED BY <1>2, <1>4

\* The bits of the rest are those of the hash after the first P.
LEMMA RestBits ==
  ASSUME NEW h \in Hashes, NEW j \in 1 .. Width
  PROVE  Bit(h, P + j) = Top(Rest(h), Width, j) % 2
<1> DEFINE q == Pow2[Width - j]
           u == Pow2[j - 1]
           m == Rest(h)
           d == IdxOf(h)
           t == m \div q
           s == m % q
<1>1. /\ Width \in Nat /\ j \in Nat /\ Width - j \in Nat /\ j - 1 \in Nat /\ (j - 1) + 1 = j
      /\ j + (Width - j) = Width /\ HashBits - (P + j) = Width - j
  BY Widths DEF Width
<1>2. q \in Nat \ {0} /\ u \in Nat /\ Pow2[Width] = (2 * u) * q
  <2>1. Pow2[(j - 1) + 1] = 2 * Pow2[j - 1] /\ Pow2[j + (Width - j)] = Pow2[j] * Pow2[Width - j]
    BY <1>1, PowEquation, PowSum, Zenon
  <2>2. Pow2[j] = 2 * u /\ Pow2[Width] = Pow2[j] * q
    BY <1>1, <2>1
  <2> QED BY <1>1, <2>2, PowGrows
<1>3. h \in Nat /\ d \in Nat /\ m \in Nat /\ h = d * Pow2[Width] + m
  BY HashParts, Widths DEF Registers, NumRegs, Rest, Width
<1>4. Bit(h, P + j) = (h \div q) % 2 /\ Top(m, Width, j) = m \div q
  BY <1>1 DEF Bit, Top
<1> HIDE DEF q, u, m, d
<1>5. t \in Nat /\ s \in Nat /\ s < q /\ m = t * q + s
  BY <1>2, <1>3, Division
<1> HIDE DEF t, s
<1>6. h = (2 * (d * u) + t) * q + s
  <2>1. d * ((2 * u) * q) = (2 * (d * u)) * q /\ d * u \in Nat
    BY <1>2, <1>3
  <2>2. (2 * (d * u)) * q + t * q = (2 * (d * u) + t) * q
    BY <1>2, <1>5, <2>1
  <2>3. (2 * (d * u)) * q \in Nat /\ t * q \in Nat
    BY <1>2, <1>5, <2>1
  <2> QED BY <1>2, <1>3, <1>5, <2>1, <2>2, <2>3
<1> DEFINE e == d * u
           n == 2 * e + t
<1>7. e \in Nat /\ n \in Nat
  BY <1>2, <1>3, <1>5
<1>8. h \div q = n
  <2>1. h = n * q + s
    BY <1>6
  <2> HIDE DEF n
  <2> QED BY <1>2, <1>5, <1>7, <2>1, DivisionUnique, Zenon
<1> HIDE DEF e
<1>9. n % 2 = t % 2
  BY <1>5, <1>7
<1> HIDE DEF n
<1> QED BY <1>4, <1>8, <1>9 DEF m, t

\* What FirstOne chooses is the rank of the rest.
LEMMA FirstOneIsRank ==
  ASSUME NEW h \in Hashes
  PROVE  FirstOne(h) \in 1 .. Width + 1 /\ IsRank(Rest(h), FirstOne(h))
<1> DEFINE m == Rest(h)
           First(k) == /\ \A j \in 1 .. k - 1 : Bit(h, P + j) = 0
                       /\ k = Width + 1 \/ Bit(h, P + k) = 1
<1>1. Width \in Nat \ {0} /\ m \in Nat /\ m < Pow2[Width]
  BY Widths, HashParts DEF Width, Rest
<1>2. \A j \in 1 .. Width : Bit(h, P + j) = Top(m, Width, j) % 2
  BY RestBits
<1> HIDE DEF m
<1>3. ASSUME NEW k \in 1 .. Width + 1 PROVE First(k) <=> IsRank(m, k)
  <2> DEFINE i == k - 1
  <2>1. i \in Nat /\ i <= Width /\ k = i + 1 /\ Width - i = Width - k + 1 /\ 1 .. i \subseteq 1 .. Width
    BY <1>1
  <2>2. (\A j \in 1 .. i : Bit(h, P + j) = 0) <=> Top(m, Width, i) = 0
    <3>1. (\A j \in 1 .. i : Bit(h, P + j) = 0) <=> \A j \in 1 .. i : Top(m, Width, j) % 2 = 0
      BY <1>2, <2>1, Zenon
    <3> HIDE DEF i
    <3> QED BY <1>1, <2>1, <3>1, TopZero, Zenon
  <2>3. Top(m, Width, i) = 0 <=> m < Pow2[Width - k + 1]
    <3>1. Top(m, Width, i) = 0 <=> m < Pow2[Width - i]
      BY <1>1, <2>1, TopZero, Zenon
    <3> QED BY <2>1, <3>1
  <2>4. ASSUME Top(m, Width, i) = 0, k # Width + 1
        PROVE  Bit(h, P + k) = 1 <=> Pow2[Width - k] <= m
    <3>1. k \in 1 .. Width /\ k \in Nat /\ k <= Width /\ i < Width /\ Width - k \in Nat
      BY <1>1, <2>1, <2>4
    <3>2. /\ Top(m, Width, k) \in Nat /\ Top(m, Width, k) % 2 \in {0, 1}
          /\ Top(m, Width, k) = 2 * Top(m, Width, i) + (Top(m, Width, k) % 2)
      <4>0. i \in Nat /\ i < Width /\ Width \in Nat
        BY <1>1, <2>1, <3>1
      <4> HIDE DEF i
      <4>1. /\ Top(m, Width, i + 1) \in Nat /\ Top(m, Width, i + 1) % 2 \in {0, 1}
            /\ Top(m, Width, i + 1) = 2 * Top(m, Width, i) + (Top(m, Width, i + 1) % 2)
        BY <1>1, <4>0, TopStep, Zenon
      <4>2. k = i + 1
        BY <2>1
      <4> QED BY <4>1, <4>2, Zenon
    <3>3. Top(m, Width, k) = 0 <=> m < Pow2[Width - k]
      BY <1>1, <3>1, TopZero, Zenon
    <3>4. Pow2[Width - k] \in Nat
      BY <3>1, PowGrows
    <3>5. Bit(h, P + k) = Top(m, Width, k) % 2
      BY <1>2, <3>1
    <3>6. Top(m, Width, k) = Top(m, Width, k) % 2
      BY <2>4, <3>2
    <3> HIDE DEF i
    <3>7. Bit(h, P + k) = 1 <=> Top(m, Width, k) # 0
      BY <3>2, <3>5, <3>6
    <3> QED BY <1>1, <3>3, <3>4, <3>7
  <2> QED BY <2>2, <2>3, <2>4, Zenon DEF IsRank
<1>4. \E k \in 1 .. Width + 1 : First(k)
  BY <1>1, <1>3, OneRank, Zenon
<1>5. FirstOne(h) = CHOOSE k \in 1 .. Width + 1 : First(k)
  BY Zenon DEF FirstOne, Width
<1> HIDE DEF First
<1>6. FirstOne(h) \in 1 .. Width + 1 /\ First(FirstOne(h))
  BY <1>4, <1>5, Zenon
<1> QED BY <1>3, <1>6, Zenon DEF m

\* hash << precision | (1 << precision - 1) is the rest with P ones behind it.
LEMMA ShiftedRest ==
  ASSUME NEW h \in Hashes
  PROVE  Shifted(h) = Rest(h) * Pow2[P] + (Pow2[P] - 1) /\ Rest(h) * Pow2[P] \in Nat
<1> DEFINE q == Pow2[Width]
           u == Pow2[P]
           m == Rest(h)
           d == IdxOf(h)
<1>1. /\ h \in Nat /\ d \in Nat /\ m \in Nat /\ m < q /\ h = d * q + m
      /\ q \in Nat \ {0} /\ u \in Nat \ {0} /\ Pow2[HashBits] = u * q
  BY HashParts, Widths DEF Registers, NumRegs, Rest, Width
<1>2. Shifted(h) = ((h * u) % Pow2[HashBits]) + (u - 1)
  BY Zenon DEF Shifted
<1> HIDE DEF q, u, m, d
<1> DEFINE w == u * q
           v == m * u
<1>3. h * u = d * w + v
  BY <1>1
<1>4. v < w /\ v \in Nat /\ w \in Nat \ {0}
  <2>1. (m + 1) * u <= q * u /\ (m + 1) * u \in Nat /\ q * u \in Nat
    <3>1. m + 1 \in Nat /\ m + 1 <= q
      BY <1>1
    <3> QED BY <1>1, <3>1, Products
  <2>2. (m + 1) * u = m * u + u /\ q * u = u * q /\ m * u \in Nat
    BY <1>1
  <2> QED BY <1>1, <2>1, <2>2
<1>5. (h * u) % w = v
  <2> HIDE DEF w, v
  <2>1. (d * w + v) % w = v
    BY <1>1, <1>4, DivisionUnique
  <2> QED BY <1>3, <2>1
<1> QED BY <1>1, <1>2, <1>4, <1>5 DEF m, u

\* The leading zeros of that word are one less than the rank of the rest.
LEMMA LeadingZerosAreRank ==
  ASSUME NEW h \in Hashes, NEW z \in 0 .. HashBits - 1
  PROVE  Pow2[HashBits - 1 - z] <= Shifted(h) /\ Shifted(h) < Pow2[HashBits - z]
           <=> z + 1 \in 1 .. Width + 1 /\ IsRank(Rest(h), z + 1)
<1> DEFINE u == Pow2[P]
           half == Pow2[P - 1]
           m == Rest(h)
           w == Shifted(h)
<1>1. /\ P - 1 \in Nat /\ P \in Nat \ {0} /\ Width \in Nat \ {0} /\ HashBits = P + Width /\ z \in Nat
      /\ (P - 1) + 1 = P /\ z < HashBits /\ HashBits - z \in Nat /\ HashBits - 1 - z \in Nat
  BY Widths DEF Width
<1>2. half \in Nat \ {0} /\ u = 2 * half
  <2>1. Pow2[(P - 1) + 1] = 2 * Pow2[P - 1]
    BY <1>1, PowEquation, Zenon
  <2> QED BY <1>1, <2>1, PowGrows
<1>3. m \in Nat /\ m * u \in Nat /\ w = m * u + (u - 1)
  BY ShiftedRest, HashParts DEF Rest, Width
<1>4. Pow2[0] = 1 /\ Pow2[P] = u
  BY PowEquation
<1> HIDE DEF u, half, m, w
<1>5. ASSUME NEW e \in Nat
      PROVE  /\ Pow2[P + e] = Pow2[e] * u
             /\ Pow2[e] * u <= w <=> Pow2[e] <= m
             /\ w < Pow2[e] * u <=> m < Pow2[e]
  <2> DEFINE y == Pow2[e]
  <2>1. y \in Nat /\ Pow2[P + e] = u * y
    BY <1>1, <1>4, PowSum, PowGrows, Zenon
  <2> HIDE DEF y
  <2>2. u * y = y * u /\ y * u \in Nat
    BY <1>2, <2>1
  <2>3. ASSUME y <= m PROVE y * u <= w
    <3>1. y * u <= m * u
      BY <1>2, <1>3, <2>1, <2>3, Products
    <3> QED BY <1>2, <1>3, <2>2, <3>1
  <2>4. ASSUME m < y PROVE w < y * u
    <3>1. m + 1 \in Nat /\ m + 1 <= y /\ u \in Nat
      BY <1>2, <1>3, <2>1, <2>4
    <3>2. (m + 1) * u <= y * u /\ (m + 1) * u = m * u + u
      BY <1>3, <2>1, <3>1, Products
    <3> QED BY <1>2, <1>3, <2>2, <3>1, <3>2
  <2>5. (y * u <= w <=> y <= m) /\ (w < y * u <=> m < y)
    BY <1>2, <1>3, <2>1, <2>2, <2>3, <2>4
  <2> QED BY <2>1, <2>2, <2>5 DEF y
<1>6. CASE z < Width
  <2> DEFINE e == Width - (z + 1)
  <2>1. /\ e \in Nat /\ e + 1 \in Nat /\ HashBits - 1 - z = P + e /\ HashBits - z = P + (e + 1)
        /\ Width - (z + 1) = e /\ Width - (z + 1) + 1 = e + 1 /\ z + 1 # Width + 1
        /\ z + 1 \in 1 .. Width + 1
    BY <1>1, <1>6
  <2> HIDE DEF e
  <2>2. Pow2[P + e] <= w <=> Pow2[e] <= m
    BY <1>5, <2>1
  <2>3. w < Pow2[P + (e + 1)] <=> m < Pow2[e + 1]
    BY <1>5, <2>1
  <2> QED BY <2>1, <2>2, <2>3 DEF IsRank, m, w
<1>7. CASE z = Width
  <2>1. /\ HashBits - 1 - z = P - 1 /\ HashBits - z = P + 0 /\ Width - (z + 1) + 1 = 0
        /\ z + 1 = Width + 1 /\ z + 1 \in 1 .. Width + 1
    BY <1>1, <1>7
  <2>2. w < Pow2[P + 0] <=> m < Pow2[0]
    BY <1>5
  <2>3. Pow2[P - 1] <= w
    BY <1>2, <1>3 DEF half
  <2> QED BY <2>1, <2>2, <2>3 DEF IsRank, m, w
<1>8. CASE z > Width
  <2>1. HashBits - z \in Nat /\ HashBits - z <= P - 1 /\ z + 1 \notin 1 .. Width + 1
    BY <1>1, <1>8
  <2>2. Pow2[HashBits - z] <= half /\ Pow2[HashBits - z] \in Nat
    BY <1>1, <2>1, PowGrows DEF half
  <2>3. ~ (w < Pow2[HashBits - z])
    BY <1>2, <1>3, <2>2
  <2> QED BY <2>1, <2>3 DEF w
<1> QED BY <1>1, <1>6, <1>7, <1>8

\* The code's rank, computed by shifting, filling and counting leading zeros,
\* is the textbook's: the position of the first 1 after the first P bits, or
\* one past the last bit.
LEMMA RhoIsFirstOne ==
  ASSUME NEW h \in Hashes
  PROVE  RhoOf(h) = FirstOne(h) /\ RhoOf(h) \in 1 .. TopRank
<1> DEFINE w == Shifted(h)
           Lead(z) == Pow2[HashBits - 1 - z] <= w /\ w < Pow2[HashBits - z]
           k == FirstOne(h)
<1>1. k \in 1 .. Width + 1 /\ IsRank(Rest(h), k)
  BY FirstOneIsRank
<1>2. Rest(h) \in Nat /\ Rest(h) < Pow2[Width] /\ Width \in Nat \ {0} /\ HashBits = P + Width /\ P \in Nat \ {0}
  BY HashParts, Widths DEF Rest, Width
<1>3. w # 0
  <2>1. Rest(h) * Pow2[P] \in Nat /\ w = Rest(h) * Pow2[P] + (Pow2[P] - 1)
    BY ShiftedRest
  <2>2. Pow2[P] >= 2 /\ Pow2[P] \in Nat
    <3>1. P - 1 \in Nat /\ (P - 1) + 1 = P
      BY <1>2
    <3>2. Pow2[(P - 1) + 1] = 2 * Pow2[P - 1] /\ Pow2[P - 1] \in Nat \ {0}
      BY <3>1, PowEquation, PowGrows, Zenon
    <3> QED BY <3>1, <3>2
  <2> QED BY <2>1, <2>2
<1>4. \A z \in 0 .. HashBits - 1 : Lead(z) <=> z + 1 \in 1 .. Width + 1 /\ IsRank(Rest(h), z + 1)
  BY LeadingZerosAreRank
<1>5. LeadingZeros(w) = CHOOSE z \in 0 .. HashBits - 1 : Lead(z)
  BY <1>3, Zenon DEF LeadingZeros
<1> HIDE DEF k, w, Lead
<1> DEFINE z0 == LeadingZeros(w)
<1>6. k - 1 \in 0 .. HashBits - 1 /\ (k - 1) + 1 = k
  BY <1>1, <1>2
<1>7. Lead(k - 1)
  <2>1. (k - 1) + 1 \in 1 .. Width + 1 /\ IsRank(Rest(h), (k - 1) + 1)
    BY <1>1, <1>6
  <2> QED BY <1>4, <1>6, <2>1, Zenon
<1>8. z0 \in 0 .. HashBits - 1 /\ Lead(z0)
  BY <1>5, <1>6, <1>7, Zenon
<1> HIDE DEF z0
<1>9. z0 + 1 = k
  <2>1. z0 + 1 \in 1 .. Width + 1 /\ IsRank(Rest(h), z0 + 1)
    BY <1>4, <1>8, Zenon
  <2> QED BY <1>1, <1>2, <2>1, OneRank, Zenon
<1>10. RhoOf(h) = z0 + 1
  BY Zenon DEF RhoOf, w, z0
<1> QED BY <1>1, <1>9, <1>10 DEF k, TopRank, Width

\* sketch.Add for any width and precision: the register it computes is the
\* one whose number the first P bits spell, and the rank it computes is the
\* position of the first 1 among the others.
THEOREM AddFindsRegisterAndRank ==
  \A h \in Hashes : /\ FirstOne(h) = RhoOf(h)
                    /\ \A r \in Registers : Selects(h, r) <=> IdxOf(h) = r
BY IdxIsSelected, RhoIsFirstOne, Zenon

-----------------------------------------------------------------------------
(* Registers and the ids they count.                                       *)

Sketches == [Registers -> 0 .. TopRank]

\* sk holds the largest ranks of the hashes S: Sketch's Represents, with the
\* ranks and registers of the bits.
Holds(sk, S) ==
  /\ \A h \in S : RhoOf(h) <= sk[IdxOf(h)]
  /\ \A r \in Registers : sk[r] # 0 => \E h \in S : IdxOf(h) = r /\ RhoOf(h) = sk[r]

\* A hash selects a register and carries a rank.
LEMMA HashTypes ==
  /\ \A h \in Hashes : IdxOf(h) \in Registers /\ RhoOf(h) \in 1 .. TopRank
  /\ TopRank \in Nat \ {0}
BY HashParts, RhoIsFirstOne, Widths DEF TopRank

\* What Sketch assumes of the hash of an id, and with it everything proved of
\* the node and of the engine, is what the bits of sketch.Add give: the
\* register number is below numRegs, so regs[idx] is never out of range, and
\* the rank is at least 1 and at most 64 - precision + 1.
THEOREM HashesFitSketches ==
  /\ TopRank \in Nat \ {0} /\ P \in Nat
  /\ [h \in Hashes |-> IdxOf(h)] \in [Hashes -> Registers]
  /\ [h \in Hashes |-> RhoOf(h)] \in [Hashes -> 1 .. TopRank]
<1>1. P \in Nat
  BY Widths, Zenon
<1> QED BY <1>1, HashTypes, Zenon

\* A fresh sketch counts nothing.
LEMMA HoldsNew == Regs!New \in Sketches /\ Holds(Regs!New, {})
BY HashTypes DEF Regs!New, Sketches, Holds

\* sketch.Add counts one hash more.
LEMMA HoldsAdd ==
  ASSUME NEW sk \in Sketches, NEW S \in SUBSET Hashes, Holds(sk, S), NEW h \in Hashes
  PROVE  Regs!AddId(sk, h) \in Sketches /\ Holds(Regs!AddId(sk, h), S \cup {h})
<1> DEFINE i == IdxOf(h)
           k == RhoOf(h)
           new == [sk EXCEPT ![i] = IF k > @ THEN k ELSE @]
<1>1. Regs!AddId(sk, h) = new
  BY DEF Regs!AddId
<1>2. i \in Registers /\ k \in 1 .. TopRank /\ TopRank \in Nat
  BY HashTypes
<1>3. /\ new \in Sketches /\ \A r \in Registers : r # i => new[r] = sk[r]
      /\ new[i] = IF k > sk[i] THEN k ELSE sk[i]
  BY <1>2 DEF Sketches
<1> HIDE DEF new
<1>4. \A r \in Registers : sk[r] \in Nat /\ new[r] \in Nat /\ sk[r] <= new[r]
  BY <1>2, <1>3 DEF Sketches
<1>5. ASSUME NEW g \in S \cup {h} PROVE RhoOf(g) <= new[IdxOf(g)]
  <2>1. CASE g = h
    BY <1>2, <1>3, <1>4, <2>1
  <2>2. CASE g \in S
    <3>1. RhoOf(g) <= sk[IdxOf(g)] /\ IdxOf(g) \in Registers /\ RhoOf(g) \in Nat
      BY <2>2, HashTypes DEF Holds
    <3> QED BY <1>4, <3>1
  <2> QED BY <2>1, <2>2
<1>6. ASSUME NEW r \in Registers, new[r] # 0
      PROVE  \E g \in S \cup {h} : IdxOf(g) = r /\ RhoOf(g) = new[r]
  <2>1. CASE r = i /\ new[r] = k
    BY <2>1
  <2>2. CASE new[r] = sk[r]
    BY <1>6, <2>2, Zenon DEF Holds
  <2> QED BY <1>3, <2>1, <2>2
<1> QED BY <1>1, <1>3, <1>5, <1>6 DEF Holds

\* sketch.Merge counts what either has counted.
LEMMA HoldsMerge ==
  ASSUME NEW sk \in Sketches, NEW S \in SUBSET Hashes, Holds(sk, S),
         NEW so \in Sketches, NEW O \in SUBSET Hashes, Holds(so, O)
  PROVE  Regs!MergeSketch(sk, so) \in Sketches /\ Holds(Regs!MergeSketch(sk, so), S \cup O)
<1> DEFINE new == [r \in Registers |-> IF so[r] > sk[r] THEN so[r] ELSE sk[r]]
<1>1. Regs!MergeSketch(sk, so) = new
  BY DEF Regs!MergeSketch
<1>2. new \in Sketches /\ \A r \in Registers : new[r] = IF so[r] > sk[r] THEN so[r] ELSE sk[r]
  BY DEF Sketches
<1> HIDE DEF new
<1>3. \A r \in Registers : sk[r] \in Nat /\ so[r] \in Nat /\ new[r] \in Nat /\ sk[r] <= new[r] /\ so[r] <= new[r]
  BY <1>2, HashTypes DEF Sketches
<1>4. ASSUME NEW g \in S \cup O PROVE RhoOf(g) <= new[IdxOf(g)]
  <2>1. IdxOf(g) \in Registers /\ RhoOf(g) \in Nat
    BY HashTypes
  <2>2. RhoOf(g) <= sk[IdxOf(g)] \/ RhoOf(g) <= so[IdxOf(g)]
    BY Zenon DEF Holds
  <2> QED BY <1>3, <2>1, <2>2
<1>5. ASSUME NEW r \in Registers, new[r] # 0
      PROVE  \E g \in S \cup O : IdxOf(g) = r /\ RhoOf(g) = new[r]
  <2>1. CASE new[r] = so[r]
    BY <1>5, <2>1, Zenon DEF Holds
  <2>2. CASE new[r] = sk[r]
    BY <1>5, <2>2, Zenon DEF Holds
  <2> QED BY <1>2, <2>1, <2>2
<1> QED BY <1>1, <1>2, <1>4, <1>5 DEF Holds

-----------------------------------------------------------------------------
(* Sketches in use.                                                        *)

\* Each handle has registers of its own, which hold the ranks of what its
\* bitmap has counted, and so does what is on the wire.
SketchInv ==
  /\ ref = [s \in Handle |-> s] /\ regs \in [Handle -> Sketches]
  /\ rb \in [Handle -> SUBSET Hashes] /\ rbWire \in SUBSET Hashes
  /\ \A s \in Handle : Holds(regs[s], rb[s])
  /\ \/ wire = None
     \/ wire = Regs!Bytes(wire.body) /\ wire.body \in Sketches /\ Holds(wire.body, rbWire)

\* Writing to a handle writes to its own registers only.
LEMMA WriteOne ==
  ASSUME SketchInv, NEW s \in Handle, NEW sk \in Sketches, NEW S \in SUBSET Hashes, Holds(sk, S),
         SetSk(s, sk), rb' = [rb EXCEPT ![s] = S], UNCHANGED <<ref, wire, rbWire>>
  PROVE  SketchInv'
<1>1. regs' = [regs EXCEPT ![s] = sk]
  BY Zenon DEF SketchInv, SetSk
<1>2. regs' \in [Handle -> Sketches] /\ rb' \in [Handle -> SUBSET Hashes]
  BY <1>1 DEF SketchInv
<1>3. ASSUME NEW q \in Handle PROVE Holds(regs'[q], rb'[q])
  <2>1. CASE q = s
    <3>1. regs'[s] = sk /\ rb'[s] = S
      BY <1>1 DEF SketchInv
    <3> QED BY <2>1, <3>1, Zenon
  <2>2. CASE q # s
    <3>1. regs'[q] = regs[q] /\ rb'[q] = rb[q]
      BY <1>1, <2>2 DEF SketchInv
    <3> QED BY <3>1, Zenon DEF SketchInv
  <2> QED BY <2>1, <2>2
<1> QED BY <1>2, <1>3, Zenon DEF SketchInv

\* The invariant holds of fresh sketches.
LEMMA InitSketch == Init => SketchInv
<1> SUFFICES ASSUME Init PROVE SketchInv
  OBVIOUS
<1>1. regs \in [Handle -> Sketches] /\ \A s \in Handle : Holds(regs[s], rb[s])
  BY HoldsNew, Zenon DEF Init
<1> QED BY <1>1 DEF Init, SketchInv

\* Every call keeps it.
LEMMA NextSketch ==
  ASSUME SketchInv, [Next]_vars
  PROVE  SketchInv'
<1>1. \A s \in Handle : Sk(s) = regs[s] /\ Sk(s) \in Sketches /\ rb[s] \in SUBSET Hashes /\ Holds(Sk(s), rb[s])
  BY DEF SketchInv, Sk
<1>2. ASSUME NEW s \in Handle, NEW h \in Hashes, Add(s, h) PROVE SketchInv'
  <2> DEFINE sk == Regs!AddId(Sk(s), h)
             S == rb[s] \cup {h}
  <2>1. sk \in Sketches /\ S \in SUBSET Hashes /\ Holds(sk, S)
    BY <1>1, HoldsAdd
  <2>2. SetSk(s, sk) /\ rb' = [rb EXCEPT ![s] = S] /\ UNCHANGED <<ref, wire, rbWire>>
    BY <1>2, Zenon DEF Add, BitmapAdd
  <2> HIDE DEF sk, S
  <2> QED BY <2>1, <2>2, WriteOne, Zenon
<1>3. ASSUME NEW s \in Handle, NEW o \in Handle, Merge(s, o) PROVE SketchInv'
  <2> DEFINE sk == Regs!MergeSketch(Sk(s), Sk(o))
             S == rb[s] \cup rb[o]
  <2>1. sk \in Sketches /\ S \in SUBSET Hashes /\ Holds(sk, S)
    BY <1>1, HoldsMerge
  <2>2. SetSk(s, sk) /\ rb' = [rb EXCEPT ![s] = S] /\ UNCHANGED <<ref, wire, rbWire>>
    BY <1>3, Zenon DEF Merge, BitmapMerge
  <2> HIDE DEF sk, S
  <2> QED BY <2>1, <2>2, WriteOne, Zenon
<1>4. ASSUME NEW s \in Handle, NEW o \in Handle, Clone(s, o) PROVE SketchInv'
  <2>1. SetSk(o, Sk(s)) /\ rb' = [rb EXCEPT ![o] = rb[s]] /\ UNCHANGED <<ref, wire, rbWire>>
    BY <1>4, Zenon DEF Clone
  <2> QED BY <1>1, <2>1, WriteOne, Zenon
<1>5. ASSUME NEW s \in Handle, Serialise(s) PROVE SketchInv'
  <2>1. wire' = Regs!Bytes(regs[s]) /\ rbWire' = rb[s] /\ UNCHANGED <<ref, regs, rb>>
    BY <1>1, <1>5, Zenon DEF Serialise
  <2>2. wire'.body = regs[s]
    BY <2>1 DEF Regs!Bytes
  <2> QED BY <1>1, <2>1, <2>2, Zenon DEF SketchInv
<1>6. ASSUME NEW s \in Handle, Deserialise(s) PROVE SketchInv'
  <2>1. wire # None
    BY <1>6, Widths DEF Deserialise, Regs!CanParse, None
  <2>2. wire.body \in Sketches /\ Holds(wire.body, rbWire) /\ rbWire \in SUBSET Hashes
    BY <2>1, Zenon DEF SketchInv
  <2>3. Regs!Parse(wire) = wire.body
    BY <2>2 DEF Regs!Parse, Sketches
  <2>4. SetSk(s, wire.body) /\ rb' = [rb EXCEPT ![s] = rbWire] /\ UNCHANGED <<ref, wire, rbWire>>
    BY <1>6, <2>3, Zenon DEF Deserialise
  <2> QED BY <2>2, <2>4, WriteOne, Zenon
<1>7. CASE UNCHANGED vars
  BY <1>7, Zenon DEF vars, SketchInv
<1> QED BY <1>2, <1>3, <1>4, <1>5, <1>6, <1>7, Zenon DEF Next

\* The register that sketch.Add computes with shifts and the rank it computes
\* with LeadingZeros64 are the ones the first P bits and the first 1 after
\* them stand for, and no sequence of calls loses, invents or shares a rank:
\* for any width of hash, any precision and any number of sketches.
THEOREM RegistersHoldMaximalRanks == Spec => []RegistersAreMaximalRanks
<1>1. Init => SketchInv
  BY InitSketch
<1>2. SketchInv /\ [Next]_vars => SketchInv'
  BY NextSketch
<1>3. SketchInv => RegistersAreMaximalRanks
  <2> SUFFICES ASSUME SketchInv, NEW s \in Handle, NEW r \in Registers
               PROVE  LET ranks == {FirstOne(h) : h \in {x \in rb[s] : Selects(x, r)}}
                      IN  /\ \A k \in ranks : k <= Sk(s)[r]
                          /\ Sk(s)[r] \in ranks \cup {0}
    BY Zenon DEF RegistersAreMaximalRanks
  <2>1. Sk(s) = regs[s] /\ rb[s] \in SUBSET Hashes /\ Holds(Sk(s), rb[s])
    BY DEF SketchInv, Sk
  <2>2. \A h \in rb[s] : (Selects(h, r) <=> IdxOf(h) = r) /\ FirstOne(h) = RhoOf(h)
    BY <2>1, AddFindsRegisterAndRank, Zenon
  <2> QED BY <2>1, <2>2, Zenon DEF Holds
<1> QED BY <1>1, <1>2, <1>3, PTL DEF Spec

-----------------------------------------------------------------------------
(* The estimate.                                                           *)

INSTANCE FiniteSetTheorems

\* The element MapThenSumSet takes out of a set next.
Pick(t) == CHOOSE x \in t : TRUE

\* it[t] is the sum of w over t, for the subsets t of R.
Sums(it, w, R) ==
  \A t \in SUBSET R : it[t] = IF t = {} THEN 0 ELSE w[Pick(t)] + it[t \ {Pick(t)}]

\* A set without the element that is next.
LEMMA PickOne ==
  ASSUME NEW R, IsFiniteSet(R), NEW t \in SUBSET R
  PROVE  /\ Cardinality(t) \in Nat /\ (Cardinality(t) = 0 <=> t = {})
         /\ t # {} => /\ Pick(t) \in t /\ Pick(t) \in R /\ t \ {Pick(t)} \in SUBSET R
                      /\ Cardinality(t \ {Pick(t)}) = Cardinality(t) - 1
<1>1. IsFiniteSet(t)
  BY FS_Subset, Zenon
<1>2. Cardinality(t) \in Nat /\ (Cardinality(t) = 0 <=> t = {})
  BY <1>1, FS_CardinalityType, FS_EmptySet, Zenon
<1>3. ASSUME t # {} PROVE Pick(t) \in t
  BY <1>3, Zenon DEF Pick
<1>4. ASSUME t # {} PROVE Cardinality(t \ {Pick(t)}) = Cardinality(t) - 1
  BY <1>1, <1>3, <1>4, FS_RemoveElement, Zenon
<1> QED BY <1>2, <1>3, <1>4, Zenon

\* There are such sums: those of the sets of at most n elements, for every n.
LEMMA SumsExist ==
  ASSUME NEW R, IsFiniteSet(R), NEW w
  PROVE  \E it : DOMAIN it = SUBSET R /\ it = [t \in SUBSET R |-> it[t]] /\ Sums(it, w, R)
<1> DEFINE Small(it, n) ==
             /\ it = [t \in SUBSET R |-> it[t]]
             /\ \A t \in SUBSET R : Cardinality(t) <= n =>
                  it[t] = IF t = {} THEN 0 ELSE w[Pick(t)] + it[t \ {Pick(t)}]
           T == {n \in Nat : ~ \E it : Small(it, n)}
<1>1. T = {}
  <2> SUFFICES ASSUME T # {} PROVE FALSE
    BY Zenon
  <2>1. PICK n \in T : \A x \in T : n <= x
    BY LeastNat, Zenon
  <2>2. n # 0
    <3>1. Small([t \in SUBSET R |-> 0], 0)
      <4>1. ASSUME NEW t \in SUBSET R, Cardinality(t) <= 0 PROVE t = {}
        <5>1. Cardinality(t) \in Nat /\ (Cardinality(t) = 0 <=> t = {})
          BY PickOne, Zenon
        <5> QED BY <4>1, <5>1
      <4> QED BY <4>1, Zenon
    <3>2. ~ \E it : Small(it, n)
      BY <2>1, Zenon
    <3> HIDE DEF Small
    <3> QED BY <3>1, <3>2, Zenon
  <2>3. n \in Nat /\ n - 1 \in Nat /\ n - 1 \notin T
    <3>1. n \in Nat
      BY <2>1, Zenon
    <3> HIDE DEF T
    <3> QED BY <2>1, <2>2, <3>1
  <2>4. PICK g : Small(g, n - 1)
    BY <2>3, Zenon
  <2> DEFINE h == [t \in SUBSET R |-> IF Cardinality(t) <= n - 1 THEN g[t]
                                      ELSE w[Pick(t)] + g[t \ {Pick(t)}]]
  <2>5. ASSUME NEW t \in SUBSET R, Cardinality(t) <= n
        PROVE  h[t] = IF t = {} THEN 0 ELSE w[Pick(t)] + h[t \ {Pick(t)}]
    <3>1. CASE t = {}
      <4>1. Cardinality(t) = 0
        BY <3>1, PickOne, Zenon
      <4>2. Cardinality(t) <= n - 1
        BY <2>3, <4>1
      <4> QED BY <2>4, <3>1, <4>2, Zenon
    <3>2. CASE t # {}
      <4>1. Cardinality(t) \in Nat /\ t \ {Pick(t)} \in SUBSET R /\ Cardinality(t \ {Pick(t)}) = Cardinality(t) - 1
        BY <3>2, PickOne, Zenon
      <4>2. Cardinality(t \ {Pick(t)}) <= n - 1
        BY <2>3, <2>5, <4>1
      <4>3. h[t \ {Pick(t)}] = g[t \ {Pick(t)}]
        BY <4>1, <4>2, Zenon
      <4>4. h[t] = w[Pick(t)] + g[t \ {Pick(t)}]
        <5>1. CASE Cardinality(t) <= n - 1
          BY <2>4, <3>2, <5>1, Zenon
        <5>2. CASE ~ (Cardinality(t) <= n - 1)
          BY <5>2, Zenon
        <5> QED BY <5>1, <5>2
      <4> QED BY <3>2, <4>3, <4>4, Zenon
    <3> QED BY <3>1, <3>2
  <2>6. h = [t \in SUBSET R |-> h[t]]
    BY Zenon
  <2> HIDE DEF h
  <2>7. Small(h, n)
    BY <2>5, <2>6, Zenon
  <2> QED BY <2>1, <2>7, Zenon
<1>2. Cardinality(R) \in Nat
  BY PickOne, Zenon
<1>3. PICK it : Small(it, Cardinality(R))
  BY <1>1, <1>2, Zenon
<1>4. ASSUME NEW t \in SUBSET R PROVE Cardinality(t) <= Cardinality(R)
  BY FS_Subset, Zenon
<1>5. Sums(it, w, R) /\ it = [t \in SUBSET R |-> it[t]]
  BY <1>3, <1>4, Zenon DEF Sums
<1> QED BY <1>5, Zenon

\* A sum of values between lo and hi.
LEMMA SumsBetween ==
  ASSUME NEW R, IsFiniteSet(R), NEW w, NEW it, Sums(it, w, R), NEW lo \in Nat, NEW hi \in Nat,
         \A r \in R : w[r] \in Nat /\ lo <= w[r] /\ w[r] <= hi
  PROVE  it[R] \in Nat /\ Cardinality(R) * lo <= it[R] /\ it[R] <= Cardinality(R) * hi
<1> DEFINE Ok(t) == it[t] \in Nat /\ Cardinality(t) * lo <= it[t] /\ it[t] <= Cardinality(t) * hi
           T == {n \in Nat : \E t \in SUBSET R : Cardinality(t) = n /\ ~ Ok(t)}
<1>1. T = {}
  <2> SUFFICES ASSUME T # {} PROVE FALSE
    BY Zenon
  <2>1. PICK n \in T : \A x \in T : n <= x
    BY LeastNat, Zenon
  <2>2. PICK t \in SUBSET R : Cardinality(t) = n /\ ~ Ok(t)
    BY <2>1, Zenon
  <2>3. t # {}
    <3>1. ASSUME t = {} PROVE Ok(t)
      <4>1. it[t] = 0 /\ Cardinality(t) = 0
        BY <3>1, PickOne, Zenon DEF Sums
      <4> QED BY <4>1
    <3> QED BY <2>2, <3>1, Zenon
  <2> DEFINE x == Pick(t)
             u == t \ {x}
  <2>4. u \in SUBSET R /\ x \in R /\ Cardinality(u) = n - 1 /\ n \in Nat /\ n # 0
    BY <2>2, <2>3, PickOne, Zenon
  <2>5. it[t] = w[x] + it[u]
    BY <2>3, Zenon DEF Sums
  <2> HIDE DEF x, u
  <2>6. n - 1 \in Nat /\ n - 1 \notin T
    BY <2>1, <2>4
  <2>7. Ok(u)
    BY <2>4, <2>6, Zenon
  <2>8. w[x] \in Nat /\ lo <= w[x] /\ w[x] <= hi
    BY <2>4, Zenon
  <2>9. n * lo = (n - 1) * lo + lo /\ n * hi = (n - 1) * hi + hi /\ (n - 1) * lo \in Nat /\ (n - 1) * hi \in Nat
    BY <2>4, <2>6
  <2>10. it[u] \in Nat /\ (n - 1) * lo <= it[u] /\ it[u] <= (n - 1) * hi
    BY <2>4, <2>7, Zenon
  <2>11. it[t] \in Nat /\ n * lo <= it[t] /\ it[t] <= n * hi
    BY <2>5, <2>8, <2>9, <2>10
  <2> QED BY <2>2, <2>11, Zenon
<1>2. Cardinality(R) \in Nat
  BY PickOne, Zenon
<1> QED BY <1>1, <1>2, Zenon

\* The estimate's powers of two are these.
LEMMA SamePow == Est!Pow2 = Pow2
BY Zenon DEF Est!Pow2, Pow2

\* So is the size of a set.
LEMMA SameCardinality ==
  ASSUME NEW S
  PROVE  Est!Cardinality(S) = Cardinality(S)
BY Zenon DEF Est!Cardinality, Cardinality, Est!IsFiniteSet, IsFiniteSet

\* The registers are finitely many.
LEMMA RegisterCount ==
  /\ IsFiniteSet(Registers) /\ Cardinality(Registers) = NumRegs /\ NumRegs \in Nat \ {0}
  /\ Est!NumRegs = NumRegs
<1>1. NumRegs \in Nat \ {0}
  BY Widths DEF NumRegs
<1>2. /\ IsFiniteSet(0 .. NumRegs - 1)
      /\ Cardinality(0 .. NumRegs - 1) = IF 0 > NumRegs - 1 THEN 0 ELSE (NumRegs - 1) - 0 + 1
  BY <1>1, FS_Interval
<1>3. Cardinality(0 .. NumRegs - 1) = NumRegs
  BY <1>1, <1>2
<1> QED BY <1>1, <1>2, <1>3, SameCardinality, Zenon DEF Registers, Est!NumRegs

\* The sum Cardinality adds up over the registers.
LEMMA SumBetween ==
  ASSUME NEW s \in Sketches, NEW lo \in Nat, NEW hi \in Nat,
         \A r \in Registers : lo <= Pow2[TopRank - s[r]] /\ Pow2[TopRank - s[r]] <= hi
  PROVE  Est!Sum(s) \in Nat /\ NumRegs * lo <= Est!Sum(s) /\ Est!Sum(s) <= NumRegs * hi
<1> DEFINE w == [r \in Registers |-> Pow2[TopRank - s[r]]]
           Solves(it) == it = [t \in SUBSET Registers |->
             IF t = {} THEN 0 ELSE Pow2[TopRank - s[Pick(t)]] + it[t \ {Pick(t)}]]
           it0 == CHOOSE it : Solves(it)
<1>1. Est!Sum(s) = it0[Registers]
  BY SamePow, Zenon DEF Est!Sum, Est!MapThenSumSet, Est!MapThenFoldSet, Pick
<1>2. ASSUME NEW t \in SUBSET Registers, t # {} PROVE Pick(t) \in Registers
  BY <1>2, RegisterCount, PickOne, Zenon
<1>3. \E it : Solves(it)
  <2>1. PICK it : it = [t \in SUBSET Registers |-> it[t]] /\ Sums(it, w, Registers)
    BY RegisterCount, SumsExist, Zenon
  <2>2. ASSUME NEW t \in SUBSET Registers
        PROVE  it[t] = IF t = {} THEN 0 ELSE Pow2[TopRank - s[Pick(t)]] + it[t \ {Pick(t)}]
    BY <1>2, <2>1, Zenon DEF Sums
  <2> QED BY <2>1, <2>2, Zenon
<1>4. Solves(it0)
  <2> HIDE DEF Solves
  <2> QED BY <1>3, Zenon
<1> HIDE DEF it0
<1>5. Sums(it0, w, Registers)
  <2> DEFINE body == [t \in SUBSET Registers |->
               IF t = {} THEN 0 ELSE Pow2[TopRank - s[Pick(t)]] + it0[t \ {Pick(t)}]]
  <2>1. it0 = body
    BY <1>4, Zenon
  <2>2. \A t \in SUBSET Registers :
          body[t] = IF t = {} THEN 0 ELSE w[Pick(t)] + it0[t \ {Pick(t)}]
    BY <1>2, Zenon
  <2> HIDE DEF body
  <2> QED BY <2>1, <2>2, Zenon DEF Sums
<1>6. \A r \in Registers : w[r] \in Nat /\ lo <= w[r] /\ w[r] <= hi
  <2>1. ASSUME NEW r \in Registers PROVE TopRank - s[r] \in Nat
    BY HashTypes DEF Sketches
  <2>2. \A r \in Registers : Pow2[TopRank - s[r]] \in Nat
    BY <2>1, PowGrows, Zenon
  <2> QED BY <2>2, Zenon
<1> HIDE DEF w
<1>7. /\ it0[Registers] \in Nat /\ Cardinality(Registers) * lo <= it0[Registers]
      /\ it0[Registers] <= Cardinality(Registers) * hi
  <2>1. IsFiniteSet(Registers)
    BY RegisterCount, Zenon
  <2> QED BY <1>5, <1>6, <2>1, SumsBetween, Zenon
<1>8. Cardinality(Registers) = NumRegs
  BY RegisterCount, Zenon
<1> QED BY <1>1, <1>7, <1>8, Zenon

\* Products of three and four.
LEMMA Cubes ==
  ASSUME NEW n \in Nat \ {0}, NEW u \in Nat
  PROVE  /\ n * n \in Nat /\ (n * n) * n \in Nat /\ ((n * n) * n) * u \in Nat
         /\ n * u \in Nat /\ n * (n * u) \in Nat
         /\ n * (n * u) <= ((n * n) * n) * u /\ n * u <= n * (n * u)
         /\ n * (n * (n * u)) = ((n * n) * n) * u
<1>1. n * n \in Nat /\ n * u \in Nat /\ n * (n * u) \in Nat /\ (n * n) * n \in Nat
  OBVIOUS
<1>2. n * u <= n * (n * u)
  BY <1>1
<1>3. n * (n * (n * u)) = ((n * n) * n) * u
  BY <1>1
<1> DEFINE v == n * u
<1>4. n * v <= n * (n * v) /\ n * (n * v) \in Nat
  <2> HIDE DEF v
  <2> DEFINE x == n * v
  <2>1. x \in Nat
    BY <1>1 DEF v
  <2> HIDE DEF x
  <2>2. x <= n * x /\ n * x \in Nat
    BY <2>1
  <2> QED BY <2>2 DEF x
<1> QED BY <1>1, <1>2, <1>3, <1>4 DEF v

\* The estimate's numerator and denominator.
LEMMA EstimateParts ==
  ASSUME NEW s
  PROVE  /\ Est!NumRegs = NumRegs
         /\ Est!Num = 7213 * ((NumRegs * NumRegs) * NumRegs) * Pow2[TopRank]
         /\ Est!Den(s) = (10000 * NumRegs + 10790) * Est!Sum(s)
<1>1. Est!NumRegs = NumRegs
  BY RegisterCount, Zenon
<1>2. Est!Num = 7213 * ((Est!NumRegs * Est!NumRegs) * Est!NumRegs) * Est!Pow2[TopRank]
  BY SMT DEF Est!Num
<1>3. Est!Den(s) = (10000 * Est!NumRegs + 10790) * Est!Sum(s)
  BY SMT DEF Est!Den
<1> QED BY <1>1, <1>2, <1>3, SamePow, SMT

\* The estimate of an empty sketch is 0: linear counting with every register
\* zero.
LEMMA EstimateEmpty ==
  ASSUME NEW s \in Sketches, \A r \in Registers : s[r] = 0
  PROVE  Est!Estimate(s) = 0
<1> DEFINE n == NumRegs
           u == Pow2[TopRank]
           sum == Est!Sum(s)
<1>1. n \in Nat \ {0} /\ u \in Nat \ {0} /\ TopRank \in Nat
  BY RegisterCount, HashTypes, PowGrows
<1>2. sum = n * u
  <2>1. \A r \in Registers : TopRank - s[r] = TopRank
    BY <1>1
  <2>2. u <= u /\ u \in Nat
    BY <1>1
  <2>3. \A r \in Registers : u <= Pow2[TopRank - s[r]] /\ Pow2[TopRank - s[r]] <= u
    BY <2>1, <2>2, Zenon
  <2>4. sum \in Nat /\ n * u <= sum /\ sum <= n * u
    BY <2>2, <2>3, SumBetween, Zenon
  <2> QED BY <1>1, <2>4
<1>3. Est!Zeros(s) = n
  <2>1. {r \in Registers : s[r] = 0} = Registers
    BY Zenon
  <2> QED BY <2>1, RegisterCount, SameCardinality, Zenon DEF Est!Zeros
<1>4. Est!Num = 7213 * ((n * n) * n) * u /\ Est!Den(s) = (10000 * n + 10790) * sum /\ Est!NumRegs = n
  BY EstimateParts, SMT
<1>5. Linear[n] = 0
  BY <1>1, LinearAssumption
<1> HIDE DEF n, u, sum
<1> DEFINE x == ((n * n) * n) * u
           y == n * (n * u)
<1>6. x \in Nat /\ y \in Nat /\ n * y = x /\ n * u \in Nat
  BY <1>1, Cubes
<1>7. Est!Num = 7213 * x
  BY <1>1, <1>4
<1>8. 5 * n * Est!Den(s) = 50000 * x + 53950 * y
  BY <1>1, <1>2, <1>4, <1>6
<1>9. 2 * Est!Num <= 5 * n * Est!Den(s)
  <2> HIDE DEF x, y
  <2> QED BY <1>6, <1>7, <1>8
<1>10. n > 0
  BY <1>1
<1>11. 2 * Est!Num <= 5 * Est!NumRegs * Est!Den(s) /\ Est!Zeros(s) > 0
  BY <1>3, <1>4, <1>9, <1>10, SMT
<1>12. Est!Estimate(s) = Linear[Est!Zeros(s)]
  BY <1>11, Zenon DEF Est!Estimate
<1> QED BY <1>3, <1>5, <1>12, Zenon

\* What is at least a half is not rounded to 0.
LEMMA RoundPositive ==
  ASSUME NEW a \in Nat, NEW d \in Nat \ {0}, d <= 2 * a
  PROVE  Est!Round(a, d) # 0
<1> DEFINE x == 2 * a + d
           e == 2 * d
<1>1. x \in Nat /\ e \in Nat \ {0} /\ e <= x
  OBVIOUS
<1>2. Est!Round(a, d) = x \div e
  BY DEF Est!Round
<1> HIDE DEF x, e
<1>3. x \div e \in Nat /\ x % e \in Nat /\ x % e < e /\ x = (x \div e) * e + (x % e)
  BY <1>1, Division
<1>4. ASSUME x \div e = 0 PROVE FALSE
  <2>1. 0 * e = 0
    BY <1>1
  <2> QED BY <1>1, <1>3, <1>4, <2>1
<1> QED BY <1>2, <1>4, Zenon

\* The estimate of a sketch with a register that is not zero is not 0: linear
\* counting gives at least 1, and if no register is zero the raw estimate
\* does.
LEMMA EstimateCounted ==
  ASSUME NEW s \in Sketches, NEW r0 \in Registers, s[r0] # 0
  PROVE  Est!Estimate(s) # 0
<1> DEFINE n == NumRegs
           u == Pow2[TopRank]
           v == Pow2[TopRank - 1]
           sum == Est!Sum(s)
           z == Est!Zeros(s)
           num == Est!Num
           den == Est!Den(s)
<1>1. n \in Nat \ {0} /\ u \in Nat \ {0} /\ v \in Nat \ {0} /\ u = 2 * v /\ TopRank \in Nat \ {0}
  <2>1. TopRank - 1 \in Nat /\ (TopRank - 1) + 1 = TopRank /\ TopRank \in Nat \ {0}
    BY HashTypes
  <2>2. Pow2[(TopRank - 1) + 1] = 2 * Pow2[TopRank - 1]
    BY <2>1, PowEquation, Zenon
  <2> QED BY <2>1, <2>2, RegisterCount, PowGrows
<1>2. ASSUME NEW r \in Registers
      PROVE  /\ TopRank - s[r] \in Nat /\ TopRank - s[r] <= TopRank
             /\ s[r] # 0 => TopRank - s[r] <= TopRank - 1
  BY <1>1 DEF Sketches
<1>3. ASSUME NEW r \in Registers
      PROVE  /\ 1 <= Pow2[TopRank - s[r]] /\ Pow2[TopRank - s[r]] <= u
             /\ s[r] # 0 => Pow2[TopRank - s[r]] <= v
  <2>1. Pow2[TopRank - s[r]] \in Nat \ {0}
    BY <1>2, PowGrows
  <2>2. TopRank - 1 \in Nat /\ TopRank \in Nat
    BY <1>1
  <2>3. Pow2[TopRank - s[r]] <= Pow2[TopRank] /\ (s[r] # 0 => Pow2[TopRank - s[r]] <= Pow2[TopRank - 1])
    BY <1>2, <2>2, PowGrows, Zenon
  <2> QED BY <2>1, <2>3
<1> DEFINE Z == {r \in Registers : s[r] = 0}
<1>4. z \in Nat /\ z < n /\ (z = 0 => \A r \in Registers : s[r] # 0)
  <2>1. z = Cardinality(Z) /\ IsFiniteSet(Registers) /\ Cardinality(Registers) = n /\ Z \in SUBSET Registers
    BY RegisterCount, SameCardinality, Zenon DEF Est!Zeros
  <2>2. Cardinality(Z) \in Nat /\ (Cardinality(Z) = 0 <=> Z = {})
    <3>1. IsFiniteSet(Registers) /\ Z \in SUBSET Registers
      BY <2>1, Zenon
    <3> HIDE DEF Z
    <3> QED BY <3>1, PickOne, Zenon
  <2>3. Z # Registers
    BY Zenon
  <2>4. Cardinality(Z) <= Cardinality(Registers) /\ (Cardinality(Registers) = Cardinality(Z) => Registers = Z)
    BY <2>1, FS_Subset, Zenon
  <2>5. z = 0 => \A r \in Registers : s[r] # 0
    BY <2>1, <2>2, Zenon
  <2> HIDE DEF Z, z
  <2> QED BY <1>1, <2>1, <2>2, <2>3, <2>4, <2>5
<1>5. sum \in Nat /\ n <= sum
  <2>1. sum \in Nat /\ n * 1 <= sum
    BY <1>1, <1>3, SumBetween, Zenon
  <2> QED BY <1>1, <2>1
<1>6. z = 0 => sum <= n * v
  BY <1>1, <1>3, <1>4, SumBetween, Zenon
<1>7. num = 7213 * ((n * n) * n) * u /\ den = (10000 * n + 10790) * sum /\ Est!NumRegs = n
  BY EstimateParts, SMT
<1>8. Est!Estimate(s) = IF 2 * num <= 5 * Est!NumRegs * den /\ z > 0 THEN Linear[z] ELSE Est!Round(num, den)
  BY SMT DEF Est!Estimate
<1>9. ASSUME z > 0 PROVE Linear[z] # 0
  BY <1>1, <1>4, <1>9, LinearAssumption
<1> HIDE DEF n, u, v, sum, z, num, den
<1> DEFINE c == 10000 * n + 10790
           x == ((n * n) * n) * v
           y == n * (n * v)
<1>10. /\ c \in Nat \ {0} /\ x \in Nat /\ y \in Nat /\ n * v \in Nat /\ n * y = x
       /\ y <= x /\ n * v <= y
  BY <1>1, Cubes
<1>11. den \in Nat \ {0}
  <2>1. sum \in Nat \ {0}
    BY <1>1, <1>5
  <2> QED BY <1>1, <1>7, <2>1
<1>12. num \in Nat /\ 2 * num = 28852 * x
  BY <1>1, <1>7, <1>10
<1>13. ASSUME ~ (2 * num <= 5 * n * den) PROVE den <= 2 * num
  <2>1. 1 * den <= n * den /\ 1 * den = den /\ n * den \in Nat
    BY <1>1, <1>11, Products
  <2>2. 5 * n * den = 5 * (n * den)
    BY <1>1, <1>11
  <2> QED BY <1>11, <1>12, <1>13, <2>1, <2>2
<1>14. ASSUME z = 0 PROVE den <= 2 * num
  <2>1. sum <= n * v
    BY <1>6, <1>14, Zenon
  <2>2. sum * c <= (n * v) * c /\ den = sum * c
    BY <1>5, <1>7, <1>10, <2>1, Products
  <2>3. (n * v) * c = 10000 * y + 10790 * (n * v)
    BY <1>1, <1>10
  <2> HIDE DEF x, y, c
  <2> QED BY <1>10, <1>11, <1>12, <2>2, <2>3
<1>15. ASSUME ~ (2 * num <= 5 * n * den /\ z > 0) PROVE Est!Round(num, den) # 0
  <2>1. den <= 2 * num
    BY <1>4, <1>13, <1>14, <1>15
  <2> QED BY <1>11, <1>12, <2>1, RoundPositive
<1> QED BY <1>7, <1>8, <1>9, <1>15

\* The two implementations of Cardinality agree on what is empty: whatever
\* was added, merged, cloned or parsed, the HyperLogLog counts zero exactly
\* when the bitmap does, for any precision and any table of logarithms that
\* is zero for a full count of zeros only.
THEOREM EmptyCountsAsZero == Spec => []EmptyCountsZero
<1>1. Init => SketchInv
  BY InitSketch
<1>2. SketchInv /\ [Next]_vars => SketchInv'
  BY NextSketch
<1>3. SketchInv => EmptyCountsZero
  <2> SUFFICES ASSUME SketchInv, NEW s \in Handle
               PROVE  Est!Estimate(Sk(s)) = 0 <=> rb[s] = {}
    BY Zenon DEF EmptyCountsZero
  <2>1. Sk(s) \in Sketches /\ rb[s] \in SUBSET Hashes /\ Holds(Sk(s), rb[s])
    BY DEF SketchInv, Sk
  <2>2. ASSUME rb[s] = {} PROVE Est!Estimate(Sk(s)) = 0
    <3>1. \A r \in Registers : Sk(s)[r] = 0
      BY <2>1, <2>2, Zenon DEF Holds
    <3> QED BY <2>1, <3>1, EstimateEmpty, Zenon
  <2>3. ASSUME rb[s] # {} PROVE Est!Estimate(Sk(s)) # 0
    <3>1. PICK h \in rb[s] : TRUE
      BY <2>3, Zenon
    <3>2. IdxOf(h) \in Registers /\ RhoOf(h) \in 1 .. TopRank /\ TopRank \in Nat
      BY <2>1, HashTypes, Zenon
    <3>3. RhoOf(h) <= Sk(s)[IdxOf(h)]
      BY <2>1, Zenon DEF Holds
    <3>4. Sk(s)[IdxOf(h)] # 0
      BY <3>2, <3>3
    <3> QED BY <2>1, <3>2, <3>4, EstimateCounted, Zenon
  <2> QED BY <2>2, <2>3, Zenon
<1> QED BY <1>1, <1>2, <1>3, PTL DEF Spec
=============================================================================
