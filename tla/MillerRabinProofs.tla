------------------------- MODULE MillerRabinProofs -------------------------
(***************************************************************************)
(* What the primality test computes, for words of any width: addmod,       *)
(* mulmod and modpow return the sum, the product and the power modulo m,   *)
(* and IsPrime rejects no prime number.                                    *)
(*                                                                         *)
(* The loops are recursive functions, so each is first shown to be defined *)
(* (Recursion) and then to keep an invariant (SetInduction).  mulmod and   *)
(* modpow keep the result together with the bits of b still to come;       *)
(* IsPrime's squares are related to Fermat's little theorem, which follows *)
(* from the binomial theorem.  Induction comes from the library's theorem  *)
(* that < is well founded on Nat, for sets in place of predicates.         *)
(***************************************************************************)
EXTENDS MCMillerRabin, FiniteSetTheorems, WellFoundedInduction, TLAPS

\* A remainder is what is left when a multiple of the modulus is taken away.
LEMMA ModUnique ==
    ASSUME NEW m \in Nat \ {0}, NEW q \in Int, NEW r \in 0..(m - 1)
    PROVE  (m * q + r) % m = r
  OBVIOUS

\* Every number is a multiple of the modulus and a remainder.
LEMMA ModSplit ==
    ASSUME NEW a \in Nat, NEW m \in Nat \ {0}
    PROVE  /\ a % m \in 0..(m - 1)
           /\ a \div m \in Int
           /\ a = m * (a \div m) + (a % m)
<1>1. a % m \in 0..(m - 1)
  OBVIOUS
<1>2. a \div m \in Int
  OBVIOUS
<1>3. a = m * (a \div m) + (a % m)
  OBVIOUS
<1>. QED
  BY <1>1, <1>2, <1>3

\* A word is its own remainder.
LEMMA WordMod ==
    ASSUME NEW x \in Word
    PROVE  x % WordSize = x
  BY WordSizeAssumption DEF Word

\* On two remainders addmod computes the sum or the sum less the modulus;
\* neither its subtractions nor its addition leaves the word.
LEMMA AddmodSteps ==
    ASSUME NEW a \in Word, NEW b \in Word, NEW m \in Word \ {0}
    PROVE  addmod(a, b, m) = IF (a % m) + (b % m) >= m THEN (a % m) + (b % m) - m
                             ELSE (a % m) + (b % m)
<1>. DEFINE x == a % m
            y == b % m
<1>0. a \in Nat /\ b \in Nat /\ m \in Nat \ {0} /\ m < WordSize /\ WordSize \in Nat
  BY WordSizeAssumption DEF Word
<1>1. x \in 0..(m - 1) /\ y \in 0..(m - 1)
  BY <1>0, ModSplit
<1>. HIDE DEF x, y
<1>2. Minus(m, y) = m - y
  <2>1. m - y \in Word
    BY <1>0, <1>1 DEF Word
  <2>. QED
    BY <2>1, WordMod DEF Minus
<1>3. CASE x >= m - y
  <2>1. x - (m - y) \in Word
    BY <1>0, <1>1, <1>3 DEF Word
  <2>2. Minus(x, m - y) = x - (m - y)
    BY <2>1, WordMod DEF Minus
  <2>. QED
    BY <1>0, <1>1, <1>2, <1>3, <2>2 DEF addmod, x, y
<1>4. CASE ~(x >= m - y)
  <2>1. x + y \in Word
    BY <1>0, <1>1, <1>4 DEF Word
  <2>2. Plus(x, y) = x + y
    BY <2>1, WordMod DEF Plus
  <2>. QED
    BY <1>0, <1>1, <1>2, <1>4, <2>2 DEF addmod, x, y
<1>. QED
  BY <1>3, <1>4

\* addmod returns (a + b) % m for all words and every nonzero modulus, also
\* when a + b does not fit in a word.
THEOREM AddmodIsSum ==
    ASSUME NEW a \in Word, NEW b \in Word, NEW m \in Word \ {0}
    PROVE  addmod(a, b, m) = (a + b) % m
<1>. DEFINE x == a % m
            y == b % m
            q == (a \div m) + (b \div m)
<1>0. a \in Nat /\ b \in Nat /\ m \in Nat \ {0}
  BY WordSizeAssumption DEF Word
<1>1. x \in 0..(m - 1) /\ y \in 0..(m - 1) /\ q \in Int
  BY <1>0, ModSplit
<1>2. a + b = m * q + (x + y)
  <2>1. a = m * (a \div m) + x /\ b = m * (b \div m) + y
    BY <1>0, ModSplit
  <2>2. a \div m \in Int /\ b \div m \in Int
    BY <1>0, ModSplit
  <2>3. ASSUME NEW u \in Int, NEW v \in Int
        PROVE  m * (u + v) = m * u + m * v
    BY <1>0
  <2>. QED
    BY <1>0, <1>1, <2>1, <2>2, <2>3
<1>3. addmod(a, b, m) = IF x + y >= m THEN x + y - m ELSE x + y
  BY AddmodSteps
<1>. HIDE DEF x, y, q
<1>4. CASE x + y < m
  <2>1. x + y \in 0..(m - 1) /\ ~(x + y >= m)
    BY <1>0, <1>1, <1>4
  <2>2. (m * q + (x + y)) % m = x + y
    BY <1>0, <1>1, <2>1, ModUnique
  <2>. QED
    BY <1>2, <1>3, <2>1, <2>2
<1>5. CASE x + y >= m
  <2>1. m * q + (x + y) = m * (q + 1) + (x + y - m)
    BY <1>0, <1>1
  <2>2. x + y - m \in 0..(m - 1) /\ q + 1 \in Int
    BY <1>0, <1>1, <1>5
  <2>. QED
    BY <1>0, <1>2, <1>3, <1>5, <2>1, <2>2, ModUnique
<1>. QED
  BY <1>0, <1>1, <1>4, <1>5

\* The property of addmod that the run checks on small words holds for words
\* of any size.
THEOREM AddmodAlways == CheckSpec => []AddmodCorrect
<1>. DEFINE Inv == args \in ArithArgs \cup PrimeArgs
<1>1. Inv => AddmodCorrect
  <2>1. args \in ArithArgs => AddmodCorrect
    BY AddmodIsSum DEF AddmodCorrect, ArithArgs
  <2>2. args \in PrimeArgs => args[3] = 0
    BY DEF PrimeArgs
  <2>. QED
    BY <2>1, <2>2 DEF AddmodCorrect
<1>2. Inv /\ [UNCHANGED args]_args => Inv'
  BY DEF ArithArgs, PrimeArgs
<1>. QED
  BY <1>1, <1>2, PTL DEF CheckSpec

-----------------------------------------------------------------------------
(* Induction over Nat, for a set in place of a predicate.                  *)

\* Every nonempty set of natural numbers has a least element.
LEMMA LeastElement ==
    ASSUME NEW T, T \subseteq Nat, T # {}
    PROVE  \E x \in T : \A y \in T : x <= y
<1>. DEFINE R == OpToRel(<, Nat)
<1>1. IsWellFoundedOn(R, Nat)
  BY NatLessThanWellFounded
<1>2. \A x, y \in Nat : x < y => <<x, y>> \in R
  BY DEF OpToRel
<1>. HIDE DEF R
<1>3. PICK x \in T : \A y \in T : ~(<<y, x>> \in R)
  BY <1>1, WFMin
<1>4. ASSUME NEW y \in T
      PROVE  x <= y
  <2>1. x \in Nat /\ y \in Nat
    OBVIOUS
  <2>2. ~(y < x)
    BY <1>2, <1>3, <2>1
  <2>. QED
    BY <2>1, <2>2
<1>. QED
  BY <1>4

\* Induction: a set with 0, and with n + 1 for each of its n, has every
\* natural number.
LEMMA SetInduction ==
    ASSUME NEW S, 0 \in S, \A n \in Nat : n \in S => n + 1 \in S
    PROVE  Nat \subseteq S
<1>. SUFFICES ASSUME Nat \ S # {} PROVE FALSE
  OBVIOUS
<1>1. PICK x \in Nat \ S : \A y \in Nat \ S : x <= y
  BY LeastElement
<1>2. x - 1 \in Nat
  BY <1>1
<1>3. x - 1 \in S
  BY <1>1, <1>2
<1>. QED
  BY <1>1, <1>2, <1>3

\* g is the first n values of the sequence that starts with base and goes on
\* with step.
Iterates(g, base, step, n) ==
    \A i \in 0..n : g[i] = IF i = 0 THEN base ELSE step[<<i, g[i - 1]>>]

\* A start and a step define the first values of a sequence: what makes the
\* recursive functions of the loops well defined.
LEMMA Recursion ==
    ASSUME NEW T, NEW base \in T, NEW step \in [Nat \X T -> T], NEW n \in Nat
    PROVE  \E g \in [0..n -> T] : Iterates(g, base, step, n)
<1>. USE DEF Iterates
<1>. DEFINE Rec(g, k) == Iterates(g, base, step, k)
            S == {k \in Nat : \E g \in [0..k -> T] : Rec(g, k)}
<1>1. 0 \in S
  <2>. DEFINE g == [i \in 0..0 |-> base]
  <2>1. g \in [0..0 -> T]
    OBVIOUS
  <2>2. Rec(g, 0)
    OBVIOUS
  <2>. QED
    BY <2>1, <2>2
<1>2. ASSUME NEW k \in Nat, k \in S
      PROVE  k + 1 \in S
  <2>1. PICK g \in [0..k -> T] : Rec(g, k)
    BY <1>2
  <2>. DEFINE h == [i \in 0..(k + 1) |-> IF i \in 0..k THEN g[i] ELSE step[<<k + 1, g[k]>>]]
  <2>2. h \in [0..(k + 1) -> T]
    <3>1. step[<<k + 1, g[k]>>] \in T
      <4>1. <<k + 1, g[k]>> \in Nat \X T
        OBVIOUS
      <4>. QED
        BY <4>1
    <3>. QED
      BY <3>1
  <2>3. ASSUME NEW i \in 0..(k + 1)
        PROVE  h[i] = IF i = 0 THEN base ELSE step[<<i, h[i - 1]>>]
    <3>1. CASE i \in 0..k
      <4>1. h[i] = g[i]
        BY <3>1
      <4>2. i # 0 => i - 1 \in 0..k /\ i - 1 \in 0..(k + 1)
        BY <3>1
      <4>3. i # 0 => h[i - 1] = g[i - 1]
        BY <4>2
      <4>4. g[i] = IF i = 0 THEN base ELSE step[<<i, g[i - 1]>>]
        BY <2>1, <3>1
      <4>. HIDE DEF h
      <4>. QED
        BY <4>1, <4>3, <4>4
    <3>2. CASE i = k + 1
      <4>1. h[i] = step[<<k + 1, g[k]>>]
        BY <3>2
      <4>2. h[k] = g[k]
        OBVIOUS
      <4>3. i # 0 /\ i - 1 = k
        BY <3>2
      <4>. HIDE DEF h
      <4>. QED
        BY <3>2, <4>1, <4>2, <4>3
    <3>. QED
      BY <3>1, <3>2
  <2>. HIDE DEF h
  <2>4. Rec(h, k + 1)
    BY <2>3
  <2>. QED
    BY <2>2, <2>4
<1>3. n \in S
  <2>. HIDE DEF S
  <2>. QED
    BY <1>1, <1>2, SetInduction
<1>. QED
  BY <1>3

\* Powers of two, from the number of subsets of 1..n: those without n + 1
\* and those with it.
LEMMA TwoToStep ==
    ASSUME NEW n \in Nat
    PROVE  /\ 2^n \in Nat \ {0}
           /\ 2^(n + 1) = 2 * 2^n
<1>. DEFINE A == SUBSET (1..n)
            B == {x \cup {n + 1} : x \in A}
<1>1. IsFiniteSet(1..n) /\ Cardinality(1..n) = n
  BY FS_Interval
<1>2. IsFiniteSet(1..(n + 1)) /\ Cardinality(1..(n + 1)) = n + 1
  BY FS_Interval
<1>3. IsFiniteSet(A) /\ Cardinality(A) = 2^n
  BY <1>1, FS_SUBSET
<1>4. IsFiniteSet(SUBSET (1..(n + 1))) /\ Cardinality(SUBSET (1..(n + 1))) = 2^(n + 1)
  BY <1>2, FS_SUBSET
<1>5. SUBSET (1..(n + 1)) = A \cup B
  <2>1. ASSUME NEW s \in SUBSET (1..(n + 1)), s \notin A
        PROVE  s \in B
    <3>1. n + 1 \in s
      BY <2>1
    <3>2. s \ {n + 1} \in A
      OBVIOUS
    <3>3. s = (s \ {n + 1}) \cup {n + 1}
      BY <3>1
    <3>. QED
      BY <3>2, <3>3
  <2>2. A \subseteq SUBSET (1..(n + 1))
    OBVIOUS
  <2>3. ASSUME NEW x \in A
        PROVE  x \cup {n + 1} \in SUBSET (1..(n + 1))
    OBVIOUS
  <2>4. B \subseteq SUBSET (1..(n + 1))
    BY <2>3
  <2>. HIDE DEF A, B
  <2>. QED
    BY <2>1, <2>2, <2>4
<1>6. A \cap B = {}
  OBVIOUS
<1>7. ExistsBijection(A, B)
  <2>. DEFINE f == [x \in A |-> x \cup {n + 1}]
  <2>1. f \in [A -> B]
    OBVIOUS
  <2>2. \A x, y \in A : f[x] = f[y] => x = y
    <3>1. ASSUME NEW x \in A, NEW y \in A, x \cup {n + 1} = y \cup {n + 1}
          PROVE x = y
      <4>1. n + 1 \notin x /\ n + 1 \notin y
         OBVIOUS
      <4>. QED BY <3>1, <4>1
    <3>. QED BY <3>1
  <2>3. \A z \in B : \E x \in A : f[x] = z
    OBVIOUS
  <2>. HIDE DEF f, A, B
  <2>4. f \in Bijection(A, B)
    BY <2>1, <2>2, <2>3 DEF Bijection, Injection, Surjection, IsInjective
  <2>. QED
    BY <2>4 DEF ExistsBijection
<1>. HIDE DEF A, B
<1>8. IsFiniteSet(B) /\ Cardinality(B) = Cardinality(A)
  BY <1>3, <1>7, FS_Bijection
<1>9. Cardinality(A \cup B) = Cardinality(A) + Cardinality(B) - Cardinality(A \cap B)
  BY <1>3, <1>8, FS_Union
<1>10. Cardinality(A \cap B) = 0
  BY <1>6, FS_EmptySet
<1>11. Cardinality(A) \in Nat /\ (Cardinality(A) = 0 <=> A = {})
  BY <1>3, FS_CardinalityType, FS_EmptySet
<1>12. A # {}
  BY DEF A
<1>13. Cardinality(A) \in Nat \ {0} /\ Cardinality(A \cup B) = 2 * Cardinality(A)
  BY <1>8, <1>9, <1>10, <1>11, <1>12
<1>. QED
  BY <1>3, <1>4, <1>5, <1>13

\* A quotient is what multiplies the modulus.
LEMMA DivUnique ==
    ASSUME NEW m \in Nat \ {0}, NEW q \in Int, NEW r \in 0..(m - 1)
    PROVE  (m * q + r) \div m = q
  OBVIOUS

-----------------------------------------------------------------------------
(* Congruence.                                                             *)

\* x and y differ by a multiple of m.
Cong(x, y, m) == \E z \in Int : x = y + m * z

\* Congruence is reflexive,
LEMMA CongRefl ==
    ASSUME NEW m \in Int, NEW x \in Int
    PROVE  Cong(x, x, m)
<1>1. x = x + m * 0
  OBVIOUS
<1>. QED
  BY <1>1 DEF Cong

\* symmetric,
LEMMA CongSym ==
    ASSUME NEW m \in Int, NEW x \in Int, NEW y \in Int, Cong(x, y, m)
    PROVE  Cong(y, x, m)
<1>1. PICK z \in Int : x = y + m * z
  BY DEF Cong
<1>2. y = x + m * (-z)
  BY <1>1
<1>. QED
  BY <1>2 DEF Cong

\* transitive,
LEMMA CongTrans ==
    ASSUME NEW m \in Int, NEW x \in Int, NEW y \in Int, NEW w \in Int,
           Cong(x, y, m), Cong(y, w, m)
    PROVE  Cong(x, w, m)
<1>1. PICK z \in Int : x = y + m * z
  BY DEF Cong
<1>2. PICK u \in Int : y = w + m * u
  BY DEF Cong
<1>3. x = w + m * (u + z)
  BY <1>1, <1>2
<1>4. u + z \in Int
  OBVIOUS
<1>. QED
  BY <1>3, <1>4 DEF Cong

\* and kept by sums
LEMMA CongAdd ==
    ASSUME NEW m \in Int, NEW x \in Int, NEW y \in Int, NEW v \in Int, NEW w \in Int,
           Cong(x, y, m), Cong(v, w, m)
    PROVE  Cong(x + v, y + w, m)
<1>1. PICK z \in Int : x = y + m * z
  BY DEF Cong
<1>2. PICK u \in Int : v = w + m * u
  BY DEF Cong
<1>3. x + v = (y + w) + m * (u + z)
  BY <1>1, <1>2
<1>4. u + z \in Int
  OBVIOUS
<1>. QED
  BY <1>3, <1>4 DEF Cong

\* and products.
LEMMA CongMul ==
    ASSUME NEW m \in Int, NEW x \in Int, NEW y \in Int, NEW v \in Int, NEW w \in Int,
           Cong(x, y, m), Cong(v, w, m)
    PROVE  Cong(x * v, y * w, m)
<1>1. PICK z \in Int : x = y + m * z
  BY DEF Cong
<1>2. PICK u \in Int : v = w + m * u
  BY DEF Cong
<1>3. x * v = (y * w) + m * (y * u + z * w + m * z * u)
  BY <1>1, <1>2
<1>4. y * u + z * w + m * z * u \in Int
  OBVIOUS
<1>. QED
  BY <1>3, <1>4 DEF Cong

\* A number is congruent to its remainder.
LEMMA CongMod ==
    ASSUME NEW m \in Nat \ {0}, NEW x \in Nat
    PROVE  /\ x % m \in 0..(m - 1)
           /\ Cong(x % m, x, m)
<1>1. x % m \in 0..(m - 1) /\ x \div m \in Int /\ x = m * (x \div m) + (x % m)
  BY ModSplit
<1>2. x % m = x + m * (-(x \div m))
  BY <1>1
<1>3. -(x \div m) \in Int
  BY <1>1
<1>4. Cong(x % m, x, m)
  BY <1>2, <1>3 DEF Cong
<1>. QED
  BY <1>1, <1>4

\* The only number below m that is congruent to x is the remainder of x.
LEMMA CongRemainder ==
    ASSUME NEW m \in Nat \ {0}, NEW x \in Nat, NEW r \in 0..(m - 1), Cong(r, x, m)
    PROVE  r = x % m
<1>1. PICK z \in Int : r = x + m * z
  BY DEF Cong
<1>2. x = m * (-z) + r /\ -z \in Int
  BY <1>1
<1>. QED
  BY <1>2, ModUnique

-----------------------------------------------------------------------------
(* The bits of a word.                                                     *)

\* Powers of two grow with the exponent.
LEMMA TwoToMono ==
    ASSUME NEW n \in Nat, NEW k \in Nat
    PROVE  2^n <= 2^(n + k)
<1>. DEFINE S == {j \in Nat : 2^n <= 2^(n + j)}
<1>1. 2^n \in Nat
  BY TwoToStep
<1>2. 0 \in S
  BY <1>1
<1>3. ASSUME NEW j \in Nat, j \in S
      PROVE  j + 1 \in S
  <2>1. n + j \in Nat /\ (n + j) + 1 = n + (j + 1)
    OBVIOUS
  <2>2. 2^(n + j) \in Nat /\ 2^((n + j) + 1) = 2 * 2^(n + j)
    BY <2>1, TwoToStep
  <2>3. 2^n <= 2^(n + j)
    BY <1>3
  <2>. DEFINE u == 2^(n + j)
              v == 2^(n + (j + 1))
              w == 2^n
  <2>4. u \in Nat /\ v = 2 * u /\ w <= u /\ w \in Nat
    BY <1>1, <2>1, <2>2, <2>3
  <2>. HIDE DEF u, v, w
  <2>5. w <= v
    BY <2>4
  <2>. QED
    BY <2>5 DEF v, w
<1>. HIDE DEF S
<1>4. k \in S
  BY <1>2, <1>3, SetInduction
<1>. QED
  BY <1>4 DEF S

\* BitLength(b) iterations shift every bit out of b.
LEMMA BitLengthBound ==
    ASSUME NEW b \in Word
    PROVE  /\ BitLength(b) \in Nat
           /\ b < 2^BitLength(b)
<1>. DEFINE T == {j \in Nat : b < 2^j}
<1>1. b \in Nat /\ Width \in Nat /\ b < 2^Width
  BY WordSizeAssumption, WidthAssumption DEF Word
<1>2. Width \in T
  BY <1>1
<1>3. PICK k \in T : \A j \in T : k <= j
  <2>1. T \subseteq Nat /\ T # {}
    BY <1>2
  <2>. HIDE DEF T
  <2>. QED
    BY <2>1, LeastElement
<1>4. k \in Nat /\ b < 2^k /\ k <= Width
  BY <1>2, <1>3
<1>5. ASSUME NEW i \in 0..(Width - 1)
      PROVE  b >= 2^i <=> i \in 0..(k - 1)
  <2>0. i \in Nat /\ 2^i \in Nat /\ 2^k \in Nat
    BY <1>4, TwoToStep
  <2>1. CASE i < k
    <3>1. i \notin T
      BY <1>3, <1>4, <2>0, <2>1
    <3>2. ~(b < 2^i)
      BY <2>0, <3>1
    <3>. QED
      BY <1>1, <1>4, <2>0, <2>1, <3>2
  <2>2. CASE i >= k
    <3>1. i - k \in Nat /\ k + (i - k) = i
      BY <1>4, <2>0, <2>2
    <3>2. 2^k <= 2^i
      BY <1>4, <3>1, TwoToMono
    <3>. QED
      BY <1>1, <1>4, <2>0, <2>2, <3>2
  <2>. QED
    BY <1>4, <2>0, <2>1, <2>2
<1>6. {i \in 0..(Width - 1) : b >= 2^i} = 0..(k - 1)
  BY <1>1, <1>4, <1>5
<1>7. Cardinality(0..(k - 1)) = k
  BY <1>4, FS_Interval
<1>. QED
  BY <1>4, <1>6, <1>7 DEF BitLength

\* One shift of b takes away its lowest bit.
LEMMA ShiftStep ==
    ASSUME NEW b \in Nat, NEW i \in Nat
    PROVE  /\ b \div 2^i \in Nat
           /\ Bit(b, i) \in 0..1
           /\ b \div 2^i = 2 * (b \div 2^(i + 1)) + Bit(b, i)
<1>. DEFINE P == 2^i
            q == b \div P
            r == b % P
            h == q \div 2
            t == q % 2
<1>1. P \in Nat \ {0} /\ 2^(i + 1) = 2 * P
  BY TwoToStep
<1>. HIDE DEF P
<1>2. q \in Int /\ r \in 0..(P - 1) /\ b = P * q + r
  BY <1>1, ModSplit
<1>3. q \in Nat
  BY <1>1, <1>2
<1>. HIDE DEF q, r
<1>4. h \in Int /\ t \in 0..1 /\ q = 2 * h + t
  BY <1>3, ModSplit
<1>5. h \in Nat
  BY <1>3, <1>4
<1>. HIDE DEF h, t
<1>6. b = (2 * P) * h + (P * t + r)
  BY <1>1, <1>2, <1>4
<1>7. P * t + r \in 0..(2 * P - 1)
  BY <1>1, <1>2, <1>4
<1>8. 2 * P \in Nat \ {0}
  BY <1>1
<1>9. b \div (2 * P) = h
  BY <1>5, <1>6, <1>7, <1>8, DivUnique
<1>10. q = b \div 2^i /\ t = Bit(b, i)
  BY DEF q, t, P, Bit
<1>. QED
  BY <1>1, <1>3, <1>4, <1>9, <1>10

-----------------------------------------------------------------------------
(* mulmod.                                                                 *)

\* One iteration of mulmod: the result and the product still to be added
\* keep their sum modulo m.
LEMMA MulmodRound ==
    ASSUME NEW m \in Word \ {0}, NEW x \in 0..(m - 1), NEW y \in 0..(m - 1),
           NEW h \in Nat, NEW t \in 0..1
    PROVE  LET r == IF t = 1 THEN addmod(x, y, m) ELSE x
               d == addmod(y, y, m)
           IN  /\ r \in 0..(m - 1)
               /\ d \in 0..(m - 1)
               /\ Cong(r + d * h, x + y * (2 * h + t), m)
<1>. DEFINE r == IF t = 1 THEN addmod(x, y, m) ELSE x
            d == addmod(y, y, m)
<1>0. m \in Nat \ {0} /\ x \in Word /\ y \in Word /\ x \in Nat /\ y \in Nat
  BY WordSizeAssumption DEF Word
<1>1. d \in 0..(m - 1) /\ Cong(d, 2 * y, m)
  <2>1. d = (y + y) % m
    BY <1>0, AddmodIsSum
  <2>2. y + y \in Nat /\ y + y = 2 * y
    BY <1>0
  <2>. QED
    BY <1>0, <2>1, <2>2, CongMod
<1>2. r \in 0..(m - 1) /\ Cong(r, x + t * y, m)
  <2>1. CASE t = 1
    <3>1. r = (x + y) % m
      BY <1>0, <2>1, AddmodIsSum
    <3>2. x + y \in Nat /\ x + y = x + t * y
      BY <1>0, <2>1
    <3>. QED
      BY <1>0, <3>1, <3>2, CongMod
  <2>2. CASE t = 0
    <3>1. r = x /\ x + t * y = x
      BY <1>0, <2>2
    <3>. QED
      BY <1>0, <3>1, CongRefl
  <2>. QED
    BY <2>1, <2>2
<1>. HIDE DEF r, d
<1>3. r \in Int /\ d \in Int /\ x + t * y \in Int /\ 2 * y \in Int /\ m \in Int /\ h \in Int
  BY <1>0, <1>1, <1>2
<1>4. Cong(d * h, (2 * y) * h, m)
  BY <1>1, <1>3, CongRefl, CongMul
<1>5. Cong(r + d * h, (x + t * y) + (2 * y) * h, m)
  <2>1. d * h \in Int /\ (2 * y) * h \in Int
    BY <1>3
  <2>. QED
    BY <1>2, <1>3, <1>4, <2>1, CongAdd
<1>6. (x + t * y) + (2 * y) * h = x + y * (2 * h + t)
  BY <1>0
<1>. QED
  BY <1>1, <1>2, <1>5, <1>6 DEF r, d

\* The loop of mulmod is defined, and after each iteration the result and
\* the product still to be added are a * b modulo m.
LEMMA MulmodLoop ==
    ASSUME NEW a \in Word, NEW b \in Word, NEW m \in Word \ {0}, NEW n \in Nat
    PROVE  LET loop[i \in 0..n] ==
                   IF i = 0 THEN <<0, a % m>>
                   ELSE LET s == loop[i - 1] IN
                        <<IF Bit(b, i - 1) = 1 THEN addmod(s[1], s[2], m) ELSE s[1],
                          addmod(s[2], s[2], m)>>
           IN  /\ loop[n] \in (0..(m - 1)) \X (0..(m - 1))
               /\ Cong(loop[n][1] + loop[n][2] * (b \div 2^n), a * b, m)
<1>. DEFINE T == (0..(m - 1)) \X (0..(m - 1))
            Round(s, i) == <<IF Bit(b, i - 1) = 1 THEN addmod(s[1], s[2], m) ELSE s[1],
                             addmod(s[2], s[2], m)>>
            base == <<0, a % m>>
            step == [p \in Nat \X T |-> IF p[1] = 0 THEN base ELSE Round(p[2], p[1])]
            IsLoop(g) == g = [i \in 0..n |-> IF i = 0 THEN base ELSE Round(g[i - 1], i)]
            loop == CHOOSE g : IsLoop(g)
<1>0. a \in Nat /\ b \in Nat /\ m \in Nat \ {0}
  BY WordSizeAssumption DEF Word
<1>1. base \in T
  <2>1. a % m \in 0..(m - 1) /\ 0 \in 0..(m - 1)
    BY <1>0, CongMod
  <2>. QED
    BY <2>1
<1>2. ASSUME NEW s \in T, NEW i \in Nat \ {0}
      PROVE  /\ Round(s, i) \in T
             /\ Cong(Round(s, i)[1] + Round(s, i)[2] * (b \div 2^i),
                     s[1] + s[2] * (b \div 2^(i - 1)), m)
  <2>1. i - 1 \in Nat /\ (i - 1) + 1 = i
    OBVIOUS
  <2>2. /\ b \div 2^i \in Nat
        /\ Bit(b, i - 1) \in 0..1
        /\ b \div 2^(i - 1) = 2 * (b \div 2^i) + Bit(b, i - 1)
    BY <1>0, <2>1, ShiftStep
  <2>3. s[1] \in 0..(m - 1) /\ s[2] \in 0..(m - 1)
    OBVIOUS
  <2>. QED
    BY <2>2, <2>3, MulmodRound
<1>. HIDE DEF base, Round
<1>3. step \in [Nat \X T -> T]
  BY <1>1, <1>2
<1>4. PICK g \in [0..n -> T] : Iterates(g, base, step, n)
  <2>. HIDE DEF step, T
  <2>. QED
    BY <1>1, <1>3, Recursion
<1>5. IsLoop(g)
  <2>1. ASSUME NEW i \in 0..n
        PROVE  g[i] = IF i = 0 THEN base ELSE Round(g[i - 1], i)
    <3>1. i # 0 => i - 1 \in 0..n /\ i \in Nat
      OBVIOUS
    <3>2. i # 0 => step[<<i, g[i - 1]>>] = Round(g[i - 1], i)
      BY <3>1
    <3>. QED
      BY <1>4, <3>2 DEF Iterates
  <2>. QED
    BY <1>4, <2>1
<1>6. IsLoop(loop)
  <2>. HIDE DEF IsLoop
  <2>. QED
    BY <1>5
<1>. HIDE DEF loop
<1>. DEFINE S == {i \in Nat : i <= n => /\ loop[i] \in T
                                       /\ Cong(loop[i][1] + loop[i][2] * (b \div 2^i), a * b, m)}
<1>7. 0 \in S
  <2>1. loop[0] = base
    BY <1>6
  <2>2. base[1] = 0 /\ base[2] = a % m /\ b \div 2^0 = b /\ a % m \in Int
    BY <1>0, CongMod DEF base
  <2>3. Cong((a % m) * b, a * b, m)
    <3>1. Cong(a % m, a, m) /\ Cong(b, b, m)
      BY <1>0, CongMod, CongRefl
    <3>. QED
      BY <1>0, <2>2, <3>1, CongMul
  <2>4. base[1] + base[2] * (b \div 2^0) = (a % m) * b
    BY <1>0, <2>2
  <2>. QED
    BY <1>1, <2>1, <2>3, <2>4
<1>8. ASSUME NEW j \in Nat, j \in S
      PROVE  j + 1 \in S
  <2>. SUFFICES ASSUME j + 1 <= n
                PROVE  /\ loop[j + 1] \in T
                       /\ Cong(loop[j + 1][1] + loop[j + 1][2] * (b \div 2^(j + 1)), a * b, m)
    OBVIOUS
  <2>1. loop[j] \in T /\ Cong(loop[j][1] + loop[j][2] * (b \div 2^j), a * b, m)
    BY <1>8
  <2>2. loop[j + 1] = Round(loop[j], j + 1)
    BY <1>6
  <2>3. j + 1 \in Nat \ {0} /\ (j + 1) - 1 = j
    OBVIOUS
  <2>4. /\ loop[j + 1] \in T
        /\ Cong(loop[j + 1][1] + loop[j + 1][2] * (b \div 2^(j + 1)),
                loop[j][1] + loop[j][2] * (b \div 2^j), m)
    <3>. HIDE DEF T
    <3>. QED
      BY <1>2, <2>1, <2>2, <2>3
  <2>5. b \div 2^j \in Nat /\ b \div 2^(j + 1) \in Nat
    BY <1>0, <2>3, ShiftStep
  <2>6. ASSUME NEW s \in T, NEW q \in Nat
        PROVE  s[1] + s[2] * q \in Int
    BY <1>0
  <2>7. /\ loop[j][1] + loop[j][2] * (b \div 2^j) \in Int
        /\ loop[j + 1][1] + loop[j + 1][2] * (b \div 2^(j + 1)) \in Int
        /\ a * b \in Int /\ m \in Int
    <3>. HIDE DEF T
    <3>1. loop[j][1] + loop[j][2] * (b \div 2^j) \in Int
      BY <2>1, <2>5, <2>6
    <3>2. loop[j + 1][1] + loop[j + 1][2] * (b \div 2^(j + 1)) \in Int
      BY <2>4, <2>5, <2>6
    <3>. QED
      BY <1>0, <3>1, <3>2
  <2>. QED
    BY <2>1, <2>4, <2>7, CongTrans
<1>9. n \in S
  <2>. HIDE DEF S
  <2>. QED
    BY <1>7, <1>8, SetInduction
<1>10. loop[n] \in T /\ Cong(loop[n][1] + loop[n][2] * (b \div 2^n), a * b, m)
  BY <1>9
<1>. QED
  BY <1>10 DEF loop, Round, base

\* mulmod returns (a * b) % m for all words and every nonzero modulus.
THEOREM MulmodIsProduct ==
    ASSUME NEW a \in Word, NEW b \in Word, NEW m \in Word \ {0}
    PROVE  mulmod(a, b, m) = (a * b) % m
<1>. DEFINE n == BitLength(b)
            loop[i \in 0..n] ==
                IF i = 0 THEN <<0, a % m>>
                ELSE LET s == loop[i - 1] IN
                     <<IF Bit(b, i - 1) = 1 THEN addmod(s[1], s[2], m) ELSE s[1],
                       addmod(s[2], s[2], m)>>
<1>0. a \in Nat /\ b \in Nat /\ m \in Nat \ {0}
  BY WordSizeAssumption DEF Word
<1>1. n \in Nat /\ b < 2^n
  BY BitLengthBound
<1>. HIDE DEF n
<1>2. /\ loop[n] \in (0..(m - 1)) \X (0..(m - 1))
      /\ Cong(loop[n][1] + loop[n][2] * (b \div 2^n), a * b, m)
  BY <1>1, MulmodLoop
<1>3. mulmod(a, b, m) = loop[n][1]
  BY DEF mulmod, n
<1>. HIDE DEF loop
<1>4. b \div 2^n = 0
  <2>1. 2^n \in Nat \ {0}
    BY <1>1, TwoToStep
  <2>2. b = 2^n * 0 + b /\ b \in 0..(2^n - 1)
    BY <1>0, <1>1, <2>1
  <2>. QED
    BY <2>1, <2>2, DivUnique
<1>5. loop[n][1] \in 0..(m - 1) /\ loop[n][1] + loop[n][2] * (b \div 2^n) = loop[n][1]
  BY <1>0, <1>2, <1>4
<1>6. a * b \in Nat
  BY <1>0
<1>. QED
  BY <1>0, <1>2, <1>3, <1>5, <1>6, CongRemainder

\* The property of mulmod that the run checks on small words holds for words
\* of any size.
THEOREM MulmodAlways == CheckSpec => []MulmodCorrect
<1>. DEFINE Inv == args \in ArithArgs \cup PrimeArgs
<1>1. Inv => MulmodCorrect
  <2>1. args \in ArithArgs => MulmodCorrect
    BY MulmodIsProduct DEF MulmodCorrect, ArithArgs
  <2>2. args \in PrimeArgs => args[3] = 0
    BY DEF PrimeArgs
  <2>. QED
    BY <2>1, <2>2 DEF MulmodCorrect
<1>2. Inv /\ [UNCHANGED args]_args => Inv'
  BY DEF ArithArgs, PrimeArgs
<1>. QED
  BY <1>1, <1>2, PTL DEF CheckSpec

-----------------------------------------------------------------------------
(* Powers.                                                                 *)

\* Two sequences with the same start and the same step agree as far as both
\* go.
LEMMA IteratesUnique ==
    ASSUME NEW base, NEW step, NEW n \in Nat, NEW k \in Nat, NEW g, NEW h,
           Iterates(g, base, step, n), Iterates(h, base, step, k), n <= k
    PROVE  g[n] = h[n]
<1>. DEFINE S == {i \in Nat : i <= n => g[i] = h[i]}
<1>1. 0 \in S
  <2>1. 0 \in 0..n /\ 0 \in 0..k
    OBVIOUS
  <2>2. g[0] = base /\ h[0] = base
    BY <2>1 DEF Iterates
  <2>. QED
    BY <2>2
<1>2. ASSUME NEW i \in Nat, i \in S
      PROVE  i + 1 \in S
  <2>. SUFFICES ASSUME i + 1 <= n
                PROVE  g[i + 1] = h[i + 1]
    OBVIOUS
  <2>1. i + 1 \in 0..n /\ i + 1 \in 0..k /\ i + 1 # 0 /\ (i + 1) - 1 = i
    OBVIOUS
  <2>2. g[i] = h[i]
    BY <1>2
  <2>3. g[i + 1] = step[<<i + 1, g[i]>>]
    BY <2>1 DEF Iterates
  <2>4. h[i + 1] = step[<<i + 1, h[i]>>]
    BY <2>1 DEF Iterates
  <2>. QED
    BY <2>2, <2>3, <2>4
<1>3. n \in S
  <2>. HIDE DEF S
  <2>. QED
    BY <1>1, <1>2, SetInduction
<1>. QED
  BY <1>3

\* g is the whole sequence that starts with base and goes on with step.
IsSequence(g, base, step) ==
    g[0] = base /\ \A i \in Nat : g[i + 1] = step[<<i + 1, g[i]>>]

\* A start and a step define an infinite sequence.
LEMMA InfiniteRecursion ==
    ASSUME NEW T, NEW base \in T, NEW step \in [Nat \X T -> T]
    PROVE  \E g \in [Nat -> T] : IsSequence(g, base, step)
<1>. DEFINE G(n) == CHOOSE g \in [0..n -> T] : Iterates(g, base, step, n)
            h == [n \in Nat |-> G(n)[n]]
<1>1. ASSUME NEW n \in Nat
      PROVE  G(n) \in [0..n -> T] /\ Iterates(G(n), base, step, n)
  BY Recursion
<1>. HIDE DEF G
<1>2. h \in [Nat -> T]
  <2>1. ASSUME NEW n \in Nat
        PROVE  G(n)[n] \in T
    BY <1>1
  <2>. QED
    BY <2>1
<1>3. h[0] = base
  <2>1. 0 \in Nat /\ 0 \in 0..0
    OBVIOUS
  <2>2. Iterates(G(0), base, step, 0)
    BY <1>1, <2>1
  <2>3. G(0)[0] = base
    BY <2>1, <2>2 DEF Iterates
  <2>. QED
    BY <2>3
<1>4. ASSUME NEW i \in Nat
      PROVE  h[i + 1] = step[<<i + 1, h[i]>>]
  <2>1. i + 1 \in Nat /\ i <= i + 1 /\ i + 1 \in 0..(i + 1) /\ i + 1 # 0 /\ (i + 1) - 1 = i
    OBVIOUS
  <2>2. Iterates(G(i), base, step, i) /\ Iterates(G(i + 1), base, step, i + 1)
    BY <1>1, <2>1
  <2>3. G(i)[i] = G(i + 1)[i]
    BY <2>1, <2>2, IteratesUnique
  <2>4. G(i + 1)[i + 1] = step[<<i + 1, G(i + 1)[i]>>]
    BY <2>1, <2>2 DEF Iterates
  <2>. QED
    BY <2>1, <2>3, <2>4
<1>. HIDE DEF h
<1>. QED
  BY <1>2, <1>3, <1>4 DEF IsSequence

\* The powers of x, by exponent.
Power(x) == CHOOSE f \in [Nat -> Nat] : f[0] = 1 /\ \A i \in Nat : f[i + 1] = f[i] * x

\* The powers of a number are defined by their recursion.
LEMMA PowerStep ==
    ASSUME NEW x \in Nat
    PROVE  /\ Power(x) \in [Nat -> Nat]
           /\ Power(x)[0] = 1
           /\ \A i \in Nat : Power(x)[i + 1] = Power(x)[i] * x
<1>. DEFINE step == [p \in Nat \X Nat |-> p[2] * x]
            Is(f) == f[0] = 1 /\ \A i \in Nat : f[i + 1] = f[i] * x
<1>1. step \in [Nat \X Nat -> Nat]
  OBVIOUS
<1>2. \A i, v \in Nat : step[<<i, v>>] = v * x
  OBVIOUS
<1>. HIDE DEF step
<1>3. PICK g \in [Nat -> Nat] : IsSequence(g, 1, step)
  <2>1. 1 \in Nat
    OBVIOUS
  <2>. QED
    BY <1>1, <2>1, InfiniteRecursion
<1>4. Is(g)
  <2>1. ASSUME NEW i \in Nat
        PROVE  g[i + 1] = g[i] * x
    <3>1. g[i + 1] = step[<<i + 1, g[i]>>]
      BY <1>3 DEF IsSequence
    <3>2. i + 1 \in Nat /\ g[i] \in Nat
      OBVIOUS
    <3>. QED
      BY <1>2, <3>1, <3>2
  <2>. QED
    BY <1>3, <2>1 DEF IsSequence
<1>. HIDE DEF Is
<1>5. LET f == CHOOSE f \in [Nat -> Nat] : Is(f)
      IN  f \in [Nat -> Nat] /\ Is(f)
  BY <1>4
<1>. QED
  BY <1>5 DEF Power, Is

\* Exponents add up.
LEMMA PowerAdd ==
    ASSUME NEW x \in Nat, NEW n \in Nat, NEW k \in Nat
    PROVE  Power(x)[n + k] = Power(x)[n] * Power(x)[k]
<1>. DEFINE p == Power(x)
            S == {j \in Nat : p[n + j] = p[n] * p[j]}
<1>1. p \in [Nat -> Nat] /\ p[0] = 1 /\ \A i \in Nat : p[i + 1] = p[i] * x
  BY PowerStep
<1>. HIDE DEF p
<1>2. 0 \in S
  BY <1>1
<1>3. ASSUME NEW j \in Nat, j \in S
      PROVE  j + 1 \in S
  <2>1. n + (j + 1) = (n + j) + 1 /\ n + j \in Nat
    OBVIOUS
  <2>2. p[n + (j + 1)] = p[n + j] * x
    BY <1>1, <2>1
  <2>3. p[n + j] = p[n] * p[j] /\ p[j + 1] = p[j] * x
    BY <1>1, <1>3
  <2>4. p[n] \in Nat /\ p[j] \in Nat
    BY <1>1
  <2>5. (p[n] * p[j]) * x = p[n] * (p[j] * x)
    BY <2>4
  <2>. QED
    BY <2>2, <2>3, <2>5
<1>4. k \in S
  <2>. HIDE DEF S
  <2>. QED
    BY <1>2, <1>3, SetInduction
<1>. QED
  BY <1>4 DEF p

\* A power of the square is a power with twice the exponent.
LEMMA PowerOfSquare ==
    ASSUME NEW x \in Nat, NEW n \in Nat
    PROVE  Power(x * x)[n] = Power(x)[2 * n]
<1>. DEFINE p == Power(x)
            s == Power(x * x)
            S == {j \in Nat : s[j] = p[2 * j]}
<1>1. p \in [Nat -> Nat] /\ p[0] = 1 /\ \A i \in Nat : p[i + 1] = p[i] * x
  BY PowerStep
<1>2. s \in [Nat -> Nat] /\ s[0] = 1 /\ \A i \in Nat : s[i + 1] = s[i] * (x * x)
  <2>1. x * x \in Nat
    OBVIOUS
  <2>. QED
    BY <2>1, PowerStep
<1>. HIDE DEF p, s
<1>3. 0 \in S
  BY <1>1, <1>2
<1>4. ASSUME NEW j \in Nat, j \in S
      PROVE  j + 1 \in S
  <2>1. 2 * (j + 1) = (2 * j + 1) + 1 /\ 2 * j \in Nat /\ 2 * j + 1 \in Nat
    OBVIOUS
  <2>2. p[2 * (j + 1)] = (p[2 * j] * x) * x
    BY <1>1, <2>1
  <2>3. s[j + 1] = p[2 * j] * (x * x)
    BY <1>2, <1>4
  <2>4. p[2 * j] \in Nat
    BY <1>1, <2>1
  <2>5. (p[2 * j] * x) * x = p[2 * j] * (x * x)
    BY <2>4
  <2>. QED
    BY <2>2, <2>3, <2>5
<1>5. n \in S
  <2>. HIDE DEF S
  <2>. QED
    BY <1>3, <1>4, SetInduction
<1>. QED
  BY <1>5 DEF p, s

\* Powers of congruent numbers are congruent.
LEMMA PowerCong ==
    ASSUME NEW x \in Nat, NEW y \in Nat, NEW m \in Nat, NEW n \in Nat, Cong(x, y, m)
    PROVE  Cong(Power(x)[n], Power(y)[n], m)
<1>. DEFINE p == Power(x)
            s == Power(y)
            S == {j \in Nat : Cong(p[j], s[j], m)}
<1>1. p \in [Nat -> Nat] /\ p[0] = 1 /\ \A i \in Nat : p[i + 1] = p[i] * x
  BY PowerStep
<1>2. s \in [Nat -> Nat] /\ s[0] = 1 /\ \A i \in Nat : s[i + 1] = s[i] * y
  BY PowerStep
<1>. HIDE DEF p, s
<1>3. 0 \in S
  BY <1>1, <1>2, CongRefl
<1>4. ASSUME NEW j \in Nat, j \in S
      PROVE  j + 1 \in S
  <2>1. p[j] \in Int /\ s[j] \in Int /\ x \in Int /\ y \in Int /\ m \in Int
    BY <1>1, <1>2
  <2>2. Cong(p[j], s[j], m)
    BY <1>4
  <2>3. Cong(p[j] * x, s[j] * y, m)
    BY <2>1, <2>2, CongMul
  <2>. QED
    BY <1>1, <1>2, <2>3
<1>5. n \in S
  <2>. HIDE DEF S
  <2>. QED
    BY <1>3, <1>4, SetInduction
<1>. QED
  BY <1>5 DEF p, s

\* The reference definition of the runs is the remainder of the power.
LEMMA PowerRefIsPower ==
    ASSUME NEW a \in Nat, NEW b \in Nat, NEW m \in Nat \ {0}
    PROVE  PowerRef(a, b, m) = Power(a)[b] % m
<1>. DEFINE T == 0..(m - 1)
            base == 1 % m
            step == [p \in Nat \X T |-> (p[2] * a) % m]
            IsLoop(g) == g = [i \in 0..b |-> IF i = 0 THEN base ELSE (g[i - 1] * a) % m]
            loop == CHOOSE g : IsLoop(g)
            p == Power(a)
<1>1. base \in T
  BY CongMod
<1>2. \A v \in T : v \in Nat /\ (v * a) % m \in T
  <2>1. ASSUME NEW v \in T
        PROVE  (v * a) % m \in T
    <3>1. v * a \in Nat
      OBVIOUS
    <3>. QED
      BY <3>1, CongMod
  <2>. QED
    BY <2>1
<1>. HIDE DEF base
<1>3. step \in [Nat \X T -> T]
  BY <1>2
<1>4. PICK g \in [0..b -> T] : Iterates(g, base, step, b)
  <2>. HIDE DEF step, T
  <2>. QED
    BY <1>1, <1>3, Recursion
<1>5. IsLoop(g)
  <2>1. ASSUME NEW i \in 0..b
        PROVE  g[i] = IF i = 0 THEN base ELSE (g[i - 1] * a) % m
    <3>1. i # 0 => i - 1 \in 0..b /\ i \in Nat
      OBVIOUS
    <3>2. i # 0 => step[<<i, g[i - 1]>>] = (g[i - 1] * a) % m
      BY <3>1
    <3>. QED
      BY <1>4, <3>2 DEF Iterates
  <2>. QED
    BY <1>4, <2>1
<1>6. IsLoop(loop)
  <2>. HIDE DEF IsLoop
  <2>. QED
    BY <1>5
<1>7. p \in [Nat -> Nat] /\ p[0] = 1 /\ \A i \in Nat : p[i + 1] = p[i] * a
  BY PowerStep
<1>8. PowerRef(a, b, m) = loop[b]
  BY DEF PowerRef, base
<1>. HIDE DEF loop, p
<1>. DEFINE S == {i \in Nat : i <= b => loop[i] \in T /\ Cong(loop[i], p[i], m)}
<1>9. 0 \in S
  <2>1. loop[0] = base
    BY <1>6
  <2>2. Cong(base, 1, m)
    BY CongMod DEF base
  <2>. QED
    BY <1>1, <1>7, <2>1, <2>2
<1>10. ASSUME NEW j \in Nat, j \in S
       PROVE  j + 1 \in S
  <2>. SUFFICES ASSUME j + 1 <= b
                PROVE  loop[j + 1] \in T /\ Cong(loop[j + 1], p[j + 1], m)
    OBVIOUS
  <2>1. loop[j] \in T /\ Cong(loop[j], p[j], m)
    BY <1>10
  <2>2. loop[j + 1] = (loop[j] * a) % m
    BY <1>6
  <2>3. loop[j] \in Nat /\ p[j] \in Nat /\ p[j + 1] = p[j] * a /\ loop[j] * a \in Nat
    <3>1. loop[j] \in Nat /\ p[j] \in Nat /\ p[j + 1] = p[j] * a
      BY <1>2, <1>7, <2>1
    <3>. QED
      BY <3>1
  <2>4. Cong(loop[j + 1], loop[j] * a, m) /\ loop[j + 1] \in T
    BY <2>2, <2>3, CongMod
  <2>5. Cong(loop[j] * a, p[j] * a, m)
    <3>1. Cong(a, a, m) /\ a \in Int /\ m \in Int /\ loop[j] \in Int /\ p[j] \in Int
      BY <2>3, CongRefl
    <3>. QED
      BY <2>1, <3>1, CongMul
  <2>6. loop[j + 1] \in Int /\ loop[j] * a \in Int /\ p[j] * a \in Int /\ m \in Int
    BY <2>3, <2>4
  <2>. QED
    BY <2>3, <2>4, <2>5, <2>6, CongTrans
<1>11. b \in S
  <2>. HIDE DEF S
  <2>. QED
    BY <1>9, <1>10, SetInduction
<1>12. loop[b] \in T /\ Cong(loop[b], p[b], m)
  BY <1>11
<1>13. loop[b] = p[b] % m
  BY <1>7, <1>12, CongRemainder
<1>. QED
  BY <1>8, <1>13 DEF p

-----------------------------------------------------------------------------
(* modpow.                                                                 *)

\* One iteration of modpow: the result times the power still to be taken
\* stays the same modulo m.
LEMMA ModpowRound ==
    ASSUME NEW m \in Word \ {0}, NEW x \in 0..(m - 1), NEW y \in 0..(m - 1),
           NEW h \in Nat, NEW t \in 0..1
    PROVE  LET r == IF t = 1 THEN mulmod(x, y, m) ELSE x
               d == mulmod(y, y, m)
           IN  /\ r \in 0..(m - 1)
               /\ d \in 0..(m - 1)
               /\ Cong(r * Power(d)[h], x * Power(y)[2 * h + t], m)
<1>. DEFINE r == IF t = 1 THEN mulmod(x, y, m) ELSE x
            d == mulmod(y, y, m)
            u == Power(y)[t]
            v == Power(y)[2 * h]
<1>0. m \in Nat \ {0} /\ x \in Word /\ y \in Word /\ x \in Nat /\ y \in Nat
  BY WordSizeAssumption DEF Word
<1>1. d \in 0..(m - 1) /\ Cong(d, y * y, m)
  <2>1. d = (y * y) % m
    BY <1>0, MulmodIsProduct
  <2>2. y * y \in Nat
    BY <1>0
  <2>. QED
    BY <1>0, <2>1, <2>2, CongMod
<1>2. r \in 0..(m - 1) /\ Cong(r, x * u, m) /\ u \in Nat
  <2>0. Power(y) \in [Nat -> Nat] /\ Power(y)[0] = 1 /\ Power(y)[0 + 1] = Power(y)[0] * y
    BY <1>0, PowerStep
  <2>1. CASE t = 1
    <3>1. r = (x * y) % m
      BY <1>0, <2>1, MulmodIsProduct
    <3>2. u = y
      BY <1>0, <2>0, <2>1
    <3>3. x * y \in Nat
      BY <1>0
    <3>. QED
      BY <1>0, <3>1, <3>2, <3>3, CongMod
  <2>2. CASE t = 0
    <3>1. r = x /\ u = 1 /\ x * 1 = x
      BY <1>0, <2>0, <2>2
    <3>. QED
      BY <1>0, <3>1, CongRefl
  <2>. QED
    BY <2>1, <2>2
<1>3. Power(d)[h] \in Nat /\ v \in Nat /\ Cong(Power(d)[h], v, m)
  <2>1. d \in Nat /\ y * y \in Nat
    BY <1>0, <1>1
  <2>2. Cong(Power(d)[h], Power(y * y)[h], m)
    BY <1>0, <1>1, <2>1, PowerCong
  <2>3. Power(y * y)[h] = v
    BY <1>0, PowerOfSquare
  <2>4. Power(d)[h] \in Nat /\ v \in Nat
    <3>1. Power(d) \in [Nat -> Nat] /\ Power(y) \in [Nat -> Nat]
      BY <1>0, <2>1, PowerStep
    <3>2. 2 * h \in Nat
      OBVIOUS
    <3>. QED
      BY <3>1, <3>2
  <2>. QED
    BY <2>2, <2>3, <2>4
<1>4. Power(y)[2 * h + t] = v * u
  <2>1. 2 * h \in Nat /\ t \in Nat
    OBVIOUS
  <2>. QED
    BY <1>0, <2>1, PowerAdd
<1>. DEFINE w == Power(d)[h]
<1>5. w \in Nat /\ Cong(w, v, m)
  BY <1>3
<1>. HIDE DEF r, d, u, v, w
<1>6. Cong(r * w, (x * u) * v, m)
  <2>1. r \in Int /\ x * u \in Int /\ w \in Int /\ v \in Int /\ m \in Int
    BY <1>0, <1>2, <1>3, <1>5
  <2>. QED
    BY <1>2, <1>5, <2>1, CongMul
<1>7. (x * u) * v = x * (v * u)
  BY <1>0, <1>2, <1>3
<1>. QED
  BY <1>1, <1>2, <1>4, <1>6, <1>7 DEF r, d, w

\* The loop of modpow is defined, and after each iteration the result times
\* the power still to be taken is a^b modulo m.
LEMMA ModpowLoop ==
    ASSUME NEW a \in Word, NEW b \in Word, NEW m \in Word \ {0, 1}, NEW n \in Nat
    PROVE  LET loop[i \in 0..n] ==
                   IF i = 0 THEN <<1, a % m>>
                   ELSE LET s == loop[i - 1] IN
                        <<IF Bit(b, i - 1) = 1 THEN mulmod(s[1], s[2], m) ELSE s[1],
                          mulmod(s[2], s[2], m)>>
           IN  /\ loop[n] \in (0..(m - 1)) \X (0..(m - 1))
               /\ Cong(loop[n][1] * Power(loop[n][2])[b \div 2^n], Power(a)[b], m)
<1>. DEFINE T == (0..(m - 1)) \X (0..(m - 1))
            Round(s, i) == <<IF Bit(b, i - 1) = 1 THEN mulmod(s[1], s[2], m) ELSE s[1],
                             mulmod(s[2], s[2], m)>>
            base == <<1, a % m>>
            step == [p \in Nat \X T |-> IF p[1] = 0 THEN base ELSE Round(p[2], p[1])]
            IsLoop(g) == g = [i \in 0..n |-> IF i = 0 THEN base ELSE Round(g[i - 1], i)]
            loop == CHOOSE g : IsLoop(g)
            Left(s, i) == s[1] * Power(s[2])[b \div 2^i]
<1>0. a \in Nat /\ b \in Nat /\ m \in Nat \ {0, 1}
  BY WordSizeAssumption DEF Word
<1>1. base \in T
  <2>1. a % m \in 0..(m - 1) /\ 1 \in 0..(m - 1)
    BY <1>0, CongMod
  <2>. QED
    BY <2>1
<1>2. ASSUME NEW s \in T, NEW i \in Nat \ {0}
      PROVE  /\ Round(s, i) \in T
             /\ Cong(Left(Round(s, i), i), Left(s, i - 1), m)
  <2>1. i - 1 \in Nat /\ (i - 1) + 1 = i
    OBVIOUS
  <2>2. /\ b \div 2^i \in Nat
        /\ Bit(b, i - 1) \in 0..1
        /\ b \div 2^(i - 1) = 2 * (b \div 2^i) + Bit(b, i - 1)
    BY <1>0, <2>1, ShiftStep
  <2>3. s[1] \in 0..(m - 1) /\ s[2] \in 0..(m - 1)
    OBVIOUS
  <2>. QED
    BY <2>2, <2>3, ModpowRound
<1>3. ASSUME NEW s \in T, NEW i \in Nat
      PROVE  Left(s, i) \in Int
  <2>1. b \div 2^i \in Nat /\ s[1] \in Nat /\ s[2] \in Nat
    BY <1>0, ShiftStep
  <2>2. Power(s[2])[b \div 2^i] \in Nat
    BY <2>1, PowerStep
  <2>. QED
    BY <2>1, <2>2
<1>. HIDE DEF base, Round
<1>4. step \in [Nat \X T -> T]
  BY <1>1, <1>2
<1>5. PICK g \in [0..n -> T] : Iterates(g, base, step, n)
  <2>. HIDE DEF step, T
  <2>. QED
    BY <1>1, <1>4, Recursion
<1>6. IsLoop(g)
  <2>1. ASSUME NEW i \in 0..n
        PROVE  g[i] = IF i = 0 THEN base ELSE Round(g[i - 1], i)
    <3>1. i # 0 => i - 1 \in 0..n /\ i \in Nat
      OBVIOUS
    <3>2. i # 0 => step[<<i, g[i - 1]>>] = Round(g[i - 1], i)
      BY <3>1
    <3>. QED
      BY <1>5, <3>2 DEF Iterates
  <2>. QED
    BY <1>5, <2>1
<1>7. IsLoop(loop)
  <2>. HIDE DEF IsLoop
  <2>. QED
    BY <1>6
<1>. HIDE DEF loop, Left
<1>. DEFINE S == {i \in Nat : i <= n => /\ loop[i] \in T
                                       /\ Cong(Left(loop[i], i), Power(a)[b], m)}
<1>8. 0 \in S
  <2>1. loop[0] = base
    BY <1>7
  <2>2. base[1] = 1 /\ base[2] = a % m /\ b \div 2^0 = b /\ a % m \in Nat /\ m \in Nat \ {0}
    BY <1>0, CongMod DEF base
  <2>3. Cong(Power(a % m)[b], Power(a)[b], m)
    BY <1>0, <2>2, CongMod, PowerCong
  <2>4. Left(base, 0) = 1 * Power(a % m)[b]
    BY <2>2 DEF Left
  <2>5. Power(a % m)[b] \in Nat
    BY <1>0, <2>2, PowerStep
  <2>6. 1 * Power(a % m)[b] = Power(a % m)[b]
    BY <2>5
  <2>. QED
    BY <1>1, <2>1, <2>3, <2>4, <2>6
<1>9. ASSUME NEW j \in Nat, j \in S
      PROVE  j + 1 \in S
  <2>. SUFFICES ASSUME j + 1 <= n
                PROVE  loop[j + 1] \in T /\ Cong(Left(loop[j + 1], j + 1), Power(a)[b], m)
    OBVIOUS
  <2>1. loop[j] \in T /\ Cong(Left(loop[j], j), Power(a)[b], m)
    BY <1>9
  <2>2. loop[j + 1] = Round(loop[j], j + 1)
    BY <1>7
  <2>3. j + 1 \in Nat \ {0} /\ (j + 1) - 1 = j
    OBVIOUS
  <2>. HIDE DEF T
  <2>4. loop[j + 1] \in T /\ Cong(Left(loop[j + 1], j + 1), Left(loop[j], j), m)
    BY <1>2, <2>1, <2>2, <2>3
  <2>5. Left(loop[j], j) \in Int /\ Left(loop[j + 1], j + 1) \in Int
    BY <1>3, <2>1, <2>3, <2>4
  <2>6. Power(a)[b] \in Int /\ m \in Int
    BY <1>0, PowerStep
  <2>. QED
    BY <2>1, <2>4, <2>5, <2>6, CongTrans
<1>10. n \in S
  <2>. HIDE DEF S
  <2>. QED
    BY <1>8, <1>9, SetInduction
<1>11. loop[n] \in T /\ Cong(Left(loop[n], n), Power(a)[b], m)
  BY <1>10
<1>. QED
  BY <1>11 DEF loop, Round, base, Left

\* modpow returns a^b % m for all words and every nonzero modulus, 1
\* included.
THEOREM ModpowIsPower ==
    ASSUME NEW a \in Word, NEW b \in Word, NEW m \in Word \ {0}
    PROVE  modpow(a, b, m) = Power(a)[b] % m
<1>. DEFINE n == BitLength(b)
            loop[i \in 0..n] ==
                IF i = 0 THEN <<1, a % m>>
                ELSE LET s == loop[i - 1] IN
                     <<IF Bit(b, i - 1) = 1 THEN mulmod(s[1], s[2], m) ELSE s[1],
                       mulmod(s[2], s[2], m)>>
<1>0. a \in Nat /\ b \in Nat /\ m \in Nat \ {0} /\ Power(a)[b] \in Nat
  BY WordSizeAssumption, PowerStep DEF Word
<1>1. CASE m = 1
  <2>1. modpow(a, b, m) = 0
    BY <1>1 DEF modpow
  <2>2. Power(a)[b] % m \in 0..(m - 1)
    BY <1>0, CongMod
  <2>. QED
    BY <1>1, <2>1, <2>2
<1>2. CASE m # 1
  <2>1. n \in Nat /\ b < 2^n
    BY BitLengthBound
  <2>. HIDE DEF n
  <2>2. /\ loop[n] \in (0..(m - 1)) \X (0..(m - 1))
        /\ Cong(loop[n][1] * Power(loop[n][2])[b \div 2^n], Power(a)[b], m)
    BY <1>2, <2>1, ModpowLoop
  <2>3. modpow(a, b, m) = loop[n][1]
    BY <1>2 DEF modpow, n
  <2>. HIDE DEF loop
  <2>4. b \div 2^n = 0
    <3>1. 2^n \in Nat \ {0}
      BY <2>1, TwoToStep
    <3>2. b = 2^n * 0 + b /\ b \in 0..(2^n - 1)
      BY <1>0, <2>1, <3>1
    <3>. QED
      BY <3>1, <3>2, DivUnique
  <2>5. loop[n][1] \in 0..(m - 1) /\ loop[n][2] \in Nat
    BY <1>0, <2>2
  <2>6. Power(loop[n][2])[0] = 1
    BY <2>5, PowerStep
  <2>7. loop[n][1] * Power(loop[n][2])[b \div 2^n] = loop[n][1]
    BY <1>0, <2>4, <2>5, <2>6
  <2>. QED
    BY <1>0, <2>2, <2>3, <2>5, <2>7, CongRemainder
<1>. QED
  BY <1>1, <1>2

\* The property of modpow that the run checks on small words holds for words
\* of any size.
THEOREM ModpowAlways == CheckSpec => []ModpowCorrect
<1>. DEFINE Inv == args \in ArithArgs \cup PrimeArgs
<1>1. Inv => ModpowCorrect
  <2>1. ASSUME args \in ArithArgs
        PROVE  ModpowCorrect
    <3>1. args[1] \in Word /\ args[2] \in Word /\ args[3] \in Word \ {0}
      BY <2>1 DEF ArithArgs
    <3>2. args[1] \in Nat /\ args[2] \in Nat /\ args[3] \in Nat \ {0}
      BY <3>1, WordSizeAssumption DEF Word
    <3>. QED
      BY <3>1, <3>2, ModpowIsPower, PowerRefIsPower DEF ModpowCorrect
  <2>2. args \in PrimeArgs => args[3] = 0
    BY DEF PrimeArgs
  <2>. QED
    BY <2>1, <2>2 DEF ModpowCorrect
<1>2. Inv /\ [UNCHANGED args]_args => Inv'
  BY DEF ArithArgs, PrimeArgs
<1>. QED
  BY <1>1, <1>2, PTL DEF CheckSpec

-----------------------------------------------------------------------------
(* Prime numbers.                                                          *)

\* A prime number has no divisor but 1 and itself: trial division up to the
\* root finds any other.
LEMMA PrimeDivisors ==
    ASSUME NEW n \in Nat, PrimeNumber(n), NEW d \in Nat, NEW e \in Nat, n = d * e
    PROVE  d = 1 \/ d = n
<1>. SUFFICES ASSUME d # 1, d # n
              PROVE  FALSE
  OBVIOUS
<1>1. n >= 2
  BY DEF PrimeNumber
<1>2. d # 0 /\ e # 0 /\ e # 1
  BY <1>1
<1>3. d >= 2 /\ e >= 2
  BY <1>2
<1>4. d < n /\ e < n
  <2>1. d * e >= d * 2
    BY <1>3
  <2>2. d * e >= 2 * e
    BY <1>3
  <2>. QED
    BY <1>3, <2>1, <2>2
<1>5. ASSUME NEW u \in Nat, NEW v \in Nat, u >= 2, u < n, u <= v, n = u * v
      PROVE  FALSE
  <2>1. u * u <= n
    BY <1>5
  <2>2. n % u = 0
    <3>1. n = u * v + 0 /\ 0 \in 0..(u - 1) /\ u \in Nat \ {0} /\ v \in Int
      BY <1>5
    <3>. QED
      BY <3>1, ModUnique
  <2>3. u \in 2..(n - 1)
    BY <1>5
  <2>. QED
    BY <2>1, <2>2, <2>3 DEF PrimeNumber
<1>6. CASE d <= e
  BY <1>3, <1>4, <1>5, <1>6
<1>7. CASE e <= d
  <2>1. n = e * d
    OBVIOUS
  <2>. QED
    BY <1>3, <1>4, <1>5, <1>7, <2>1
<1>. QED
  BY <1>6, <1>7

\* A prime number that divides a product divides one of its factors.
LEMMA Euclid ==
    ASSUME NEW n \in Nat, PrimeNumber(n), NEW x \in Nat, NEW y \in Nat, Cong(x * y, 0, n)
    PROVE  Cong(x, 0, n) \/ Cong(y, 0, n)
<1>. DEFINE T == {k \in Nat \ {0} : Cong(k * y, 0, n)}
<1>1. n >= 2
  BY DEF PrimeNumber
<1>2. n \in T
  <2>1. n * y = 0 + n * y /\ y \in Int
    OBVIOUS
  <2>2. Cong(n * y, 0, n)
    BY <2>1 DEF Cong
  <2>. QED
    BY <1>1, <2>2
<1>3. PICK k \in T : \A j \in T : k <= j
  <2>1. T \subseteq Nat /\ T # {}
    BY <1>2
  <2>. HIDE DEF T
  <2>. QED
    BY <2>1, LeastElement
<1>4. k \in Nat \ {0} /\ Cong(k * y, 0, n)
  OBVIOUS
<1>5. ASSUME NEW z \in Nat, Cong(z * y, 0, n)
      PROVE  z \div k \in Nat /\ z = k * (z \div k)
  <2>. DEFINE q == z \div k
              r == z % k
  <2>1. q \in Int /\ r \in 0..(k - 1) /\ z = k * q + r
    BY <1>4, ModSplit
  <2>. HIDE DEF q, r
  <2>2. q \in Nat
    BY <1>4, <2>1
  <2>3. Cong(r * y, 0, n)
    <3>1. PICK u \in Int : z * y = 0 + n * u
      BY <1>5 DEF Cong
    <3>2. PICK v \in Int : k * y = 0 + n * v
      BY <1>4 DEF Cong
    <3>3. r * y = z * y - q * (k * y)
      BY <1>4, <2>1, <2>2
    <3>4. r * y = 0 + n * (u - q * v)
      BY <2>2, <3>1, <3>2, <3>3
    <3>5. u - q * v \in Int
      BY <2>2
    <3>. QED
      BY <3>4, <3>5 DEF Cong
  <2>4. r = 0
    <3>1. r # 0 => r \in T
      BY <1>4, <2>1, <2>3
    <3>. QED
      BY <1>3, <1>4, <2>1, <3>1
  <2>5. z = k * q
    BY <1>4, <2>1, <2>2, <2>4
  <2>. QED
    BY <2>2, <2>5 DEF q
<1>6. k = 1 \/ k = n
  <2>1. Cong(n * y, 0, n)
    BY <1>2
  <2>2. n \div k \in Nat /\ n = k * (n \div k)
    BY <1>5, <2>1
  <2>. HIDE DEF T
  <2>. QED
    BY <1>4, <2>2, PrimeDivisors
<1>7. CASE k = 1
  <2>1. k * y = y
    BY <1>7
  <2>. QED
    BY <1>4, <2>1
<1>8. CASE k = n
  <2>1. x \div n \in Nat /\ x = n * (x \div n)
    BY <1>5, <1>8
  <2>2. x = 0 + n * (x \div n) /\ x \div n \in Int
    BY <2>1
  <2>. QED
    BY <2>2 DEF Cong
<1>. QED
  BY <1>6, <1>7, <1>8

\* No number between 0 and n is a multiple of n.
LEMMA NoMultiple ==
    ASSUME NEW n \in Nat \ {0}, NEW x \in 0..(n - 1), Cong(x, 0, n)
    PROVE  x = 0
<1>1. 0 % n = 0
  <2>1. 0 = n * 0 + 0 /\ 0 \in 0..(n - 1)
    OBVIOUS
  <2>. QED
    BY <2>1, ModUnique
<1>. QED
  BY <1>1, CongRemainder

-----------------------------------------------------------------------------
(* Fermat's little theorem, by the binomial coefficients.                  *)

\* The next row of Pascal's triangle.
NextRow(c) == [k \in Nat |-> c[k] + (IF k = 0 THEN 0 ELSE c[k - 1])]

\* Pascal's triangle: Pascal[n][k] is n choose k.
Pascal == CHOOSE c \in [Nat -> [Nat -> Nat]] :
            /\ c[0] = [k \in Nat |-> IF k = 0 THEN 1 ELSE 0]
            /\ \A n \in Nat : c[n + 1] = NextRow(c[n])

\* Pascal's triangle is defined by its recursion.
LEMMA PascalStep ==
    /\ Pascal \in [Nat -> [Nat -> Nat]]
    /\ Pascal[0] = [k \in Nat |-> IF k = 0 THEN 1 ELSE 0]
    /\ \A n \in Nat : Pascal[n + 1] = NextRow(Pascal[n])
<1>. DEFINE T == [Nat -> Nat]
            base == [k \in Nat |-> IF k = 0 THEN 1 ELSE 0]
            step == [p \in Nat \X T |-> NextRow(p[2])]
            Is(c) == c[0] = base /\ \A n \in Nat : c[n + 1] = NextRow(c[n])
<1>1. base \in T
  OBVIOUS
<1>2. \A c \in T : NextRow(c) \in T
  <2>1. ASSUME NEW c \in T, NEW k \in Nat
        PROVE  c[k] + (IF k = 0 THEN 0 ELSE c[k - 1]) \in Nat
    <3>1. k # 0 => k - 1 \in Nat
      OBVIOUS
    <3>. QED
      BY <3>1
  <2>. QED
    BY <2>1 DEF NextRow
<1>. HIDE DEF T, base
<1>3. step \in [Nat \X T -> T]
  BY <1>2
<1>4. \A i \in Nat, c \in T : step[<<i, c>>] = NextRow(c)
  OBVIOUS
<1>. HIDE DEF step
<1>5. PICK c \in [Nat -> T] : IsSequence(c, base, step)
  BY <1>1, <1>3, InfiniteRecursion
<1>6. Is(c)
  <2>1. ASSUME NEW n \in Nat
        PROVE  c[n + 1] = NextRow(c[n])
    <3>1. c[n + 1] = step[<<n + 1, c[n]>>]
      BY <1>5 DEF IsSequence
    <3>2. n + 1 \in Nat /\ c[n] \in T
      OBVIOUS
    <3>. QED
      BY <1>4, <3>1, <3>2
  <2>. QED
    BY <1>5, <2>1 DEF IsSequence
<1>. HIDE DEF Is
<1>7. LET f == CHOOSE f \in [Nat -> T] : Is(f)
      IN  f \in [Nat -> T] /\ Is(f)
  BY <1>6
<1>. QED
  BY <1>7 DEF Pascal, Is, T, base

\* The entries of Pascal's triangle.
LEMMA PascalEntry ==
    ASSUME NEW n \in Nat, NEW k \in Nat
    PROVE  /\ Pascal[n][k] \in Nat
           /\ Pascal[0][k] = IF k = 0 THEN 1 ELSE 0
           /\ Pascal[n + 1][0] = Pascal[n][0]
           /\ Pascal[n + 1][k + 1] = Pascal[n][k + 1] + Pascal[n][k]
<1>1. Pascal[n] \in [Nat -> Nat] /\ Pascal[n + 1] = NextRow(Pascal[n])
  BY PascalStep
<1>2. Pascal[n][k] \in Nat /\ Pascal[n][0] \in Nat
  BY <1>1
<1>3. Pascal[0][k] = IF k = 0 THEN 1 ELSE 0
  BY PascalStep
<1>4. Pascal[n + 1][0] = Pascal[n][0]
  BY <1>1, <1>2 DEF NextRow
<1>5. Pascal[n + 1][k + 1] = Pascal[n][k + 1] + Pascal[n][k]
  <2>1. k + 1 \in Nat /\ k + 1 # 0 /\ (k + 1) - 1 = k
    OBVIOUS
  <2>. QED
    BY <1>1, <2>1 DEF NextRow
<1>. QED
  BY <1>2, <1>3, <1>4, <1>5

\* The borders of Pascal's triangle: ones on both sides, zeros beyond.
LEMMA PascalBorder ==
    ASSUME NEW n \in Nat
    PROVE  /\ Pascal[n][0] = 1
           /\ Pascal[n][n] = 1
           /\ \A k \in Nat : k > n => Pascal[n][k] = 0
<1>. DEFINE S == {j \in Nat : /\ Pascal[j][0] = 1
                              /\ Pascal[j][j] = 1
                              /\ \A k \in Nat : k > j => Pascal[j][k] = 0}
<1>1. 0 \in S
  <2>1. 0 \in Nat
    OBVIOUS
  <2>2. \A k \in Nat : Pascal[0][k] = IF k = 0 THEN 1 ELSE 0
    BY <2>1, PascalEntry
  <2>. QED
    BY <2>2
<1>2. ASSUME NEW j \in Nat, j \in S
      PROVE  j + 1 \in S
  <2>1. Pascal[j][0] = 1 /\ Pascal[j][j] = 1 /\ \A k \in Nat : k > j => Pascal[j][k] = 0
    BY <1>2
  <2>2. Pascal[j + 1][0] = 1
    BY <2>1, PascalEntry
  <2>3. Pascal[j + 1][j + 1] = 1
    <3>1. Pascal[j][j + 1] = 0
      BY <2>1
    <3>2. Pascal[j + 1][j + 1] = Pascal[j][j + 1] + Pascal[j][j]
      BY PascalEntry
    <3>. QED
      BY <2>1, <3>1, <3>2
  <2>4. ASSUME NEW k \in Nat, k > j + 1
        PROVE  Pascal[j + 1][k] = 0
    <3>1. k - 1 \in Nat /\ (k - 1) + 1 = k /\ k - 1 > j /\ k > j
      BY <2>4
    <3>2. Pascal[j + 1][(k - 1) + 1] = Pascal[j][(k - 1) + 1] + Pascal[j][k - 1]
      BY <3>1, PascalEntry
    <3>3. Pascal[j][k] = 0 /\ Pascal[j][k - 1] = 0
      BY <2>1, <3>1
    <3>. QED
      BY <3>1, <3>2, <3>3
  <2>. QED
    BY <2>2, <2>3, <2>4
<1>3. n \in S
  <2>. HIDE DEF S
  <2>. QED
    BY <1>1, <1>2, SetInduction
<1>. QED
  BY <1>3

\* (k + 1) * (n + 1 choose k + 1) = (n + 1) * (n choose k).
LEMMA PascalAbsorb ==
    ASSUME NEW n \in Nat, NEW k \in Nat
    PROVE  (k + 1) * Pascal[n + 1][k + 1] = (n + 1) * Pascal[n][k]
<1>. DEFINE S == {j \in Nat : \A i \in Nat :
                      (i + 1) * Pascal[j + 1][i + 1] = (j + 1) * Pascal[j][i]}
<1>1. 0 \in S
  <2>1. ASSUME NEW i \in Nat
        PROVE  (i + 1) * Pascal[0 + 1][i + 1] = (0 + 1) * Pascal[0][i]
    <3>1. 0 \in Nat /\ i + 1 \in Nat /\ i + 1 # 0
      OBVIOUS
    <3>2. Pascal[0 + 1][i + 1] = Pascal[0][i + 1] + Pascal[0][i]
      BY <3>1, PascalEntry
    <3>3. Pascal[0][i + 1] = 0 /\ Pascal[0][i] = IF i = 0 THEN 1 ELSE 0
      BY <3>1, PascalEntry
    <3>. QED
      BY <3>2, <3>3
  <2>. QED
    BY <2>1
<1>2. ASSUME NEW j \in Nat, j \in S
      PROVE  j + 1 \in S
  <2>. SUFFICES ASSUME NEW i \in Nat
                PROVE  (i + 1) * Pascal[(j + 1) + 1][i + 1] = ((j + 1) + 1) * Pascal[j + 1][i]
    OBVIOUS
  <2>1. j + 1 \in Nat /\ i + 1 \in Nat
    OBVIOUS
  <2>2. Pascal[(j + 1) + 1][i + 1] = Pascal[j + 1][i + 1] + Pascal[j + 1][i]
    BY <2>1, PascalEntry
  <2>3. (i + 1) * Pascal[j + 1][i + 1] = (j + 1) * Pascal[j][i]
    BY <1>2
  <2>4. Pascal[j + 1][i + 1] \in Nat /\ Pascal[j + 1][i] \in Nat /\ Pascal[j][i] \in Nat
    BY <2>1, PascalEntry
  <2>. DEFINE x == Pascal[j + 1][i + 1]
              y == Pascal[j + 1][i]
              z == Pascal[j][i]
  <2>5. (i + 1) * y = (j + 1) * (y - z) + y
    <3>1. CASE i = 0
      <4>1. y = 1 /\ z = 1
        BY <2>1, <3>1, PascalBorder
      <4>. QED
        BY <3>1, <4>1
    <3>2. CASE i # 0
      <4>1. i - 1 \in Nat /\ (i - 1) + 1 = i
        BY <3>2
      <4>. DEFINE w == Pascal[j][i - 1]
      <4>2. w \in Nat /\ y = z + w
        <5>1. Pascal[j][i - 1] \in Nat
          BY <4>1, PascalEntry
        <5>2. Pascal[j + 1][(i - 1) + 1] = Pascal[j][(i - 1) + 1] + Pascal[j][i - 1]
          BY <4>1, PascalEntry
        <5>. QED
          BY <4>1, <5>1, <5>2
      <4>3. ((i - 1) + 1) * Pascal[j + 1][(i - 1) + 1] = (j + 1) * Pascal[j][i - 1]
        BY <1>2, <4>1
      <4>4. i * y = (j + 1) * w
        BY <4>1, <4>3
      <4>5. y \in Nat /\ z \in Nat
        BY <2>4
      <4>. HIDE DEF w, x, y, z
      <4>6. (i + 1) * y = i * y + y /\ w = y - z
        BY <4>2, <4>5
      <4>. QED
        BY <4>4, <4>6
    <3>. QED
      BY <3>1, <3>2
  <2>6. x \in Nat /\ y \in Nat /\ z \in Nat /\ (i + 1) * x = (j + 1) * z
    BY <2>3, <2>4
  <2>7. Pascal[(j + 1) + 1][i + 1] = x + y
    BY <2>2
  <2>. HIDE DEF x, y, z
  <2>8. (i + 1) * (x + y) = (i + 1) * x + (i + 1) * y
    BY <2>6
  <2>9. (j + 1) * z + ((j + 1) * (y - z) + y) = ((j + 1) + 1) * y
    BY <2>6
  <2>. QED
    BY <2>5, <2>6, <2>7, <2>8, <2>9 DEF y
<1>3. n \in S
  <2>. HIDE DEF S
  <2>. QED
    BY <1>1, <1>2, SetInduction
<1>. QED
  BY <1>3

\* A prime number divides the inner binomial coefficients of its row.
LEMMA PrimeRow ==
    ASSUME NEW n \in Nat, PrimeNumber(n), NEW k \in 1..(n - 1)
    PROVE  Cong(Pascal[n][k], 0, n)
<1>1. n - 1 \in Nat /\ (n - 1) + 1 = n /\ k - 1 \in Nat /\ (k - 1) + 1 = k /\ k \in Nat
      /\ n \in Nat \ {0} /\ k \in 0..(n - 1) /\ k # 0
  OBVIOUS
<1>2. ((k - 1) + 1) * Pascal[(n - 1) + 1][(k - 1) + 1] = ((n - 1) + 1) * Pascal[n - 1][k - 1]
  BY <1>1, PascalAbsorb
<1>3. Pascal[n][k] \in Nat /\ Pascal[n - 1][k - 1] \in Nat
  BY <1>1, PascalEntry
<1>4. k * Pascal[n][k] = 0 + n * Pascal[n - 1][k - 1]
  BY <1>1, <1>2, <1>3
<1>5. Cong(k * Pascal[n][k], 0, n)
  BY <1>3, <1>4 DEF Cong
<1>6. Cong(k, 0, n) \/ Cong(Pascal[n][k], 0, n)
  BY <1>1, <1>3, <1>5, Euclid
<1>7. ~Cong(k, 0, n)
  BY <1>1, NoMultiple
<1>. QED
  BY <1>6, <1>7

\* The sums of the first values of f.
Total(f) == CHOOSE s \in [Nat -> Nat] : s[0] = 0 /\ \A j \in Nat : s[j + 1] = s[j] + f[j]

\* The sums are defined by their recursion.
LEMMA TotalStep ==
    ASSUME NEW f \in [Nat -> Nat]
    PROVE  /\ Total(f) \in [Nat -> Nat]
           /\ Total(f)[0] = 0
           /\ \A j \in Nat : Total(f)[j + 1] = Total(f)[j] + f[j]
<1>. DEFINE step == [p \in Nat \X Nat |-> IF p[1] = 0 THEN 0 ELSE p[2] + f[p[1] - 1]]
            Is(s) == s[0] = 0 /\ \A j \in Nat : s[j + 1] = s[j] + f[j]
<1>1. step \in [Nat \X Nat -> Nat]
  <2>1. ASSUME NEW p \in Nat \X Nat
        PROVE  (IF p[1] = 0 THEN 0 ELSE p[2] + f[p[1] - 1]) \in Nat
    <3>1. p[1] # 0 => p[1] - 1 \in Nat
      OBVIOUS
    <3>. QED
      BY <3>1
  <2>. QED
    BY <2>1
<1>2. \A i, v \in Nat : step[<<i + 1, v>>] = v + f[i]
  <2>1. ASSUME NEW i \in Nat, NEW v \in Nat
        PROVE  step[<<i + 1, v>>] = v + f[i]
    <3>1. i + 1 \in Nat /\ i + 1 # 0 /\ (i + 1) - 1 = i
      OBVIOUS
    <3>. QED
      BY <3>1
  <2>. HIDE DEF step
  <2>. QED
    BY <2>1
<1>. HIDE DEF step
<1>3. PICK g \in [Nat -> Nat] : IsSequence(g, 0, step)
  <2>1. 0 \in Nat
    OBVIOUS
  <2>. QED
    BY <1>1, <2>1, InfiniteRecursion
<1>4. Is(g)
  <2>1. ASSUME NEW i \in Nat
        PROVE  g[i + 1] = g[i] + f[i]
    <3>1. g[i + 1] = step[<<i + 1, g[i]>>]
      BY <1>3 DEF IsSequence
    <3>2. g[i] \in Nat
      OBVIOUS
    <3>. QED
      BY <1>2, <3>1, <3>2
  <2>. QED
    BY <1>3, <2>1 DEF IsSequence
<1>. HIDE DEF Is
<1>5. LET s == CHOOSE s \in [Nat -> Nat] : Is(s)
      IN  s \in [Nat -> Nat] /\ Is(s)
  BY <1>4
<1>. QED
  BY <1>5 DEF Total, Is

\* The terms of the expansion of (x + 1)^n.
Terms(x, n) == [k \in Nat |-> Pascal[n][k] * Power(x)[k]]

\* The terms are numbers, and so are their sums.
LEMMA TermsStep ==
    ASSUME NEW x \in Nat, NEW n \in Nat
    PROVE  /\ Terms(x, n) \in [Nat -> Nat]
           /\ \A k \in Nat : Terms(x, n)[k] = Pascal[n][k] * Power(x)[k]
           /\ Total(Terms(x, n)) \in [Nat -> Nat]
           /\ Total(Terms(x, n))[0] = 0
           /\ \A j \in Nat : Total(Terms(x, n))[j + 1] = Total(Terms(x, n))[j] + Terms(x, n)[j]
<1>1. ASSUME NEW k \in Nat
      PROVE  Pascal[n][k] * Power(x)[k] \in Nat
  <2>1. Pascal[n][k] \in Nat /\ Power(x)[k] \in Nat
    BY PascalEntry, PowerStep
  <2>. QED
    BY <2>1
<1>2. Terms(x, n) \in [Nat -> Nat]
  BY <1>1 DEF Terms
<1>3. \A k \in Nat : Terms(x, n)[k] = Pascal[n][k] * Power(x)[k]
  BY DEF Terms
<1>. QED
  BY <1>2, <1>3, TotalStep

\* The sums of a row of terms come from those of the row before.
LEMMA TermsNext ==
    ASSUME NEW x \in Nat, NEW n \in Nat, NEW j \in Nat
    PROVE  Total(Terms(x, n + 1))[j + 1]
             = Total(Terms(x, n))[j + 1] + x * Total(Terms(x, n))[j]
<1>. DEFINE f == Terms(x, n)
            g == Terms(x, n + 1)
            s == Total(f)
            t == Total(g)
            S == {i \in Nat : t[i + 1] = s[i + 1] + x * s[i]}
<1>0. n + 1 \in Nat
  OBVIOUS
<1>1. /\ f \in [Nat -> Nat] /\ \A k \in Nat : f[k] = Pascal[n][k] * Power(x)[k]
      /\ s \in [Nat -> Nat] /\ s[0] = 0 /\ \A i \in Nat : s[i + 1] = s[i] + f[i]
  BY TermsStep
<1>2. /\ g \in [Nat -> Nat] /\ \A k \in Nat : g[k] = Pascal[n + 1][k] * Power(x)[k]
      /\ t \in [Nat -> Nat] /\ t[0] = 0 /\ \A i \in Nat : t[i + 1] = t[i] + g[i]
  BY <1>0, TermsStep
<1>. HIDE DEF f, g, s, t
<1>3. g[0] = f[0]
  <2>1. 0 \in Nat
    OBVIOUS
  <2>2. Pascal[n + 1][0] = Pascal[n][0]
    BY <2>1, PascalEntry
  <2>. QED
    BY <1>1, <1>2, <2>1, <2>2
<1>4. ASSUME NEW i \in Nat
      PROVE  g[i + 1] = f[i + 1] + x * f[i]
  <2>. DEFINE a == Pascal[n][i + 1]
              b == Pascal[n][i]
              p == Power(x)[i]
  <2>1. i + 1 \in Nat
    OBVIOUS
  <2>2. a \in Nat /\ b \in Nat /\ Pascal[n + 1][i + 1] = a + b
    BY <2>1, PascalEntry
  <2>3. p \in Nat /\ Power(x)[i + 1] = p * x
    BY PowerStep
  <2>4. g[i + 1] = (a + b) * (p * x) /\ f[i + 1] = a * (p * x) /\ f[i] = b * p
    BY <1>1, <1>2, <2>1, <2>2, <2>3
  <2>. HIDE DEF a, b, p
  <2>5. (a + b) * (p * x) = a * (p * x) + x * (b * p)
    BY <2>2, <2>3
  <2>. QED
    BY <2>4, <2>5
<1>5. 0 \in S
  <2>1. t[0 + 1] = t[0] + g[0] /\ s[0 + 1] = s[0] + f[0] /\ f[0] \in Nat
    BY <1>1, <1>2
  <2>. QED
    BY <1>1, <1>2, <1>3, <2>1
<1>6. ASSUME NEW i \in Nat, i \in S
      PROVE  i + 1 \in S
  <2>1. i + 1 \in Nat
    OBVIOUS
  <2>2. t[i + 1] = s[i + 1] + x * s[i]
    BY <1>6
  <2>3. t[(i + 1) + 1] = t[i + 1] + g[i + 1] /\ s[(i + 1) + 1] = s[i + 1] + f[i + 1]
        /\ s[i + 1] = s[i] + f[i]
    BY <1>1, <1>2, <2>1
  <2>4. g[i + 1] = f[i + 1] + x * f[i]
    BY <1>4
  <2>5. s[i] \in Nat /\ s[i + 1] \in Nat /\ f[i] \in Nat /\ f[i + 1] \in Nat
    BY <1>1, <2>1
  <2>6. ASSUME NEW u \in Nat, NEW v \in Nat, NEW w \in Nat
        PROVE  ((u + v) + x * u) + (w + x * v) = ((u + v) + w) + x * (u + v)
    OBVIOUS
  <2>7. t[(i + 1) + 1] = ((s[i] + f[i]) + x * s[i]) + (f[i + 1] + x * f[i])
    BY <2>2, <2>3, <2>4
  <2>8. t[(i + 1) + 1] = s[(i + 1) + 1] + x * s[i + 1]
    BY <2>3, <2>5, <2>6, <2>7
  <2>. QED
    BY <2>8
<1>7. j \in S
  <2>. HIDE DEF S
  <2>. QED
    BY <1>5, <1>6, SetInduction
<1>. QED
  BY <1>7 DEF f, g, s, t

\* The binomial theorem.
LEMMA Binomial ==
    ASSUME NEW x \in Nat, NEW n \in Nat
    PROVE  Power(x + 1)[n] = Total(Terms(x, n))[n + 1]
<1>. DEFINE p == Power(x + 1)
            t(i) == Total(Terms(x, i))
            S == {i \in Nat : p[i] = t(i)[i + 1]}
<1>1. p \in [Nat -> Nat] /\ p[0] = 1 /\ \A i \in Nat : p[i + 1] = p[i] * (x + 1)
  <2>1. x + 1 \in Nat
    OBVIOUS
  <2>. QED
    BY <2>1, PowerStep
<1>. HIDE DEF p
<1>2. 0 \in S
  <2>1. t(0)[0] = 0 /\ t(0)[0 + 1] = t(0)[0] + Terms(x, 0)[0]
        /\ Terms(x, 0)[0] = Pascal[0][0] * Power(x)[0]
    <3>1. 0 \in Nat
      OBVIOUS
    <3>. QED
      BY <3>1, TermsStep
  <2>2. Pascal[0][0] = 1 /\ Power(x)[0] = 1
    BY PascalEntry, PowerStep
  <2>. HIDE DEF t
  <2>. QED
    BY <1>1, <2>1, <2>2
<1>3. ASSUME NEW i \in Nat, i \in S
      PROVE  i + 1 \in S
  <2>1. i + 1 \in Nat
    OBVIOUS
  <2>2. t(i + 1)[(i + 1) + 1] = t(i)[(i + 1) + 1] + x * t(i)[i + 1]
    BY <2>1, TermsNext
  <2>3. t(i)[(i + 1) + 1] = t(i)[i + 1] + Terms(x, i)[i + 1] /\ t(i)[i + 1] \in Nat
        /\ Terms(x, i)[i + 1] = Pascal[i][i + 1] * Power(x)[i + 1]
    BY <2>1, TermsStep
  <2>4. Pascal[i][i + 1] = 0
    BY <2>1, PascalBorder
  <2>5. Power(x)[i + 1] \in Nat
    BY <2>1, PowerStep
  <2>6. Terms(x, i)[i + 1] = 0
    BY <2>3, <2>4, <2>5
  <2>7. p[i] = t(i)[i + 1] /\ p[i + 1] = p[i] * (x + 1)
    BY <1>1, <1>3
  <2>. DEFINE u == t(i)[i + 1]
  <2>8. u \in Nat /\ t(i + 1)[(i + 1) + 1] = (u + 0) + x * u /\ p[i + 1] = u * (x + 1)
    BY <2>2, <2>3, <2>6, <2>7
  <2>. HIDE DEF u, t
  <2>9. (u + 0) + x * u = u * (x + 1)
    BY <2>8
  <2>. QED
    BY <2>8, <2>9
<1>4. n \in S
  <2>. HIDE DEF S
  <2>. QED
    BY <1>2, <1>3, SetInduction
<1>. QED
  BY <1>4 DEF p

\* Modulo a prime number n, (x + 1)^n is x^n + 1.
LEMMA PowerOfSum ==
    ASSUME NEW n \in Nat, PrimeNumber(n), NEW x \in Nat
    PROVE  Cong(Power(x + 1)[n], Power(x)[n] + 1, n)
<1>. DEFINE f == Terms(x, n)
            t == Total(f)
            S == {j \in Nat : j < n => Cong(t[j + 1], 1, n)}
<1>0. n >= 2
  BY DEF PrimeNumber
<1>1. /\ \A k \in Nat : f[k] = Pascal[n][k] * Power(x)[k]
      /\ t \in [Nat -> Nat] /\ t[0] = 0 /\ \A i \in Nat : t[i + 1] = t[i] + f[i]
  BY TermsStep
<1>2. \A k \in Nat : Power(x)[k] \in Nat /\ Pascal[n][k] \in Nat
  BY PowerStep, PascalEntry
<1>3. Power(x + 1)[n] = t[n + 1]
  BY Binomial
<1>. HIDE DEF f, t
<1>4. 0 \in S
  <2>0. 0 \in Nat /\ Pascal[n][0] = 1 /\ Power(x)[0] = 1
    BY PascalBorder, PowerStep
  <2>1. f[0] = 1
    BY <1>1, <2>0
  <2>2. t[0 + 1] = 1
    BY <1>1, <2>1
  <2>. QED
    BY <2>2, CongRefl
<1>5. ASSUME NEW j \in Nat, j \in S
      PROVE  j + 1 \in S
  <2>. SUFFICES ASSUME j + 1 < n
                PROVE  Cong(t[(j + 1) + 1], 1, n)
    OBVIOUS
  <2>1. j + 1 \in Nat /\ j + 1 \in 1..(n - 1)
    OBVIOUS
  <2>2. Cong(t[j + 1], 1, n)
    BY <1>5
  <2>. DEFINE c == Pascal[n][j + 1]
              p == Power(x)[j + 1]
  <2>3. Cong(c, 0, n) /\ c \in Int /\ p \in Int /\ n \in Int
    BY <1>2, <2>1, PrimeRow
  <2>4. f[j + 1] = c * p /\ t[(j + 1) + 1] = t[j + 1] + f[j + 1] /\ t[j + 1] \in Int
    BY <1>1, <2>1
  <2>. HIDE DEF c, p
  <2>5. Cong(c * p, 0 * p, n)
    <3>1. Cong(p, p, n)
      BY <2>3, CongRefl
    <3>. QED
      BY <2>3, <3>1, CongMul
  <2>6. c * p \in Int /\ 0 * p = 0
    BY <2>3
  <2>7. Cong(t[j + 1] + c * p, 1 + 0, n)
    <3>1. Cong(c * p, 0, n) /\ 0 \in Int /\ 1 \in Int
      BY <2>5, <2>6
    <3>. QED
      BY <2>2, <2>3, <2>4, <2>6, <3>1, CongAdd
  <2>. QED
    BY <2>4, <2>7
<1>6. n - 1 \in S
  <2>1. n - 1 \in Nat
    BY <1>0
  <2>. HIDE DEF S
  <2>. QED
    BY <1>4, <1>5, <2>1, SetInduction
<1>7. Cong(t[n], 1, n)
  <2>1. (n - 1) + 1 = n /\ n - 1 < n
    OBVIOUS
  <2>. QED
    BY <1>6, <2>1
<1>8. f[n] = Power(x)[n]
  <2>1. Pascal[n][n] = 1 /\ Power(x)[n] \in Nat
    BY <1>2, PascalBorder
  <2>. QED
    BY <1>1, <2>1
<1>9. t[n + 1] = t[n] + Power(x)[n] /\ t[n] \in Int /\ Power(x)[n] \in Int
  BY <1>1, <1>2, <1>8
<1>10. Cong(t[n] + Power(x)[n], 1 + Power(x)[n], n)
  <2>1. Cong(Power(x)[n], Power(x)[n], n) /\ 1 \in Int /\ n \in Int
    BY <1>9, CongRefl
  <2>. QED
    BY <1>7, <1>9, <2>1, CongAdd
<1>11. 1 + Power(x)[n] = Power(x)[n] + 1
  BY <1>9
<1>. QED
  BY <1>3, <1>9, <1>10, <1>11

\* Modulo a prime number n, x^n is x.
LEMMA FermatPower ==
    ASSUME NEW n \in Nat, PrimeNumber(n), NEW x \in Nat
    PROVE  Cong(Power(x)[n], x, n)
<1>. DEFINE S == {y \in Nat : Cong(Power(y)[n], y, n)}
<1>1. n - 1 \in Nat /\ (n - 1) + 1 = n
  BY DEF PrimeNumber
<1>2. 0 \in S
  <2>1. Power(0)[n - 1] \in Nat /\ Power(0)[(n - 1) + 1] = Power(0)[n - 1] * 0
    BY <1>1, PowerStep
  <2>2. Power(0)[n] = 0
    BY <1>1, <2>1
  <2>. QED
    BY <2>2, CongRefl
<1>3. ASSUME NEW y \in Nat, y \in S
      PROVE  y + 1 \in S
  <2>1. Cong(Power(y + 1)[n], Power(y)[n] + 1, n)
    BY PowerOfSum
  <2>2. Cong(Power(y)[n], y, n)
    BY <1>3
  <2>3. Power(y)[n] \in Nat /\ Power(y + 1)[n] \in Nat
    <3>1. y + 1 \in Nat
      OBVIOUS
    <3>2. Power(y) \in [Nat -> Nat] /\ Power(y + 1) \in [Nat -> Nat]
      BY <3>1, PowerStep
    <3>. QED
      BY <3>2
  <2>4. Cong(Power(y)[n] + 1, y + 1, n)
    <3>1. Cong(1, 1, n)
      BY CongRefl
    <3>2. Power(y)[n] \in Int /\ y \in Int /\ 1 \in Int /\ n \in Int
      BY <2>3
    <3>. QED
      BY <2>2, <3>1, <3>2, CongAdd, Zenon
  <2>5. Power(y)[n] + 1 \in Int /\ Power(y + 1)[n] \in Int /\ y + 1 \in Int /\ n \in Int
    BY <2>3
  <2>6. Cong(Power(y + 1)[n], y + 1, n)
    BY <2>1, <2>4, <2>5, CongTrans
  <2>. QED
    BY <2>6
<1>4. x \in S
  <2>. HIDE DEF S
  <2>. QED
    BY <1>2, <1>3, SetInduction
<1>. QED
  BY <1>4

\* Fermat's little theorem.
LEMMA Fermat ==
    ASSUME NEW n \in Nat, PrimeNumber(n), NEW x \in Nat, ~Cong(x, 0, n)
    PROVE  Cong(Power(x)[n - 1], 1, n)
<1>. DEFINE p == Power(x)[n - 1]
<1>1. n - 1 \in Nat /\ (n - 1) + 1 = n
  BY DEF PrimeNumber
<1>2. p \in Nat /\ Power(x)[n] = p * x
  <2>1. Power(x)[n - 1] \in Nat /\ Power(x)[(n - 1) + 1] = Power(x)[n - 1] * x
    BY <1>1, PowerStep
  <2>. QED
    BY <1>1, <2>1
<1>3. PICK z \in Int : p * x = x + n * z
  BY <1>2, FermatPower DEF Cong
<1>. HIDE DEF p
<1>4. CASE p = 0
  <2>1. x = 0 + n * (-z) /\ -z \in Int
    BY <1>3, <1>4
  <2>. QED
    BY <2>1 DEF Cong
<1>5. CASE p # 0
  <2>1. p - 1 \in Nat
    BY <1>2, <1>5
  <2>2. x * (p - 1) = 0 + n * z
    BY <1>2, <1>3
  <2>3. Cong(x * (p - 1), 0, n)
    BY <2>2 DEF Cong
  <2>4. Cong(p - 1, 0, n)
    BY <2>1, <2>3, Euclid
  <2>5. PICK u \in Int : p - 1 = 0 + n * u
    BY <2>4 DEF Cong
  <2>6. p = 1 + n * u
    BY <1>2, <2>5
  <2>7. Cong(p, 1, n)
    BY <2>6 DEF Cong
  <2>. QED
    BY <2>7 DEF p
<1>. QED
  BY <1>4, <1>5

-----------------------------------------------------------------------------
(* IsPrime.                                                                *)

\* IsPrime's first loop splits n - 1 into a power of two and a rest.
LEMMA OddPartSplit ==
    ASSUME NEW n \in Word, n >= 3, n % 2 = 1
    PROVE  /\ TwoExponent(n) \in Nat \ {0}
           /\ OddPart(n) \in Word
           /\ n - 1 = OddPart(n) * 2^TwoExponent(n)
<1>. DEFINE N == n - 1
            T == {j \in Nat : N % 2^(j + 1) # 0}
<1>0. n \in Nat /\ n < WordSize /\ WordSize = 2^Width /\ Width \in Nat \ {0}
  BY WordSizeAssumption, WidthAssumption DEF Word
<1>1. N \in Nat \ {0} /\ N < 2^Width
  BY <1>0
<1>2. N % 2^1 = 0
  <2>1. n \div 2 \in Int /\ n = 2 * (n \div 2) + 1
    BY <1>0, ModSplit
  <2>2. N = 2 * (n \div 2) + 0
    BY <1>0, <2>1
  <2>3. 2^1 = 2
    OBVIOUS
  <2>4. N % 2 = 0
    BY <2>1, <2>2
  <2>. QED
    BY <2>3, <2>4
<1>3. \A i \in Nat : 2^i \in Nat \ {0} /\ 2^(i + 1) = 2 * 2^i
  BY TwoToStep
<1>. HIDE DEF N
<1>4. ASSUME NEW i \in Nat
      PROVE  N % 2^i # 0 => N % 2^(i + 1) # 0
  <2>. DEFINE P == 2^i
  <2>1. P \in Nat \ {0} /\ 2^(i + 1) = 2 * P
    BY <1>3
  <2>. HIDE DEF P
  <2>2. ASSUME N % (2 * P) = 0
        PROVE  N % P = 0
    <3>. DEFINE q == N \div (2 * P)
    <3>1. 2 * P \in Nat \ {0}
      BY <2>1
    <3>2. q \in Int /\ N = (2 * P) * q + (N % (2 * P))
      BY <1>1, <3>1, ModSplit
    <3>. HIDE DEF q
    <3>3. N = P * (2 * q) + 0 /\ 2 * q \in Int /\ 0 \in 0..(P - 1)
      BY <2>1, <2>2, <3>2
    <3>. QED
      BY <2>1, <3>3, ModUnique
  <2>. QED
    BY <2>1, <2>2 DEF P
<1>5. Width - 1 \in T
  <2>1. (Width - 1) + 1 = Width /\ Width - 1 \in Nat
    BY <1>0
  <2>2. 2^Width \in Nat \ {0}
    BY <1>0, <1>3
  <2>3. N = 2^Width * 0 + N /\ N \in 0..(2^Width - 1)
    BY <1>1, <2>2
  <2>4. N % 2^Width = N
    BY <2>2, <2>3, ModUnique
  <2>. QED
    BY <1>1, <2>1, <2>4
<1>6. PICK k \in T : \A j \in T : k <= j
  <2>1. T \subseteq Nat /\ T # {}
    BY <1>5
  <2>. HIDE DEF T
  <2>. QED
    BY <2>1, LeastElement
<1>7. k \in Nat /\ k <= Width - 1 /\ N % 2^(k + 1) # 0
  BY <1>5, <1>6
<1>8. k # 0
  <2>1. 0 + 1 = 1
    OBVIOUS
  <2>. QED
    BY <1>2, <1>7, <2>1
<1>9. ASSUME NEW i \in 1..k
      PROVE  N % 2^i = 0
  <2>1. i - 1 \in Nat /\ (i - 1) + 1 = i /\ i - 1 < k
    BY <1>7
  <2>2. i - 1 \notin T
    <3>. HIDE DEF T
    <3>. QED
      BY <1>6, <1>7, <2>1
  <2>. QED
    BY <2>1, <2>2
<1>10. ASSUME NEW i \in Nat
       PROVE  N % 2^((k + 1) + i) # 0
  <2>. DEFINE S == {j \in Nat : N % 2^((k + 1) + j) # 0}
  <2>1. 0 \in S
    <3>1. (k + 1) + 0 = k + 1
      BY <1>7
    <3>. QED
      BY <1>7, <3>1
  <2>2. ASSUME NEW j \in Nat, j \in S
        PROVE  j + 1 \in S
    <3>1. (k + 1) + j \in Nat /\ ((k + 1) + j) + 1 = (k + 1) + (j + 1)
      BY <1>7
    <3>2. N % 2^((k + 1) + j) # 0
      BY <2>2
    <3>3. N % 2^(((k + 1) + j) + 1) # 0
      BY <1>4, <3>1, <3>2
    <3>. QED
      BY <3>1, <3>3
  <2>3. i \in S
    <3>. HIDE DEF S
    <3>. QED
      BY <2>1, <2>2, SetInduction
  <2>. QED
    BY <2>3
<1>11. ASSUME NEW i \in 1..Width
       PROVE  N % 2^i = 0 <=> i \in 1..k
  <2>1. CASE i <= k
    <3>1. i \in 1..k
      BY <1>7, <2>1
    <3>. QED
      BY <1>9, <3>1
  <2>2. CASE i > k
    <3>1. i - (k + 1) \in Nat /\ (k + 1) + (i - (k + 1)) = i /\ i \notin 1..k
      BY <1>7, <2>2
    <3>2. N % 2^i # 0
      BY <1>10, <3>1
    <3>. QED
      BY <3>1, <3>2
  <2>. QED
    BY <1>7, <2>1, <2>2
<1>12. {i \in 1..Width : N % 2^i = 0} = 1..k
  BY <1>0, <1>7, <1>11
<1>13. TwoExponent(n) = k
  <2>1. Cardinality(1..k) = k
    BY <1>7, FS_Interval
  <2>. QED
    BY <1>12, <2>1 DEF TwoExponent, N
<1>. DEFINE P == 2^k
            d == N \div P
<1>14. P \in Nat \ {0} /\ N % P = 0
  BY <1>3, <1>7, <1>8, <1>9
<1>15. OddPart(n) = d
  BY <1>13 DEF OddPart, N
<1>. HIDE DEF P
<1>16. d \in Int /\ N = P * d + (N % P)
  BY <1>1, <1>14, ModSplit
<1>. HIDE DEF d
<1>17. N = d * P
  BY <1>1, <1>14, <1>16
<1>18. d \in Nat /\ d <= N
  <2>1. d >= 0
    BY <1>1, <1>14, <1>16, <1>17
  <2>2. d * P >= d
    BY <1>14, <1>16, <2>1
  <2>. QED
    BY <1>16, <1>17, <2>1, <2>2
<1>19. d \in Word
  BY <1>0, <1>1, <1>18 DEF Word, N
<1>. QED
  BY <1>7, <1>8, <1>13, <1>15, <1>17, <1>19 DEF N, P

\* Modulo a prime number, 1 and -1 are the only square roots of 1.
LEMMA SquareRoots ==
    ASSUME NEW n \in Nat, PrimeNumber(n), NEW v \in 0..(n - 1), Cong(v * v, 1, n)
    PROVE  v = 1 \/ v = n - 1
<1>1. n >= 2 /\ n \in Nat \ {0}
  BY DEF PrimeNumber
<1>2. PICK z \in Int : v * v = 1 + n * z
  BY DEF Cong
<1>3. v # 0
  <2>. SUFFICES ASSUME v = 0
                PROVE  FALSE
    OBVIOUS
  <2>1. 1 = 0 + n * (-z) /\ -z \in Int
    BY <1>2
  <2>2. Cong(1, 0, n)
    BY <2>1 DEF Cong
  <2>3. 1 \in 0..(n - 1)
    BY <1>1
  <2>. QED
    BY <1>1, <2>2, <2>3, NoMultiple
<1>4. v - 1 \in Nat /\ v + 1 \in Nat /\ v - 1 \in 0..(n - 1)
  BY <1>3
<1>5. (v - 1) * (v + 1) = 0 + n * z
  BY <1>2
<1>6. Cong((v - 1) * (v + 1), 0, n)
  BY <1>5 DEF Cong
<1>7. Cong(v - 1, 0, n) \/ Cong(v + 1, 0, n)
  BY <1>4, <1>6, Euclid
<1>8. CASE Cong(v - 1, 0, n)
  <2>1. v - 1 = 0
    BY <1>1, <1>4, <1>8, NoMultiple
  <2>. QED
    BY <2>1
<1>9. CASE Cong(v + 1, 0, n) /\ v + 1 # n
  <2>1. v + 1 \in 0..(n - 1)
    BY <1>4, <1>9
  <2>2. v + 1 = 0
    BY <1>1, <1>9, <2>1, NoMultiple
  <2>. QED
    BY <2>2
<1>. QED
  BY <1>7, <1>8, <1>9

\* The values IsPrime compares are the powers a^(d * 2^i) modulo n.
LEMMA SquaredLoop ==
    ASSUME NEW n \in Word \ {0}, NEW a \in Nat, NEW d \in Nat, NEW x \in 0..(n - 1),
           Cong(x, Power(a)[d], n), NEW k \in Nat
    PROVE  LET squared[i \in 0..k] ==
                   IF i = 0 THEN x ELSE mulmod(squared[i - 1], squared[i - 1], n)
           IN  \A i \in 0..k : /\ squared[i] \in 0..(n - 1)
                               /\ Cong(squared[i], Power(a)[d * 2^i], n)
<1>. DEFINE T == 0..(n - 1)
            step == [p \in Nat \X T |-> mulmod(p[2], p[2], n)]
            IsLoop(g) == g = [i \in 0..k |-> IF i = 0 THEN x ELSE mulmod(g[i - 1], g[i - 1], n)]
            loop == CHOOSE g : IsLoop(g)
            pw(i) == Power(a)[d * 2^i]
<1>0. n \in Nat \ {0}
  BY WordSizeAssumption DEF Word
<1>1. ASSUME NEW v \in T
      PROVE  mulmod(v, v, n) \in T /\ Cong(mulmod(v, v, n), v * v, n) /\ v \in Nat
  <2>1. v \in Word /\ v * v \in Nat /\ v \in Nat
    BY WordSizeAssumption DEF Word
  <2>2. mulmod(v, v, n) = (v * v) % n
    BY <2>1, MulmodIsProduct
  <2>. QED
    BY <1>0, <2>1, <2>2, CongMod
<1>2. step \in [Nat \X T -> T]
  BY <1>1
<1>3. PICK g \in [0..k -> T] : Iterates(g, x, step, k)
  <2>. HIDE DEF step, T
  <2>1. x \in T
    BY DEF T
  <2>. QED
    BY <1>2, <2>1, Recursion
<1>4. IsLoop(g)
  <2>1. ASSUME NEW i \in 0..k
        PROVE  g[i] = IF i = 0 THEN x ELSE mulmod(g[i - 1], g[i - 1], n)
    <3>1. i # 0 => i - 1 \in 0..k /\ i \in Nat
      OBVIOUS
    <3>2. i # 0 => step[<<i, g[i - 1]>>] = mulmod(g[i - 1], g[i - 1], n)
      BY <3>1
    <3>. QED
      BY <1>3, <3>2 DEF Iterates
  <2>. QED
    BY <1>3, <2>1
<1>5. IsLoop(loop)
  <2>. HIDE DEF IsLoop
  <2>. QED
    BY <1>4
<1>6. ASSUME NEW i \in Nat
      PROVE  pw(i) \in Nat /\ pw(i + 1) = pw(i) * pw(i)
  <2>1. 2^i \in Nat /\ 2^(i + 1) = 2 * 2^i
    BY TwoToStep
  <2>2. d * 2^i \in Nat /\ d * 2^(i + 1) = d * 2^i + d * 2^i
    BY <2>1
  <2>. DEFINE e == d * 2^i
  <2>3. e \in Nat /\ pw(i) = Power(a)[e] /\ pw(i + 1) = Power(a)[e + e]
    BY <2>2
  <2>. HIDE DEF e, pw
  <2>4. Power(a)[e] \in Nat /\ Power(a)[e + e] = Power(a)[e] * Power(a)[e]
    BY <2>3, PowerStep, PowerAdd
  <2>. QED
    BY <2>3, <2>4
<1>. DEFINE S == {i \in Nat : i <= k => loop[i] \in T /\ Cong(loop[i], pw(i), n)}
<1>7. 0 \in S
  <2>1. loop[0] = x
    <3>. HIDE DEF loop
    <3>. QED
      BY <1>5
  <2>2. d * 2^0 = d
    OBVIOUS
  <2>. HIDE DEF loop
  <2>. QED
    BY <2>1, <2>2
<1>. HIDE DEF loop, pw
<1>8. ASSUME NEW j \in Nat, j \in S
      PROVE  j + 1 \in S
  <2>. SUFFICES ASSUME j + 1 <= k
                PROVE  loop[j + 1] \in T /\ Cong(loop[j + 1], pw(j + 1), n)
    OBVIOUS
  <2>1. loop[j] \in T /\ Cong(loop[j], pw(j), n)
    BY <1>8
  <2>2. loop[j + 1] = mulmod(loop[j], loop[j], n)
    BY <1>5
  <2>. DEFINE v == loop[j]
              w == loop[j + 1]
  <2>3. v \in Nat /\ w \in T /\ Cong(w, v * v, n)
    BY <1>1, <2>1, <2>2
  <2>4. Cong(v, pw(j), n)
    BY <2>1
  <2>. HIDE DEF v, w
  <2>5. /\ v \in Int /\ w \in Int /\ pw(j) \in Int /\ n \in Int
        /\ v * v \in Int /\ pw(j) * pw(j) \in Int
    <3>1. pw(j) \in Nat
      BY <1>6
    <3>2. v \in Int /\ w \in Int /\ n \in Int
      BY <1>0, <2>3
    <3>. QED
      BY <3>1, <3>2
  <2>6. Cong(v * v, pw(j) * pw(j), n)
    BY <2>4, <2>5, CongMul
  <2>7. Cong(w, pw(j) * pw(j), n)
    BY <2>3, <2>5, <2>6, CongTrans
  <2>. QED
    BY <1>6, <2>3, <2>7 DEF w
<1>9. ASSUME NEW i \in 0..k
      PROVE  loop[i] \in T /\ Cong(loop[i], pw(i), n)
  <2>1. i \in S
    <3>1. i \in Nat
      OBVIOUS
    <3>. HIDE DEF S
    <3>. QED
      BY <1>7, <1>8, <3>1, SetInduction
  <2>. QED
    BY <2>1
<1>. QED
  BY <1>9 DEF loop, pw

\* No base shows that a prime number is composite.
LEMMA NoFalseWitness ==
    ASSUME NEW n \in Word, PrimeNumber(n), n % 2 = 1, NEW a \in 1..(n - 1)
    PROVE  ~Composite(a, n)
<1>. DEFINE r == TwoExponent(n)
            d == OddPart(n)
            x == modpow(a, d, n)
            squared[i \in 0..(r - 1)] ==
                IF i = 0 THEN x ELSE mulmod(squared[i - 1], squared[i - 1], n)
            pw(i) == Power(a)[d * 2^i]
<1>. SUFFICES ASSUME Composite(a, n)
              PROVE  FALSE
  OBVIOUS
<1>0. x # 1 /\ \A i \in 0..(r - 1) : squared[i] # n - 1
  BY DEF Composite
<1>1. n \in Nat /\ n \in Nat \ {0} /\ n >= 3 /\ a \in Word /\ a \in Nat /\ n \in Word \ {0}
  <2>1. n \in Nat
    BY WordSizeAssumption DEF Word
  <2>2. n >= 2 /\ n # 2
    BY <2>1 DEF PrimeNumber
  <2>3. a \in Word
    BY <2>1, WordSizeAssumption DEF Word
  <2>. QED
    BY <2>1, <2>2, <2>3
<1>2. r \in Nat \ {0} /\ d \in Word /\ d \in Nat /\ n - 1 = d * 2^r
  <2>1. r \in Nat \ {0} /\ d \in Word /\ n - 1 = d * 2^r
    BY <1>1, OddPartSplit
  <2>. QED
    BY <2>1, WordSizeAssumption DEF Word
<1>. HIDE DEF r, d
<1>3. Power(a)[d] \in Nat
  BY <1>1, <1>2, PowerStep
<1>4. x \in 0..(n - 1) /\ Cong(x, Power(a)[d], n)
  <2>1. x = Power(a)[d] % n
    BY <1>1, <1>2, ModpowIsPower
  <2>. QED
    BY <1>1, <1>3, <2>1, CongMod
<1>. HIDE DEF x
<1>5. \A i \in 0..(r - 1) : squared[i] \in 0..(n - 1) /\ Cong(squared[i], pw(i), n)
  <2>1. r - 1 \in Nat
    BY <1>2
  <2>. QED
    BY <1>1, <1>2, <1>4, <2>1, SquaredLoop
<1>. HIDE DEF squared
<1>6. ASSUME NEW i \in Nat
      PROVE  pw(i) \in Nat /\ pw(i + 1) = pw(i) * pw(i)
  <2>1. 2^i \in Nat /\ 2^(i + 1) = 2 * 2^i
    BY TwoToStep
  <2>2. d * 2^i \in Nat /\ d * 2^(i + 1) = d * 2^i + d * 2^i
    BY <1>2, <2>1
  <2>. DEFINE e == d * 2^i
  <2>3. e \in Nat /\ pw(i) = Power(a)[e] /\ pw(i + 1) = Power(a)[e + e]
    BY <2>2
  <2>. HIDE DEF e, pw
  <2>4. Power(a)[e] \in Nat /\ Power(a)[e + e] = Power(a)[e] * Power(a)[e]
    BY <1>1, <2>3, PowerStep, PowerAdd
  <2>. QED
    BY <2>3, <2>4
<1>. DEFINE S == {i \in Nat : i <= r => ~Cong(pw(i), 1, n)}
<1>7. 0 \in S
  <2>1. pw(0) = Power(a)[d]
    <3>1. d * 2^0 = d
      BY <1>2
    <3>. QED
      BY <3>1
  <2>2. ASSUME Cong(pw(0), 1, n)
        PROVE  FALSE
    <3>1. Cong(x, 1, n)
      <4>1. x \in Int /\ Power(a)[d] \in Int /\ 1 \in Int /\ n \in Int
        BY <1>1, <1>3, <1>4
      <4>. QED
        BY <1>4, <2>1, <2>2, <4>1, CongTrans
    <3>2. x = 1 % n
      BY <1>1, <1>4, <3>1, CongRemainder
    <3>3. 1 % n = 1
      <4>1. 1 = n * 0 + 1 /\ 1 \in 0..(n - 1)
        BY <1>1
      <4>. QED
        BY <1>1, <4>1, ModUnique
    <3>. QED
      BY <1>0, <3>2, <3>3
  <2>. HIDE DEF pw
  <2>. QED
    BY <2>2
<1>. HIDE DEF pw
<1>8. ASSUME NEW i \in Nat, i \in S
      PROVE  i + 1 \in S
  <2>. SUFFICES ASSUME i + 1 <= r, Cong(pw(i + 1), 1, n)
                PROVE  FALSE
    OBVIOUS
  <2>1. ~Cong(pw(i), 1, n) /\ i \in 0..(r - 1)
    BY <1>2, <1>8
  <2>. DEFINE v == squared[i]
  <2>2. v \in 0..(n - 1) /\ Cong(v, pw(i), n) /\ v # n - 1
    BY <1>0, <1>5, <2>1
  <2>. HIDE DEF v
  <2>3. v \in Int /\ pw(i) \in Int /\ n \in Int /\ v * v \in Int /\ pw(i) * pw(i) \in Int /\ 1 \in Int
    BY <1>1, <1>6, <2>2
  <2>4. Cong(v * v, pw(i) * pw(i), n)
    BY <2>2, <2>3, CongMul
  <2>5. Cong(pw(i) * pw(i), 1, n)
    BY <1>6
  <2>6. Cong(v * v, 1, n)
    BY <2>3, <2>4, <2>5, CongTrans
  <2>7. v = 1
    BY <1>1, <2>2, <2>6, SquareRoots
  <2>8. Cong(pw(i), 1, n)
    BY <2>2, <2>3, <2>7, CongSym
  <2>. QED
    BY <2>1, <2>8
<1>9. r \in S
  <2>. HIDE DEF S
  <2>. QED
    BY <1>2, <1>7, <1>8, SetInduction
<1>10. Cong(pw(r), 1, n)
  <2>1. pw(r) = Power(a)[n - 1]
    BY <1>2 DEF pw
  <2>2. ~Cong(a, 0, n)
    <3>1. a \in 0..(n - 1) /\ a # 0
      OBVIOUS
    <3>. QED
      BY <1>1, <3>1, NoMultiple
  <2>. QED
    BY <1>1, <2>1, <2>2, Fermat
<1>. QED
  BY <1>2, <1>9, <1>10

\* IsPrime rejects no prime number, for words of any width.
THEOREM IsPrimeAcceptsPrimes ==
    ASSUME NEW n \in Word, PrimeNumber(n)
    PROVE  IsPrime(n)
<1>0. n \in Nat /\ n >= 2
  BY WordSizeAssumption DEF Word, PrimeNumber
<1>1. CASE n \in {2, 3, 5, 7}
  BY <1>0, <1>1 DEF IsPrime
<1>2. CASE n \notin {2, 3, 5, 7}
  <2>1. ASSUME NEW q \in {2, 3, 5}
        PROVE  n % q # 0
    <3>. SUFFICES ASSUME n % q = 0
                  PROVE  FALSE
      OBVIOUS
    <3>1. q \in Nat \ {0} /\ n \div q \in Int /\ n = q * (n \div q) + (n % q)
      BY <1>0, ModSplit
    <3>. DEFINE e == n \div q
    <3>2. e \in Int /\ n = q * e
      BY <1>0, <3>1
    <3>. HIDE DEF e
    <3>3. e \in Nat
      BY <1>0, <3>1, <3>2
    <3>4. q = 1 \/ q = n
      BY <1>0, <3>1, <3>2, <3>3, PrimeDivisors
    <3>. QED
      BY <1>2, <3>4
  <2>2. n % 2 = 1
    BY <1>0, <2>1
  <2>3. ASSUME NEW a \in witnesses, a < n
        PROVE  ~Composite(a, n)
    <3>1. a \in 1..(n - 1)
      BY <1>0, <2>3 DEF witnesses
    <3>. QED
      BY <2>2, <3>1, NoFalseWitness
  <2>. QED
    BY <1>0, <2>1, <2>3 DEF IsPrime
<1>. QED
  BY <1>1, <1>2

\* The property of IsPrime that the run checks on small words holds for words
\* of any size.
THEOREM PrimesAlwaysAccepted == CheckSpec => []PrimesAccepted
<1>. DEFINE Inv == args \in ArithArgs \cup PrimeArgs
<1>1. Inv => PrimesAccepted
  BY IsPrimeAcceptsPrimes DEF PrimesAccepted
<1>2. Inv /\ [UNCHANGED args]_args => Inv'
  BY DEF ArithArgs, PrimeArgs
<1>. QED
  BY <1>1, <1>2, PTL DEF CheckSpec

=============================================================================
