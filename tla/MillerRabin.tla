---------------------------- MODULE MillerRabin ----------------------------
(***************************************************************************)
(* The primality test of primefinder/pkg/prime: Miller-Rabin over words of *)
(* Width bits (64 in the code), with additions and subtractions that wrap  *)
(* around as Go's unsigned ones do.  The loops are recursive functions of  *)
(* the number of iterations.                                               *)
(***************************************************************************)
EXTENDS WordArith, FiniteSets

CONSTANT Width     \* bits of a word

ASSUME WidthAssumption == Width \in Nat \ {0} /\ WordSize = 2^Width

\* Iterations of a loop that shifts b right until it is 0.
BitLength(b) == Cardinality({i \in 0..(Width - 1) : b >= 2^i})

\* Faulty variant: b is shifted before its bit is looked at.
BitShiftFirst(b, i) == (b \div 2^(i + 1)) % 2

Bit(b, i) == (b \div 2^i) % 2

\* mulmod: <<result, a>> after i iterations of the double-and-add loop.
mulmod(a, b, m) ==
    LET loop[i \in 0..BitLength(b)] ==
            IF i = 0 THEN <<0, a % m>>
            ELSE LET s == loop[i - 1] IN
                 <<IF Bit(b, i - 1) = 1 THEN addmod(s[1], s[2], m) ELSE s[1],
                   addmod(s[2], s[2], m)>>
    IN  loop[BitLength(b)][1]

\* Faulty variant: the base is squared before it is used.
modpowSquareFirst(base, exp, m) ==
    LET loop[i \in 0..BitLength(exp)] ==
            IF i = 0 THEN <<1, base % m>>
            ELSE LET s == loop[i - 1]
                     sq == mulmod(s[2], s[2], m) IN
                 <<IF Bit(exp, i - 1) = 1 THEN mulmod(s[1], sq, m) ELSE s[1], sq>>
    IN  IF m = 1 THEN 0 ELSE loop[BitLength(exp)][1]

\* modpow: <<result, base>> after i iterations of square-and-multiply.
modpow(base, exp, m) ==
    LET loop[i \in 0..BitLength(exp)] ==
            IF i = 0 THEN <<1, base % m>>
            ELSE LET s == loop[i - 1] IN
                 <<IF Bit(exp, i - 1) = 1 THEN mulmod(s[1], s[2], m) ELSE s[1],
                   mulmod(s[2], s[2], m)>>
    IN  IF m = 1 THEN 0 ELSE loop[BitLength(exp)][1]

\* Faulty variant: too few witnesses.
FewWitnesses == {2}

\* The bases IsPrime tries.
witnesses == {2, 3, 5, 7, 11, 13, 17, 19, 23, 29, 31, 37}

\* Faulty variant: the odd part is halved once more.
TwoExponentTooLarge(n) == Cardinality({k \in 0..Width : (n - 1) % 2^k = 0})

\* n - 1 = 2^TwoExponent(n) * OddPart(n), with an odd OddPart(n).
TwoExponent(n) == Cardinality({k \in 1..Width : (n - 1) % 2^k = 0})

OddPart(n) == (n - 1) \div 2^TwoExponent(n)

\* Base a shows that n is composite: neither a^d nor one of its r - 1
\* successive squares is where it has to be for a prime n.
Composite(a, n) ==
    LET r == TwoExponent(n)
        x == modpow(a, OddPart(n), n)
        squared[i \in 0..(r - 1)] ==
            IF i = 0 THEN x ELSE mulmod(squared[i - 1], squared[i - 1], n)
    IN  /\ x # 1
        /\ \A i \in 0..(r - 1) : squared[i] # n - 1

\* IsPrime: the small cases, then every witness below n.
IsPrime(n) ==
    /\ n >= 2
    /\ \/ n \in {2, 3, 5, 7}
       \/ /\ \A q \in {2, 3, 5} : n % q # 0
          /\ \A a \in witnesses : a < n => ~Composite(a, n)

=============================================================================
