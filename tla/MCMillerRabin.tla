--------------------------- MODULE MCMillerRabin ---------------------------
(***************************************************************************)
(* Checks the primality test against reference definitions: the modular    *)
(* operations over all words of Width bits, IsPrime over all words of      *)
(* WideWidth bits.  The states are the arguments.                          *)
(***************************************************************************)
EXTENDS MillerRabin

CONSTANTS WideWidth, WideSize

ASSUME WideAssumption == WideWidth \in Nat \ {0} /\ WideSize = 2^WideWidth

Wide == INSTANCE MillerRabin WITH Width <- WideWidth, WordSize <- WideSize

\* Operands <<a, b, m>> of the modular operations with a nonzero modulus, or
\* <<n, 0, 0>> for IsPrime.
VARIABLE args

ArithArgs == Word \X Word \X (Word \ {0})

PrimeArgs == Wide!Word \X {0} \X {0}

CheckSpec ==
    /\ args \in ArithArgs \cup PrimeArgs
    /\ [][UNCHANGED args]_args

\* a^b modulo m by definition, by multiplying one a at a time.
PowerRef(a, b, m) ==
    LET f[i \in 0..b] == IF i = 0 THEN 1 % m ELSE (f[i - 1] * a) % m IN f[b]

\* addmod returns (a + b) % m for every pair of words and every modulus, the
\* ones whose sum does not fit in a word included.
AddmodCorrect ==
    LET a == args[1] b == args[2] m == args[3]
    IN  m # 0 => addmod(a, b, m) = (a + b) % m

\* mulmod returns (a * b) % m for every pair of words and every modulus.
MulmodCorrect ==
    LET a == args[1] b == args[2] m == args[3]
    IN  m # 0 => mulmod(a, b, m) = (a * b) % m

\* modpow returns base^exp % m for every base, exponent and modulus.
ModpowCorrect ==
    LET a == args[1] b == args[2] m == args[3]
    IN  m # 0 => modpow(a, b, m) = PowerRef(a, b, m)

\* The definition of a prime number, by trial division.
PrimeNumber(n) == n >= 2 /\ \A q \in 2..(n - 1) : q * q <= n => n % q # 0

\* IsPrime rejects no prime number that fits in a word.
PrimesAccepted ==
    LET n == args[1] IN
    args[3] = 0 /\ n \in Word /\ PrimeNumber(n) => IsPrime(n)

\* IsPrime answers as the definition of a prime number does, for every word.
IsPrimeCorrect ==
    LET n == args[1] IN
    args[3] = 0 => (Wide!IsPrime(n) <=> PrimeNumber(n))

=============================================================================
