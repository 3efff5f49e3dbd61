----------------------------- MODULE WordArith -----------------------------
(***************************************************************************)
(* Unsigned machine words as Go computes with them, and addmod of          *)
(* primefinder/pkg/prime, the one operation the other modular operations   *)
(* are built from.                                                         *)
(***************************************************************************)
EXTENDS Integers

CONSTANT WordSize   \* number of word values: 2^64 in the code

ASSUME WordSizeAssumption == WordSize \in Nat \ {0}

Word == 0..(WordSize - 1)

\* + and - of two words, wrapping around.
Plus(x, y) == (x + y) % WordSize

Minus(x, y) == (x - y) % WordSize

\* Faulty variant: the sum is taken first and may wrap around.
addmodWrapping(a, b, m) == Plus(a % m, b % m) % m

\* addmod: (a + b) % m without computing a + b when it reaches m.
addmod(a, b, m) ==
    LET x == a % m
        y == b % m
    IN  IF x >= Minus(m, y) THEN Minus(x, Minus(m, y)) ELSE Plus(x, y)

=============================================================================
