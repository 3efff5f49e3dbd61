--------------------------- MODULE MCCoordinator ---------------------------
(* Small instances of Coordinator for TLC. *)
EXTENDS Coordinator

\* Three input files that share primes.
SharedPrimes == <<{2, 3}, {3, 5}, {2}>>

\* Two input files.
TwoFiles == <<{2, 3}, {5}>>

\* Every worker's host has its own port 6100 (docker-compose).
OwnPort == [w \in 1..NumWorkers |-> w]

=============================================================================
