------------------------------ MODULE PrimeJob ------------------------------
(***************************************************************************)
(* What a prime-finding job is, seen from outside: a set of input files is *)
(* accepted one by one, each of them whole and once; what is accepted may  *)
(* be saved and, after a crash, is either what was saved or nothing; and   *)
(* the output holds exactly the primes of the files accepted when it was   *)
(* published, however the work was distributed, repeated or interrupted.   *)
(***************************************************************************)
CONSTANTS
    File,     \* input files
    PrimesOf  \* the primes in each of them

VARIABLES
    accepted,  \* files whose primes have been accepted
    saved,     \* files the saved state lists; {} when there is none
    output     \* the one set of primes published, or no set at all

jobVars == <<accepted, saved, output>>

AllPrimes(S) == UNION {PrimesOf[f] : f \in S}

Init == accepted = {} /\ saved = {} /\ output = {}

Accept(f) ==
    /\ f \notin accepted
    /\ accepted' = accepted \cup {f}
    /\ UNCHANGED <<saved, output>>

\* The state is saved in two steps: the old one goes before the new one comes.
Discard == saved' = {} /\ UNCHANGED <<accepted, output>>

Save == saved' = accepted /\ UNCHANGED <<accepted, output>>

Crash == accepted' = {} /\ UNCHANGED <<saved, output>>

Recover ==
    /\ accepted = {}
    /\ accepted' = saved
    /\ UNCHANGED <<saved, output>>

Withdraw == output' = {} /\ UNCHANGED <<accepted, saved>>

Publish == output' = {AllPrimes(accepted)} /\ UNCHANGED <<accepted, saved>>

Next ==
    \/ \E f \in File : Accept(f)
    \/ Discard \/ Save \/ Crash \/ Recover \/ Withdraw \/ Publish

Spec == Init /\ [][Next]_jobVars

=============================================================================
