------------------------------ MODULE WholeFile ------------------------------
(***************************************************************************)
(* What an AFS server promises about one of its output files: a call that  *)
(* replaces the file takes effect at one moment or not at all, and a call  *)
(* that reads it delivers the content of one moment, whatever calls run    *)
(* beside it and whenever the server crashes.  The promise is kept as long *)
(* as the calls are calm: no two of them replace the file at the same time *)
(* and no recovery stream breaks.                                          *)
(***************************************************************************)
CONSTANTS
    Writer,   \* calls that replace the file; also the content each one brings
    Reader,   \* calls that read the file
    Absent,   \* there is no file
    Empty,    \* the file has been created and holds nothing
    None      \* a read has delivered nothing yet

VARIABLES
    content,  \* what the file holds
    outcome,  \* of each replacing call
    result,   \* content delivered to each reading call
    calm      \* the promise is in force

vars == <<content, outcome, result, calm>>

Init ==
    /\ content \in {Absent, Empty}
    /\ outcome = [w \in Writer |-> "pending"]
    /\ result = [r \in Reader |-> None]
    /\ calm = TRUE

Pending == {w \in Writer : outcome[w] = "pending"}

Store(w) ==
    /\ w \in Pending
    /\ content' = w
    /\ outcome' = [outcome EXCEPT ![w] = "stored"]
    /\ UNCHANGED result

\* Calls end without effect, and reads are cut short.
Fail(W, R) ==
    /\ W \subseteq Pending
    /\ outcome' = [w \in Writer |-> IF w \in W THEN "failed" ELSE outcome[w]]
    /\ result' = [r \in Reader |-> IF r \in R THEN None ELSE result[r]]
    /\ UNCHANGED content

Read(r) ==
    /\ result[r] = None
    /\ content # Absent
    /\ result' = [result EXCEPT ![r] = content]
    /\ UNCHANGED <<content, outcome>>

CreateOrDelete ==
    /\ content' \in {Absent, Empty}
    /\ UNCHANGED <<outcome, result>>

Step ==
    \/ \E w \in Writer : Store(w)
    \/ \E W \in SUBSET Writer, R \in SUBSET Reader : Fail(W, R)
    \/ \E r \in Reader : Read(r)
    \/ CreateOrDelete

Next == calm' => Step

Spec == Init /\ [][Next]_vars

=============================================================================
