--------------------------- MODULE MCReplication ---------------------------
(* The instances of Replication that TLC checks. *)
EXTENDS Replication, TLC

\* Servers are interchangeable, and so are the places of calls.
Symmetric == Permutations(Server) \cup Permutations(Slot)

=============================================================================
