---------------------------- MODULE MCAfsClient ----------------------------
(* The instances of AfsClient that TLC checks. *)
EXTENDS AfsClient, TLC

\* Clients are interchangeable, and so are contents.
Symmetric == Permutations(Client) \cup Permutations(Data)

=============================================================================
