---------------------------- MODULE MCServerFile ----------------------------
(* The instances of ServerFile that TLC checks. *)
EXTENDS ServerFile, TLC

\* Calls of one sort and inodes are interchangeable.
Symmetric == Permutations(Writer) \cup Permutations(Reader) \cup Permutations(Inode)

\* calm never becomes true again and the properties of run file_atomic but
\* TypeOK, which ServerFileProofs has for all states, are conditional on it, so
\* that behaviours need not be followed past its end.
WhileCalm == calm

=============================================================================
