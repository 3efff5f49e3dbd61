-------------------------- MODULE ServerFileProofs --------------------------
(***************************************************************************)
(* Proofs about ServerFile for any number of calls, inodes, chunks and     *)
(* crashes: atomic replacement, and that it implements WholeFile.          *)
(***************************************************************************)
EXTENDS ServerFile, TLAPS

Chunk == Writer \cup {None}

-----------------------------------------------------------------------------
(* The inductive invariant *)

\* What call w has received so far.
Received(w) == [i \in 1..off[w] |-> w]

\* The file never has the temporary name as well, and while the calls are calm
\* at most one of them writes, to the temporary file, which holds exactly what
\* that call has received.
WritersApart ==
    /\ file # None => file # tmp
    /\ \A w \in Writer : ~Active(w) => off[w] = 0
    /\ calm => \A w \in Writer : Active(w) =>
        /\ fd[w] = tmp
        /\ data[tmp] = Received(w)
        /\ \A v \in Writer : Active(v) => v = w

\* A reading call has open a whole content that nobody writes and has delivered
\* a prefix of it.
ReadersApart ==
    /\ \A r \in Reader : rpc[r] = "idle" => got[r] = <<>>
    /\ calm => \A r \in Reader : Reading(r) =>
        /\ rfd[r] # tmp
        /\ Whole(data[rfd[r]])
        /\ Len(got[r]) <= Len(data[rfd[r]])
        /\ \A i \in 1..Len(got[r]) : got[r][i] = data[rfd[r]][i]

IInv == TypeOK /\ WritersApart /\ ReadersApart /\ CalmWhole /\ CalmReads

-----------------------------------------------------------------------------
(* Lemmas *)

LEMMA WriteAtType ==
    ASSUME NEW s \in Seq(Chunk), NEW n \in Nat \ {0}, NEW c \in Chunk
    PROVE  WriteAt(s, n, c) \in Seq(Chunk)
<1> DEFINE m == IF n > Len(s) THEN n ELSE Len(s)
<1>1. m \in Nat OBVIOUS
<1>2. WriteAt(s, n, c) \in [1..m -> Chunk]
  <2> SUFFICES ASSUME NEW i \in 1..m
               PROVE  (IF i = n THEN c ELSE IF i <= Len(s) THEN s[i] ELSE None)
                         \in Chunk
    BY DEF WriteAt
  <2> QED BY DEF Chunk
<1> QED BY <1>1, <1>2

LEMMA WriteAtExtends ==
    ASSUME NEW w \in Writer, NEW n \in Nat
    PROVE  WriteAt([i \in 1..n |-> w], n + 1, w) = [i \in 1..(n + 1) |-> w]
<1>1. [i \in 1..n |-> w] \in Seq({w}) /\ Len([i \in 1..n |-> w]) = n
  OBVIOUS
<1> QED BY <1>1 DEF WriteAt

LEMMA ContentIsWhole ==
    ASSUME NEW w \in Writer
    PROVE  /\ ContentOf(w) \in Seq(Chunk)
           /\ ContentOf(w) # <<>>
           /\ Whole(ContentOf(w))
           /\ Value(ContentOf(w)) = w
<1>1. ContentOf(w) \in Seq(Chunk) /\ Len(ContentOf(w)) = NumChunks
  BY ChunkAssumption DEF ContentOf, Chunk
<1>2. ContentOf(w) # <<>>
  BY <1>1, ChunkAssumption
<1>3. ContentOf(w)[1] = w
  BY ChunkAssumption DEF ContentOf
<1> QED BY <1>1, <1>2, <1>3 DEF Whole, Value

\* A prefix as long as the whole is the whole.
LEMMA FullPrefix ==
    ASSUME NEW s \in Seq(Chunk), NEW t \in Seq(Chunk),
           Len(s) <= Len(t), Len(s) >= Len(t),
           \A i \in 1..Len(s) : s[i] = t[i]
    PROVE  s = t
OBVIOUS

-----------------------------------------------------------------------------
(* Invariance *)

LEMMA InitInv == Init => IInv
<1> SUFFICES ASSUME Init PROVE IInv OBVIOUS
<1> USE DEF Init, Active, Reading, Kind
<1>1. TypeOK BY CrashAssumption, ChunkAssumption DEF TypeOK
<1>2. WritersApart BY DEF WritersApart
<1>3. ReadersApart BY DEF ReadersApart
<1>4. CalmWhole BY DEF CalmWhole
<1>5. CalmReads BY DEF CalmReads
<1> QED BY <1>1, <1>2, <1>3, <1>4, <1>5 DEF IInv

LEMMA BeginInv ==
    ASSUME IInv, NEW w \in Writer, NEW k \in Kind, Begin(w, k)
    PROVE  IInv'
<1> USE DEF IInv, Active, Reading
<1>1. PICK i \in Inode :
        /\ IF tmp # None THEN i = tmp ELSE Free(i)
        /\ tmp' = i
        /\ data' = [data EXCEPT ![i] = <<>>]
        /\ fd' = [fd EXCEPT ![w] = i]
  BY DEF Begin
<1>2. /\ wpc[w] = "idle" /\ wpc' = [wpc EXCEPT ![w] = k]
      /\ calm' = (calm /\ ~\E v \in Writer : Active(v))
      /\ UNCHANGED <<file, off, readVars, crashes>>
  BY DEF Begin
<1>3. off[w] = 0
  BY <1>2 DEF WritersApart, Kind
<1>4. TypeOK'
  <2>1. data' \in [Inode -> Seq(Writer \cup {None})]
    BY <1>1 DEF TypeOK
  <2> QED BY <1>1, <1>2, <2>1, NoneAssumption DEF TypeOK, readVars, Kind
<1>5. file # i
  BY <1>1, NoneAssumption DEF WritersApart, Free
<1>6. WritersApart'
  <2> SUFFICES ASSUME calm', NEW v \in Writer, Active(v)'
               PROVE  /\ fd'[v] = tmp' /\ data'[tmp'] = Received(v)'
                      /\ \A u \in Writer : Active(u)' => u = v
    BY <1>1, <1>2, <1>5 DEF WritersApart
  <2>1. v = w /\ \A u \in Writer : Active(u)' => u = w
    BY <1>2 DEF TypeOK
  <2>2. data'[i] = <<>> /\ Received(w)' = <<>>
    BY <1>1, <1>2, <1>3 DEF TypeOK, Received
  <2> QED BY <1>1, <2>1, <2>2 DEF TypeOK
<1>7. ASSUME calm, NEW r \in Reader, Reading(r)
      PROVE  rfd[r] # i
  BY <1>1, <1>7 DEF ReadersApart, Free
<1>8. ReadersApart'
  BY <1>1, <1>2, <1>7 DEF ReadersApart, readVars, TypeOK, Whole
<1>9. CalmWhole'
  BY <1>1, <1>2, <1>5 DEF CalmWhole, TypeOK, Whole
<1>10. CalmReads'
  BY <1>2 DEF CalmReads, readVars, Whole
<1> QED BY <1>4, <1>6, <1>8, <1>9, <1>10

LEMMA WriteChunkInv ==
    ASSUME IInv, NEW w \in Writer, WriteChunk(w)
    PROVE  IInv'
<1> USE DEF IInv, Active, Reading
<1>1. /\ wpc[w] \in Kind /\ off[w] < NumChunks
      /\ off' = [off EXCEPT ![w] = @ + 1]
      /\ data' = [data EXCEPT ![fd[w]] = WriteAt(@, off[w] + 1, w)]
      /\ UNCHANGED <<file, tmp, wpc, fd, readVars, calm, crashes>>
  BY DEF WriteChunk
<1>2. fd[w] \in Inode /\ off[w] \in Nat
  BY <1>1 DEF TypeOK
<1>3. WriteAt(data[fd[w]], off[w] + 1, w) \in Seq(Writer \cup {None})
  <2>1. data[fd[w]] \in Seq(Chunk) /\ off[w] + 1 \in Nat \ {0} /\ w \in Chunk
    BY <1>2 DEF TypeOK, Chunk
  <2> QED BY <2>1, WriteAtType DEF Chunk
<1>4. TypeOK'
  BY <1>1, <1>2, <1>3, ChunkAssumption DEF TypeOK, readVars
<1>5. ASSUME calm
      PROVE  fd[w] = tmp /\ data'[tmp] = Received(w)'
  <2>1. fd[w] = tmp /\ data[tmp] = Received(w)
    BY <1>1, <1>5 DEF WritersApart
  <2>2. data'[tmp] = WriteAt(Received(w), off[w] + 1, w)
    BY <1>1, <1>2, <2>1 DEF TypeOK
  <2>3. Received(w)' = [i \in 1..(off[w] + 1) |-> w]
    BY <1>1 DEF TypeOK, Received
  <2> QED BY <1>2, <2>1, <2>2, <2>3, WriteAtExtends DEF Received
<1>6. WritersApart'
  BY <1>1, <1>5 DEF WritersApart
<1>7. ReadersApart'
  BY <1>1, <1>5 DEF ReadersApart, readVars, TypeOK, Whole
<1>8. CalmWhole'
  BY <1>1, <1>5 DEF CalmWhole, TypeOK, Whole, WritersApart
<1>9. CalmReads'
  BY <1>1 DEF CalmReads, readVars, Whole
<1> QED BY <1>4, <1>6, <1>7, <1>8, <1>9

\* The writing call of a calm state that has received everything has written a
\* whole content.
LEMMA InstallsWhole ==
    ASSUME IInv, NEW w \in Writer, Active(w), off[w] = NumChunks, calm
    PROVE  tmp # None /\ data[tmp] = ContentOf(w)
<1>1. fd[w] = tmp /\ data[tmp] = Received(w) /\ fd[w] # None
  BY DEF IInv, WritersApart, TypeOK
<1> QED BY <1>1 DEF Received, ContentOf

LEMMA InstallInv ==
    ASSUME IInv, NEW w \in Writer, Install(w)
    PROVE  IInv'
<1> USE DEF IInv, Active, Reading, Install, RenameTmp, CloseFd
<1>1. TypeOK'
  BY ChunkAssumption DEF TypeOK, readVars, Kind
<1>2. WritersApart'
  BY DEF WritersApart, TypeOK, Kind
<1>3. ReadersApart'
  BY NoneAssumption DEF ReadersApart, readVars, TypeOK, Whole
<1>4. CalmWhole'
  BY InstallsWhole, ContentIsWhole DEF CalmWhole, Whole
<1>5. CalmReads'
  BY DEF CalmReads, readVars, Whole
<1> QED BY <1>1, <1>2, <1>3, <1>4, <1>5

LEMMA StreamBreaksInv ==
    ASSUME IInv, NEW w \in Writer, StreamBreaks(w)
    PROVE  IInv'
<1> USE DEF IInv, Active, Reading, StreamBreaks, CloseFd
<1>1. TypeOK'
  BY ChunkAssumption DEF TypeOK, readVars, Kind
<1>2. WritersApart'
  BY NoneAssumption DEF WritersApart, TypeOK, Kind
<1>3. ReadersApart'
  BY NoneAssumption DEF ReadersApart, readVars, TypeOK, Whole
<1>4. CalmWhole'
  BY DEF CalmWhole, Whole
<1>5. CalmReads'
  BY DEF CalmReads, readVars, Whole
<1> QED BY <1>1, <1>2, <1>3, <1>4, <1>5

LEMMA SyncBreaksInv ==
    ASSUME IInv, NEW w \in Writer, SyncBreaks(w)
    PROVE  IInv'
<1> USE DEF IInv, Active, Reading, SyncBreaks, RenameTmp, CloseFd
<1>1. TypeOK'
  <2>1. calm' \in BOOLEAN
    OBVIOUS
  <2> QED BY <2>1, ChunkAssumption DEF TypeOK, readVars, Kind
<1>2. WritersApart'
  BY NoneAssumption DEF WritersApart, TypeOK
<1>3. ReadersApart' /\ CalmWhole' /\ CalmReads'
  BY DEF ReadersApart, CalmWhole, CalmReads, readVars
<1> QED BY <1>1, <1>2, <1>3

LEMMA SyncLeftoverInv ==
    ASSUME IInv, NEW v \in Writer, NEW n \in 0..NumChunks, SyncLeftover(v, n)
    PROVE  IInv'
<1> USE DEF IInv, Active, Reading
<1>1. PICK i \in Inode :
        /\ Free(i) /\ tmp' = i
        /\ data' = [data EXCEPT ![i] = SubSeq(ContentOf(v), 1, n)]
  BY DEF SyncLeftover
<1>2. /\ calm' = (calm /\ ~\E w \in Writer : Active(w))
      /\ UNCHANGED <<file, writeVars, readVars, crashes>>
  BY DEF SyncLeftover
<1>3. SubSeq(ContentOf(v), 1, n) \in Seq(Writer \cup {None})
  BY ContentIsWhole, ChunkAssumption DEF Chunk, ContentOf
<1>4. TypeOK'
  BY <1>1, <1>2, <1>3 DEF TypeOK, readVars, writeVars
<1>5. WritersApart'
  BY <1>1, <1>2 DEF WritersApart, writeVars, Free
<1>6. ReadersApart'
  BY <1>1, <1>2 DEF ReadersApart, readVars, Free, TypeOK, Whole
<1>7. CalmWhole'
  BY <1>1, <1>2 DEF CalmWhole, Free, TypeOK, Whole
<1>8. CalmReads'
  BY <1>2 DEF CalmReads, readVars, Whole
<1> QED BY <1>4, <1>5, <1>6, <1>7, <1>8

LEMMA CreateFileInv ==
    ASSUME IInv, CreateFile
    PROVE  IInv'
<1> USE DEF IInv, Active, Reading
<1>1. PICK i \in Inode :
        Free(i) /\ file' = i /\ data' = [data EXCEPT ![i] = <<>>]
  BY DEF CreateFile
<1>2. UNCHANGED <<tmp, writeVars, readVars, calm, crashes>>
  BY DEF CreateFile
<1>3. TypeOK'
  BY <1>1, <1>2 DEF TypeOK, readVars, writeVars
<1>4. WritersApart'
  BY <1>1, <1>2 DEF WritersApart, writeVars, Free, TypeOK, Received
<1>5. ReadersApart'
  BY <1>1, <1>2 DEF ReadersApart, readVars, Free, TypeOK, Whole
<1>6. CalmWhole'
  BY <1>1, <1>2 DEF CalmWhole, TypeOK, Whole
<1>7. CalmReads'
  BY <1>2 DEF CalmReads, readVars, Whole
<1> QED BY <1>3, <1>4, <1>5, <1>6, <1>7

LEMMA ReplicateCreateInv ==
    ASSUME IInv, ReplicateCreate
    PROVE  IInv'
<1> USE DEF IInv, Active, Reading, ReplicateCreate
<1>1. TypeOK'
  BY DEF TypeOK, readVars, writeVars
<1>2. WritersApart'
  BY DEF WritersApart, writeVars, TypeOK, Received
<1>3. ReadersApart'
  BY DEF ReadersApart, readVars, TypeOK, Whole
<1>4. CalmWhole'
  BY DEF CalmWhole, TypeOK, Whole
<1>5. CalmReads'
  BY DEF CalmReads, readVars, Whole
<1> QED BY <1>1, <1>2, <1>3, <1>4, <1>5

LEMMA DeleteFileInv ==
    ASSUME IInv, DeleteFile
    PROVE  IInv'
<1> USE DEF IInv, Active, Reading, DeleteFile
<1>1. TypeOK'
  BY DEF TypeOK, readVars, writeVars
<1>2. WritersApart' /\ ReadersApart'
  BY DEF WritersApart, ReadersApart, writeVars, readVars, Received, Whole
<1>3. CalmWhole' /\ CalmReads'
  BY DEF CalmWhole, CalmReads, readVars, Whole
<1> QED BY <1>1, <1>2, <1>3

LEMMA OpenReadInv ==
    ASSUME IInv, NEW r \in Reader, OpenRead(r)
    PROVE  IInv'
<1> USE DEF IInv, Active, Reading, OpenRead
<1>1. TypeOK'
  BY DEF TypeOK, writeVars
<1>2. WritersApart'
  BY DEF WritersApart, writeVars, Received
<1>3. ReadersApart'
  BY DEF ReadersApart, WritersApart, CalmWhole, TypeOK, Whole
<1>4. CalmWhole' /\ CalmReads'
  BY DEF CalmWhole, CalmReads, TypeOK, Whole
<1> QED BY <1>1, <1>2, <1>3, <1>4

LEMMA ReadChunkInv ==
    ASSUME IInv, NEW r \in Reader, ReadChunk(r)
    PROVE  IInv'
<1> USE DEF IInv, Active, Reading, ReadChunk
<1>1. TypeOK'
  BY DEF TypeOK, writeVars
<1>2. WritersApart'
  BY DEF WritersApart, writeVars, Received
<1>3. ReadersApart'
  BY DEF ReadersApart, TypeOK, Whole
<1>4. CalmWhole' /\ CalmReads'
  BY DEF CalmWhole, CalmReads, TypeOK, Whole
<1> QED BY <1>1, <1>2, <1>3, <1>4

\* At the end of a file a calm read has delivered all of it.
LEMMA DeliversAll ==
    ASSUME IInv, NEW r \in Reader, ReadEnds(r), calm
    PROVE  got[r] = data[rfd[r]] /\ Whole(got[r])
<1>1. /\ Whole(data[rfd[r]])
      /\ Len(got[r]) <= Len(data[rfd[r]])
      /\ \A i \in 1..Len(got[r]) : got[r][i] = data[rfd[r]][i]
  BY DEF IInv, ReadersApart, ReadEnds, Reading
<1>2. got[r] \in Seq(Chunk) /\ data[rfd[r]] \in Seq(Chunk)
  BY DEF IInv, TypeOK, ReadEnds, Reading, Chunk
<1>3. Len(got[r]) >= Len(data[rfd[r]])
  BY DEF ReadEnds
<1>4. got[r] = data[rfd[r]]
  BY <1>1, <1>2, <1>3, FullPrefix
<1> QED BY <1>1, <1>4

LEMMA ReadEndsInv ==
    ASSUME IInv, NEW r \in Reader, ReadEnds(r)
    PROVE  IInv'
<1> USE DEF IInv, Active, Reading, ReadEnds
<1>1. TypeOK'
  BY DEF TypeOK, writeVars
<1>2. WritersApart'
  BY DEF WritersApart, writeVars, Received
<1>3. ReadersApart'
  BY DEF ReadersApart, TypeOK, Whole
<1>4. CalmWhole' /\ CalmReads'
  BY DeliversAll DEF CalmWhole, CalmReads, TypeOK, Whole
<1> QED BY <1>1, <1>2, <1>3, <1>4

LEMMA CrashInv ==
    ASSUME IInv, Crash
    PROVE  IInv'
<1> USE DEF IInv, Active, Reading, Crash
<1>1. TypeOK'
  BY ChunkAssumption, CrashAssumption DEF TypeOK, Kind
<1>2. WritersApart'
  BY DEF WritersApart, Kind
<1>3. ReadersApart'
  BY DEF ReadersApart, TypeOK
<1>4. CalmWhole' /\ CalmReads'
  BY DEF CalmWhole, CalmReads, TypeOK, Whole
<1> QED BY <1>1, <1>2, <1>3, <1>4

LEMMA NextInv == IInv /\ [Next]_vars => IInv'
<1> SUFFICES ASSUME IInv, [Next]_vars PROVE IInv' OBVIOUS
<1>1. ASSUME NEW w \in Writer, NEW k \in Kind, Begin(w, k) PROVE IInv'
  BY <1>1, BeginInv
<1>2. ASSUME NEW w \in Writer, WriteChunk(w) PROVE IInv'
  BY <1>2, WriteChunkInv
<1>3. ASSUME NEW w \in Writer, Install(w) PROVE IInv'
  BY <1>3, InstallInv
<1>4. ASSUME NEW w \in Writer, StreamBreaks(w) PROVE IInv'
  BY <1>4, StreamBreaksInv
<1>5. ASSUME NEW w \in Writer, SyncBreaks(w) PROVE IInv'
  BY <1>5, SyncBreaksInv
<1>6. ASSUME NEW v \in Writer, NEW n \in 0..NumChunks, SyncLeftover(v, n)
      PROVE IInv'
  BY <1>6, SyncLeftoverInv
<1>7. CASE CreateFile BY <1>7, CreateFileInv
<1>8. CASE ReplicateCreate BY <1>8, ReplicateCreateInv
<1>9. CASE DeleteFile BY <1>9, DeleteFileInv
<1>10. ASSUME NEW r \in Reader, OpenRead(r) PROVE IInv'
  BY <1>10, OpenReadInv
<1>11. ASSUME NEW r \in Reader, ReadChunk(r) PROVE IInv'
  BY <1>11, ReadChunkInv
<1>12. ASSUME NEW r \in Reader, ReadEnds(r) PROVE IInv'
  BY <1>12, ReadEndsInv
<1>13. CASE Crash BY <1>13, CrashInv
<1>14. CASE UNCHANGED vars
  BY <1>14 DEF vars, writeVars, readVars, IInv, TypeOK, WritersApart, Received,
     ReadersApart, CalmWhole, CalmReads, Whole, Active, Reading
<1> QED BY <1>1, <1>2, <1>3, <1>4, <1>5, <1>6, <1>7, <1>8, <1>9, <1>10, <1>11,
           <1>12, <1>13, <1>14 DEF Next

-----------------------------------------------------------------------------
(* The refinement *)

\* The abstract file is unchanged by a step that leaves alone what has the
\* file's name, the inodes that readers have open and the state of the calls.
LEMMA AbstractStutter ==
    ASSUME IInv, calm, UNCHANGED <<file, calm, rpc, rfd, got>>,
           file # None => data'[file] = data[file],
           \A r \in Reader : Reading(r) => data'[rfd[r]] = data[rfd[r]],
           \A w \in Writer : wpc'[w] = wpc[w] \/ {wpc[w], wpc'[w]} \subseteq
                                                   Kind \cup {"idle"}
    PROVE  UNCHANGED Promise!vars
<1>1. AbsContent' = AbsContent
  BY DEF AbsContent, Value, Whole
<1>2. AbsOutcome' = AbsOutcome
  BY DEF AbsOutcome, Kind
<1>3. AbsResult' = AbsResult
  BY DEF AbsResult, Value, Whole, Reading
<1> QED BY <1>1, <1>2, <1>3 DEF Promise!vars, AbsContent, AbsOutcome, AbsResult

LEMMA AbstractInit == Init => Promise!Init
BY DEF Init, Promise!Init, AbsContent, AbsOutcome, AbsResult, Reading

\* Every step of the handlers is a step of WholeFile or none.
LEMMA AbstractNext ==
    ASSUME IInv, IInv', [Next]_vars
    PROVE  [Promise!Next]_(Promise!vars)
<1> SUFFICES ASSUME calm'
             PROVE  Promise!Step \/ UNCHANGED Promise!vars
  BY DEF Promise!Next
<1>0. calm
  BY DEF Next, vars, Begin, WriteChunk, Install, StreamBreaks, SyncBreaks, SyncLeftover,
     CreateFile, ReplicateCreate, DeleteFile, OpenRead, ReadChunk, ReadEnds, Crash
<1> USE DEF IInv, Active, Reading
<1>1. ASSUME NEW w \in Writer, NEW k \in Kind, Begin(w, k)
      PROVE  UNCHANGED Promise!vars
  <2>1. PICK i \in Inode :
          /\ IF tmp # None THEN i = tmp ELSE Free(i)
          /\ data' = [data EXCEPT ![i] = <<>>]
    BY <1>1 DEF Begin
  <2>2. file # i /\ \A r \in Reader : Reading(r) => rfd[r] # i
    BY <1>0, <2>1, NoneAssumption DEF WritersApart, ReadersApart, Free
  <2>3. wpc[w] = "idle" /\ wpc' = [wpc EXCEPT ![w] = k]
    BY <1>1 DEF Begin
  <2>4. UNCHANGED <<file, calm, rpc, rfd, got>>
    BY <1>0, <1>1 DEF Begin, readVars
  <2> QED BY <1>0, <2>1, <2>2, <2>3, <2>4, AbstractStutter DEF TypeOK
<1>2. ASSUME NEW w \in Writer, WriteChunk(w)
      PROVE  UNCHANGED Promise!vars
  <2>1. /\ fd[w] = tmp /\ UNCHANGED <<file, calm, rpc, rfd, got, wpc>>
        /\ data' = [data EXCEPT ![fd[w]] = WriteAt(@, off[w] + 1, w)]
    BY <1>0, <1>2 DEF WriteChunk, WritersApart, readVars
  <2> QED BY <1>0, <2>1, AbstractStutter DEF TypeOK, WritersApart, ReadersApart
<1>3. ASSUME NEW w \in Writer, Install(w)
      PROVE  Promise!Store(w)
  <2>1. tmp # None /\ data[tmp] = ContentOf(w)
    BY <1>0, <1>3, InstallsWhole DEF Install
  <2>2. /\ wpc[w] \in Kind /\ wpc' = [wpc EXCEPT ![w] = "stored"]
        /\ file' = tmp
        /\ UNCHANGED <<data, rpc, rfd, got>>
    BY <1>3, <2>1 DEF Install, RenameTmp, readVars
  <2>3. AbsContent' = w
    BY <2>1, <2>2, ContentIsWhole DEF AbsContent, Value, Whole
  <2>4. AbsOutcome[w] = "pending" /\ AbsOutcome' = [AbsOutcome EXCEPT ![w] = "stored"]
    BY <2>2 DEF AbsOutcome, TypeOK, Kind
  <2>5. AbsResult' = AbsResult
    BY <2>2 DEF AbsResult, Value, Whole
  <2> QED BY <2>3, <2>4, <2>5 DEF Promise!Store, Promise!Pending
<1>4. ASSUME NEW w \in Writer, StreamBreaks(w)
      PROVE  Promise!Fail({w}, {})
  <2>1. /\ wpc[w] \in Kind /\ wpc' = [wpc EXCEPT ![w] = "failed"]
        /\ UNCHANGED <<file, data, rpc, rfd, got>>
    BY <1>4 DEF StreamBreaks, Active, readVars
  <2>2. AbsContent' = AbsContent /\ AbsResult' = AbsResult
    BY <2>1 DEF AbsContent, AbsResult, Value, Whole
  <2>3. AbsOutcome[w] = "pending"
    BY <2>1 DEF AbsOutcome, Kind
  <2>4. AbsOutcome' = [v \in Writer |-> IF v \in {w} THEN "failed" ELSE AbsOutcome[v]]
    BY <2>1 DEF AbsOutcome, TypeOK
  <2>5. AbsResult' = [r \in Reader |-> IF r \in {} THEN None ELSE AbsResult[r]]
    BY <2>2 DEF AbsResult
  <2> QED BY <2>2, <2>3, <2>4, <2>5 DEF Promise!Fail, Promise!Pending
<1>5. ASSUME NEW w \in Writer, SyncBreaks(w)
      PROVE  FALSE
  BY <1>5 DEF SyncBreaks
<1>6. ASSUME NEW v \in Writer, NEW n \in 0..NumChunks, SyncLeftover(v, n)
      PROVE  UNCHANGED Promise!vars
  <2>1. PICK i \in Inode :
          Free(i) /\ data' = [data EXCEPT ![i] = SubSeq(ContentOf(v), 1, n)]
    BY <1>6 DEF SyncLeftover
  <2>2. UNCHANGED <<file, calm, rpc, rfd, got, wpc>>
    BY <1>0, <1>6 DEF SyncLeftover, readVars, writeVars
  <2> QED BY <1>0, <2>1, <2>2, AbstractStutter DEF Free, TypeOK
<1>7. CASE CreateFile
  <2>1. PICK i \in Inode :
          Free(i) /\ file' = i /\ data' = [data EXCEPT ![i] = <<>>]
    BY <1>7 DEF CreateFile
  <2>2. UNCHANGED <<wpc, rpc, rfd, got>>
    BY <1>7 DEF CreateFile, readVars, writeVars
  <2>3. AbsContent' = Empty
    BY <2>1, NoneAssumption DEF AbsContent, Value, TypeOK
  <2>4. AbsOutcome' = AbsOutcome /\ AbsResult' = AbsResult
    BY <2>1, <2>2 DEF AbsOutcome, AbsResult, Free, Value, Whole, TypeOK
  <2> QED BY <2>3, <2>4 DEF Promise!Step, Promise!CreateOrDelete
<1>8. CASE ReplicateCreate
  <2>1. /\ file # None /\ data' = [data EXCEPT ![file] = <<>>]
        /\ \A r \in Reader : rfd[r] # file
        /\ UNCHANGED <<file, wpc, rpc, rfd, got>>
    BY <1>8 DEF ReplicateCreate, readVars, writeVars
  <2>2. AbsContent' = Empty
    BY <2>1 DEF AbsContent, Value, TypeOK
  <2>3. AbsOutcome' = AbsOutcome /\ AbsResult' = AbsResult
    BY <2>1 DEF AbsOutcome, AbsResult, Value, Whole, TypeOK
  <2> QED BY <2>2, <2>3 DEF Promise!Step, Promise!CreateOrDelete
<1>9. CASE DeleteFile
  <2>1. AbsContent' = Absent
    BY <1>9 DEF DeleteFile, AbsContent
  <2>2. AbsOutcome' = AbsOutcome /\ AbsResult' = AbsResult
    BY <1>9 DEF DeleteFile, AbsOutcome, AbsResult, Value, Whole, readVars, writeVars
  <2> QED BY <2>1, <2>2 DEF Promise!Step, Promise!CreateOrDelete
<1>10. ASSUME NEW r \in Reader, OpenRead(r)
       PROVE  Promise!Read(r)
  <2>1. /\ rpc[r] = "idle" /\ file # None
        /\ rpc' = [rpc EXCEPT ![r] = "reading"]
        /\ rfd' = [rfd EXCEPT ![r] = file]
        /\ UNCHANGED <<file, data, wpc, got>>
    BY <1>10 DEF OpenRead, writeVars
  <2>2. AbsContent' = AbsContent /\ AbsOutcome' = AbsOutcome
    BY <2>1 DEF AbsContent, AbsOutcome, Value, Whole
  <2>3. AbsContent # Absent
    <3>1. Whole(data[file]) /\ data[file] \in Seq(Chunk)
      BY <1>0, <2>1 DEF CalmWhole, TypeOK, Chunk
    <3>2. Value(data[file]) \in Writer \cup {Empty}
      BY <3>1, ContentIsWhole DEF Value, Whole
    <3> QED BY <2>1, <3>2, ValueAssumption DEF AbsContent
  <2>4. AbsResult[r] = None
    BY <2>1 DEF AbsResult
  <2>5. AbsResult' = [AbsResult EXCEPT ![r] = AbsContent]
    BY <2>1 DEF AbsResult, AbsContent, TypeOK, Value, Whole
  <2> QED BY <2>2, <2>3, <2>4, <2>5 DEF Promise!Read
<1>11. ASSUME NEW r \in Reader, ReadChunk(r)
       PROVE  UNCHANGED Promise!vars
  <2>1. rpc[r] = "reading" /\ UNCHANGED <<file, data, wpc, rpc, rfd>>
    BY <1>11 DEF ReadChunk, writeVars
  <2>2. AbsContent' = AbsContent /\ AbsOutcome' = AbsOutcome
    BY <2>1 DEF AbsContent, AbsOutcome, Value, Whole
  <2>3. AbsResult' = AbsResult
    BY <1>11, <2>1 DEF ReadChunk, AbsResult, TypeOK, Value, Whole
  <2> QED BY <1>0, <2>2, <2>3 DEF Promise!vars
<1>12. ASSUME NEW r \in Reader, ReadEnds(r)
       PROVE  UNCHANGED Promise!vars
  <2>1. /\ rpc[r] = "reading" /\ rpc' = [rpc EXCEPT ![r] = "done"]
        /\ rfd' = [rfd EXCEPT ![r] = None]
        /\ UNCHANGED <<file, data, wpc, got>>
    BY <1>12 DEF ReadEnds, writeVars
  <2>2. AbsContent' = AbsContent /\ AbsOutcome' = AbsOutcome
    BY <2>1 DEF AbsContent, AbsOutcome, Value, Whole
  <2>3. got[r] = data[rfd[r]]
    BY <1>0, <1>12, DeliversAll
  <2>4. AbsResult' = AbsResult
    BY <2>1, <2>3 DEF AbsResult, TypeOK, Value, Whole
  <2> QED BY <1>0, <2>2, <2>4 DEF Promise!vars
<1>13. CASE Crash
  <2> DEFINE W == {w \in Writer : Active(w)}
             R == {r \in Reader : Reading(r)}
  <2>1. AbsContent' = AbsContent
    BY <1>13 DEF Crash, AbsContent, Value, Whole
  <2>2. AbsOutcome' = [w \in Writer |-> IF w \in W THEN "failed" ELSE AbsOutcome[w]]
    BY <1>13 DEF Crash, AbsOutcome, TypeOK
  <2>3. AbsResult' = [r \in Reader |-> IF r \in R THEN None ELSE AbsResult[r]]
    BY <1>13 DEF Crash, AbsResult, TypeOK, Value, Whole
  <2>4. W \subseteq Promise!Pending
    BY DEF Promise!Pending, AbsOutcome, Kind
  <2>5. Promise!Fail(W, R)
    BY <2>1, <2>2, <2>3, <2>4 DEF Promise!Fail
  <2> QED BY <2>5 DEF Promise!Step
<1>14. CASE UNCHANGED vars
  BY <1>14 DEF vars, writeVars, readVars, Promise!vars, AbsContent, AbsOutcome,
     AbsResult, Value, Whole
<1> QED BY <1>1, <1>2, <1>3, <1>4, <1>5, <1>6, <1>7, <1>8, <1>9, <1>10, <1>11,
           <1>12, <1>13, <1>14 DEF Next, Promise!Step

-----------------------------------------------------------------------------
(* Theorems *)

LEMMA Invariance == Spec => []IInv
<1>1. Init => IInv BY InitInv
<1>2. IInv /\ [Next]_vars => IInv' BY NextInv
<1> QED BY <1>1, <1>2, PTL DEF Spec

\* The handlers keep descriptors and calls in step: a call has a descriptor
\* exactly while it runs, whatever overlaps, breaks or crashes.
THEOREM FileTypes == Spec => []TypeOK
<1>1. IInv => TypeOK BY DEF IInv
<1> QED BY <1>1, Invariance, PTL

\* StoreFile, Replicate and recovery never leave part of a content in the file
\* as long as they do not overlap on it and no recovery stream breaks.
THEOREM AtomicWrites == Spec => []CalmWhole
<1>1. IInv => CalmWhole BY DEF IInv
<1> QED BY <1>1, Invariance, PTL

\* FetchFile, SyncState and replication deliver one whole content, however many
\* replacements, deletions and crashes happen while they read.
THEOREM WholeReads == Spec => []CalmReads
<1>1. IInv => CalmReads BY DEF IInv
<1> QED BY <1>1, Invariance, PTL

\* The handlers on inodes, chunks and a shared temporary name implement
\* WholeFile: every call takes effect at its rename or not at all.
THEOREM ImplementsWholeFile == Spec => KeepsPromise
<1>1. Init => Promise!Init BY AbstractInit
<1>2. IInv /\ IInv' /\ [Next]_vars => [Promise!Next]_(Promise!vars)
  BY AbstractNext
<1> QED BY <1>1, <1>2, Invariance, PTL DEF Spec, KeepsPromise, Promise!Spec

=============================================================================
