----------------------------- MODULE ServerFile -----------------------------
(***************************************************************************)
(* One output file in one AFS server's directory (afsfs/pkg/server):       *)
(* the calls that replace it through a temporary file and a rename         *)
(* (StoreFile, Replicate and the receiving end of SyncState), the calls    *)
(* that create and delete it and the calls that read it chunk by chunk     *)
(* (FetchFile, the sending ends of SyncState and of replication).          *)
(*                                                                         *)
(* Files are inodes, as the operating system has them: os.Create truncates *)
(* the inode that has the name, a rename gives an inode another name, and  *)
(* an open descriptor keeps its inode whatever happens to the name.  The   *)
(* content a call brings is NumChunks chunks labelled with the call.  File *)
(* versions and replies are the subject of Replication and AfsClient.      *)
(***************************************************************************)
EXTENDS Integers, Sequences, FiniteSets

CONSTANTS
    Writer,      \* calls that replace the file
    Reader,      \* calls that read it
    Inode,       \* inodes of the server's file system
    None,        \* no inode; a gap in a file; nothing read
    Absent, Empty,
    NumChunks,   \* chunks of 1 MB in every content
    MaxCrashes   \* bound: crashes of the server process

ASSUME ChunkAssumption == NumChunks \in Nat \ {0}

ASSUME CrashAssumption == MaxCrashes \in Nat

ASSUME NoneAssumption == None \notin Inode /\ None \notin Writer

ASSUME ValueAssumption ==
    /\ Absent \notin Writer /\ Empty \notin Writer
    /\ Absent # Empty /\ None # Absent /\ None # Empty

VARIABLES
    file,    \* inode with the file's name
    tmp,     \* inode with the name tmpPath
    data,    \* chunks of each inode
    wpc,     \* where each replacing call is
    fd,      \* inode it has open
    off,     \* chunks it has received and written
    rpc,     \* where each reading call is
    rfd,     \* inode it has open
    got,     \* chunks it has delivered
    calm,    \* history: no two calls replaced the file at the same time, no
             \* recovery stream broke and nothing was truncated under a reader
    crashes

writeVars == <<wpc, fd, off>>
readVars == <<rpc, rfd, got>>
vars == <<file, tmp, data, writeVars, readVars, calm, crashes>>

\* StoreFile and Replicate treat their stream alike; the receiving end of
\* SyncState does not.
Kind == {"store", "sync"}

\* The chunks of the content that call w brings.
ContentOf(w) == [i \in 1..NumChunks |-> w]

Active(w) == wpc[w] \in Kind

Reading(r) == rpc[r] = "reading"

\* No name and no descriptor refers to inode i.
Free(i) ==
    /\ i # file /\ i # tmp
    /\ \A w \in Writer : fd[w] # i
    /\ \A r \in Reader : rfd[r] # i

Init ==
    /\ file = None /\ tmp = None
    /\ data = [i \in Inode |-> <<>>]
    /\ wpc = [w \in Writer |-> "idle"]
    /\ fd = [w \in Writer |-> None]
    /\ off = [w \in Writer |-> 0]
    /\ rpc = [r \in Reader |-> "idle"]
    /\ rfd = [r \in Reader |-> None]
    /\ got = [r \in Reader |-> <<>>]
    /\ calm = TRUE
    /\ crashes = 0

-----------------------------------------------------------------------------
(* Calls that replace the file *)

\* The first chunk of a call: os.Create(tmpPath) truncates a temporary file
\* that is already there, left by a crash or in use by another call.
Begin(w, k) ==
    /\ wpc[w] = "idle"
    /\ \E i \in Inode :
        /\ IF tmp # None THEN i = tmp ELSE Free(i)
        /\ tmp' = i
        /\ data' = [data EXCEPT ![i] = <<>>]
        /\ fd' = [fd EXCEPT ![w] = i]
    /\ wpc' = [wpc EXCEPT ![w] = k]
    /\ calm' = (calm /\ ~\E v \in Writer : Active(v))
    /\ UNCHANGED <<file, off, readVars, crashes>>

\* Chunk c written at position n of content s; a gap reads as zeros.
WriteAt(s, n, c) ==
    [i \in 1..(IF n > Len(s) THEN n ELSE Len(s)) |->
        IF i = n THEN c ELSE IF i <= Len(s) THEN s[i] ELSE None]

\* The next chunk of the stream goes to the descriptor's offset.
WriteChunk(w) ==
    /\ Active(w)
    /\ off[w] < NumChunks
    /\ off' = [off EXCEPT ![w] = @ + 1]
    /\ data' = [data EXCEPT ![fd[w]] = WriteAt(@, off[w] + 1, w)]
    /\ UNCHANGED <<file, tmp, wpc, fd, readVars, calm, crashes>>

\* The descriptor is closed and its offset is gone.
CloseFd(w) ==
    /\ fd' = [fd EXCEPT ![w] = None]
    /\ off' = [off EXCEPT ![w] = 0]

\* Faulty variant: the descriptor stays open.
RenameTmpKeepsFd(w) ==
    /\ file' = IF tmp # None THEN tmp ELSE file
    /\ tmp' = None
    /\ UNCHANGED <<fd, off>>

\* os.Rename(tmpPath, fullPath), whatever inode has that name by now; without
\* one the call fails.
RenameTmp(w) ==
    /\ file' = IF tmp # None THEN tmp ELSE file
    /\ tmp' = None
    /\ CloseFd(w)

\* The stream has ended and the content is put in place.
Install(w) ==
    /\ Active(w)
    /\ off[w] = NumChunks
    /\ RenameTmp(w)
    /\ wpc' = [wpc EXCEPT ![w] = IF tmp # None THEN "stored" ELSE "failed"]
    /\ UNCHANGED <<data, readVars, calm, crashes>>

\* Faulty variant: what was received is put in place.
StreamBreaksKeepsTmp(w) ==
    /\ Active(w)
    /\ off[w] > 0
    /\ RenameTmp(w)
    /\ wpc' = [wpc EXCEPT ![w] = "failed"]
    /\ UNCHANGED <<data, readVars, calm, crashes>>

\* Faulty variant: the file is removed with the temporary one.
StreamBreaksRemovesFile(w) ==
    /\ Active(w)
    /\ off[w] > 0
    /\ file' = None
    /\ tmp' = None
    /\ CloseFd(w)
    /\ wpc' = [wpc EXCEPT ![w] = "failed"]
    /\ UNCHANGED <<data, readVars, calm, crashes>>

\* Recv or Write fails in StoreFile or Replicate, or Write in a recovery: the
\* temporary file is removed.
StreamBreaks(w) ==
    /\ Active(w)
    /\ off[w] > 0
    /\ tmp' = None
    /\ CloseFd(w)
    /\ wpc' = [wpc EXCEPT ![w] = "failed"]
    /\ UNCHANGED <<file, data, readVars, calm, crashes>>

\* Recv fails in syncFromPrimaryWithRetry: the loop ends and the file under
\* way is put in place as if it were complete.
SyncBreaks(w) ==
    /\ wpc[w] = "sync"
    /\ off[w] > 0
    /\ RenameTmp(w)
    /\ wpc' = [wpc EXCEPT ![w] = "failed"]
    /\ calm' = FALSE
    /\ UNCHANGED <<data, readVars, crashes>>

\* The primary's directory holds a temporary file as well; SyncState sends it
\* and the receiver puts it in place under its own name.
SyncLeftover(v, n) ==
    /\ \E i \in Inode :
        /\ Free(i)
        /\ tmp' = i
        /\ data' = [data EXCEPT ![i] = SubSeq(ContentOf(v), 1, n)]
    /\ calm' = (calm /\ ~\E w \in Writer : Active(w))
    /\ UNCHANGED <<file, writeVars, readVars, crashes>>

\* CreateFile, and Replicate of a create, where there is no file.
CreateFile ==
    /\ file = None
    /\ \E i \in Inode :
        /\ Free(i)
        /\ file' = i
        /\ data' = [data EXCEPT ![i] = <<>>]
    /\ UNCHANGED <<tmp, writeVars, readVars, calm, crashes>>

\* Replicate of a create where there is a file: os.WriteFile truncates it.
ReplicateCreate ==
    /\ file # None
    /\ data' = [data EXCEPT ![file] = <<>>]
    /\ calm' = (calm /\ \A r \in Reader : rfd[r] # file)
    /\ UNCHANGED <<file, tmp, writeVars, readVars, crashes>>

\* DeleteFile, and Replicate of a delete.
DeleteFile ==
    /\ file # None
    /\ file' = None
    /\ UNCHANGED <<tmp, data, writeVars, readVars, calm, crashes>>

-----------------------------------------------------------------------------
(* Calls that read the file *)

\* os.Open in FetchFile, SyncState and replicateStreamToPeer.
OpenRead(r) ==
    /\ rpc[r] = "idle"
    /\ file # None
    /\ rpc' = [rpc EXCEPT ![r] = "reading"]
    /\ rfd' = [rfd EXCEPT ![r] = file]
    /\ UNCHANGED <<file, tmp, data, writeVars, got, calm, crashes>>

\* Faulty variant: every chunk is read from what has the name by now.
ReadChunkByName(r) ==
    /\ Reading(r)
    /\ file # None
    /\ Len(got[r]) < Len(data[file])
    /\ got' = [got EXCEPT ![r] = Append(@, data[file][Len(@) + 1])]
    /\ UNCHANGED <<file, tmp, data, writeVars, rpc, rfd, calm, crashes>>

\* One Read and Send of the loop.
ReadChunk(r) ==
    /\ Reading(r)
    /\ Len(got[r]) < Len(data[rfd[r]])
    /\ got' = [got EXCEPT ![r] = Append(@, data[rfd[r]][Len(@) + 1])]
    /\ UNCHANGED <<file, tmp, data, writeVars, rpc, rfd, calm, crashes>>

\* Read returns io.EOF.
ReadEnds(r) ==
    /\ Reading(r)
    /\ Len(got[r]) >= Len(data[rfd[r]])
    /\ rpc' = [rpc EXCEPT ![r] = "done"]
    /\ rfd' = [rfd EXCEPT ![r] = None]
    /\ UNCHANGED <<file, tmp, data, writeVars, got, calm, crashes>>

-----------------------------------------------------------------------------

\* The server process dies and is started again: its calls are gone, the
\* directory is as they left it.
Crash ==
    /\ crashes < MaxCrashes
    /\ crashes' = crashes + 1
    /\ wpc' = [w \in Writer |-> IF Active(w) THEN "failed" ELSE wpc[w]]
    /\ fd' = [w \in Writer |-> None]
    /\ off' = [w \in Writer |-> 0]
    /\ rpc' = [r \in Reader |-> IF Reading(r) THEN "idle" ELSE rpc[r]]
    /\ rfd' = [r \in Reader |-> None]
    /\ got' = [r \in Reader |-> IF Reading(r) THEN <<>> ELSE got[r]]
    /\ UNCHANGED <<file, tmp, data, calm>>

Next ==
    \/ \E w \in Writer :
        \/ \E k \in Kind : Begin(w, k)
        \/ WriteChunk(w) \/ Install(w) \/ StreamBreaks(w) \/ SyncBreaks(w)
    \/ \E v \in Writer, n \in 0..NumChunks : SyncLeftover(v, n)
    \/ CreateFile \/ ReplicateCreate \/ DeleteFile
    \/ \E r \in Reader : OpenRead(r) \/ ReadChunk(r) \/ ReadEnds(r)
    \/ Crash

Spec == Init /\ [][Next]_vars

-----------------------------------------------------------------------------
(* Correctness *)

\* A content that one call brought, or that of a file just created.
Whole(c) == c = <<>> \/ \E w \in Writer : c = ContentOf(w)

\* Type invariant.
TypeOK ==
    /\ file \in Inode \cup {None}
    /\ tmp \in Inode \cup {None}
    /\ data \in [Inode -> Seq(Writer \cup {None})]
    /\ wpc \in [Writer -> Kind \cup {"idle", "stored", "failed"}]
    /\ fd \in [Writer -> Inode \cup {None}]
    /\ \A w \in Writer : Active(w) <=> fd[w] # None
    /\ off \in [Writer -> 0..NumChunks]
    /\ rpc \in [Reader -> {"idle", "reading", "done"}]
    /\ rfd \in [Reader -> Inode \cup {None}]
    /\ \A r \in Reader : Reading(r) <=> rfd[r] # None
    /\ got \in [Reader -> Seq(Writer \cup {None})]
    /\ calm \in BOOLEAN
    /\ crashes \in 0..MaxCrashes

\* Atomic writes: as long as calls that replace the file do not overlap and no
\* recovery stream breaks, the file holds a whole content at every moment, so
\* also after a crash at any point of StoreFile or Replicate, a stream that
\* breaks half way or a temporary file found from before.
CalmWhole == calm /\ file # None => Whole(data[file])

\* A FetchFile, a SyncState or a replication that reads the file while it is
\* replaced, deleted and created again delivers one whole content.
CalmReads == calm => \A r \in Reader : rpc[r] = "done" => Whole(got[r])

\* What the server promises: see WholeFile.  A content that is not whole has no
\* counterpart there.
Value(c) ==
    IF c = <<>> THEN Empty ELSE IF Whole(c) THEN c[1] ELSE None

AbsContent == IF file = None THEN Absent ELSE Value(data[file])

AbsOutcome ==
    [w \in Writer |-> IF wpc[w] \in {"stored", "failed"} THEN wpc[w] ELSE "pending"]

AbsResult ==
    [r \in Reader |-> IF rpc[r] = "done" THEN Value(got[r])
                      ELSE IF Reading(r) THEN Value(data[rfd[r]]) ELSE None]

Promise == INSTANCE WholeFile WITH
    content <- AbsContent, outcome <- AbsOutcome, result <- AbsResult

\* Each call takes effect at its rename or not at all (a call that fails leaves
\* the file as it is), and each read is a read at its os.Open.
KeepsPromise == Promise!Spec

-----------------------------------------------------------------------------
(* What the repository's texts say and the code does not do *)

\* README.md: "Atomic writes | WriteFile + Rename on server - partial writes
\* never corrupt the stored file".
StoredWhole == file # None => Whole(data[file])

=============================================================================
