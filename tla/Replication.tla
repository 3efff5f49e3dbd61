---------------------------- MODULE Replication ----------------------------
(***************************************************************************)
(* Primary-backup replication of one output file among the AFS servers:    *)
(* the changing calls of handler.go with their dedup table, replication.go,*)
(* recovery with SyncState, and the client's retries (client.go).  A       *)
(* handler applies its operation at the primary in one step, replicates it *)
(* to each peer on its own, and answers when every peer is through with    *)
(* it; a call the client has given up on runs on.  ServerFile and          *)
(* AfsClient have the steps inside one server.                             *)
(*                                                                         *)
(* The servers agree on the primary: Election has the ways to it, and to   *)
(* two of them.  A server runs one recovery at a time.  One client makes   *)
(* one call after the other.                                               *)
(***************************************************************************)
EXTENDS Integers, FiniteSets

CONSTANTS
    Server,
    None,         \* no server
    Slot,         \* bound: places of calls being handled at the same time
    MaxRequests,  \* bound: requests of the client
    MaxAttempts,  \* maxRetries of client.go
    MaxCrashes,   \* bound: crashes of servers
    MaxFaults     \* bound: calls that are given up or get lost

ASSUME ServerAssumption == None \notin Server \cup Slot

ASSUME BoundAssumption ==
    /\ MaxRequests \in Nat /\ MaxAttempts \in Nat \ {0}
    /\ MaxCrashes \in Nat /\ MaxFaults \in Nat

VARIABLES
    up,        \* of each server's process
    primary,   \* the server with h.primary, or None
    disk,      \* the file at each server
    ver,       \* its entry in versions, 0 when there is none
    dedup,     \* dedupTable has the client's request; those before it are not asked for
    sync,      \* where syncFromPrimaryWithRetry is
    handler,   \* the calls being handled
    request,   \* number of the client's request, and its operation
    op,
    cpc,       \* where the client is
    attempt,
    conn,      \* server it is connected to
    waiting,   \* call whose answer it is waiting for, or None
    crashes, faults,
    want,      \* history: what the client's requests may have made of the file
    newest,    \* history: the call the present primary applied last, or None
    suspect,   \* history: a server whose copy need not be one of those
    exec,      \* history: times a server has applied the request
    died,      \* history: the server has crashed since it last did
    overlap    \* history: an attempt was applied while an earlier one still ran

serverVars == <<up, primary, crashes>>
fileVars == <<disk, ver>>
clientVars == <<request, op, cpc, attempt, conn, waiting>>
onceVars == <<exec, died, overlap>>
historyVars == <<want, newest, suspect>>
vars == <<serverVars, fileVars, dedup, sync, handler, clientVars, faults, historyVars,
          onceVars>>

Absent == 0   \* no file
Empty == -1   \* a file without content
Torn == -2    \* the beginning of a content
Data == 1..MaxRequests   \* the content that the request of that number stores
Content == Data \cup {Absent, Empty, Torn}

Op == {"store", "create", "delete"}

\* What an operation of request r makes of the file.
Effect(o, r) ==
    CASE o = "store" -> r
      [] o = "create" -> Empty
      [] o = "delete" -> Absent

\* A call being handled: the server, whether it is still up, and for each peer how
\* far its replication is and what it has sent.
Handler == [at : Server \cup {None}, alive : BOOLEAN, id : 0..MaxRequests,
            version : Nat, rep : [Server -> {"open", "sent", "done"}],
            data : [Server -> Content]]

\* A recovery: the version listed, and the content once it is read.  Of its history:
\* it is not to be relied on, and its temporary file has been taken away.
Sync == [pc : {"idle", "ask", "listed", "writing"}, src : Server \cup {None},
         version : Nat, data : Content, bad : BOOLEAN, taken : BOOLEAN]

\* A call that has not been taken up; its fields have no meaning.
NoCall == [at |-> None, alive |-> FALSE, id |-> 0, version |-> 0,
           rep |-> [p \in Server |-> "done"], data |-> [p \in Server |-> Absent]]

NoSync == [pc |-> "idle", src |-> None, version |-> 0, data |-> Absent,
           bad |-> FALSE, taken |-> FALSE]

\* A file that is sent in chunks, and so written to the temporary file first.
Sent(content) == content \notin {Absent, Empty}

Free(k) == handler[k].at = None

Fault == faults < MaxFaults /\ faults' = faults + 1

Init ==
    /\ up = [s \in Server |-> TRUE]
    /\ primary \in Server
    /\ disk = [s \in Server |-> Absent]
    /\ ver = [s \in Server |-> 0]
    /\ dedup = [s \in Server |-> FALSE]
    /\ sync = [s \in Server |-> NoSync]
    /\ handler = [k \in Slot |-> NoCall]
    /\ request = 0 /\ op = "delete"
    /\ cpc = "idle" /\ attempt = 0 /\ conn = primary /\ waiting = None
    /\ crashes = 0 /\ faults = 0
    /\ want = {Absent} /\ newest = None
    /\ suspect = [s \in Server |-> FALSE]
    /\ exec = [s \in Server |-> 0] /\ died = [s \in Server |-> FALSE]
    /\ overlap = FALSE

-----------------------------------------------------------------------------
(* The client *)

\* A call of the application: a new reqSeq, the connection of the last one.
Request ==
    /\ cpc = "idle"
    /\ request < MaxRequests
    /\ request' = request + 1
    /\ op' \in Op
    /\ cpc' = "call" /\ attempt' = 1
    /\ dedup' = [s \in Server |-> FALSE]
    /\ exec' = [s \in Server |-> 0] /\ died' = [s \in Server |-> FALSE]
    /\ overlap' = FALSE
    /\ UNCHANGED <<serverVars, fileVars, sync, handler, conn, waiting, faults,
                   historyVars>>

\* The call returns to the application.
Return ==
    /\ cpc' = "idle" /\ attempt' = 0 /\ waiting' = None
    /\ UNCHANGED <<request, op, conn, onceVars>>

\* It returns with an answer.
Acknowledge == Return /\ want' = {Effect(op, request)}

Retry ==
    /\ cpc' = "retry" /\ waiting' = None
    /\ UNCHANGED <<request, op, attempt, conn>>

\* Faulty variant: one attempt too many.
ReconnectOnceMore ==
    /\ cpc = "retry"
    /\ attempt <= MaxAttempts
    /\ attempt' = attempt + 1
    /\ conn' = IF primary = None THEN conn ELSE primary
    /\ cpc' = "call"
    /\ UNCHANGED <<serverVars, fileVars, dedup, sync, handler, request, op, waiting,
                   faults, historyVars, onceVars>>

\* reconnectToPrimary, to the primary if there is one.
Reconnect ==
    /\ cpc = "retry"
    /\ attempt < MaxAttempts
    /\ attempt' = attempt + 1
    /\ conn' = IF primary = None THEN conn ELSE primary
    /\ cpc' = "call"
    /\ UNCHANGED <<serverVars, fileVars, dedup, sync, handler, request, op, waiting,
                   faults, historyVars, onceVars>>

\* The last attempt has failed; the application gets an error.
GiveUp ==
    /\ cpc = "retry"
    /\ attempt = MaxAttempts
    /\ Return
    /\ UNCHANGED <<serverVars, fileVars, dedup, sync, handler, faults, historyVars>>

\* The server is down, or answers "not primary".
CallFails ==
    /\ cpc = "call"
    /\ ~up[conn] \/ conn # primary
    /\ Retry
    /\ UNCHANGED <<serverVars, fileVars, dedup, sync, handler, faults, historyVars,
                   onceVars>>

\* The client gives up waiting; the handler runs on.
Timeout ==
    /\ cpc = "wait"
    /\ Fault
    /\ Retry
    /\ UNCHANGED <<serverVars, fileVars, dedup, sync, handler, historyVars, onceVars>>

-----------------------------------------------------------------------------
(* The handlers of the primary *)

Accepted == cpc = "call" /\ up[conn] /\ conn = primary

\* The file at server t becomes content.  A recovery that reads or writes it at
\* this time is not to be relied on, and one at t loses its temporary file, which
\* has the same name, to a store.
Disturb(t, content) ==
    sync' = [s \in Server |->
        IF sync[s].pc \in {"idle", "ask"} \/ t \notin {s, sync[s].src} THEN sync[s]
        ELSE [sync[s] EXCEPT !.bad = TRUE,
                !.taken = @ \/ (s = t /\ sync[s].pc = "writing" /\ Sent(content))]]

\* A request that is in the dedup table gets the same answer again.
Dedup ==
    /\ Accepted
    /\ dedup[conn]
    /\ Acknowledge
    /\ UNCHANGED <<serverVars, fileVars, dedup, sync, handler, faults, newest, suspect>>

\* CreateFile where there is a file: an error, which is not kept for a retry.
CreateExists ==
    /\ Accepted
    /\ ~dedup[conn]
    /\ op = "create" /\ disk[conn] # Absent
    /\ Return
    /\ UNCHANGED <<serverVars, fileVars, dedup, sync, handler, faults, historyVars>>

\* The version that an operation leaves behind at server s.
NewVersion(s) ==
    CASE op = "store" -> ver[s] + 1
      [] op = "create" -> 1
      [] op = "delete" -> 0

\* StoreFile, CreateFile and DeleteFile change the file and its version and
\* start replicateStreamToAll, one goroutine for each peer.
Apply(k) ==
    /\ Accepted
    /\ ~dedup[conn]
    /\ op = "create" => disk[conn] = Absent
    /\ Free(k)
    /\ disk' = [disk EXCEPT ![conn] = Effect(op, request)]
    /\ ver' = [ver EXCEPT ![conn] = NewVersion(conn)]
    /\ handler' = [handler EXCEPT ![k] =
            [at |-> conn, alive |-> TRUE, id |-> request, version |-> NewVersion(conn),
             rep |-> [p \in Server |-> IF p = conn THEN "done"
                                       ELSE IF op = "store" THEN "open" ELSE "sent"],
             data |-> [p \in Server |-> IF op = "create" /\ p # conn THEN Empty ELSE Absent]]]
    /\ Disturb(conn, Effect(op, request))
    /\ cpc' = "wait" /\ waiting' = k
    /\ want' = want \cup {Effect(op, request)}
    /\ newest' = k
    /\ suspect' = [suspect EXCEPT ![conn] = FALSE]
    /\ exec' = [exec EXCEPT ![conn] = @ + 1]
    /\ died' = [died EXCEPT ![conn] = FALSE]
    /\ overlap' = (overlap \/ \E j \in Slot : handler[j].at = conn
                                              /\ handler[j].id = request)
    /\ UNCHANGED <<serverVars, dedup, request, op, attempt, conn, faults>>

\* replicateStreamToPeer opens the file it is about to send, as it is by now;
\* without content nothing is sent and nothing happens at the peer.
ReplicateOpen(k, p) ==
    /\ handler[k].rep[p] = "open"
    /\ LET found == disk[handler[k].at] IN
        handler' = [handler EXCEPT
            ![k].rep[p] = IF Sent(found) THEN "sent" ELSE "done",
            ![k].data[p] = IF Sent(found) THEN found ELSE Absent]
    /\ suspect' = [suspect EXCEPT ![p] = @ \/ ~Sent(disk[handler[k].at])]
    /\ newest' = IF newest = k /\ suspect[handler[k].at] THEN None ELSE newest
    /\ UNCHANGED <<serverVars, fileVars, dedup, sync, clientVars, faults, want, onceVars>>

\* Faulty variant: the first to be through is enough.
ReplicatedSome(h) == \E p \in Server : h.rep[p] = "done"

\* wg.Wait has every goroutine's Done.
Replicated(h) == \A p \in Server : h.rep[p] = "done"

\* Peer p is through with the call; a dead primary's call ends with the last one.
Through(k, p) ==
    LET h == [handler[k] EXCEPT !.rep[p] = "done", !.data[p] = Absent]
        over == ~h.alive /\ Replicated(h)
    IN  /\ handler' = [handler EXCEPT ![k] = IF over THEN NoCall ELSE h]
        /\ newest' = IF over /\ newest = k THEN None ELSE newest

\* Faulty variant: the peer counts versions by itself.
ReplicateCounts(k, p) ==
    /\ handler[k].rep[p] = "sent"
    /\ up[p]
    /\ disk' = [disk EXCEPT ![p] = handler[k].data[p]]
    /\ ver' = [ver EXCEPT ![p] = IF handler[k].data[p] = Absent THEN 0 ELSE @ + 1]
    /\ Through(k, p)
    /\ Disturb(p, handler[k].data[p])
    /\ suspect' = [suspect EXCEPT ![p] = k # newest]
    /\ UNCHANGED <<serverVars, dedup, clientVars, faults, want, onceVars>>

\* Replicate at the peer: the file as sent, under the version it was sent with.  Two
\* calls for one file come one after the other: what overlapping ones make of the
\* temporary file they share is left out.
Replicate(k, p) ==
    /\ handler[k].rep[p] = "sent"
    /\ up[p]
    /\ disk' = [disk EXCEPT ![p] = handler[k].data[p]]
    /\ ver' = [ver EXCEPT ![p] = handler[k].version]
    /\ Through(k, p)
    /\ Disturb(p, handler[k].data[p])
    /\ suspect' = [suspect EXCEPT ![p] = k # newest]
    /\ UNCHANGED <<serverVars, dedup, clientVars, faults, want, onceVars>>

\* The call fails: the peer is down, the caller has died, or the network fails.
\* The caller only logs it.
ReplicateFails(k, p) ==
    /\ handler[k].rep[p] # "done"
    /\ Through(k, p)
    /\ \/ (~up[p] \/ ~handler[k].alive) /\ UNCHANGED <<faults, suspect>>
       \/ up[p] /\ handler[k].alive /\ Fault /\ suspect' = [suspect EXCEPT ![p] = TRUE]
    /\ UNCHANGED <<serverVars, fileVars, dedup, sync, clientVars, want, onceVars>>

\* Faulty variant: the answer is not kept.
FinishForgets(k) ==
    /\ handler[k].alive
    /\ Replicated(handler[k])
    /\ handler' = [handler EXCEPT ![k] = NoCall]
    /\ newest' = IF newest = k THEN None ELSE newest
    /\ \/ waiting = k /\ Acknowledge /\ UNCHANGED faults
       \/ waiting = k /\ Retry /\ Fault /\ UNCHANGED <<want, onceVars>>
       \/ waiting # k /\ UNCHANGED <<clientVars, faults, want, onceVars>>
    /\ UNCHANGED <<serverVars, fileVars, sync, suspect, dedup>>

\* Every peer is through: the answer goes into the dedup table and to the
\* client, which it may not reach.
Finish(k) ==
    /\ handler[k].alive
    /\ Replicated(handler[k])
    /\ dedup' = [dedup EXCEPT ![handler[k].at] = @ \/ handler[k].id = request]
    /\ handler' = [handler EXCEPT ![k] = NoCall]
    /\ newest' = IF newest = k THEN None ELSE newest
    /\ \/ waiting = k /\ Acknowledge /\ UNCHANGED faults
       \/ waiting = k /\ Retry /\ Fault /\ UNCHANGED <<want, onceVars>>
       \/ waiting # k /\ UNCHANGED <<clientVars, faults, want, onceVars>>
    /\ UNCHANGED <<serverVars, fileVars, sync, suspect>>

-----------------------------------------------------------------------------
(* Crashes and elections *)

\* What call k has for peer p does not arrive when server s dies.
Lost(k, p, s) ==
    \/ p = s /\ handler[k].rep[p] = "sent"
    \/ handler[k].at = s /\ handler[k].rep[p] = "open"

\* A server dies.  What its handlers have sent may still arrive; recoveries that
\* have not received any of it ask again.
Crash(s) ==
    /\ up[s]
    /\ crashes < MaxCrashes
    /\ crashes' = crashes + 1
    /\ up' = [up EXCEPT ![s] = FALSE]
    /\ primary' = IF primary = s THEN None ELSE primary
    /\ ver' = [ver EXCEPT ![s] = 0]
    /\ dedup' = [dedup EXCEPT ![s] = FALSE]
    /\ handler' = [k \in Slot |->
            LET h == [handler[k] EXCEPT
                        !.alive = @ /\ handler[k].at # s,
                        !.rep = [p \in Server |-> IF Lost(k, p, s) THEN "done" ELSE @[p]],
                        !.data = [p \in Server |-> IF Lost(k, p, s) THEN Absent ELSE @[p]]]
            IN  IF ~h.alive /\ Replicated(h) THEN NoCall ELSE h]
    /\ newest' = IF newest # None /\ handler'[newest].at = None THEN None ELSE newest
    /\ suspect' = [suspect EXCEPT ![s] = TRUE]
    /\ sync' = [t \in Server |->
            IF t = s THEN NoSync
            ELSE IF sync[t].pc = "listed" /\ sync[t].src = s
                 THEN [NoSync EXCEPT !.pc = "ask"] ELSE sync[t]]
    /\ IF waiting # None /\ handler[waiting].at = s
       THEN Retry ELSE UNCHANGED clientVars
    /\ died' = [died EXCEPT ![s] = TRUE]
    /\ UNCHANGED <<disk, faults, want, exec, overlap>>

\* It is started again as a backup: initVersion, then recovery.
Restart(s) ==
    /\ ~up[s]
    /\ up' = [up EXCEPT ![s] = TRUE]
    /\ ver' = [ver EXCEPT ![s] = IF disk[s] = Absent THEN 0 ELSE 1]
    /\ sync' = [sync EXCEPT ![s].pc = "ask"]
    /\ UNCHANGED <<primary, crashes, disk, dedup, handler, clientVars, faults, historyVars,
                   onceVars>>

\* An election, and AnnouncePrimary at the other live servers.  A recovery that
\* has the whole file from the old primary by then is not to be relied on.
Promote(s) ==
    /\ primary = None
    /\ up[s]
    /\ primary' = s
    /\ sync' = [t \in Server |->
            IF t # s /\ up[t] /\ sync[t].pc = "idle" THEN [sync[t] EXCEPT !.pc = "ask"]
            ELSE [sync[t] EXCEPT !.bad = @ \/ sync[t].pc = "writing"]]
    /\ newest' = None
    /\ UNCHANGED <<up, crashes, fileVars, dedup, handler, clientVars, faults, want, suspect,
                   onceVars>>

-----------------------------------------------------------------------------
(* Recovery *)

SyncTo(s, record) ==
    /\ sync' = [sync EXCEPT ![s] = record]
    /\ UNCHANGED <<serverVars, fileVars, dedup, handler, clientVars, faults,
                   historyVars, onceVars>>

\* SyncState at the primary lists the file and reads its version.
SyncList(s) ==
    /\ sync[s].pc = "ask"
    /\ primary \notin {None, s}
    /\ SyncTo(s, IF disk[primary] = Absent THEN NoSync
                 ELSE [NoSync EXCEPT !.pc = "listed", !.src = primary,
                                     !.version = ver[primary], !.bad = suspect[primary]])

\* The server has become the primary itself.
SyncUseless(s) ==
    /\ sync[s].pc = "ask"
    /\ primary = s
    /\ SyncTo(s, NoSync)

\* SyncState opens the file and sends its first chunk, if it has any; nothing is
\* written where the version is as high already.
SyncOpen(s) ==
    /\ sync[s].pc = "listed"
    /\ LET found == disk[sync[s].src]
           upToDate == ver[s] # 0 /\ ver[s] >= sync[s].version
       IN  SyncTo(s, IF ~Sent(found) \/ upToDate THEN NoSync
                     ELSE [sync[s] EXCEPT !.pc = "writing", !.data = found])

\* A recovery ends.  Where a store has taken its temporary file away, what it
\* still wrote went into the file in place, and its rename does nothing.
SyncWrite(s, content, pc) ==
    /\ \E x \in IF ~sync[s].taken THEN {content}
              ELSE IF sync[s].data = disk[s] THEN {disk[s]} ELSE {disk[s], Torn} :
        disk' = [disk EXCEPT ![s] = x]
    /\ ver' = [ver EXCEPT ![s] = sync[s].version]
    /\ sync' = [t \in Server |->
            IF t = s THEN [NoSync EXCEPT !.pc = pc]
            ELSE IF sync[t].src = s THEN [sync[t] EXCEPT !.bad = TRUE] ELSE sync[t]]
    /\ UNCHANGED <<serverVars, dedup, handler, clientVars, want, newest, onceVars>>

\* The end of the stream: the file is renamed into place.
SyncFinish(s) ==
    /\ sync[s].pc = "writing"
    /\ SyncWrite(s, sync[s].data, "idle")
    /\ UNCHANGED faults
    /\ suspect' = [suspect EXCEPT ![s] = sync[s].bad]

\* The primary dies or the stream breaks: what has been received is renamed into
\* place all the same, and the recovery starts again.
SyncBreaks(s) ==
    /\ sync[s].pc = "writing"
    /\ IF up[sync[s].src] THEN Fault ELSE UNCHANGED faults
    /\ SyncWrite(s, Torn, "ask")
    /\ suspect' = [suspect EXCEPT ![s] = TRUE]

Next ==
    \/ Request \/ Reconnect \/ GiveUp \/ CallFails \/ Timeout \/ Dedup \/ CreateExists
    \/ \E k \in Slot : Apply(k) \/ Finish(k)
    \/ \E k \in Slot, p \in Server :
        ReplicateOpen(k, p) \/ Replicate(k, p) \/ ReplicateFails(k, p)
    \/ \E s \in Server :
        \/ Crash(s) \/ Restart(s) \/ Promote(s)
        \/ SyncList(s) \/ SyncUseless(s) \/ SyncOpen(s) \/ SyncFinish(s)
        \/ SyncBreaks(s)

Spec == Init /\ [][Next]_vars

-----------------------------------------------------------------------------
(* Correctness *)

\* Type invariant.
TypeOK ==
    /\ up \in [Server -> BOOLEAN]
    /\ primary \in Server \cup {None}
    /\ primary # None => up[primary]
    /\ disk \in [Server -> Content]
    /\ ver \in [Server -> Nat]
    /\ dedup \in [Server -> BOOLEAN]
    /\ sync \in [Server -> Sync]
    /\ handler \in [Slot -> Handler]
    /\ request \in 0..MaxRequests
    /\ op \in Op
    /\ cpc \in {"idle", "call", "wait", "retry"}
    /\ attempt \in 0..MaxAttempts
    /\ conn \in Server
    /\ waiting \in Slot \cup {None}
    /\ (cpc = "wait") <=> (waiting # None)
    /\ crashes \in 0..MaxCrashes /\ faults \in 0..MaxFaults
    /\ want \in SUBSET Content
    /\ newest \in Slot \cup {None}
    /\ suspect \in [Server -> BOOLEAN]
    /\ exec \in [Server -> Nat]
    /\ died \in [Server -> BOOLEAN]
    /\ overlap \in BOOLEAN

\* Synchronous replication: once a request is acknowledged every live server
\* holds its effect, a new primary too, and before that what the requests since
\* the last acknowledged one may have left.  Suspect are servers still to recover
\* from a crash, those a replication call failed at, and those written to by a
\* call that is not the present primary's newest or by a recovery that met with a
\* change or outlived the primary it recovers from.
AckedOnLive == \A s \in Server : up[s] /\ ~suspect[s] => disk[s] \in want

\* The client's last request has been acknowledged.
Settled == cpc = "idle" /\ want = {Effect(op, request)}

\* A cached version means the same at every server: after an acknowledged
\* request, live servers that are not suspect have the same version.  Of a store
\* whose attempts overlapped each attempt counts at the primary, and a server that
\* the last one missed keeps the version of the one before.
AgreedVersions ==
    Settled /\ (op = "store" => ~overlap) =>
        \A s, t \in Server :
            up[s] /\ up[t] /\ ~suspect[s] /\ ~suspect[t] => ver[s] = ver[t]

\* A server is still at work on an attempt of the client's request.
AtWork(s) == \E k \in Slot : handler[k].at = s /\ handler[k].alive /\ handler[k].id = request

\* What the dedup table does for a retry.  README.md says that it "prevents double
\* execution on retry".  It does not altogether: a retry that comes while the first
\* attempt still runs finds no entry yet, and one that comes after a crash finds the
\* table gone, which is kept in memory only.  There is no third way: a server that
\* applies a request once more has crashed since, or is still at work on it.
RepeatExplained ==
    [][\A s \in Server :
        exec[s] > 0 /\ exec'[s] > exec[s] => died[s] \/ AtWork(s)]_vars

-----------------------------------------------------------------------------
(* What the repository's texts say and the code does not do *)

\* README.md: "Self-healing | Recovered server pulls all missed files from
\* current primary via `SyncState`": after an acknowledged request, when no call
\* and no recovery is under way, every live server has a file that the primary
\* has with content.
RecoveredMatches ==
    (/\ Settled /\ primary # None /\ (\A k \in Slot : Free(k))
     /\ \A s \in Server : sync[s].pc = "idle")
    => (disk[primary] \in Data => \A s \in Server : up[s] => disk[s] = disk[primary])

=============================================================================
