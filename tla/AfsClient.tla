----------------------------- MODULE AfsClient -----------------------------
(***************************************************************************)
(* AFS clients with whole-file caches (afsfs/pkg/afs) and the server calls *)
(* they use (afsfs/pkg/server), on one output file: Open validates a       *)
(* cached copy with TestAuth or fetches the file, Write changes the local  *)
(* copy, Close stores it, CreateFile and DeleteFile change it at once.     *)
(* A handler that changes the file does so in two steps, first in the      *)
(* directory and then in the table of versions, and FetchFile opens the    *)
(* file before it reads the version: other calls come in between.          *)
(*                                                                         *)
(* Each client has one handle open at a time.  A handle opened for writing *)
(* need not be written to, so the mode of a handle is left out.  Calls go  *)
(* to one server; Replication has several, and the retries of calls.       *)
(***************************************************************************)
EXTENDS Integers, FiniteSets

CONSTANTS
    Client,
    Data,           \* contents of a file that has some
    Absent, Empty,  \* no file; a file without content
    MaxVersion,     \* bound: nothing is written from this version on
    MaxFaults       \* bound: calls that fail, crashes and restarts

ASSUME DataAssumption == Absent # Empty /\ Absent \notin Data /\ Empty \notin Data

ASSUME BoundAssumption == MaxVersion \in Nat /\ MaxFaults \in Nat

NoEntry == -1

VARIABLES
    srv,      \* the file on the server
    ver,      \* its entry in versions, 0 when there is none
    cpc,      \* where each client is
    cached,   \* cachedVersion of its cache entry, or NoEntry
    local,    \* its local copy
    dirty,    \* of its open handle
    got,      \* file its FetchFile has open
    fetched,  \* fetchVersion, kept from one attempt to the next
    faults,
    recent,   \* history: contents since no call was changing the file
    seen,     \* history: contents since each client's Open began
    old,      \* history: recent when it began, if it has a copy
    trusted,  \* history: it opened the local copy without a fetch
    raced,    \* history: the file changed under a client's call
    stale     \* history: the versions no longer tell about a client's copy

serverVars == <<srv, ver, recent>>
cacheVars == <<cached, local, stale>>
openVars == <<seen, old, trusted>>
fetchVars == <<got, fetched, openVars>>
vars == <<serverVars, cpc, cacheVars, dirty, fetchVars, raced, faults>>

Content == Data \cup {Absent, Empty}

\* The client's call has changed the directory and not yet the version.
Changing(c) == cpc[c] \in {"renamed", "creating", "deleting"}

\* It has looked at the file and not yet at the version, or changed it.
Exposed(c) == cpc[c] \in {"fetching", "renamed", "creating"}

Opening(c) == cpc[c] \in {"opened", "fetch", "fetching"}

\* The local copy is the one its cache entry is about.
Clean(c) == cpc[c] \notin {"storing", "renamed"} /\ ~dirty[c]

Fault == faults < MaxFaults /\ faults' = faults + 1

Goto(c, p) == cpc' = [cpc EXCEPT ![c] = p]

\* Client c's Open is over, and its history.
Forget(c) ==
    /\ seen' = [seen EXCEPT ![c] = {}]
    /\ old' = [old EXCEPT ![c] = {}]
    /\ trusted' = [trusted EXCEPT ![c] = FALSE]

Init ==
    /\ srv = Absent /\ ver = 0
    /\ cpc = [c \in Client |-> "idle"]
    /\ cached = [c \in Client |-> NoEntry]
    /\ local = [c \in Client |-> Absent]
    /\ dirty = [c \in Client |-> FALSE]
    /\ got = [c \in Client |-> Absent]
    /\ fetched = [c \in Client |-> 0]
    /\ faults = 0
    /\ recent = {Absent}
    /\ seen = [c \in Client |-> {}]
    /\ old = [c \in Client |-> {}]
    /\ trusted = [c \in Client |-> FALSE]
    /\ raced = [c \in Client |-> FALSE]
    /\ stale = [c \in Client |-> FALSE]

-----------------------------------------------------------------------------
(* What the server's handlers do.  A content is one chunk: a call reads all  *)
(* of it or nothing.                                                         *)

\* The first half of a change, by the handler of client c's call.
ChangeFile(c, content) ==
    /\ srv' = content
    /\ recent' = recent \cup {content}
    /\ seen' = [d \in Client |-> IF Opening(d) THEN seen[d] \cup {content} ELSE seen[d]]
    /\ raced' = [d \in Client |-> d # c /\ (raced[d] \/ Exposed(d))]
    /\ UNCHANGED <<old, trusted>>

\* The second half.
SetVersion(c, v) ==
    /\ ver' = v
    /\ recent' = IF \E d \in Client \ {c} : Changing(d) THEN recent ELSE {srv}

\* TestAuth: the name of a file that is not there resolves to the input
\* directory, where it has no version.
TestVersion == IF srv = Absent THEN 0 ELSE ver

-----------------------------------------------------------------------------
(* Open *)

\* The Open call; without a file it fails and nothing changes.
OpenCall(c) ==
    /\ cpc[c] = "idle"
    /\ srv # Absent
    /\ Goto(c, IF cached[c] = NoEntry THEN "fetch" ELSE "opened")
    /\ fetched' = [fetched EXCEPT ![c] = 0]
    /\ seen' = [seen EXCEPT ![c] = {srv}]
    /\ old' = [old EXCEPT ![c] = IF cached[c] = NoEntry THEN {} ELSE recent]
    /\ trusted' = [trusted EXCEPT ![c] = FALSE]
    /\ UNCHANGED <<serverVars, cacheVars, dirty, got, raced, faults>>

\* Faulty variant: a copy that is not newer than the server's is trusted.
TrustedUpTo(c) == cached[c] <= TestVersion

\* The answer of TestAuth.
Trusted(c) == cached[c] = TestVersion

\* TestAuth: a copy of the server's version is opened, any other fetched; also
\* when the call fails.
TestAuth(c) ==
    /\ cpc[c] = "opened"
    /\ \/ Trusted(c) /\ Goto(c, "open") /\ UNCHANGED faults
       \/ ~Trusted(c) /\ Goto(c, "fetch") /\ UNCHANGED faults
       \/ Trusted(c) /\ Goto(c, "fetch") /\ Fault
    /\ trusted' = [trusted EXCEPT ![c] = cpc'[c] = "open"]
    /\ UNCHANGED <<serverVars, cacheVars, dirty, got, fetched, seen, old, raced>>

\* FetchFile opens the file.
FetchOpen(c) ==
    /\ cpc[c] = "fetch"
    /\ srv # Absent
    /\ Goto(c, "fetching")
    /\ got' = [got EXCEPT ![c] = srv]
    /\ raced' = [raced EXCEPT ![c] = FALSE]
    /\ UNCHANGED <<serverVars, cacheVars, dirty, fetched, openVars, faults>>

\* fetchVersion after the chunks of an attempt: only a chunk brings a version,
\* and an earlier attempt's stays otherwise.
FetchedVersion(c) == IF got[c] # Empty /\ ver > 0 THEN ver ELSE fetched[c]

\* FetchFile reads the version and sends the content; the client puts both in
\* its cache.
FetchDone(c) ==
    /\ cpc[c] = "fetching"
    /\ Goto(c, "open")
    /\ cached' = [cached EXCEPT ![c] = FetchedVersion(c)]
    /\ local' = [local EXCEPT ![c] = got[c]]
    /\ got' = [got EXCEPT ![c] = Absent]
    /\ stale' = [stale EXCEPT ![c] =
                    raced[c] \/ (fetched[c] # 0 /\ FetchedVersion(c) # ver)]
    /\ UNCHANGED <<serverVars, dirty, fetched, openVars, raced, faults>>

\* The stream breaks, before or after a chunk, and is tried again.
FetchBreaks(c) ==
    /\ cpc[c] = "fetching"
    /\ Fault
    /\ Goto(c, "fetch")
    /\ \E v \in {fetched[c], FetchedVersion(c)} : fetched' = [fetched EXCEPT ![c] = v]
    /\ got' = [got EXCEPT ![c] = Absent]
    /\ UNCHANGED <<serverVars, cacheVars, dirty, openVars, raced>>

\* Every attempt has failed, or the file is gone: Open fails.
FetchFails(c) ==
    /\ cpc[c] = "fetch"
    /\ \/ srv = Absent /\ UNCHANGED faults
       \/ srv # Absent /\ Fault
    /\ Goto(c, "idle")
    /\ Forget(c)
    /\ UNCHANGED <<serverVars, cacheVars, dirty, got, fetched, raced>>

-----------------------------------------------------------------------------
(* Write and Close *)

\* Write, to the local copy only.
Write(c) ==
    /\ cpc[c] = "open"
    /\ ver < MaxVersion
    /\ \E x \in Data : local' = [local EXCEPT ![c] = x]
    /\ dirty' = [dirty EXCEPT ![c] = TRUE]
    /\ Forget(c)
    /\ UNCHANGED <<serverVars, cpc, cached, stale, got, fetched, raced, faults>>

\* Faulty variant: the handle stays in the table of open files.
CloseKeepsHandle(c) ==
    /\ cpc[c] = "open"
    /\ Goto(c, IF dirty[c] THEN "storing" ELSE "idle")
    /\ Forget(c)
    /\ UNCHANGED <<serverVars, cacheVars, dirty, got, fetched, raced, faults>>

\* Close of a handle; only a dirty one needs StoreFile.
Close(c) ==
    /\ cpc[c] = "open"
    /\ Goto(c, IF dirty[c] THEN "storing" ELSE "idle")
    /\ dirty' = [dirty EXCEPT ![c] = FALSE]
    /\ Forget(c)
    /\ UNCHANGED <<serverVars, cacheVars, got, fetched, raced, faults>>

\* StoreFile renames the new content into place.
StoreRename(c) ==
    /\ cpc[c] = "storing"
    /\ Goto(c, "renamed")
    /\ ChangeFile(c, local[c])
    /\ UNCHANGED <<ver, cacheVars, dirty, got, fetched, faults>>

\* Faulty variant: the version is not raised.
StoreDoneSameVersion(c) ==
    /\ cpc[c] = "renamed"
    /\ Goto(c, "idle")
    /\ SetVersion(c, ver)
    /\ cached' = [cached EXCEPT ![c] = IF @ = NoEntry THEN @ ELSE ver]
    /\ stale' = [stale EXCEPT ![c] = raced[c]]
    /\ UNCHANGED <<srv, local, dirty, fetchVars, raced, faults>>

\* It raises the version; the reply sets the cache entry's.
StoreDone(c) ==
    /\ cpc[c] = "renamed"
    /\ Goto(c, "idle")
    /\ SetVersion(c, ver + 1)
    /\ cached' = [cached EXCEPT ![c] = IF @ = NoEntry THEN @ ELSE ver + 1]
    /\ stale' = [stale EXCEPT ![c] = raced[c]]
    /\ UNCHANGED <<srv, local, dirty, fetchVars, raced, faults>>

\* No attempt reached the server: Close fails and leaves the local copy, under
\* the version it had before it was written to.
StoreFails(c) ==
    /\ cpc[c] = "storing"
    /\ Fault
    /\ Goto(c, "idle")
    /\ stale' = [stale EXCEPT ![c] = TRUE]
    /\ UNCHANGED <<serverVars, cached, local, dirty, fetchVars, raced>>

-----------------------------------------------------------------------------
(* CreateFile and DeleteFile *)

\* CreateFile looks for the file; where there is one it fails and nothing changes.
CreateStat(c) ==
    /\ cpc[c] = "idle"
    /\ srv = Absent
    /\ Goto(c, "statted")
    /\ UNCHANGED <<serverVars, cacheVars, dirty, fetchVars, raced, faults>>

\* It creates the file.  One that has come into being since is truncated in place,
\* also for a FetchFile that has it open.
CreateFile(c) ==
    /\ cpc[c] = "statted"
    /\ Goto(c, "creating")
    /\ ChangeFile(c, Empty)
    /\ \E cut \in SUBSET {d \in Client : cpc[d] = "fetching" /\ ~raced[d]} :
        got' = [d \in Client |-> IF d \in cut THEN Empty ELSE got[d]]
    /\ UNCHANGED <<ver, cacheVars, dirty, fetched, faults>>

\* A version that is set back leaves every copy behind.
CreateDone(c) ==
    /\ cpc[c] = "creating"
    /\ Goto(c, "open")
    /\ SetVersion(c, 1)
    /\ cached' = [cached EXCEPT ![c] = 1]
    /\ local' = [local EXCEPT ![c] = Empty]
    /\ seen' = [seen EXCEPT ![c] = {Empty}]
    /\ trusted' = [trusted EXCEPT ![c] = FALSE]
    /\ stale' = [d \in Client |-> IF d = c THEN raced[c] ELSE stale[d] \/ ver # 0]
    /\ UNCHANGED <<srv, dirty, got, fetched, old, raced, faults>>

\* DeleteFile, also where there is no file.
DeleteFile(c) ==
    /\ cpc[c] \in {"idle", "delete"}
    /\ Goto(c, "deleting")
    /\ ChangeFile(c, Absent)
    /\ stale' = [d \in Client |-> TRUE]
    /\ UNCHANGED <<ver, cached, local, dirty, got, fetched, faults>>

\* The version goes, then the local copy and the cache entry.
DeleteDone(c) ==
    /\ cpc[c] = "deleting"
    /\ Goto(c, "idle")
    /\ SetVersion(c, 0)
    /\ cached' = [cached EXCEPT ![c] = NoEntry]
    /\ local' = [local EXCEPT ![c] = Absent]
    /\ stale' = [d \in Client |-> d # c]
    /\ UNCHANGED <<srv, dirty, fetchVars, raced, faults>>

-----------------------------------------------------------------------------
(* Failures *)

\* The server completes a change and the client gives up before it knows.
Unanswered(c) ==
    /\ Changing(c)
    /\ Fault
    /\ Goto(c, "idle")
    /\ \/ cpc[c] = "renamed" /\ SetVersion(c, ver + 1) /\ UNCHANGED stale
       \/ /\ cpc[c] = "creating" /\ SetVersion(c, 1)
          /\ stale' = [d \in Client |-> stale[d] \/ ver # 0]
       \/ /\ cpc[c] = "deleting" /\ SetVersion(c, 0)
          /\ stale' = [d \in Client |-> TRUE]
    /\ UNCHANGED <<srv, cached, local, dirty, fetchVars, raced>>

\* A client process dies outside the server's calls and is started again with
\* an empty cache.
ClientCrash(c) ==
    /\ ~Exposed(c) /\ ~Changing(c) /\ cpc[c] # "statted"
    /\ Fault
    /\ Goto(c, "idle")
    /\ cached' = [cached EXCEPT ![c] = NoEntry]
    /\ dirty' = [dirty EXCEPT ![c] = FALSE]
    /\ Forget(c)
    /\ UNCHANGED <<serverVars, local, stale, got, fetched, raced>>

\* The server dies and is started again: initVersion gives every file version
\* 1.  Calls under way are tried again; a create finds its own file and fails, or
\* begins again.
ServerRestart ==
    /\ Fault
    /\ ver' = IF srv = Absent THEN 0 ELSE 1
    /\ recent' = {srv}
    /\ cpc' = [c \in Client |-> CASE cpc[c] = "fetching" -> "fetch"
                                  [] cpc[c] = "renamed"  -> "storing"
                                  [] cpc[c] \in {"statted", "creating"} -> "idle"
                                  [] cpc[c] = "deleting" -> "delete"
                                  [] OTHER -> cpc[c]]
    /\ got' = [c \in Client |-> Absent]
    /\ stale' = [c \in Client |-> TRUE]
    /\ UNCHANGED <<srv, cached, local, dirty, fetched, openVars, raced>>

Next ==
    \/ \E c \in Client :
        \/ OpenCall(c) \/ TestAuth(c)
        \/ FetchOpen(c) \/ FetchDone(c) \/ FetchBreaks(c) \/ FetchFails(c)
        \/ Write(c) \/ Close(c) \/ StoreRename(c) \/ StoreDone(c) \/ StoreFails(c)
        \/ CreateStat(c) \/ CreateFile(c) \/ CreateDone(c) \/ DeleteFile(c) \/ DeleteDone(c)
        \/ Unanswered(c) \/ ClientCrash(c)
    \/ ServerRestart

Spec == Init /\ [][Next]_vars

-----------------------------------------------------------------------------
(* Correctness *)

\* Type invariant.
TypeOK ==
    /\ srv \in Content
    /\ ver \in Nat
    /\ cpc \in [Client -> {"idle", "opened", "fetch", "fetching", "open", "storing",
                           "renamed", "statted", "creating", "delete", "deleting"}]
    /\ cached \in [Client -> Nat \cup {NoEntry}]
    /\ local \in [Client -> Content]
    /\ dirty \in [Client -> BOOLEAN]
    /\ \A c \in Client : dirty[c] => cpc[c] = "open" /\ local[c] \in Data
    /\ got \in [Client -> Content]
    /\ fetched \in [Client -> Nat]
    /\ faults \in 0..MaxFaults
    /\ recent \in SUBSET Content
    /\ seen \in [Client -> SUBSET Content]
    /\ old \in [Client -> SUBSET Content]
    /\ trusted \in [Client -> BOOLEAN]
    /\ raced \in [Client -> BOOLEAN]
    /\ stale \in [Client -> BOOLEAN]

\* Versions tell: a copy with the server's version, whose file has not been
\* deleted, whose server has not been restarted and which no change raced with,
\* is what the file holds, or held until a change still under way.
ValidIsCurrent ==
    \A c \in Client :
        Clean(c) /\ cached[c] = ver /\ ~stale[c] => local[c] \in recent

\* An Open that fetched the file returns a content that the file had while Open
\* ran, whatever changes, failed attempts, restarts and truncations came in
\* between.  An Open whose copy TestAuth trusted does so too, or returns what a
\* change that was half done when Open began had replaced: the version is raised
\* after the file.  That much only holds as long as the copy is not stale.
OpenFresh ==
    \A c \in Client :
        cpc[c] = "open" /\ ~dirty[c] =>
            \/ local[c] \in seen[c]
            \/ trusted[c] /\ (stale[c] \/ local[c] \in old[c])

-----------------------------------------------------------------------------
(* What the repository's texts say and the code does not do *)

\* README.md: "Cache consistency | `TestAuth` RPC checks server version before
\* trusting local copy": while the file is there and no call is changing it, a
\* copy that TestAuth trusts is what the server holds, even if only of copies that
\* no change raced with when they were taken.
TrustedIsCurrent ==
    (srv # Absent /\ \A d \in Client : ~Changing(d))
        => \A c \in Client :
            cpc[c] = "opened" /\ Trusted(c) /\ ~raced[c] => local[c] = srv

=============================================================================
