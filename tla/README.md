# Verification of PrimefinderApplication

The repository holds two Go programs. **AFS** (`afsfs/`) is a replicated
whole-file store: three servers, one of them primary, with heartbeats, an
election, replication and a caching client. **PrimeFinder** (`primefinder/`)
is a batch job on top of it: a coordinator reads input files from AFS, has
workers find the primes in them, snapshots its progress to AFS after every
file and writes one sorted output file. This directory holds TLA+ models of
both, the TLC runs over them and TLAPS proofs about them.

## Inventory

| Component | State | Operations | What makes it correct |
|---|---|---|---|
| Coordinator (`pkg/coordinator`, `cmd/coordinator`) | files, completed files, collected primes, connected workers, goroutines, result channel | discover, recover, connect, assign, process and reassign, merge, snapshot, write the output, clean up | the output is the primes of whole files; one surviving worker is enough; recovery repeats nothing that was completed; every run ends |
| Snapshots (`pkg/snapshot`) | two kinds of JSON files on AFS | markers, save (delete, create, store), load, delete | a stored snapshot is self-consistent and durable at the loop head; the marker round is a consistent cut |
| Worker (`cmd/worker`) | completed files and primes in memory | `Health`, `ProcessFile` (a stream), `/snapshot` | a file is recorded before its stream ends |
| Primality test (`pkg/prime`) | none | `IsPrime`, `modpow`, `mulmod`, `addmod` | agrees with the definition, without overflow |
| Election (`election.go`, `heartbeat.go`, start of `cmd/server`) | role, known primary, monitor, sender, timers | heartbeats, monitor, probes, election, announcement, `GetPrimary` | a primary yields only to a smaller identifier; every server finds a primary as long as somebody watches for one |
| File store and replication (`handler.go`, `replication.go`) | files and temporary files, versions, dedup table, handles | open, fetch, store, create, delete, replicate | no partial content; acknowledged stores survive a failover; a request is executed again only where its answer was lost or is not there yet |
| Recovery sync (`handler.go`) | files being pulled | `SyncState`, receive, put in place | a recovered replica has what the primary has |
| Client and cache (`pkg/afs`) | cached files, versions, dirty bits, current server | open, read, write, close, create, delete with retries and failover | close-to-open consistency |

The coordinator calls workers over gRPC streams and HTTP markers; coordinator
and workers call AFS through `afs.Client`; AFS servers call each other. What is
hard in this code: goroutines that share workers and a channel, crashes of the
coordinator between the three AFS calls of one save, streams that break half
way, handlers that outlive their callers, elections whose liveness probe is a
call that itself waits for other servers, calls that share one temporary name,
a file and its version that change in separate steps, and recovery that runs
beside replication. `PROJECT.json` lists the hazards at their lines.

## Modules

**`Coordinator`** models `coordinator.Run` with the snapshots and workers it
drives. `pc` is Run's position; `todo` and `task` are the goroutines, one per
connected worker, with a task's phase following `processOneFile` and
`tryWorker` (`call`, `open`, `saving`, `eof`, `broken`); `resultCh` is the
buffered channel; `snapFile`, `outFile` and `workerFiles` are on AFS and
survive crashes; `workerCompleted` is a worker's memory. `writeToAFS` and
`writeFinalOutput` are three actions each, one per AFS call. A loop over
workers is one action per worker (`visited`). `orphans` are `ProcessFile`
handlers whose caller is gone. Primes are sets, because the code de-duplicates
wherever lists meet. AFS is seen through its client: a call takes effect, or it
is a *fault* (retries or timeout exhausted) and reports an error with or
without having taken effect. A worker is named by its position on both sides.
`crashed` and `cut` are history variables.

**`PrimeJob`** is what a job looks like from outside: files are accepted one by
one and whole, what is accepted may be saved, a crash leaves what was saved or
nothing, and what is published is the primes of the files accepted by then.
`Coordinator` implements it (`ImplementsJob`): `accepted` is `completedFiles`,
`saved` what the snapshot lists, `output` the content of the output file.

**`WordArith`, `MillerRabin`** translate `pkg/prime` over words of `Width` bits
with wrapping `+` and `-`. Loops are recursive functions of the iteration
number. `MCMillerRabin` enumerates the arguments as states and holds the
reference definitions.

**`Election`** models the servers with explicit time. A tick is one second and
the waits have the code's lengths (heartbeat 1, timeout 3, grace 6, probe 1,
question at start-up 2). Local steps and calls are over before the next tick,
in any order, and `Tick` waits for whatever is due (`Urgent`). The exception is
`GetPrimary`: a backup passes it on to the primary it knows or to its first
live peer (`Hop`); when the chain reaches no primary (`Answers` is false) the
question goes round until the caller's timeout. `isAlive` is such a call.
At most one server is down at a time, the failure the design is made for.
Two senders of one server are one. The ping with which a client tries the
primary it was told of counts as a heartbeat where it arrives, and may put off
an election there (`ClientPing`). The sync goroutine an election starts does
not touch this state.

**`ServerFile`** is one output file in one server's directory, at the level of
the operating system: names (`file`, `tmp`) refer to inodes, `os.Create`
truncates the inode that has the name, a rename moves a name, and descriptors
(`fd`, `rfd`) keep their inode. `StoreFile` and `Replicate` are one kind of
replacing call, since they treat their stream alike, and the receiving end of
`SyncState` is the other. Reads are chunk by chunk. A crash ends all calls and
leaves the directory. The history variable `calm` records that no two replacing
calls overlapped, no recovery stream broke and no replicated create truncated a
file under a reader.

**`WholeFile`** is what a server promises of the file: a store takes effect at
one moment or not at all, a read delivers the content of one moment. `Next`
binds as long as `calm` holds. `ServerFile` implements it (`KeepsPromise`): a
store is its rename, a read its `os.Open`.

**`AfsClient`** models several clients with their caches and the server calls
they use, on one file. A change at the server is two steps, in the directory
(`ChangeFile`) and in the table of versions (`SetVersion`), and `FetchFile`
opens the file before it reads the version. `CreateFile` is three steps: its
`os.Stat`, its `os.Create`, which truncates what has come into being since, and
its version. A content is one chunk here; `ServerFile` has the chunks. `cached`,
`local` and `dirty` are the client's cache entry, local copy and open handle;
`fetched` is the `fetchVersion` that one attempt leaves to the next. History
variables: `recent` are the contents since no change was under way, `seen` those
of the file since a client's `Open` began, `old` those that changes half done at
that moment had replaced, `trusted` an `Open` whose copy `TestAuth` found valid,
`raced` a change under a client's own call, and `stale` the events after which
versions say nothing about a copy (a deletion, a version set back by a create, a
restart, a race, a failed `Close`, a version left from a broken attempt at a
fetch).

**`Replication`** models the servers, the primary's handlers (`handler`: a slot
per call being handled), the goroutines that replicate to each peer (`rep`:
`open`, `sent`, `done`), the dedup table, the client's retries and
reconnections, crashes and restarts, promotions, and recovery (`sync`). A
handler changes file and version in one step here; a replication opens the file
when its goroutine runs and may find what a later call left. What a dead
primary, or a call that was given up, has sent may still arrive; what is on its
way to a server that crashes is lost. The servers agree on the primary
(`Election` has the ways to it, and to two of them), a restarted server is a
backup, and a server runs one recovery at a time. `SyncState`'s `os.Open` and
the receiver's check of the version are one step. A recovery whose temporary
file was taken by a replicated store writes the rest into the file in place
(`taken`), as `ServerFile` shows. `suspect` is the history variable of servers
about whose copy nothing is claimed: still to recover from a crash, written to
by a call that is not the present primary's newest one or by a recovery that
met with a change or outlived the primary it reads from, or missed by a
replication that failed or found no file. `exec` counts how often a server has
applied the client's request, `died` records that it has crashed since it last
did, and `overlap` that an attempt was applied while an earlier one still ran.
`Replicate` is one step at the peer, so that two of them for one file come one
after the other.

`CoordinatorProofs`, `PlacesProofs`, `RecoveryProofs`, `ElectionProofs`,
`MillerRabinProofs`, `ServerFileProofs`, `AfsClientProofs` and
`ReplicationProofs` hold the proofs. An operator whose comment begins "Faulty
variant" is a plausible bug, used to show that a property notices it.

## Runs

| Run | Instance | Shows |
|---|---|---|
| `coordinator` | 2 files, 2 workers, 2 executions of Run, 1 worker crash, 1 fault, fair | `TypeOK`, `NoReprocessing`, `SurvivorCompletes`, `DurableAtLoopHead`, `ConsistentCut`, `CleanFirstRun`, `SnapshotFaithful`, `OutputWholeFiles`, `EachFileOnce`, `ChannelNeverFull`, `ImplementsJob`, `RunEnds` |
| `prime` | all 5-bit operands, all 12-bit words | `AddmodCorrect`, `MulmodCorrect`, `ModpowCorrect`, `PrimesAccepted`, `IsPrimeCorrect` |
| `election` | 3 servers, 3 crashes, 3 restarts, fair | `TypeOK`, `StepDownOnlyToLower`, `LedUnlessUnwatched` |
| `file_atomic` | 3 replacing calls, 1 reader, 4 inodes, 2 chunks, 1 crash | `TypeOK`, `CalmWhole`, `CalmReads`, `KeepsPromise` |
| `cache` | 2 clients, 2 contents, versions to 3, 1 fault | `TypeOK`, `ValidIsCurrent`, `OpenFresh` |
| `replication` | 3 servers, 2 calls at a time, 2 requests of 2 attempts, 1 crash, 1 fault | `TypeOK`, `AckedOnLive`, `AgreedVersions`, `RepeatExplained` |

Bounds. Two workers and two files let a file move to the other worker's hands
while that worker's own file is in progress; a goroutine with two files of its
own, and files without primes, are left to the proofs, which cover any number of
files and every safety property of the run. Two executions are one crash (at any
step) and one recovery. Twelve bits reach 2047, the first strong pseudoprime to base 2. Three servers are the
documented deployment; three crashes, each server back before the next, are as
many as it takes to depose every server's monitor (`election_leaderless`), and
the run of `LedUnlessUnwatched` goes one restart beyond that. Two chunks are a
content that can be torn, three replacing calls a crash, a call that finds its
temporary file and a third one after that; four inodes are the file, the
temporary file, one a reader still has open and a fresh one. Two clients and three versions
let one client's copy go through deletion, creation and a store by the other.
Two requests with two attempts let a retry overlap the attempt before it and
a late replication cross a newer request. The bounds on runs, crashes, versions
and faults are in the guards of `Start`, `WorkerCrash`, `Fault`, `Crash`,
`Restart` and `Write`.

`file_atomic` explores only states in which `calm` still holds (`WhileCalm`):
the step that ends calm is checked, and what follows it is what the properties
say nothing about (`TypeOK` aside, which is proved for all states). Symmetry is used where no operator chooses among members of
the set (calls, readers, inodes; clients and contents; servers and slots).
`CHECK_DEADLOCK FALSE` is set where all calls may be over: after the last
execution of Run, when every call has ended, when the client has made its
requests. In `cache` something can always happen and deadlock is checked.

Fairness. `Coordinator` assumes it of the main goroutine and of each worker's
goroutine: Go schedules them and every call they wait for has a timeout.
Crashes, restarts and the operator get none. `Election` assumes that time
passes, that goroutines run and that calls to live servers arrive; crashes,
restarts and client requests need not happen. The store's models claim no
liveness: the client gives up after eight attempts, and recovery after thirty.

### Where the texts and the code differ

| Run | What the code does |
|---|---|
| `coordinator_work_lost` | a save deletes the old snapshot first, so a crash before the store loses all completed work |
| `election_split_brain` | two backups that probe each other at the same time both become primary and stay so, after one crash |
| `election_leaderless` | a monitor returns when its server becomes primary and is not started again when the server is deposed; after three crashes, one server down at a time, servers 2 and 3 are both deposed primaries, and when server 1 dies nobody holds an election any more |
| `file_torn` | a recovery stream that breaks after one of two chunks is renamed into place all the same |
| `cache_stale` | a client's store completes between the `os.Stat` and the `os.Create` of another client's `CreateFile`; both leave version 1 behind, and `TestAuth` trusts the stored copy though the file has been emptied |
| `replication_recovery` | a store replicated to a server while it recovers takes the recovery's temporary file; the recovery then damages the new file and sets its version back |

Smaller things met while modelling, without a run of their own. A run that
resumes with nothing pending returns before the clean-up and keeps its
snapshot. A file that failed once on each worker is dropped though one of them
is alive again, and Run reports success. A live backup does not answer a probe
while there is no primary, so a larger identifier can win an election. A server
promoted a second time may have no heartbeat sender (`senderRunning` is never
cleared). Two replacing calls on one temporary name can leave part of a content
in place, like the broken recovery of `file_torn`. A deletion, a creation and as
many stores as before bring a version back to a cached one without any race,
with the same effect as in `cache_stale`. `ConsistentCut` is shown
for the deployment in which every worker's host has its own port 6100
(`OwnPort`); with the workers on one host all markers go to one of them and it
does not hold. A `CreateFile` retried after a failover finds the replica of its
own file and reports that it exists. Recovery neither deletes files nor brings
empty ones, and it copies temporary files. A `Close` whose store failed leaves
the written content in the cache under the old version. The repository's README
says of the dedup table that it "prevents double execution on retry". A retry
that overlaps its first attempt executes again all the same, because the entry
is written at the end, and so does one after the server has crashed, restarted
and been promoted again, because the table is kept in memory; `RepeatExplained`
says that these two are the only ways. Of a store that executed twice the live servers may keep different versions when
the primary dies before the second execution has reached all of them: so
`AgreedVersions` leaves overlapping attempts out (one request of three attempts
and two lost calls are enough to see it). A recovery that has read the whole
file from a primary that then dies may put it in place after the next primary
has acknowledged a store whose replication to that server failed: so it counts
among the events that make a copy suspect (two crashes are needed).

## Proofs

`CoordinatorProofs` proves, for any number of files, workers, runs, crashes and
faults and any contents of the files, `TypeOK`, `SnapshotFaithful`,
`OutputWholeFiles` and the refinement `ImplementsJob`. None is inductive: that
a stored snapshot or output is whole depends on what was merged, on what is in
the channel and on what the streams delivered. The inductive invariant `IInv`
follows that path: `TasksWhole` (a stream that ends with EOF delivered every
prime of its file), `ResultsWhole` (so did every successful result in the
channel), `MergedWhole` (collected primes are those of the completed files,
also after recovery from a snapshot) and `AllDiscovered` (without faults Run
knows all files). Each has a lemma with a step per action. For the refinement
each action is shown, from the same invariant, to be a step of `PrimeJob` or to
leave its three variables alone.

`PlacesProofs` proves `EachFileOnce` and `ChannelNeverFull`. The invariant
`Places` says where a file can be: goroutines' lists share none (`ListsApart`,
from the round-robin assignment), a file in hand is on no list and in no other
hands (`HandsApart`), it has one result in the channel and is not processed
again (`ResultsApart`), a completed file is in none of these places
(`CompletedApart`), and nothing is in them outside the result loop
(`QuietOutside`). The channel then never fills up because everything in it, in
hand and on a list is a different pending file (`RoomForAll`, with the
cardinality theorems for finite sets).

`RecoveryProofs` builds on both and proves the invariants about recovery, worker
crashes and clean-up. `Durable`: the stored snapshot records only what Run has
merged, and at the loop head all of it; with `Places` this gives
`DurableAtLoopHead` and `NoReprocessing`. `Survival`: a down worker has crashed,
a task that has tried every connected worker found all of them crashed
(`TriedHaveCrashed`), so as long as one has not no file leaves lists, hands,
channel and completed files (`NothingLost`); this gives `SurvivorCompletes`.
`FirstRun` follows what a first Run finds and leaves on AFS, up to
`CleanFirstRun`. `Markers`: a worker records a file before its stream ends, and
the worker that has it puts it in its cut when it answers its marker; this gives
`ConsistentCut`, under the hypothesis `OwnPorts` (every worker has a snapshot
port of its own, as in the compose file).

`ElectionProofs` proves, for any number of servers and any waits, `TypeOK` and
the action property `StepDownOnlyToLower`. The strengthening is that an
announcement in flight goes from a smaller to a larger identifier
(`AnnouncesGoUp`), because a winner announces itself to peers it has beaten,
and that only a running process has a role or a monitor (`OnlyRunning`).

`ServerFileProofs` proves `TypeOK`, `CalmWhole`, `CalmReads` and the refinement
`KeepsPromise`, for any number of calls, chunks, inodes and crashes. The
invariant adds where descriptors point: in calm times the only active call has
the temporary file open, has written exactly the chunks it received, and that
inode is not the file (`WritersApart`); a reader's inode is not written to and
what it has read is a prefix of it (`ReadersApart`).

`AfsClientProofs` proves `TypeOK`, `ValidIsCurrent` and `OpenFresh` for any
number of clients, contents, versions and faults. Per client the invariant says
what a call that is half done knows (`CallInv`: what a fetch has open is
current unless raced), that no entry is ahead of the server's version unless
stale (`EntryInv`), and what a copy of the server's version holds (`CopyInv`).
`OpenFresh` claims less of an `Open` that trusts its copy than of one that
fetches: the version is raised after the file, so between the two steps of
another client's store `TestAuth` still finds a copy of the replaced content
valid (`old`), and of a stale copy nothing is claimed. What an `Open` fetched is
a content of the file while it ran in every case.

`ReplicationProofs` proves `TypeOK`, the action property `RepeatExplained`,
`AckedOnLive` and `AgreedVersions`, for any number of servers, calls at a time, requests, attempts,
crashes and faults. `Shape` ties calls, answers and recoveries to the primary:
a call that is alive is the present primary's, only the primary has an answer
in its dedup table, a listed file is the present primary's. `Once` says that a
server that has applied the request has its answer, is still at it or has died
since, from which `RepeatExplained` follows, and that without overlap there is one attempt at a time. `Kept` follows an effect on its
way: a peer that is through with an attempt has it (`Reached`), so when the
answer is kept all have (`ReachedAll`); the newest call sends nothing else once
the request is applied (`NewestDoing`); a recovery that has met with no change
has the present primary's file (`CleanSync`), and one whose primary has died a
file that the requests may have made (`SyncedWanted`). `AckedOnLive` is not
inductive without these, because what a server will hold is decided when a
replication or a recovery reads the file. `Versions` does the same for versions:
a file without content has a known one (`BareVersions`), a peer that is through
with the one attempt of a store has that attempt's (`ReachedVersion`), and once
it is answered servers and recoveries have one (`SettledVersion`). Two earlier
forms of these properties were false for larger bounds than the run's, and the
attempts at a proof showed it; see the last lines of the section before.

`MillerRabinProofs` is about the primality test, for words of any width.
`addmod` returns `(a + b) % m`: neither subtraction nor the addition wraps
around. `mulmod` returns `(a * b) % m` and `modpow` the power: after `i`
iterations the result, together with what the bits of `b` from `i` on still
contribute, is congruent to the product or the power (`MulmodLoop`,
`ModpowLoop`), and `BitLength(b)` iterations leave no bit (`BitLengthBound`).
`IsPrime` rejects no prime number: modulo a prime, `a^(n - 1)` is 1 (the lemma
`Fermat`, by the binomial theorem and Euclid's lemma) and 1 has no square roots but 1 and
`n - 1` (`SquareRoots`), so going back from `a^(n - 1)` through the squares to
`a^d` a base that is no multiple of `n` meets `n - 1` or arrives at 1
(`NoFalseWitness`). Induction over the loops is available although the library's
induction theorems take an operator: the theorem that `<` is well founded on
`Nat` does not, and gives induction for sets (`SetInduction`). `Recursion` then
shows that the recursive functions are defined, and the number of subsets of
`1..n` gives the recursion of `2^n` (`TwoToStep`), which the provers do not know.

The proofs rest on the named assumptions of the modules (sizes are positive,
`PrimesOf` maps files to sets of numbers, special values are not members of the
sets, bounds are natural numbers), which TLC evaluates in the runs. Every safety
property of a passing run is proved except one half of `IsPrimeCorrect`, that
`IsPrime` accepts no composite number. That depends on the twelve bases and is a
fact of computation: true of 64-bit numbers, false of wide enough ones. TLC
checks it for 12 bits; the other half is `PrimesAccepted` at that width. Also
only model-checked are the liveness properties `RunEnds` and `LedUnlessUnwatched`,
which need fairness.

## Not modelled

The pipe, scanner and reader goroutine inside `ProcessFile`, and names of
workers that differ between coordinator and workers; the servers' table of
handles, which only `CloseFile` reads; several files of one server in one
recovery, and two primaries that both replicate (`Election` shows that they can
exist, `Replication` assumes one); two `Replicate` streams for one file at one
peer that write to or take away each other's temporary file, so that `AckedOnLive`
says nothing about a copy they leave (`ServerFile` has it at one server,
as two replacing calls that are not calm; in `Replication` only a store against
a recovery); several handles of one client on one file;
timestamps, logs and formats; generated RPC code; test programs.

## Plan

1. Core (done): `Coordinator`, `MillerRabin`, `Election`, their runs, the first
   theorems.
2. The store (done): `ServerFile` with `WholeFile`, `AfsClient`, `Replication`
   with recovery; `PrimeJob` and its refinement.
3. Theorems (done): the type invariants, the safety invariants, the action
   properties of `Election` and `Replication` and the refinements of `PrimeJob` and `WholeFile`.
4. Induction over data (done): the loops of `mulmod` and `modpow`, and that
   `IsPrime` accepts every prime.
5. Still open: a `Replication` in which two primaries replicate, and in which the
   streams to one peer overlap.
