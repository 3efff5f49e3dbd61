---------------------------- MODULE Coordinator ----------------------------
(***************************************************************************)
(* The prime-finder coordinator (primefinder/pkg/coordinator), its         *)
(* snapshots on AFS (primefinder/pkg/snapshot) and the workers it drives   *)
(* (primefinder/cmd/worker).  One execution of coordinator.Run discovers   *)
(* the input files, resumes from a snapshot when there is one, hands the   *)
(* pending files to one goroutine per connected worker, merges the results *)
(* it takes from a buffered channel, snapshots after each of them, writes  *)
(* the output and removes the snapshots.  The coordinator may crash        *)
(* between any two steps and be started again; workers crash and restart;  *)
(* a call that exhausts its retries or its timeout is a "fault".           *)
(*                                                                         *)
(* Abstractions: an input file is its number, a prime list is a set (the   *)
(* code de-duplicates with a map wherever lists meet), and AFS, seen       *)
(* through afs.Client, is a store whose calls either take effect or report *)
(* an error after taking effect or not.                                    *)
(***************************************************************************)
EXTENDS Integers, Sequences, FiniteSets

CONSTANTS
    NumFiles,          \* input_dataset_001.txt .. on AFS
    NumWorkers,        \* addresses in cfg.WorkerAddrs, in order
    PrimesOf,          \* the primes a worker finds in each input file
    MarkerDest,        \* the worker listening at port 6100 of each worker's host
    MaxRuns,           \* bound: executions of Run
    MaxWorkerCrashes,  \* bound: crashes of worker processes
    MaxFaults          \* bound: calls that end in an error or a timeout

File == 1..NumFiles
Worker == 1..NumWorkers

ASSUME SizeAssumption ==
    /\ NumFiles \in Nat \ {0}
    /\ NumWorkers \in Nat \ {0}

ASSUME PrimesAssumption == PrimesOf \in [File -> SUBSET Nat]

ASSUME MarkerAssumption == MarkerDest \in [Worker -> Worker]

ASSUME BoundAssumption ==
    /\ MaxRuns \in Nat
    /\ MaxWorkerCrashes \in Nat
    /\ MaxFaults \in Nat

VARIABLES
    pc,               \* where Run is; "down" when no coordinator is running
    allFiles,         \* allInputFiles
    completedFiles,   \* completedFiles
    collectedPrimes,  \* collectedPrimes, which is also the key set of seen
    workers,          \* the connected workers
    cap,              \* capacity of resultCh
    todo,             \* files each worker's goroutine has not started
    task,             \* the file each worker's goroutine is processing
    resultCh,         \* the buffered result channel
    visited,          \* workers the current loop over workers is done with
    acked,            \* workers whose marker was acknowledged
    cut,              \* completed files each worker reported to its marker
    snapFile,         \* snapshot_coordinator.json on AFS
    outFile,          \* the output file on AFS
    workerFiles,      \* workers whose snapshot file is on AFS
    alive,            \* worker processes that are up
    crashed,          \* workers that crashed since this Run connected
    workerCompleted,  \* completedFiles in each worker's memory
    orphans,          \* handlers still running whose caller is gone
    runs, workerCrashes, faults

runVars == <<allFiles, completedFiles, collectedPrimes, workers, cap>>
poolVars == <<todo, task, resultCh>>
markVars == <<visited, acked, cut>>
afsVars == <<snapFile, outFile, workerFiles>>
workerVars == <<alive, crashed, workerCompleted, orphans, workerCrashes>>
vars == <<pc, runVars, poolVars, markVars, afsVars, workerVars, runs, faults>>

-----------------------------------------------------------------------------
(* Helpers *)

\* The primes of a set of input files.
Primes(S) == UNION {PrimesOf[f] : f \in S}

\* e is the smallest element of S: the next one of an ordered loop.
First(e, S) == e \in S /\ \A x \in S : e <= x

\* Position of e in the ordered list of S's elements, from 0.
Rank(e, S) == Cardinality({x \in S : x < e})

\* Faulty variant: completed files are not skipped.
filterPendingKeepsAll(all, completed) == all

\* The input files that are not completed.
filterPending(all, completed) == all \ completed

\* Faulty variant: every worker is given every file.
assignFilesToAll(files, ws) ==
    [w \in Worker |-> IF w \in ws THEN files ELSE {}]

\* Round robin of the pending files over the connected workers.
assignFiles(files, ws) ==
    [w \in Worker |->
        {f \in files : /\ w \in ws
                       /\ Rank(w, ws) = Rank(f, files) % Cardinality(ws)}]

\* Faulty variant: a channel with room for one result.
ResultCapOne(pending) == 1

\* Capacity of resultCh.
ResultCap(pending) == Cardinality(pending) + 1

\* A file on AFS: its state and, for a snapshot, what it records.
AfsFile == [state     : {"absent", "empty", "data"},
            completed : SUBSET File,
            pending   : SUBSET File,
            primes    : SUBSET Nat]

Absent == [state |-> "absent", completed |-> {}, pending |-> {}, primes |-> {}]

Empty == [Absent EXCEPT !.state = "empty"]

\* Content written through Write and Close.
Data(completed, pending, primes) ==
    [state |-> "data", completed |-> completed,
     pending |-> pending, primes |-> primes]

\* A goroutine's progress through processOneFile and tryWorker.
Idle == [phase |-> "idle", file |-> 0, worker |-> 0, tried |-> {}, primes |-> {}]

Call(f, w, tried) ==
    [phase |-> "call", file |-> f, worker |-> w, tried |-> tried, primes |-> {}]

Task == [phase  : {"idle", "call", "open", "saving", "eof", "broken"},
         file   : File \cup {0},
         worker : Worker \cup {0},
         tried  : SUBSET Worker,
         primes : SUBSET Nat]

Result == [file : File, ok : BOOLEAN, primes : SUBSET Nat]

\* A call that exhausts its retries or its timeout.
Fault == faults < MaxFaults /\ faults' = faults + 1

NoFault == faults' = faults

Running == pc \notin {"down", "done", "failed"}

\* Run's local state and its goroutines, as they are before Run starts.
ForgetRun ==
    /\ allFiles' = {}
    /\ completedFiles' = {}
    /\ collectedPrimes' = {}
    /\ workers' = {}
    /\ cap' = 0
    /\ todo' = [w \in Worker |-> {}]
    /\ task' = [w \in Worker |-> Idle]
    /\ resultCh' = <<>>
    /\ visited' = {}
    /\ acked' = {}
    /\ cut' = [w \in Worker |-> {}]

Init ==
    /\ pc = "down"
    /\ allFiles = {} /\ completedFiles = {} /\ collectedPrimes = {}
    /\ workers = {} /\ cap = 0
    /\ todo = [w \in Worker |-> {}]
    /\ task = [w \in Worker |-> Idle]
    /\ resultCh = <<>>
    /\ visited = {} /\ acked = {}
    /\ cut = [w \in Worker |-> {}]
    /\ snapFile = Absent /\ outFile = Absent /\ workerFiles = {}
    /\ alive = Worker /\ crashed = {}
    /\ workerCompleted = [w \in Worker |-> {}]
    /\ orphans = {}
    /\ runs = 0 /\ workerCrashes = 0 /\ faults = 0

-----------------------------------------------------------------------------
(* Run, up to the goroutines *)

\* The operator starts the coordinator, for the first time or again.
Start ==
    /\ ~Running
    /\ runs < MaxRuns
    /\ runs' = runs + 1
    /\ pc' = "discover"
    /\ ForgetRun
    /\ UNCHANGED <<afsVars, workerVars, faults>>

\* Faulty variant: the numbering of the probing loop starts at 0.
discoverFromZero ==
    /\ pc = "discover"
    /\ allFiles' = 0..(NumFiles - 1) /\ NoFault
    /\ pc' = "load"
    /\ UNCHANGED <<completedFiles, collectedPrimes, workers, cap, poolVars,
                   markVars, afsVars, workerVars, runs>>

\* NewClient and discoverInputFiles: the probing loop stops at the first
\* Open that fails, whatever the reason.
discoverInputFiles ==
    /\ pc = "discover"
    /\ \/ allFiles' = File /\ NoFault
       \/ Fault /\ \E n \in 0..(NumFiles - 1) : allFiles' = 1..n
    /\ pc' = IF allFiles' = {} THEN "failed" ELSE "load"
    /\ UNCHANGED <<completedFiles, collectedPrimes, workers, cap, poolVars,
                   markVars, afsVars, workerVars, runs>>

\* readFromAFS: the snapshot file exists and is not empty.
readFromAFS == snapFile.state = "data"

\* Faulty variant: the primes in the snapshot are not restored.
LoadCoordSnapshotFilesOnly ==
    /\ pc = "load"
    /\ completedFiles' = IF readFromAFS THEN snapFile.completed ELSE {}
    /\ collectedPrimes' = {}
    /\ pc' = IF filterPending(allFiles, completedFiles') = {}
             THEN "outDelete" ELSE "connect"
    /\ UNCHANGED <<allFiles, workers, cap, poolVars, markVars, afsVars,
                   workerVars, runs, faults>>

\* LoadCoordSnapshot: an absent, empty or unreadable snapshot is no snapshot.
\* With nothing pending Run goes straight to the output.
LoadCoordSnapshot ==
    /\ pc = "load"
    /\ \/ /\ readFromAFS /\ NoFault
          /\ completedFiles' = snapFile.completed
          /\ collectedPrimes' = snapFile.primes
       \/ /\ \/ ~readFromAFS /\ NoFault
             \/ readFromAFS /\ Fault
          /\ completedFiles' = {}
          /\ collectedPrimes' = {}
    /\ pc' = IF filterPending(allFiles, completedFiles') = {}
             THEN "outDelete" ELSE "connect"
    /\ UNCHANGED <<allFiles, workers, cap, poolVars, markVars, afsVars,
                   workerVars, runs>>

\* connectToWorkers: a worker that does not answer Health is left out for
\* the rest of this Run.
connectToWorkers(w) ==
    /\ pc = "connect"
    /\ First(w, Worker \ visited)
    /\ visited' = visited \cup {w}
    /\ \/ w \in alive /\ workers' = workers \cup {w} /\ NoFault
       \/ w \notin alive /\ workers' = workers /\ NoFault
       \/ w \in alive /\ workers' = workers /\ Fault
    /\ pc' = IF visited' # Worker THEN "connect"
             ELSE IF workers' = {} THEN "failed" ELSE "assign"
    /\ crashed' = crashed \ {w}
    /\ UNCHANGED <<allFiles, completedFiles, collectedPrimes, cap, poolVars,
                   acked, cut, afsVars, alive, workerCompleted, orphans,
                   workerCrashes, runs>>

\* Run hands out the pending files and starts a goroutine per worker.
StartGoroutines ==
    LET pending == filterPending(allFiles, completedFiles) IN
    /\ pc = "assign"
    /\ pc' = "collect"
    /\ todo' = assignFiles(pending, workers)
    /\ cap' = ResultCap(pending)
    /\ UNCHANGED <<allFiles, completedFiles, collectedPrimes, workers, task,
                   resultCh, markVars, afsVars, workerVars, runs, faults>>

-----------------------------------------------------------------------------
(* The goroutine of worker g *)

poolFrame == UNCHANGED <<pc, runVars, markVars, snapFile, outFile, runs>>

\* The next file of the goroutine's list, first tried on its own worker.
TakeFile(g) ==
    /\ Running
    /\ task[g].phase = "idle"
    /\ \E f \in todo[g] :
        /\ First(f, todo[g])
        /\ todo' = [todo EXCEPT ![g] = @ \ {f}]
        /\ task' = [task EXCEPT ![g] = Call(f, g, {})]
    /\ UNCHANGED <<resultCh, workerFiles, workerVars, faults>>
    /\ poolFrame

\* tryWorker issues ProcessFile: it fails on a dead worker.
CallWorker(g) ==
    /\ task[g].phase = "call"
    /\ \/ /\ task[g].worker \in alive /\ NoFault
          /\ task' = [task EXCEPT ![g].phase = "open"]
       \/ /\ task[g].worker \notin alive /\ NoFault
          /\ task' = [task EXCEPT ![g].phase = "broken"]
       \/ /\ Fault
          /\ task' = [task EXCEPT ![g].phase = "broken"]
    /\ UNCHANGED <<todo, resultCh, workerFiles, workerVars>>
    /\ poolFrame

\* ProcessFile streams a batch of primes; tryWorker appends it.
SendBatch(g) ==
    /\ task[g].phase = "open"
    /\ \E batch \in SUBSET (PrimesOf[task[g].file] \ task[g].primes) :
        /\ batch # {}
        /\ task' = [task EXCEPT ![g].primes = @ \cup batch]
    /\ UNCHANGED <<todo, resultCh, workerFiles, workerVars, faults>>
    /\ poolFrame

\* Faulty variant: the record is of the last file only.
RecordFileAlone(w, f) == [workerCompleted EXCEPT ![w] = {f}]

\* The worker's in-memory record of a finished file.
RecordFile(w, f) == [workerCompleted EXCEPT ![w] = @ \cup {f}]

\* After its last chunk ProcessFile records the file in the worker's memory.
FinishFile(g) ==
    /\ task[g].phase = "open"
    /\ task[g].primes = PrimesOf[task[g].file]
    /\ task' = [task EXCEPT ![g].phase = "saving"]
    /\ workerCompleted' = RecordFile(task[g].worker, task[g].file)
    /\ UNCHANGED <<todo, resultCh, workerFiles, alive, crashed, orphans,
                   workerCrashes, faults>>
    /\ poolFrame

\* It saves the worker's snapshot (a failure is only logged) and returns, and
\* tryWorker receives EOF.
SaveWorkerSnapshot(g) ==
    LET w == task[g].worker IN
    /\ task[g].phase = "saving"
    /\ task' = [task EXCEPT ![g].phase = "eof"]
    /\ \/ workerFiles' = workerFiles \cup {w} /\ NoFault
       \/ Fault /\ workerFiles' \in {workerFiles \cup {w}, workerFiles \ {w}}
    /\ UNCHANGED <<todo, resultCh, workerVars>>
    /\ poolFrame

\* The stream between tryWorker and the worker is open.
Streaming(g) == task[g].phase \in {"open", "saving"}

\* Faulty variant: the batches received before the error are a result.
StreamFaultKeepsBatches(g) ==
    /\ Streaming(g)
    /\ Fault
    /\ task' = [task EXCEPT ![g].phase = "eof"]
    /\ UNCHANGED <<todo, resultCh, workerFiles, workerVars>>
    /\ poolFrame

\* An Error chunk, a broken connection or the 60-minute timeout.  After a
\* timeout the worker may still be finishing the file.
StreamFault(g) ==
    /\ Streaming(g)
    /\ Fault
    /\ task' = [task EXCEPT ![g].phase = "broken"]
    /\ orphans' \in {orphans, orphans \cup {<<task[g].worker, task[g].file>>}}
    /\ UNCHANGED <<todo, resultCh, workerFiles, alive, crashed,
                   workerCompleted, workerCrashes>>
    /\ poolFrame

\* resultCh <- res, for a stream that ended with EOF.
PostResult(g) ==
    /\ task[g].phase = "eof"
    /\ Len(resultCh) < cap
    /\ resultCh' = Append(resultCh, [file |-> task[g].file, ok |-> TRUE,
                                     primes |-> task[g].primes])
    /\ task' = [task EXCEPT ![g] = Idle]
    /\ UNCHANGED <<todo, workerFiles, workerVars, faults>>
    /\ poolFrame

\* Faulty variants: no other worker is tried; the same one is tried for ever.
UntriedNone(g) == {}
UntriedSame(g) == workers \cap {task[g].worker}

\* Workers processOneFile has still to try when the current one has failed.
Untried(g) == workers \ ({g, task[g].worker} \cup task[g].tried)

\* processOneFile drops what it received and goes on to the next worker.
Reassign(g) ==
    /\ task[g].phase = "broken"
    /\ \E w \in Untried(g) :
        /\ First(w, Untried(g))
        /\ task' = [task EXCEPT ![g] =
                        Call(@.file, w, @.tried \cup {@.worker})]
    /\ UNCHANGED <<todo, resultCh, workerFiles, workerVars, faults>>
    /\ poolFrame

\* Every connected worker has failed once: an error result is posted.
PostError(g) ==
    /\ task[g].phase = "broken"
    /\ Untried(g) = {}
    /\ Len(resultCh) < cap
    /\ resultCh' = Append(resultCh, [file |-> task[g].file, ok |-> FALSE,
                                     primes |-> {}])
    /\ task' = [task EXCEPT ![g] = Idle]
    /\ UNCHANGED <<todo, workerFiles, workerVars, faults>>
    /\ poolFrame

-----------------------------------------------------------------------------
(* Run's result loop and InitiateSnapshot *)

\* An error result is logged and skipped.
DropResult ==
    /\ pc = "collect"
    /\ resultCh # <<>>
    /\ ~Head(resultCh).ok
    /\ resultCh' = Tail(resultCh)
    /\ UNCHANGED <<pc, runVars, todo, task, markVars, afsVars, workerVars,
                   runs, faults>>

\* A result is merged and a snapshot begins.
MergeResult ==
    /\ pc = "collect"
    /\ resultCh # <<>>
    /\ Head(resultCh).ok
    /\ resultCh' = Tail(resultCh)
    /\ collectedPrimes' = collectedPrimes \cup Head(resultCh).primes
    /\ completedFiles' = completedFiles \cup {Head(resultCh).file}
    /\ pc' = "markers"
    /\ visited' = {} /\ acked' = {} /\ cut' = [w \in Worker |-> {}]
    /\ UNCHANGED <<allFiles, workers, cap, todo, task, afsVars, workerVars,
                   runs, faults>>

\* currentSnapshot, served by the worker's /snapshot endpoint.
currentSnapshot(w) == workerCompleted[w]

\* A marker to the snapshot port of w's host; the worker that listens there
\* answers with its state, and a marker that fails is skipped.
SendMarker(w) ==
    LET dest == MarkerDest[w] IN
    /\ pc = "markers"
    /\ First(w, workers \ visited)
    /\ visited' = visited \cup {w}
    /\ \/ /\ dest \in alive /\ NoFault
          /\ acked' = acked \cup {w}
          /\ cut' = [cut EXCEPT ![dest] = currentSnapshot(dest)]
       \/ /\ dest \notin alive /\ NoFault
          /\ UNCHANGED <<acked, cut>>
       \/ /\ dest \in alive /\ Fault
          /\ UNCHANGED <<acked, cut>>
    /\ pc' = IF visited' = workers THEN "snapDelete" ELSE "markers"
    /\ UNCHANGED <<runVars, poolVars, afsVars, workerVars, runs>>

mainFrame == UNCHANGED <<runVars, poolVars, markVars, workerVars, runs>>

\* Faulty variant: the old snapshot is not deleted first.
SnapDeleteSkipped ==
    /\ pc = "snapDelete"
    /\ pc' = "snapCreate"
    /\ UNCHANGED <<afsVars, faults>>
    /\ mainFrame

\* SaveCoordSnapshot through writeToAFS: DeleteFile (its error is ignored),
\* CreateFile, then Write and Close; an error only costs this snapshot.
SnapDelete ==
    /\ pc = "snapDelete"
    /\ \/ snapFile' = Absent /\ NoFault
       \/ Fault /\ snapFile' \in {snapFile, Absent}
    /\ pc' = "snapCreate"
    /\ UNCHANGED <<outFile, workerFiles>>
    /\ mainFrame

SnapCreate ==
    /\ pc = "snapCreate"
    /\ \/ /\ snapFile.state = "absent" /\ NoFault
          /\ snapFile' = Empty
          /\ pc' = "snapStore"
       \/ /\ snapFile.state # "absent" /\ NoFault
          /\ snapFile' = snapFile
          /\ pc' = "collect"
       \/ /\ snapFile.state = "absent" /\ Fault
          /\ snapFile' \in {Absent, Empty}
          /\ pc' = "collect"
    /\ UNCHANGED <<outFile, workerFiles>>
    /\ mainFrame

SnapStore ==
    LET snap == Data(completedFiles, filterPending(allFiles, completedFiles),
                     collectedPrimes) IN
    /\ pc = "snapStore"
    /\ \/ snapFile' = snap /\ NoFault
       \/ Fault /\ snapFile' \in {snapFile, snap}
    /\ pc' = "collect"
    /\ UNCHANGED <<outFile, workerFiles>>
    /\ mainFrame

-----------------------------------------------------------------------------
(* The end of Run *)

\* The channel is closed once every goroutine has returned, and drained.
ChannelClosed ==
    /\ pc = "collect"
    /\ resultCh = <<>>
    /\ \A g \in Worker : todo[g] = {} /\ task[g].phase = "idle"
    /\ pc' = "outDelete"
    /\ UNCHANGED <<afsVars, faults>>
    /\ mainFrame

\* writeFinalOutput: as for the snapshot, but an error ends Run.
OutDelete ==
    /\ pc = "outDelete"
    /\ \/ outFile' = Absent /\ NoFault
       \/ Fault /\ outFile' \in {outFile, Absent}
    /\ pc' = "outCreate"
    /\ UNCHANGED <<snapFile, workerFiles>>
    /\ mainFrame

OutCreate ==
    /\ pc = "outCreate"
    /\ \/ /\ outFile.state = "absent" /\ NoFault
          /\ outFile' = Empty
          /\ pc' = "outStore"
       \/ /\ outFile.state # "absent" /\ NoFault
          /\ outFile' = outFile
          /\ pc' = "failed"
       \/ /\ outFile.state = "absent" /\ Fault
          /\ outFile' \in {Absent, Empty}
          /\ pc' = "failed"
    /\ UNCHANGED <<snapFile, workerFiles>>
    /\ mainFrame

\* A StoreFile without a chunk is refused, so an output without primes fails.
\* A Run that connected to no worker had nothing pending: it returns here.
OutStore ==
    LET out == Data({}, {}, collectedPrimes) IN
    /\ pc = "outStore"
    /\ \/ /\ collectedPrimes # {} /\ NoFault
          /\ outFile' = out
          /\ pc' = IF workers = {} THEN "done" ELSE "cleanSnap"
       \/ /\ collectedPrimes = {} /\ NoFault
          /\ outFile' = outFile
          /\ pc' = "failed"
       \/ /\ collectedPrimes # {} /\ Fault
          /\ outFile' \in {outFile, out}
          /\ pc' = "failed"
    /\ UNCHANGED <<snapFile, workerFiles>>
    /\ mainFrame

\* DeleteCoordSnapshot, its error ignored.
CleanSnap ==
    /\ pc = "cleanSnap"
    /\ \/ snapFile' = Absent /\ NoFault
       \/ Fault /\ snapFile' \in {snapFile, Absent}
    /\ pc' = "cleanWorkers"
    /\ visited' = {}
    /\ UNCHANGED <<runVars, poolVars, acked, cut, outFile, workerFiles,
                   workerVars, runs>>

\* Faulty variant: the snapshot of a worker that has died is kept.
CleanLiveWorker(w) ==
    /\ pc = "cleanWorkers"
    /\ First(w, workers \ visited)
    /\ visited' = visited \cup {w}
    /\ workerFiles' = IF w \in alive THEN workerFiles \ {w} ELSE workerFiles
    /\ pc' = IF visited' = workers THEN "done" ELSE "cleanWorkers"
    /\ UNCHANGED <<runVars, poolVars, acked, cut, snapFile, outFile,
                   workerVars, runs, faults>>

\* DeleteWorkerSnapshot, for each connected worker in turn.
CleanWorker(w) ==
    /\ pc = "cleanWorkers"
    /\ First(w, workers \ visited)
    /\ visited' = visited \cup {w}
    /\ \/ workerFiles' = workerFiles \ {w} /\ NoFault
       \/ Fault /\ workerFiles' \in {workerFiles, workerFiles \ {w}}
    /\ pc' = IF visited' = workers THEN "done" ELSE "cleanWorkers"
    /\ UNCHANGED <<runVars, poolVars, acked, cut, snapFile, outFile,
                   workerVars, runs>>

-----------------------------------------------------------------------------
(* Crashes and restarts *)

\* The coordinator process is killed: its memory and goroutines are gone,
\* while the handlers its streams started may run on at the workers.
CoordinatorCrash ==
    /\ Running
    /\ pc' = "down"
    /\ ForgetRun
    /\ orphans' = orphans \cup
         {<<task[g].worker, task[g].file>> :
             g \in {h \in Worker : Streaming(h)}}
    /\ UNCHANGED <<afsVars, alive, crashed, workerCompleted, workerCrashes,
                   runs, faults>>

\* A handler without a caller ends: on a failed Send without a trace, or
\* after its last Send, recording the file and saving the worker's snapshot.
OrphanEnd(w, f) ==
    /\ <<w, f>> \in orphans
    /\ orphans' = orphans \ {<<w, f>>}
    /\ \/ UNCHANGED <<workerCompleted, workerFiles>>
       \/ /\ workerCompleted' = RecordFile(w, f)
          /\ workerFiles' = workerFiles \cup {w}
    /\ UNCHANGED <<pc, runVars, poolVars, markVars, snapFile, outFile,
                   alive, crashed, workerCrashes, runs, faults>>

\* A worker process dies with its memory and every stream it serves; a save
\* under way may have replaced its snapshot, only deleted it or done nothing.
WorkerCrash(w) ==
    /\ w \in alive
    /\ workerCrashes < MaxWorkerCrashes
    /\ workerCrashes' = workerCrashes + 1
    /\ alive' = alive \ {w}
    /\ crashed' = crashed \cup {w}
    /\ workerCompleted' = [workerCompleted EXCEPT ![w] = {}]
    /\ orphans' = {o \in orphans : o[1] # w}
    /\ task' = [g \in Worker |->
                  IF Streaming(g) /\ task[g].worker = w
                  THEN [task[g] EXCEPT !.phase = "broken"]
                  ELSE task[g]]
    /\ \/ UNCHANGED workerFiles
       \/ /\ \E g \in Worker : task[g].phase = "saving" /\ task[g].worker = w
          /\ workerFiles' \in {workerFiles \cup {w}, workerFiles \ {w}}
    /\ UNCHANGED <<pc, runVars, todo, resultCh, markVars, snapFile, outFile, runs,
                   faults>>

WorkerRestart(w) ==
    /\ w \in Worker \ alive
    /\ alive' = alive \cup {w}
    /\ UNCHANGED <<pc, runVars, poolVars, markVars, afsVars, crashed,
                   workerCompleted, orphans, workerCrashes, runs, faults>>

-----------------------------------------------------------------------------

\* The coordinator's main goroutine.
Main ==
    \/ discoverInputFiles \/ LoadCoordSnapshot
    \/ \E w \in Worker : connectToWorkers(w)
    \/ StartGoroutines
    \/ DropResult \/ MergeResult
    \/ \E w \in Worker : SendMarker(w)
    \/ SnapDelete \/ SnapCreate \/ SnapStore
    \/ ChannelClosed
    \/ OutDelete \/ OutCreate \/ OutStore
    \/ CleanSnap
    \/ \E w \in Worker : CleanWorker(w)

\* The goroutine of worker g and the handlers its streams run on.
Goroutine(g) ==
    \/ TakeFile(g) \/ CallWorker(g) \/ SendBatch(g) \/ FinishFile(g)
    \/ SaveWorkerSnapshot(g) \/ StreamFault(g) \/ PostResult(g) \/ Reassign(g) \/ PostError(g)

Environment ==
    \/ Start \/ CoordinatorCrash
    \/ \E w \in Worker : WorkerCrash(w) \/ WorkerRestart(w)
    \/ \E w \in Worker, f \in File : OrphanEnd(w, f)

Next ==
    \/ Main
    \/ \E g \in Worker : Goroutine(g)
    \/ Environment

\* Go schedules every goroutine and every call is bounded by a timeout, so
\* the coordinator's own steps are fair; crashes, restarts and the operator
\* are not.
Fairness ==
    /\ WF_vars(Main)
    /\ \A g \in Worker : WF_vars(Goroutine(g))

Spec == Init /\ [][Next]_vars

FairSpec == Spec /\ Fairness

-----------------------------------------------------------------------------
(* Correctness *)

\* Type invariant.
TypeOK ==
    /\ pc \in {"down", "discover", "load", "connect", "assign", "collect", "markers",
               "snapDelete", "snapCreate", "snapStore", "outDelete",
               "outCreate", "outStore", "cleanSnap", "cleanWorkers",
               "done", "failed"}
    /\ allFiles \in SUBSET File
    /\ completedFiles \in SUBSET File
    /\ collectedPrimes \in SUBSET Nat
    /\ workers \in SUBSET Worker
    /\ cap \in Nat
    /\ todo \in [Worker -> SUBSET File]
    /\ task \in [Worker -> Task]
    /\ resultCh \in Seq(Result)
    /\ visited \in SUBSET Worker
    /\ acked \in SUBSET Worker
    /\ cut \in [Worker -> SUBSET File]
    /\ snapFile \in AfsFile
    /\ outFile \in AfsFile
    /\ workerFiles \in SUBSET Worker
    /\ alive \in SUBSET Worker
    /\ crashed \in SUBSET Worker
    /\ workerCompleted \in [Worker -> SUBSET File]
    /\ orphans \in SUBSET (Worker \X File)
    /\ runs \in 0..MaxRuns
    /\ workerCrashes \in 0..MaxWorkerCrashes
    /\ faults \in 0..MaxFaults

\* A stored snapshot (InitiateSnapshot) is self-consistent whatever crashed or
\* failed: its primes are exactly those of its completed files, none of its
\* completed files is pending, and without faults no input file is missing.
SnapshotFaithful ==
    snapFile.state = "data" =>
        /\ snapFile.primes = Primes(snapFile.completed)
        /\ snapFile.completed \cap snapFile.pending = {}
        /\ faults = 0 => snapFile.completed \cup snapFile.pending = File

\* The output file is never built from part of an input file: a stream that
\* broke after some batches (tryWorker) contributes nothing, and the primes
\* of a completed file are never lost on the way through channel, snapshot
\* and recovery.
OutputWholeFiles ==
    outFile.state = "data" =>
        \E S \in SUBSET File : outFile.primes = Primes(S)

\* While Run executes, a file is in one place at most: a goroutine's list, a
\* goroutine's hands, the channel or completedFiles (assignFiles and the
\* goroutines share no file, whatever is reassigned between workers).
InHand(f) == {g \in Worker : task[g].phase # "idle" /\ task[g].file = f}
Listed(f) == {g \in Worker : f \in todo[g]}
Queued(f) == {i \in 1..Len(resultCh) : resultCh[i].file = f}

EachFileOnce ==
    Running => \A f \in File :
        Cardinality(InHand(f)) + Cardinality(Listed(f)) + Cardinality(Queued(f))
            <= IF f \in completedFiles THEN 0 ELSE 1

\* resultCh (make(chan workerResult, len(pendingFiles)+1)) never fills up, so
\* no goroutine ever blocks on its send while the main loop is snapshotting.
ChannelNeverFull == resultCh # <<>> => Len(resultCh) < cap

\* Recovery skips completed work: without faults no goroutine holds or is
\* about to process a file that the stored snapshot lists as completed.
NoReprocessing ==
    Running /\ faults = 0 =>
        \A f \in snapFile.completed : InHand(f) \cup Listed(f) = {}

\* When Run returns nil and no call failed for good, one connected worker that
\* did not crash is enough for a complete output, through any crashes of the
\* coordinator before (processOneFile tries every connected worker).
SurvivorCompletes ==
    /\ pc = "done" /\ faults = 0
    /\ workers = {} \/ workers \ crashed # {}
    => outFile = Data({}, {}, Primes(File))

\* Without faults every file merged so far is in the stored snapshot whenever
\* Run waits for the next result or writes the output: a crash there loses
\* nothing that was completed.
DurableAtLoopHead ==
    /\ pc \in {"collect", "outDelete", "outCreate", "outStore", "cleanSnap"}
    /\ faults = 0
    /\ completedFiles # {}
    => /\ snapFile.state = "data"
       /\ snapFile.completed = completedFiles
       /\ snapFile.primes = collectedPrimes

\* Chandy-Lamport consistency of a completed marker round: every result the
\* coordinator has received was recorded as produced by some worker's state
\* (ProcessFile records the file before the stream ends, and the markers
\* follow the merge).
ConsistentCut ==
    /\ pc \in {"snapDelete", "snapCreate", "snapStore"}
    /\ faults = 0 /\ workerCrashes = 0
    => completedFiles \subseteq UNION {cut[w] : w \in Worker}

\* After a first Run that returned nil without faults nothing but the output
\* is left on AFS, whatever workers crashed.
CleanFirstRun ==
    pc = "done" /\ runs = 1 /\ faults = 0
    => snapFile = Absent /\ workerFiles = {}

\* The job as its user sees it: see PrimeJob.
Saved == IF snapFile.state = "data" THEN snapFile.completed ELSE {}

Published == IF outFile.state = "data" THEN {outFile.primes} ELSE {}

Job == INSTANCE PrimeJob WITH
    accepted <- completedFiles, saved <- Saved, output <- Published

\* However files are distributed, reassigned, snapshotted and recovered, a file
\* is accepted once and whole, a Run resumes from what was saved or from
\* nothing, and what it publishes is the primes of exactly the files it lists
\* as completed.
ImplementsJob == Job!Spec

\* Every Run ends: it returns, or the coordinator is killed.  No crash of
\* workers, reassignment or failing call makes it wait forever.
RunEnds == Running ~> ~Running

-----------------------------------------------------------------------------
(* What the repository's texts say and the code does not do *)

\* README.md: "Maximum work lost = one file": at most one completed file is not
\* in the snapshot a crash would leave to the next Run.
WorkLostAtMostOneFile ==
    Running /\ faults = 0 /\ pc \notin {"discover", "load"} =>
        pc = "cleanWorkers" \/ Cardinality(completedFiles \ Saved) <= 1

=============================================================================
