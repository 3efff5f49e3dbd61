------------------------- MODULE CoordinatorProofs -------------------------
(***************************************************************************)
(* Proofs about the coordinator, for any number of files, workers, runs,   *)
(* crashes and failing calls and whatever primes the files hold.           *)
(***************************************************************************)
EXTENDS Coordinator, FiniteSetTheorems, TLAPS

\* A goroutine that is busy works on an input file through some worker, and
\* a stream that is about to end or has ended with EOF delivered every prime
\* of its file.
TasksWhole ==
    \A g \in Worker :
        /\ task[g].phase # "idle" => task[g].file \in File /\ task[g].worker \in Worker
        /\ task[g].phase \in {"saving", "eof"} =>
               task[g].primes = PrimesOf[task[g].file]

\* A result in the channel holds every prime of its file.
ResultsWhole ==
    \A i \in 1..Len(resultCh) :
        resultCh[i].ok => resultCh[i].primes = PrimesOf[resultCh[i].file]

\* What Run has merged, or read back from a snapshot, is the primes of whole
\* files.
MergedWhole == collectedPrimes = Primes(completedFiles)

\* Past discovery Run knows every input file, unless a call failed.
AllDiscovered ==
    faults = 0 /\ pc \notin {"down", "discover", "done", "failed"} => allFiles = File

\* A Run has no result before it has looked for a snapshot.
FreshRun == pc \in {"discover", "load"} => completedFiles = {}

\* The inductive invariant: whole files only, from the worker's stream through
\* the channel, the merge and the snapshot to the output.
IInv ==
    /\ TypeOK
    /\ TasksWhole
    /\ ResultsWhole
    /\ MergedWhole
    /\ AllDiscovered
    /\ FreshRun
    /\ SnapshotFaithful
    /\ OutputWholeFiles

-----------------------------------------------------------------------------
(* The operators the actions are built from *)

\* No file, no primes.
LEMMA PrimesEmpty == Primes({}) = {}
  BY DEF Primes

\* The primes of one more file.
LEMMA PrimesAdd ==
    ASSUME NEW S \in SUBSET File, NEW f \in File
    PROVE  Primes(S \cup {f}) = Primes(S) \cup PrimesOf[f]
  BY DEF Primes

\* Primes are numbers.
LEMMA PrimesType ==
    ASSUME NEW S \in SUBSET File
    PROVE  Primes(S) \in SUBSET Nat
  BY PrimesAssumption DEF Primes

\* The capacity of the result channel is a number: there are finitely many
\* pending files.
LEMMA ResultCapType ==
    ASSUME NEW S \in SUBSET File
    PROVE  ResultCap(S) \in Nat
<1>1. IsFiniteSet(File)
  BY FS_Interval, SizeAssumption DEF File
<1>2. IsFiniteSet(S)
  BY <1>1, FS_Subset
<1>. QED
  BY <1>2, FS_CardinalityType DEF ResultCap

\* Round robin gives each worker's goroutine some of the pending files.
LEMMA AssignType ==
    ASSUME NEW S \in SUBSET File, NEW ws
    PROVE  assignFiles(S, ws) \in [Worker -> SUBSET File]
  BY DEF assignFiles

\* The values of AFS files and of goroutines.
LEMMA FileValues ==
    /\ Absent \in AfsFile
    /\ Empty \in AfsFile
    /\ \A c, p \in SUBSET File, q \in SUBSET Nat : Data(c, p, q) \in AfsFile
  BY DEF AfsFile, Absent, Empty, Data

LEMMA TaskValues ==
    /\ Idle \in Task
    /\ \A f \in File, w \in Worker, t \in SUBSET Worker : Call(f, w, t) \in Task
  BY DEF Idle, Call, Task

\* A goroutine's progress changes one field at a time.
LEMMA TaskUpdates ==
    ASSUME NEW t \in Task
    PROVE  /\ \A p \in {"idle", "call", "open", "saving", "eof", "broken"} :
                [t EXCEPT !.phase = p] \in Task
           /\ \A q \in SUBSET Nat : [t EXCEPT !.primes = q] \in Task
  BY DEF Task

\* A posted result is a result.
LEMMA AppendType ==
    ASSUME NEW c \in Seq(Result), NEW f \in File, NEW ok \in BOOLEAN,
           NEW q \in SUBSET Nat
    PROVE  Append(c, [file |-> f, ok |-> ok, primes |-> q]) \in Seq(Result)
<1>1. [file |-> f, ok |-> ok, primes |-> q] \in Result
  BY DEF Result
<1>. QED
  BY <1>1

-----------------------------------------------------------------------------
(* Initially *)

\* The invariant holds before the coordinator is started.
LEMMA InitIInv == Init => IInv
<1>. SUFFICES ASSUME Init PROVE IInv
  OBVIOUS
<1>1. TypeOK
  BY FileValues, TaskValues, BoundAssumption DEF Init, TypeOK, Absent, Idle
<1>2. TasksWhole /\ ResultsWhole /\ AllDiscovered /\ FreshRun
  BY DEF Init, TasksWhole, ResultsWhole, AllDiscovered, FreshRun, Idle
<1>3. MergedWhole
  BY PrimesEmpty DEF Init, MergedWhole
<1>4. SnapshotFaithful /\ OutputWholeFiles
  BY DEF Init, SnapshotFaithful, OutputWholeFiles, Absent
<1>. QED
  BY <1>1, <1>2, <1>3, <1>4 DEF IInv

-----------------------------------------------------------------------------
(* Type correctness *)

\* Start and crash of the coordinator leave Run's state empty.
LEMMA ForgetType == ForgetRun =>
    /\ allFiles' \in SUBSET File /\ completedFiles' \in SUBSET File
    /\ collectedPrimes' \in SUBSET Nat /\ workers' \in SUBSET Worker
    /\ cap' \in Nat /\ todo' \in [Worker -> SUBSET File]
    /\ task' \in [Worker -> Task] /\ resultCh' \in Seq(Result)
    /\ visited' \in SUBSET Worker /\ acked' \in SUBSET Worker
    /\ cut' \in [Worker -> SUBSET File]
  BY TaskValues DEF ForgetRun

\* A failing call is counted; the count stays within its bound.
LEMMA FaultType ==
    ASSUME faults \in 0..MaxFaults, Fault \/ NoFault
    PROVE  faults' \in 0..MaxFaults
  BY BoundAssumption DEF Fault, NoFault

\* Type correctness is kept by the main goroutine.
LEMMA MainTypeOK == TypeOK /\ Main => TypeOK'
<1>. SUFFICES ASSUME TypeOK, Main PROVE TypeOK'
  OBVIOUS
<1>. USE DEF TypeOK
<1>1. CASE discoverInputFiles
  <2>1. allFiles' \in SUBSET File
    BY <1>1, SizeAssumption DEF discoverInputFiles, File
  <2>. QED
    BY <1>1, <2>1, FaultType
    DEF discoverInputFiles, poolVars, markVars, afsVars, workerVars
<1>2. CASE LoadCoordSnapshot
  <2>1. completedFiles' \in SUBSET File /\ collectedPrimes' \in SUBSET Nat
    BY <1>2 DEF LoadCoordSnapshot, readFromAFS, AfsFile
  <2>2. faults' \in 0..MaxFaults
    BY <1>2, FaultType DEF LoadCoordSnapshot
  <2>. QED
    BY <1>2, <2>1, <2>2 DEF LoadCoordSnapshot, poolVars, markVars, afsVars, workerVars
<1>3. ASSUME NEW w \in Worker, connectToWorkers(w) PROVE TypeOK'
  <2>1. workers' \in SUBSET Worker /\ faults' \in 0..MaxFaults
    BY <1>3, FaultType DEF connectToWorkers
  <2>. QED
    BY <1>3, <2>1 DEF connectToWorkers, poolVars, afsVars
<1>4. CASE DropResult
  BY <1>4 DEF DropResult, runVars, markVars, afsVars, workerVars
<1>5. CASE MergeResult
  <2>1. Head(resultCh) \in Result /\ resultCh' \in Seq(Result)
    BY <1>5 DEF MergeResult
  <2>. QED
    BY <1>5, <2>1 DEF MergeResult, Result, afsVars, workerVars
<1>6. ASSUME NEW w \in Worker, SendMarker(w) PROVE TypeOK'
  <2>1. MarkerDest[w] \in Worker
    BY MarkerAssumption
  <2>2. visited' \in SUBSET Worker /\ acked' \in SUBSET Worker
    BY <1>6 DEF SendMarker
  <2>3. cut' \in [Worker -> SUBSET File]
    BY <1>6, <2>1 DEF SendMarker, currentSnapshot
  <2>4. faults' \in 0..MaxFaults
    BY <1>6, FaultType DEF SendMarker
  <2>. QED
    BY <1>6, <2>2, <2>3, <2>4
    DEF SendMarker, runVars, poolVars, afsVars, workerVars
<1>7. CASE SnapDelete \/ SnapCreate
  <2>1. snapFile' \in AfsFile /\ faults' \in 0..MaxFaults
    BY <1>7, FileValues, FaultType DEF SnapDelete, SnapCreate
  <2>. QED
    BY <1>7, <2>1
    DEF SnapDelete, SnapCreate, mainFrame, runVars, poolVars, markVars, workerVars
<1>8. CASE SnapStore
  <2>. DEFINE snap == Data(completedFiles, filterPending(allFiles, completedFiles),
                           collectedPrimes)
  <2>1. snap \in AfsFile
    BY FileValues DEF filterPending
  <2>2. snapFile' \in AfsFile /\ faults' \in 0..MaxFaults
    BY <1>8, <2>1, FaultType DEF SnapStore
  <2>. QED
    BY <1>8, <2>2 DEF SnapStore, mainFrame, runVars, poolVars, markVars, workerVars
<1>9. CASE ChannelClosed
  BY <1>9
  DEF ChannelClosed, mainFrame, runVars, poolVars, markVars, afsVars, workerVars
<1>10. CASE OutDelete \/ OutCreate \/ OutStore
  <2>1. Data({}, {}, collectedPrimes) \in AfsFile
    BY FileValues
  <2>2. outFile' \in AfsFile /\ faults' \in 0..MaxFaults
    BY <1>10, <2>1, FileValues, FaultType DEF OutDelete, OutCreate, OutStore
  <2>. QED
    BY <1>10, <2>2
    DEF OutDelete, OutCreate, OutStore, mainFrame, runVars, poolVars, markVars, workerVars
<1>11. CASE CleanSnap
  <2>1. snapFile' \in AfsFile /\ faults' \in 0..MaxFaults
    BY <1>11, FileValues, FaultType DEF CleanSnap
  <2>. QED
    BY <1>11, <2>1 DEF CleanSnap, runVars, poolVars, workerVars
<1>12. ASSUME NEW w \in Worker, CleanWorker(w) PROVE TypeOK'
  <2>1. workerFiles' \in SUBSET Worker /\ faults' \in 0..MaxFaults
    BY <1>12, FaultType DEF CleanWorker
  <2>. QED
    BY <1>12, <2>1 DEF CleanWorker, runVars, poolVars, workerVars
<1>13. CASE StartGoroutines
  <2>. DEFINE pending == filterPending(allFiles, completedFiles)
  <2>1. pending \in SUBSET File
    BY DEF filterPending
  <2>2. todo' \in [Worker -> SUBSET File]
    BY <1>13, <2>1, AssignType DEF StartGoroutines
  <2>3. cap' \in Nat
    BY <1>13, <2>1, ResultCapType DEF StartGoroutines
  <2>. QED
    BY <1>13, <2>2, <2>3 DEF StartGoroutines, markVars, afsVars, workerVars
<1>. QED
  BY <1>1, <1>2, <1>3, <1>4, <1>5, <1>6, <1>7, <1>8, <1>9, <1>10, <1>11, <1>12,
     <1>13 DEF Main

\* Type correctness is kept by the goroutines.
LEMMA GoroutineTypeOK ==
    ASSUME TypeOK, TasksWhole, NEW g \in Worker, Goroutine(g)
    PROVE  TypeOK'
<1>. USE DEF TypeOK, poolFrame, runVars, markVars, workerVars
<1>1. CASE TakeFile(g)
  <2>1. task' \in [Worker -> Task]
    BY <1>1, TaskValues DEF TakeFile
  <2>. QED
    BY <1>1, <2>1 DEF TakeFile
<1>2. CASE CallWorker(g)
  <2>1. task' \in [Worker -> Task]
    BY <1>2 DEF CallWorker, Task
  <2>. QED
    BY <1>2, <2>1, FaultType DEF CallWorker
<1>3. CASE SendBatch(g)
  <2>1. PrimesOf[task[g].file] \in SUBSET Nat
    BY <1>3, PrimesAssumption DEF SendBatch, TasksWhole
  <2>2. PICK batch \in SUBSET (PrimesOf[task[g].file] \ task[g].primes) :
           task' = [task EXCEPT ![g].primes = @ \cup batch]
    BY <1>3 DEF SendBatch
  <2>3. task[g].primes \cup batch \in SUBSET Nat
    BY <2>1 DEF Task
  <2>4. [task[g] EXCEPT !.primes = @ \cup batch] \in Task
    BY <2>3, TaskUpdates
  <2>5. task' \in [Worker -> Task]
    BY <2>2, <2>4
  <2>. QED
    BY <1>3, <2>5 DEF SendBatch
<1>4. CASE FinishFile(g)
  <2>1. task[g].file \in File /\ task[g].worker \in Worker
    BY <1>4 DEF FinishFile, TasksWhole
  <2>2. task' \in [Worker -> Task]
    BY <1>4, TaskUpdates DEF FinishFile
  <2>3. workerCompleted' \in [Worker -> SUBSET File]
    BY <1>4, <2>1 DEF FinishFile, RecordFile
  <2>. QED
    BY <1>4, <2>2, <2>3 DEF FinishFile
<1>5. CASE StreamFault(g)
  <2>1. <<task[g].worker, task[g].file>> \in Worker \X File
    BY <1>5 DEF StreamFault, Streaming, TasksWhole
  <2>2. task' \in [Worker -> Task]
    BY <1>5, TaskUpdates DEF StreamFault
  <2>3. orphans' \in SUBSET (Worker \X File) /\ faults' \in 0..MaxFaults
    BY <1>5, <2>1, FaultType DEF StreamFault
  <2>. QED
    BY <1>5, <2>2, <2>3 DEF StreamFault
<1>6. CASE PostResult(g) \/ PostError(g)
  <2>1. task[g].file \in File /\ task[g].primes \in SUBSET Nat
    BY <1>6 DEF PostResult, PostError, TasksWhole, Task
  <2>2. resultCh' \in Seq(Result)
    <3>1. CASE PostResult(g)
      BY <3>1, <2>1, AppendType DEF PostResult
    <3>2. CASE PostError(g)
      BY <3>2, <2>1, AppendType DEF PostError
    <3>. QED
      BY <1>6, <3>1, <3>2
  <2>3. task' \in [Worker -> Task]
    BY <1>6, TaskValues DEF PostResult, PostError
  <2>. QED
    BY <1>6, <2>2, <2>3 DEF PostResult, PostError
<1>7. CASE Reassign(g)
  <2>1. /\ task[g].file \in File
        /\ task[g].tried \cup {task[g].worker} \in SUBSET Worker
    BY <1>7 DEF Reassign, TasksWhole, Task
  <2>2. Untried(g) \subseteq Worker
    BY DEF Untried
  <2>3. task' \in [Worker -> Task]
    BY <1>7, <2>1, <2>2, TaskValues DEF Reassign
  <2>. QED
    BY <1>7, <2>3 DEF Reassign
<1>8. CASE SaveWorkerSnapshot(g)
  <2>1. task[g].worker \in Worker
    BY <1>8 DEF SaveWorkerSnapshot, TasksWhole
  <2>2. task' \in [Worker -> Task]
    BY <1>8, TaskUpdates DEF SaveWorkerSnapshot
  <2>3. workerFiles' \in SUBSET Worker /\ faults' \in 0..MaxFaults
    BY <1>8, <2>1, FaultType DEF SaveWorkerSnapshot
  <2>. QED
    BY <1>8, <2>2, <2>3 DEF SaveWorkerSnapshot
<1>. QED
  BY <1>1, <1>2, <1>3, <1>4, <1>5, <1>6, <1>7, <1>8 DEF Goroutine

\* Type correctness is kept by crashes, restarts and orphaned handlers.
LEMMA EnvironmentTypeOK == TypeOK /\ TasksWhole /\ Environment => TypeOK'
<1>. SUFFICES ASSUME TypeOK, TasksWhole, Environment PROVE TypeOK'
  OBVIOUS
<1>. USE DEF TypeOK
<1>1. CASE Start
  BY <1>1, ForgetType, BoundAssumption DEF Start, afsVars, workerVars
<1>2. CASE CoordinatorCrash
  <2>1. orphans' \in SUBSET (Worker \X File)
    BY <1>2 DEF CoordinatorCrash, Streaming, TasksWhole
  <2>. QED
    BY <1>2, <2>1, ForgetType DEF CoordinatorCrash, afsVars
<1>3. ASSUME NEW w \in Worker, WorkerCrash(w) PROVE TypeOK'
  <2>1. task' \in [Worker -> Task]
    <3>1. \A g \in Worker : [task[g] EXCEPT !.phase = "broken"] \in Task
      BY TaskUpdates
    <3>. QED
      BY <1>3, <3>1 DEF WorkerCrash
  <2>2. workerCrashes' \in 0..MaxWorkerCrashes
    BY <1>3, BoundAssumption DEF WorkerCrash
  <2>. QED
    BY <1>3, <2>1, <2>2 DEF WorkerCrash, runVars, markVars
<1>4. ASSUME NEW w \in Worker, WorkerRestart(w) PROVE TypeOK'
  BY <1>4 DEF WorkerRestart, runVars, poolVars, markVars, afsVars
<1>5. ASSUME NEW w \in Worker, NEW f \in File, OrphanEnd(w, f) PROVE TypeOK'
  BY <1>5 DEF OrphanEnd, RecordFile, runVars, poolVars, markVars
<1>. QED
  BY <1>1, <1>2, <1>3, <1>4, <1>5 DEF Environment

-----------------------------------------------------------------------------
(* Whole files only *)

\* The main goroutine leaves the other goroutines' progress alone.
LEMMA MainKeepsTasks == Main => UNCHANGED task
<1>. USE DEF poolVars, mainFrame
<1>1. discoverInputFiles \/ LoadCoordSnapshot \/ StartGoroutines => UNCHANGED task
  BY DEF discoverInputFiles, LoadCoordSnapshot, StartGoroutines
<1>2. DropResult \/ MergeResult \/ ChannelClosed => UNCHANGED task
  BY DEF DropResult, MergeResult, ChannelClosed
<1>3. SnapDelete \/ SnapCreate \/ SnapStore \/ CleanSnap => UNCHANGED task
  BY DEF SnapDelete, SnapCreate, SnapStore, CleanSnap
<1>4. OutDelete \/ OutCreate \/ OutStore => UNCHANGED task
  BY DEF OutDelete, OutCreate, OutStore
<1>5. \A w \in Worker :
        connectToWorkers(w) \/ SendMarker(w) \/ CleanWorker(w) => UNCHANGED task
  BY DEF connectToWorkers, SendMarker, CleanWorker
<1>. QED
  BY <1>1, <1>2, <1>3, <1>4, <1>5 DEF Main

\* A stream reaches EOF only with all the primes of its file; whatever is
\* interrupted starts again from nothing on another worker.
LEMMA NextTasksWhole == IInv /\ [Next]_vars => TasksWhole'
<1>. SUFFICES ASSUME IInv, [Next]_vars, NEW h \in Worker
              PROVE  /\ task'[h].phase # "idle" =>
                           task'[h].file \in File /\ task'[h].worker \in Worker
                     /\ task'[h].phase \in {"saving", "eof"} =>
                           task'[h].primes = PrimesOf[task'[h].file]
  BY DEF TasksWhole
<1>. DEFINE Good(t) ==
         /\ t.phase # "idle" => t.file \in File /\ t.worker \in Worker
         /\ t.phase \in {"saving", "eof"} => t.primes = PrimesOf[t.file]
<1>0. Good(task[h]) /\ task \in [Worker -> Task] /\ todo \in [Worker -> SUBSET File]
  BY DEF IInv, TasksWhole, TypeOK
<1>1. ASSUME UNCHANGED task PROVE Good(task'[h])
  BY <1>0, <1>1
<1>2. ASSUME NEW g \in Worker, Goroutine(g) PROVE Good(task'[h])
  <2>1. CASE TakeFile(g)
    BY <1>0, <2>1 DEF TakeFile, Call
  <2>2. CASE CallWorker(g) \/ SendBatch(g) \/ FinishFile(g)
    BY <1>0, <2>2 DEF CallWorker, SendBatch, FinishFile, Task
  <2>3. CASE PostResult(g) \/ PostError(g)
    BY <1>0, <2>3 DEF PostResult, PostError, Idle
  <2>4. CASE Reassign(g)
    <3>1. task[g].file \in File
      BY <2>4 DEF Reassign, IInv, TasksWhole
    <3>2. Untried(g) \subseteq Worker
      BY DEF Untried, IInv, TypeOK
    <3>. QED
      BY <1>0, <2>4, <3>1, <3>2 DEF Reassign, Call
  <2>5. CASE SaveWorkerSnapshot(g) \/ StreamFault(g)
    BY <1>0, <2>5 DEF SaveWorkerSnapshot, StreamFault, Streaming, Task
  <2>. QED
    BY <1>2, <2>1, <2>2, <2>3, <2>4, <2>5 DEF Goroutine
<1>3. ASSUME Start \/ CoordinatorCrash PROVE Good(task'[h])
  BY <1>3 DEF Start, CoordinatorCrash, ForgetRun, Idle
<1>4. ASSUME NEW w \in Worker, WorkerCrash(w) PROVE Good(task'[h])
  BY <1>0, <1>4 DEF WorkerCrash, Streaming, Task
<1>5. ASSUME NEW w \in Worker, NEW f \in File, WorkerRestart(w) \/ OrphanEnd(w, f)
      PROVE  UNCHANGED task
  BY <1>5 DEF WorkerRestart, OrphanEnd, poolVars
<1>6. UNCHANGED vars => UNCHANGED task
  BY DEF vars, poolVars
<1>7. File # {}
  BY SizeAssumption DEF File
<1>. QED
  BY <1>1, <1>2, <1>3, <1>4, <1>5, <1>6, <1>7, MainKeepsTasks DEF Next, Environment

\* Only a stream that reached EOF is posted as a success.
LEMMA NextResultsWhole == IInv /\ [Next]_vars => ResultsWhole'
<1>. SUFFICES ASSUME IInv, [Next]_vars PROVE ResultsWhole'
  OBVIOUS
<1>0. resultCh \in Seq(Result) /\ ResultsWhole
  BY DEF IInv, TypeOK
<1>1. ASSUME UNCHANGED resultCh PROVE ResultsWhole'
  BY <1>0, <1>1 DEF ResultsWhole
<1>2. ASSUME DropResult \/ MergeResult PROVE ResultsWhole'
  <2>1. resultCh # <<>> /\ resultCh' = Tail(resultCh)
    BY <1>2 DEF DropResult, MergeResult
  <2>. QED
    BY <1>0, <2>1 DEF ResultsWhole
<1>3. ASSUME NEW g \in Worker, PostResult(g) PROVE ResultsWhole'
  <2>1. task[g].primes = PrimesOf[task[g].file]
    BY <1>3 DEF PostResult, IInv, TasksWhole
  <2>2. resultCh' = Append(resultCh, [file |-> task[g].file, ok |-> TRUE,
                                      primes |-> task[g].primes])
    BY <1>3 DEF PostResult
  <2>. QED
    BY <1>0, <2>1, <2>2 DEF ResultsWhole
<1>4. ASSUME NEW g \in Worker, PostError(g) PROVE ResultsWhole'
  <2>1. resultCh' = Append(resultCh, [file |-> task[g].file, ok |-> FALSE,
                                      primes |-> {}])
    BY <1>4 DEF PostError
  <2>. QED
    BY <1>0, <2>1 DEF ResultsWhole
<1>5. ASSUME Start \/ CoordinatorCrash PROVE ResultsWhole'
  BY <1>5 DEF Start, CoordinatorCrash, ForgetRun, ResultsWhole
<1>. USE DEF poolVars, mainFrame
<1>6. ASSUME Main PROVE UNCHANGED resultCh \/ DropResult \/ MergeResult
  <2>1. discoverInputFiles \/ LoadCoordSnapshot \/ StartGoroutines => UNCHANGED resultCh
    BY DEF discoverInputFiles, LoadCoordSnapshot, StartGoroutines
  <2>2. SnapDelete \/ SnapCreate \/ SnapStore \/ CleanSnap => UNCHANGED resultCh
    BY DEF SnapDelete, SnapCreate, SnapStore, CleanSnap
  <2>3. ChannelClosed \/ OutDelete \/ OutCreate \/ OutStore => UNCHANGED resultCh
    BY DEF ChannelClosed, OutDelete, OutCreate, OutStore
  <2>4. \A w \in Worker :
          connectToWorkers(w) \/ SendMarker(w) \/ CleanWorker(w) => UNCHANGED resultCh
    BY DEF connectToWorkers, SendMarker, CleanWorker
  <2>. QED
    BY <1>6, <2>1, <2>2, <2>3, <2>4 DEF Main
<1>7. ASSUME NEW g \in Worker, Goroutine(g)
      PROVE  UNCHANGED resultCh \/ PostResult(g) \/ PostError(g)
  BY <1>7
  DEF Goroutine, TakeFile, CallWorker, SendBatch, FinishFile, SaveWorkerSnapshot,
      StreamFault, Reassign
<1>8. ASSUME Environment PROVE UNCHANGED resultCh \/ Start \/ CoordinatorCrash
  BY <1>8 DEF Environment, WorkerCrash, WorkerRestart, OrphanEnd
<1>9. UNCHANGED vars => UNCHANGED resultCh
  BY DEF vars
<1>. QED
  BY <1>1, <1>2, <1>3, <1>4, <1>5, <1>6, <1>7, <1>8, <1>9 DEF Next

\* A goroutine only touches its own task, the channel and the workers.
LEMMA GoroutineFrame ==
    ASSUME NEW g \in Worker, Goroutine(g)
    PROVE  /\ UNCHANGED <<pc, runVars, snapFile, outFile>>
           /\ NoFault \/ Fault
<1>. USE DEF poolFrame, workerVars, Fault, NoFault
<1>1. CASE TakeFile(g) \/ CallWorker(g) \/ SendBatch(g) \/ FinishFile(g)
  BY <1>1 DEF TakeFile, CallWorker, SendBatch, FinishFile
<1>2. CASE StreamFault(g) \/ PostResult(g) \/ Reassign(g) \/ PostError(g)
  BY <1>2 DEF StreamFault, PostResult, Reassign, PostError
<1>3. CASE SaveWorkerSnapshot(g)
  BY <1>3 DEF SaveWorkerSnapshot
<1>. QED
  BY <1>1, <1>2, <1>3 DEF Goroutine

\* The worker processes do not touch the coordinator or its files.
LEMMA EnvironmentFrame ==
    ASSUME Environment
    PROVE  /\ UNCHANGED <<snapFile, outFile, faults>>
           /\ \/ UNCHANGED <<pc, runVars>>
              \/ pc' \in {"down", "discover"} /\ ForgetRun
<1>1. Start \/ CoordinatorCrash =>
        /\ UNCHANGED <<snapFile, outFile, faults>>
        /\ pc' \in {"down", "discover"} /\ ForgetRun
  BY DEF Start, CoordinatorCrash, afsVars
<1>2. \A w \in Worker : WorkerCrash(w) \/ WorkerRestart(w) =>
        UNCHANGED <<pc, runVars, snapFile, outFile, faults>>
  BY DEF WorkerCrash, WorkerRestart, afsVars
<1>3. \A w \in Worker, f \in File : OrphanEnd(w, f) =>
        UNCHANGED <<pc, runVars, snapFile, outFile, faults>>
  BY DEF OrphanEnd
<1>. QED
  BY <1>1, <1>2, <1>3 DEF Environment

\* After discovery and merging, the main goroutine leaves Run's results alone.
LEMMA MainFrame ==
    ASSUME Main
    PROVE  \/ discoverInputFiles \/ LoadCoordSnapshot \/ MergeResult
           \/ UNCHANGED <<completedFiles, collectedPrimes>>
<1>. USE DEF mainFrame, runVars
<1>1. StartGoroutines \/ DropResult \/ ChannelClosed =>
        UNCHANGED <<completedFiles, collectedPrimes>>
  BY DEF StartGoroutines, DropResult, ChannelClosed
<1>2. SnapDelete \/ SnapCreate \/ SnapStore \/ CleanSnap =>
        UNCHANGED <<completedFiles, collectedPrimes>>
  BY DEF SnapDelete, SnapCreate, SnapStore, CleanSnap
<1>3. OutDelete \/ OutCreate \/ OutStore => UNCHANGED <<completedFiles, collectedPrimes>>
  BY DEF OutDelete, OutCreate, OutStore
<1>4. \A w \in Worker : connectToWorkers(w) \/ SendMarker(w) \/ CleanWorker(w) =>
        UNCHANGED <<completedFiles, collectedPrimes>>
  BY DEF connectToWorkers, SendMarker, CleanWorker
<1>. QED
  BY <1>1, <1>2, <1>3, <1>4 DEF Main

\* Run adds a file together with all its primes, and a recovered Run starts
\* from a faithful snapshot or from nothing.
LEMMA NextMergedWhole == IInv /\ [Next]_vars => MergedWhole'
<1>. SUFFICES ASSUME IInv, [Next]_vars PROVE MergedWhole'
  OBVIOUS
<1>1. ASSUME UNCHANGED <<completedFiles, collectedPrimes>> PROVE MergedWhole'
  BY <1>1 DEF IInv, MergedWhole, Primes
<1>2. ASSUME ForgetRun PROVE MergedWhole'
  BY <1>2, PrimesEmpty DEF ForgetRun, MergedWhole
<1>3. CASE discoverInputFiles
  BY <1>1, <1>3 DEF discoverInputFiles
<1>4. CASE LoadCoordSnapshot
  <2>1. CASE completedFiles' = {} /\ collectedPrimes' = {}
    BY <2>1, PrimesEmpty DEF MergedWhole
  <2>2. CASE /\ snapFile.state = "data"
             /\ completedFiles' = snapFile.completed
             /\ collectedPrimes' = snapFile.primes
    BY <2>2 DEF IInv, SnapshotFaithful, MergedWhole
  <2>. QED
    BY <1>4, <2>1, <2>2 DEF LoadCoordSnapshot, readFromAFS
<1>5. CASE MergeResult
  <2>1. /\ resultCh \in Seq(Result) /\ resultCh # <<>>
        /\ Head(resultCh) = resultCh[1] /\ 1 \in 1..Len(resultCh)
    BY <1>5 DEF MergeResult, IInv, TypeOK
  <2>2. /\ Head(resultCh).file \in File
        /\ Head(resultCh).primes = PrimesOf[Head(resultCh).file]
    <3>1. resultCh[1] \in Result /\ resultCh[1].ok
      BY <1>5, <2>1 DEF MergeResult
    <3>2. resultCh[1].primes = PrimesOf[resultCh[1].file]
      BY <2>1, <3>1 DEF IInv, ResultsWhole
    <3>. QED
      BY <2>1, <3>1, <3>2 DEF Result
  <2>3. completedFiles \in SUBSET File
    BY DEF IInv, TypeOK
  <2>. QED
    BY <1>5, <2>2, <2>3, PrimesAdd DEF MergeResult, IInv, MergedWhole
<1>6. ASSUME NEW g \in Worker, Goroutine(g) PROVE MergedWhole'
  BY <1>1, <1>6, GoroutineFrame DEF runVars
<1>7. CASE Environment
  BY <1>1, <1>2, <1>7, EnvironmentFrame DEF runVars
<1>8. CASE UNCHANGED vars
  BY <1>1, <1>8 DEF vars, runVars
<1>. QED
  BY <1>1, <1>3, <1>4, <1>5, <1>6, <1>7, <1>8, MainFrame DEF Next

\* Discovery is only cut short by a failing call.
LEMMA NextAllDiscovered == IInv /\ [Next]_vars => AllDiscovered'
<1>. SUFFICES ASSUME IInv, [Next]_vars PROVE AllDiscovered'
  OBVIOUS
<1>0. faults \in Nat /\ AllDiscovered
  BY BoundAssumption DEF IInv, TypeOK
<1>1. ASSUME Fault PROVE AllDiscovered'
  BY <1>0, <1>1 DEF Fault, AllDiscovered
<1>2. ASSUME NoFault, UNCHANGED allFiles,
             pc \in {"down", "discover", "done", "failed"} =>
                 pc' \in {"down", "discover", "done", "failed"}
      PROVE  AllDiscovered'
  BY <1>0, <1>2 DEF NoFault, AllDiscovered
<1>3. CASE discoverInputFiles
  BY <1>0, <1>1, <1>3 DEF discoverInputFiles, AllDiscovered, NoFault
<1>4. CASE LoadCoordSnapshot \/ StartGoroutines
  BY <1>1, <1>2, <1>4 DEF LoadCoordSnapshot, StartGoroutines, NoFault
<1>. USE DEF mainFrame, runVars
<1>5. CASE DropResult \/ MergeResult \/ ChannelClosed
  BY <1>2, <1>5 DEF DropResult, MergeResult, ChannelClosed, NoFault
<1>6. CASE SnapDelete \/ SnapCreate \/ SnapStore \/ CleanSnap
  BY <1>1, <1>2, <1>6 DEF SnapDelete, SnapCreate, SnapStore, CleanSnap
<1>7. CASE OutDelete \/ OutCreate \/ OutStore
  BY <1>1, <1>2, <1>7 DEF OutDelete, OutCreate, OutStore
<1>8. ASSUME NEW w \in Worker, connectToWorkers(w) \/ SendMarker(w) \/ CleanWorker(w)
      PROVE  AllDiscovered'
  BY <1>1, <1>2, <1>8 DEF connectToWorkers, SendMarker, CleanWorker
<1>9. ASSUME NEW g \in Worker, Goroutine(g) PROVE AllDiscovered'
  BY <1>1, <1>2, <1>9, GoroutineFrame
<1>10. CASE Environment
  <2>1. CASE UNCHANGED <<pc, runVars>>
    BY <1>2, <1>10, <2>1, EnvironmentFrame DEF NoFault
  <2>2. CASE pc' \in {"down", "discover"}
    BY <2>2 DEF AllDiscovered
  <2>. QED
    BY <1>10, <2>1, <2>2, EnvironmentFrame
<1>11. CASE UNCHANGED vars
  BY <1>2, <1>11 DEF vars, NoFault
<1>. QED
  BY <1>3, <1>4, <1>5, <1>6, <1>7, <1>8, <1>9, <1>10, <1>11 DEF Next, Main

\* Only Start and discovery lead to a state before the snapshot is read.
LEMMA NextFreshRun == IInv /\ [Next]_vars => FreshRun'
<1>. SUFFICES ASSUME IInv, [Next]_vars PROVE FreshRun'
  OBVIOUS
<1>0. FreshRun
  BY DEF IInv
<1>1. CASE discoverInputFiles
  BY <1>0, <1>1 DEF discoverInputFiles, FreshRun
<1>. USE DEF mainFrame, runVars, FreshRun
<1>2. CASE LoadCoordSnapshot \/ StartGoroutines \/ ChannelClosed
  BY <1>2 DEF LoadCoordSnapshot, StartGoroutines, ChannelClosed
<1>3. CASE DropResult \/ MergeResult
  BY <1>3 DEF DropResult, MergeResult
<1>4. CASE SnapDelete \/ SnapCreate \/ SnapStore \/ CleanSnap
  BY <1>4 DEF SnapDelete, SnapCreate, SnapStore, CleanSnap
<1>5. CASE OutDelete \/ OutCreate \/ OutStore
  BY <1>5 DEF OutDelete, OutCreate, OutStore
<1>6. ASSUME NEW w \in Worker, connectToWorkers(w) \/ SendMarker(w) \/ CleanWorker(w)
      PROVE  FreshRun'
  BY <1>6 DEF connectToWorkers, SendMarker, CleanWorker
<1>7. ASSUME NEW g \in Worker, Goroutine(g) PROVE FreshRun'
  BY <1>0, <1>7, GoroutineFrame
<1>8. CASE Environment
  BY <1>0, <1>8, EnvironmentFrame DEF ForgetRun
<1>9. CASE UNCHANGED vars
  BY <1>0, <1>9 DEF vars
<1>. QED
  BY <1>1, <1>2, <1>3, <1>4, <1>5, <1>6, <1>7, <1>8, <1>9 DEF Next, Main

-----------------------------------------------------------------------------
(* Snapshot and output *)

\* The snapshot file changes in writeToAFS and in the final clean-up only.
LEMMA SnapshotWriters ==
    ASSUME [Next]_vars
    PROVE  \/ UNCHANGED <<snapFile, faults>>
           \/ snapFile' = snapFile /\ Fault
           \/ snapFile'.state # "data"
           \/ SnapStore /\ NoFault
           \/ SnapStore /\ Fault
<1>. USE DEF mainFrame, afsVars, Absent, Empty, NoFault
<1>1. CASE discoverInputFiles \/ LoadCoordSnapshot \/ StartGoroutines
  BY <1>1 DEF discoverInputFiles, LoadCoordSnapshot, StartGoroutines
<1>2. CASE DropResult \/ MergeResult \/ ChannelClosed
  BY <1>2 DEF DropResult, MergeResult, ChannelClosed
<1>3. CASE SnapDelete \/ CleanSnap
  BY <1>3 DEF SnapDelete, CleanSnap
<1>4. CASE SnapCreate
  BY <1>4 DEF SnapCreate
<1>5. CASE SnapStore
  BY <1>5 DEF SnapStore
<1>6. CASE OutDelete \/ OutCreate \/ OutStore
  BY <1>6 DEF OutDelete, OutCreate, OutStore
<1>7. ASSUME NEW w \in Worker, connectToWorkers(w) \/ SendMarker(w) \/ CleanWorker(w)
      PROVE  UNCHANGED <<snapFile, faults>> \/ (snapFile' = snapFile /\ Fault)
  BY <1>7 DEF connectToWorkers, SendMarker, CleanWorker
<1>8. ASSUME NEW g \in Worker, Goroutine(g)
      PROVE  UNCHANGED <<snapFile, faults>> \/ (snapFile' = snapFile /\ Fault)
  BY <1>8, GoroutineFrame
<1>9. CASE Environment
  BY <1>9, EnvironmentFrame
<1>10. CASE UNCHANGED vars
  BY <1>10 DEF vars
<1>. QED
  BY <1>1, <1>2, <1>3, <1>4, <1>5, <1>6, <1>7, <1>8, <1>9, <1>10 DEF Next, Main

\* What InitiateSnapshot stores is the primes of its completed files, and it
\* forgets no input file that Run knows of.
LEMMA NextSnapshotFaithful == IInv /\ [Next]_vars => SnapshotFaithful'
<1>. SUFFICES ASSUME IInv, [Next]_vars PROVE SnapshotFaithful'
  OBVIOUS
<1>0. faults \in Nat /\ SnapshotFaithful
  BY BoundAssumption DEF IInv, TypeOK
<1>1. CASE UNCHANGED <<snapFile, faults>>
  BY <1>0, <1>1 DEF SnapshotFaithful, Primes
<1>2. CASE snapFile' = snapFile /\ Fault
  BY <1>0, <1>2 DEF SnapshotFaithful, Primes, Fault
<1>3. CASE snapFile'.state # "data"
  BY <1>3 DEF SnapshotFaithful
<1>4. ASSUME SnapStore, NoFault \/ Fault PROVE SnapshotFaithful'
  <2>. DEFINE pending == filterPending(allFiles, completedFiles)
  <2>1. CASE snapFile' = snapFile /\ faults' \in Nat /\ (faults' = 0 => faults = 0)
    BY <1>0, <2>1 DEF SnapshotFaithful, Primes
  <2>2. CASE snapFile' = Data(completedFiles, pending, collectedPrimes)
    <3>1. /\ snapFile'.completed = completedFiles
          /\ snapFile'.pending = pending
          /\ snapFile'.primes = collectedPrimes
      BY <2>2 DEF Data
    <3>2. collectedPrimes = Primes(completedFiles)
      BY DEF IInv, MergedWhole
    <3>3. completedFiles \cap pending = {}
      BY DEF filterPending
    <3>4. faults' = 0 => completedFiles \cup pending = File
      <4>1. SUFFICES ASSUME faults' = 0 PROVE completedFiles \cup pending = File
        OBVIOUS
      <4>2. faults = 0 /\ pc = "snapStore"
        BY <1>0, <1>4, <4>1 DEF SnapStore, Fault, NoFault
      <4>3. allFiles = File /\ completedFiles \in SUBSET File
        BY <4>2 DEF IInv, AllDiscovered, TypeOK
      <4>. QED
        BY <4>3 DEF filterPending
    <3>. QED
      BY <3>1, <3>2, <3>3, <3>4 DEF SnapshotFaithful, Primes
  <2>3. faults' \in Nat /\ (faults' = 0 => faults = 0)
    BY <1>0, <1>4 DEF Fault, NoFault
  <2>. QED
    BY <1>4, <2>1, <2>2, <2>3 DEF SnapStore
<1>. QED
  BY <1>1, <1>2, <1>3, <1>4, SnapshotWriters

\* The output file changes in writeFinalOutput only.
LEMMA OutputWriters ==
    ASSUME [Next]_vars
    PROVE  \/ outFile' = outFile
           \/ outFile'.state # "data"
           \/ outFile' = Data({}, {}, collectedPrimes)
<1>. USE DEF mainFrame, afsVars, Absent, Empty
<1>1. CASE discoverInputFiles \/ LoadCoordSnapshot \/ StartGoroutines
  BY <1>1 DEF discoverInputFiles, LoadCoordSnapshot, StartGoroutines
<1>2. CASE DropResult \/ MergeResult \/ ChannelClosed
  BY <1>2 DEF DropResult, MergeResult, ChannelClosed
<1>3. CASE SnapDelete \/ SnapCreate \/ SnapStore \/ CleanSnap
  BY <1>3 DEF SnapDelete, SnapCreate, SnapStore, CleanSnap
<1>4. CASE OutDelete \/ OutCreate \/ OutStore
  BY <1>4 DEF OutDelete, OutCreate, OutStore
<1>5. ASSUME NEW w \in Worker, connectToWorkers(w) \/ SendMarker(w) \/ CleanWorker(w)
      PROVE  outFile' = outFile
  BY <1>5 DEF connectToWorkers, SendMarker, CleanWorker
<1>6. ASSUME NEW g \in Worker, Goroutine(g) PROVE outFile' = outFile
  BY <1>6, GoroutineFrame
<1>7. CASE Environment
  BY <1>7, EnvironmentFrame
<1>8. CASE UNCHANGED vars
  BY <1>8 DEF vars
<1>. QED
  BY <1>1, <1>2, <1>3, <1>4, <1>5, <1>6, <1>7, <1>8 DEF Next, Main

\* The output is what Run has merged: the primes of whole files.
LEMMA NextOutputWholeFiles == IInv /\ [Next]_vars => OutputWholeFiles'
<1>. SUFFICES ASSUME IInv, [Next]_vars PROVE OutputWholeFiles'
  OBVIOUS
<1>1. CASE outFile' = outFile
  BY <1>1 DEF IInv, OutputWholeFiles, Primes
<1>2. CASE outFile'.state # "data"
  BY <1>2 DEF OutputWholeFiles
<1>3. CASE outFile' = Data({}, {}, collectedPrimes)
  <2>1. outFile'.primes = Primes(completedFiles) /\ completedFiles \in SUBSET File
    BY <1>3 DEF Data, IInv, MergedWhole, TypeOK
  <2>. QED
    BY <2>1 DEF OutputWholeFiles, Primes
<1>. QED
  BY <1>1, <1>2, <1>3, OutputWriters

-----------------------------------------------------------------------------
(* The refinement of PrimeJob *)

\* A step that changes none of these is no step of the job.
LEMMA JobStutter ==
    ASSUME UNCHANGED <<completedFiles, snapFile, outFile>>
    PROVE  UNCHANGED Job!jobVars
BY DEF Job!jobVars, Saved, Published

\* Every step of the coordinator and its workers is a step of the job or none.
LEMMA JobNext ==
    ASSUME IInv, [Next]_vars
    PROVE  [Job!Next]_(Job!jobVars)
<1>. USE DEF mainFrame, runVars, afsVars
<1>1. CASE discoverInputFiles \/ StartGoroutines \/ DropResult \/ ChannelClosed
  BY <1>1, JobStutter DEF discoverInputFiles, StartGoroutines, DropResult, ChannelClosed
<1>2. CASE LoadCoordSnapshot
  <2>1. completedFiles = {} /\ UNCHANGED <<snapFile, outFile>>
    BY <1>2 DEF LoadCoordSnapshot, IInv, FreshRun
  <2>2. Saved' = Saved /\ Published' = Published
    BY <2>1 DEF Saved, Published
  <2>3. CASE completedFiles' = {}
    BY <2>1, <2>3, JobStutter
  <2>4. CASE snapFile.state = "data" /\ completedFiles' = snapFile.completed
    BY <2>1, <2>2, <2>4 DEF Job!Next, Job!Recover, Saved
  <2>. QED
    BY <1>2, <2>3, <2>4 DEF LoadCoordSnapshot, readFromAFS
<1>3. CASE MergeResult
  <2>1. PICK f \in File : completedFiles' = completedFiles \cup {f}
    <3>1. resultCh \in Seq(Result) /\ resultCh # <<>>
      BY <1>3 DEF MergeResult, IInv, TypeOK
    <3>2. Head(resultCh) = resultCh[1] /\ resultCh[1] \in Result
      BY <3>1
    <3>3. Head(resultCh).file \in File
      BY <3>2 DEF Result
    <3>. QED
      BY <1>3, <3>3 DEF MergeResult
  <2>2. UNCHANGED <<snapFile, outFile>>
    BY <1>3 DEF MergeResult
  <2>3. CASE f \in completedFiles
    <3>1. completedFiles' = completedFiles
      BY <2>1, <2>3
    <3>. QED
      BY <2>2, <3>1, JobStutter
  <2>4. CASE f \notin completedFiles
    BY <2>1, <2>2, <2>4 DEF Job!Next, Job!Accept, Saved, Published
  <2>. QED
    BY <2>3, <2>4
<1>4. CASE SnapDelete \/ SnapCreate \/ SnapStore \/ CleanSnap
  <2>1. UNCHANGED <<completedFiles, outFile>>
    BY <1>4 DEF SnapDelete, SnapCreate, SnapStore, CleanSnap
  <2>2. Published' = Published
    BY <2>1 DEF Published
  <2>3. \/ snapFile' \in {snapFile, Absent, Empty}
        \/ \E p : snapFile' = Data(completedFiles, p, collectedPrimes)
    BY <1>4 DEF SnapDelete, SnapCreate, SnapStore, CleanSnap
  <2>4. CASE snapFile' = snapFile
    BY <2>1, <2>4, JobStutter
  <2>5. CASE snapFile' \in {Absent, Empty}
    <3>1. Saved' = {}
      BY <2>5 DEF Saved, Absent, Empty
    <3>. QED
      BY <2>1, <2>2, <3>1 DEF Job!Next, Job!Discard
  <2>6. ASSUME NEW p, snapFile' = Data(completedFiles, p, collectedPrimes)
        PROVE  Job!Save
    <3>1. Saved' = completedFiles
      BY <2>6 DEF Saved, Data
    <3>. QED
      BY <2>1, <2>2, <3>1 DEF Job!Save
  <2>. QED
    BY <2>3, <2>4, <2>5, <2>6 DEF Job!Next
<1>5. CASE OutDelete \/ OutCreate \/ OutStore
  <2>1. UNCHANGED <<completedFiles, snapFile>>
    BY <1>5 DEF OutDelete, OutCreate, OutStore
  <2>2. Saved' = Saved
    BY <2>1 DEF Saved
  <2>3. outFile' \in {outFile, Absent, Empty, Data({}, {}, collectedPrimes)}
    BY <1>5 DEF OutDelete, OutCreate, OutStore
  <2>4. CASE outFile' = outFile
    BY <2>1, <2>4, JobStutter
  <2>5. CASE outFile' \in {Absent, Empty}
    <3>1. Published' = {}
      BY <2>5 DEF Published, Absent, Empty
    <3>. QED
      BY <2>1, <2>2, <3>1 DEF Job!Next, Job!Withdraw
  <2>6. CASE outFile' = Data({}, {}, collectedPrimes)
    <3>1. Published' = {collectedPrimes}
      BY <2>6 DEF Published, Data
    <3>2. collectedPrimes = Job!AllPrimes(completedFiles)
      BY DEF IInv, MergedWhole, Primes, Job!AllPrimes
    <3>. QED
      BY <2>1, <2>2, <3>1, <3>2 DEF Job!Next, Job!Publish
  <2>. QED
    BY <2>3, <2>4, <2>5, <2>6
<1>6. ASSUME NEW w \in Worker, connectToWorkers(w) \/ SendMarker(w) \/ CleanWorker(w)
      PROVE  UNCHANGED Job!jobVars
  BY <1>6, JobStutter DEF connectToWorkers, SendMarker, CleanWorker
<1>7. ASSUME NEW g \in Worker, Goroutine(g) PROVE UNCHANGED Job!jobVars
  BY <1>7, JobStutter, GoroutineFrame
<1>8. CASE Environment
  <2>1. UNCHANGED <<snapFile, outFile>>
    BY <1>8, EnvironmentFrame
  <2>2. CASE UNCHANGED completedFiles
    BY <2>1, <2>2, JobStutter
  <2>3. CASE ForgetRun
    BY <2>1, <2>3 DEF ForgetRun, Job!Next, Job!Crash, Saved, Published
  <2>. QED
    BY <1>8, <2>2, <2>3, EnvironmentFrame
<1>9. CASE UNCHANGED vars
  BY <1>9, JobStutter DEF vars
<1>. QED
  BY <1>1, <1>2, <1>3, <1>4, <1>5, <1>6, <1>7, <1>8, <1>9 DEF Next, Main

-----------------------------------------------------------------------------
(* The theorems *)

\* The inductive invariant holds in every reachable state.
THEOREM IInvHolds == Spec => []IInv
<1>1. Init => IInv
  BY InitIInv
<1>2. IInv /\ [Next]_vars => IInv'
  <2>. SUFFICES ASSUME IInv, [Next]_vars PROVE IInv'
    OBVIOUS
  <2>1. TypeOK /\ TasksWhole
    BY DEF IInv
  <2>2. UNCHANGED vars => TypeOK'
    BY <2>1
    DEF TypeOK, vars, runVars, poolVars, markVars, afsVars, workerVars
  <2>3. TypeOK'
    BY <2>1, <2>2, MainTypeOK, GoroutineTypeOK, EnvironmentTypeOK DEF Next
  <2>. QED
    BY <2>3, NextTasksWhole, NextResultsWhole, NextMergedWhole, NextAllDiscovered, NextFreshRun,
       NextSnapshotFaithful, NextOutputWholeFiles DEF IInv
<1>. QED
  BY <1>1, <1>2, PTL DEF Spec

\* Type correctness of the coordinator, its workers and their files.
THEOREM TypeCorrect == Spec => []TypeOK
  BY IInvHolds, PTL DEF IInv

\* A stored snapshot is self-consistent whatever crashes and whatever fails:
\* a coordinator that recovers from it (LoadCoordSnapshot) resumes with the
\* primes of exactly the files it will not process again.
THEOREM SnapshotCorrect == Spec => []SnapshotFaithful
  BY IInvHolds, PTL DEF IInv

\* The output file never holds part of an input file's primes, whatever
\* streams broke and whatever was reassigned or recovered on the way.
THEOREM OutputCorrect == Spec => []OutputWholeFiles
  BY IInvHolds, PTL DEF IInv

\* The coordinator implements PrimeJob: no interleaving of goroutines, lost
\* stream, reassignment, crash or failing snapshot makes it publish anything
\* but the primes of exactly the files it has accepted.
THEOREM JobCorrect == Spec => ImplementsJob
<1>1. Init => Job!Init
  BY DEF Init, Job!Init, Saved, Published, Absent
<1>2. IInv /\ [Next]_vars => [Job!Next]_(Job!jobVars)
  BY JobNext
<1>. QED
  BY <1>1, <1>2, IInvHolds, PTL DEF Spec, ImplementsJob, Job!Spec

=============================================================================
