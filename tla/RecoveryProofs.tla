--------------------------- MODULE RecoveryProofs ---------------------------
(***************************************************************************)
(* Proofs about recovery: what the snapshot is worth when the coordinator  *)
(* or a worker dies, for Runs in which no call fails for good.             *)
(***************************************************************************)
EXTENDS PlacesProofs

\* Run writes the output and removes the coordinator's snapshot.
Ending == {"outDelete", "outCreate", "outStore", "cleanSnap"}

\* From the end of the result loop to the end of Run.
Closing == Ending \cup {"cleanWorkers", "done"}

\* Nothing is merged that is not stored.
AtRest == {"connect", "assign", "collect"} \cup Ending

\* Run has looked for a snapshot and not removed it yet.
Resumed == AtRest \cup Looping

-----------------------------------------------------------------------------
(* The snapshot and what Run has merged *)

\* A snapshot file without content records nothing.
BareRecordsNothing == snapFile.state # "data" => snapFile.completed = {}

\* What the stored snapshot records Run has, and at rest it has nothing more.
SnapshotBehind ==
    faults = 0 =>
        /\ pc \in Resumed => snapFile.completed \subseteq completedFiles
        /\ pc \in AtRest /\ completedFiles # {} =>
               /\ snapFile.state = "data"
               /\ snapFile.completed = completedFiles
               /\ snapFile.primes = collectedPrimes
        /\ pc = "snapCreate" => snapFile.state = "absent"

Durable == BareRecordsNothing /\ SnapshotBehind

-----------------------------------------------------------------------------
(* Workers that fail, and the one that does not *)

\* A connected worker that is down has crashed since.
DownHasCrashed == workers \subseteq alive \cup crashed

\* connectToWorkers takes the workers one by one, and Run goes on with some.
ConnectedInTurn ==
    /\ pc \in {"discover", "load"} => workers = {} /\ visited = {}
    /\ pc = "connect" => workers \subseteq visited
    /\ pc \in {"assign"} \cup Looping => workers # {}

\* Goroutines run for connected workers, on connected workers, their own first,
\* and without a failing call it takes a crash to make them try another one.
TriedHaveCrashed ==
    \A g \in Worker :
        /\ todo[g] # {} \/ Busy(g) => g \in workers
        /\ Busy(g) =>
               /\ task[g].worker \in workers
               /\ g \in task[g].tried \cup {task[g].worker}
               /\ faults = 0 => task[g].tried \subseteq crashed
               /\ faults = 0 /\ task[g].phase = "broken" => task[g].worker \in crashed

\* An error result means that every connected worker has crashed.
ErrorMeansNone ==
    faults = 0 => \A i \in 1..Len(resultCh) : resultCh[i].ok \/ workers \subseteq crashed

\* A file is listed, in hand, in the channel or completed.
HasPlace(f) ==
    \/ f \in completedFiles
    \/ \E g \in Worker : f \in todo[g] \/ (Busy(g) /\ task[g].file = f)
    \/ \E i \in 1..Len(resultCh) : resultCh[i].file = f

\* With a connected worker that has not crashed no file is lost, and after the
\* result loop all are completed.
NothingLost ==
    faults = 0 =>
        /\ pc \in Looping /\ ~(workers \subseteq crashed) => \A f \in File : HasPlace(f)
        /\ /\ pc \in Closing
           /\ workers = {} \/ ~(workers \subseteq crashed)
           => completedFiles = File

\* Run goes on from OutStore with the output stored.
OutputStored ==
    pc \in {"cleanSnap", "cleanWorkers", "done"} => outFile = Data({}, {}, collectedPrimes)

Survival ==
    /\ DownHasCrashed
    /\ ConnectedInTurn
    /\ TriedHaveCrashed
    /\ ErrorMeansNone
    /\ NothingLost
    /\ OutputStored

-----------------------------------------------------------------------------
(* The first Run *)

\* Nothing is on AFS before the coordinator is first started.
BeforeFirstRun ==
    runs = 0 => pc = "down" /\ snapFile = Absent /\ workerFiles = {} /\ orphans = {}

\* The first Run starts on a clean AFS, only its own workers save snapshots, and
\* it removes the coordinator's and theirs.
DuringFirstRun ==
    faults = 0 /\ runs = 1 /\ pc # "down" =>
        /\ orphans = {}
        /\ pc \in {"discover", "load", "connect", "assign"} =>
               snapFile = Absent /\ workerFiles = {}
        /\ pc \in Looping \cup Ending \cup {"cleanWorkers"} =>
               workers # {} /\ workerFiles \subseteq workers
        /\ pc = "cleanWorkers" => snapFile = Absent /\ workerFiles \cap visited = {}
        /\ pc = "done" => snapFile = Absent /\ workerFiles = {}

FirstRun == BeforeFirstRun /\ DuringFirstRun

-----------------------------------------------------------------------------
(* The markers *)

\* Every worker has a host, and so a snapshot port, of its own (docker-compose).
OwnPorts == \A w \in Worker : \E v \in Worker : MarkerDest[v] = w

\* No call has failed and no worker has died.
Undisturbed == faults = 0 /\ workerCrashes = 0

\* Every worker is connected.
AllConnected ==
    /\ workerCrashes = 0 => alive = Worker
    /\ Undisturbed => /\ pc = "connect" => visited \subseteq workers
                      /\ pc \in {"assign"} \cup Looping => workers = Worker

\* Some worker's state has file f.
Recorded(f) == \E w \in Worker : f \in workerCompleted[w]

\* A worker records a file before its stream ends.
RecordedFirst ==
    Undisturbed =>
        /\ \A f \in completedFiles \cup snapFile.completed : Recorded(f)
        /\ \A i \in 1..Len(resultCh) : resultCh[i].ok => Recorded(resultCh[i].file)
        /\ \A g \in Worker : task[g].phase \in {"saving", "eof"} => Recorded(task[g].file)

\* The marker of a worker has been answered.
Answered(w) == \E v \in visited : MarkerDest[v] = w

\* For every file Run has merged, a worker's state has it and, once that worker
\* has answered its marker, so does the cut.
CutFollows ==
    Undisturbed =>
        /\ pc \in Looping \ {"collect"} =>
               \A f \in completedFiles : \E w \in Worker :
                   f \in workerCompleted[w] /\ (Answered(w) => f \in cut[w])
        /\ pc \in {"snapDelete", "snapCreate", "snapStore"} => visited = workers

Markers == AllConnected /\ RecordedFirst /\ CutFollows

-----------------------------------------------------------------------------
(* The snapshot is kept up *)

\* In a step, calls fail or do not: the count of failed calls only grows.
LEMMA FaultsCounted == IInv /\ [Next]_vars => faults \in Nat /\ (Fault \/ NoFault)
<1>. SUFFICES ASSUME IInv, [Next]_vars PROVE Fault \/ NoFault
  BY BoundAssumption DEF IInv, TypeOK
<1>. USE DEF mainFrame, NoFault
<1>1. CASE discoverInputFiles \/ LoadCoordSnapshot \/ StartGoroutines
  BY <1>1 DEF discoverInputFiles, LoadCoordSnapshot, StartGoroutines
<1>2. CASE DropResult \/ MergeResult \/ ChannelClosed
  BY <1>2 DEF DropResult, MergeResult, ChannelClosed
<1>3. CASE SnapDelete \/ SnapCreate \/ SnapStore \/ CleanSnap
  BY <1>3 DEF SnapDelete, SnapCreate, SnapStore, CleanSnap
<1>4. CASE OutDelete \/ OutCreate \/ OutStore
  BY <1>4 DEF OutDelete, OutCreate, OutStore
<1>5. ASSUME NEW w \in Worker, connectToWorkers(w) \/ SendMarker(w) \/ CleanWorker(w)
      PROVE  Fault \/ NoFault
  BY <1>5 DEF connectToWorkers, SendMarker, CleanWorker
<1>6. ASSUME NEW g \in Worker, Goroutine(g) PROVE Fault \/ NoFault
  BY <1>6, GoroutineFrame
<1>7. CASE Environment
  BY <1>7, EnvironmentFrame
<1>8. CASE UNCHANGED vars
  BY <1>8 DEF vars
<1>. QED
  BY <1>1, <1>2, <1>3, <1>4, <1>5, <1>6, <1>7, <1>8 DEF Next, Main

\* Where no call has failed after a step, none failed in it.
LEMMA NoFaultBefore == IInv /\ [Next]_vars /\ faults' = 0 => faults = 0 /\ ~Fault
  BY FaultsCounted DEF Fault, NoFault

\* A snapshot is stored before the result loop goes on, and read before it
\* starts again.
LEMMA NextDurable == IInv /\ Durable /\ [Next]_vars => Durable'
<1>. SUFFICES ASSUME IInv, Durable, [Next]_vars PROVE Durable'
  OBVIOUS
<1>. USE DEF Resumed, AtRest, Ending, Looping
<1>0. faults' = 0 => faults = 0 /\ ~Fault
  BY NoFaultBefore
<1>1. ASSUME UNCHANGED <<snapFile, completedFiles, collectedPrimes>>,
             pc' \in Resumed => pc \in Resumed,
             pc' \in AtRest => pc \in AtRest,
             pc' = "snapCreate" => pc = "snapCreate"
      PROVE  Durable'
  BY <1>0, <1>1 DEF Durable, BareRecordsNothing, SnapshotBehind
<1>2. ASSUME pc' \notin Resumed, UNCHANGED snapFile PROVE Durable'
  BY <1>2 DEF Durable, BareRecordsNothing, SnapshotBehind
<1>3. CASE discoverInputFiles
  BY <1>2, <1>3 DEF discoverInputFiles, afsVars
<1>4. CASE LoadCoordSnapshot
  <2>1. UNCHANGED snapFile
    BY <1>4 DEF LoadCoordSnapshot, afsVars
  <2>2. BareRecordsNothing'
    BY <2>1 DEF Durable, BareRecordsNothing
  <2>3. SnapshotBehind'
    <3>1. SUFFICES ASSUME faults' = 0 PROVE SnapshotBehind'
      BY DEF SnapshotBehind
    <3>2. ~Fault
      BY <1>0, <3>1
    <3>3. CASE snapFile.state = "data"
      BY <1>4, <2>1, <3>2, <3>3 DEF LoadCoordSnapshot, readFromAFS, SnapshotBehind
    <3>4. CASE snapFile.state # "data"
      <4>1. snapFile'.completed = {} /\ completedFiles' = {}
        BY <1>4, <2>1, <3>4
        DEF LoadCoordSnapshot, readFromAFS, Durable, BareRecordsNothing
      <4>. QED
        BY <1>4, <4>1 DEF LoadCoordSnapshot, SnapshotBehind
    <3>. QED
      BY <3>3, <3>4
  <2>. QED
    BY <2>2, <2>3 DEF Durable
<1>5. CASE StartGoroutines \/ DropResult \/ ChannelClosed
  BY <1>1, <1>5 DEF StartGoroutines, DropResult, ChannelClosed, mainFrame, runVars, afsVars
<1>6. CASE MergeResult
  <2>1. /\ UNCHANGED snapFile /\ pc = "collect" /\ pc' = "markers"
        /\ completedFiles \subseteq completedFiles'
    BY <1>6 DEF MergeResult, afsVars
  <2>. QED
    BY <1>0, <2>1 DEF Durable, BareRecordsNothing, SnapshotBehind
<1>7. CASE SnapDelete
  <2>1. /\ snapFile' \in {snapFile, Absent} /\ (~Fault => snapFile' = Absent)
        /\ pc' = "snapCreate" /\ UNCHANGED completedFiles
    BY <1>7 DEF SnapDelete, mainFrame, runVars
  <2>. QED
    BY <1>0, <2>1 DEF Durable, BareRecordsNothing, SnapshotBehind, Absent
<1>8. CASE SnapCreate
  <2>1. /\ snapFile' \in {snapFile, Absent, Empty}
        /\ pc' \in {"snapStore", "collect"} /\ UNCHANGED completedFiles
    BY <1>8 DEF SnapCreate, mainFrame, runVars
  <2>2. BareRecordsNothing'
    BY <2>1 DEF Durable, BareRecordsNothing, Absent, Empty
  <2>3. ASSUME faults' = 0 PROVE pc' = "snapStore" /\ snapFile' = Empty
    BY <1>0, <1>8, <2>3 DEF SnapCreate, Durable, SnapshotBehind
  <2>. QED
    BY <2>2, <2>3 DEF Durable, SnapshotBehind, Empty, Absent
<1>9. CASE SnapStore
  <2>. DEFINE snap == Data(completedFiles, filterPending(allFiles, completedFiles),
                           collectedPrimes)
  <2>1. /\ snapFile' \in {snapFile, snap} /\ (~Fault => snapFile' = snap)
        /\ pc' = "collect" /\ UNCHANGED <<completedFiles, collectedPrimes>>
    BY <1>9 DEF SnapStore, mainFrame, runVars
  <2>2. /\ snap.state = "data" /\ snap.completed = completedFiles
        /\ snap.primes = collectedPrimes
    BY DEF Data
  <2>. HIDE DEF snap
  <2>. QED
    BY <1>0, <2>1, <2>2 DEF Durable, BareRecordsNothing, SnapshotBehind
<1>10. CASE CleanSnap
  <2>1. snapFile' \in {snapFile, Absent} /\ pc' = "cleanWorkers"
    BY <1>10 DEF CleanSnap
  <2>. QED
    BY <2>1 DEF Durable, BareRecordsNothing, SnapshotBehind, Absent
<1>11. CASE OutDelete \/ OutCreate \/ OutStore
  BY <1>1, <1>11 DEF OutDelete, OutCreate, OutStore, mainFrame, runVars
<1>12. ASSUME NEW w \in Worker, connectToWorkers(w) \/ SendMarker(w) \/ CleanWorker(w)
       PROVE  Durable'
  BY <1>1, <1>12 DEF connectToWorkers, SendMarker, CleanWorker, runVars, afsVars
<1>13. ASSUME NEW g \in Worker, Goroutine(g) PROVE Durable'
  BY <1>1, <1>13, GoroutineFrame DEF runVars
<1>14. CASE Environment
  BY <1>1, <1>2, <1>14, EnvironmentFrame DEF runVars
<1>15. CASE UNCHANGED vars
  BY <1>1, <1>15 DEF vars, runVars, afsVars
<1>. QED
  BY <1>3, <1>4, <1>5, <1>6, <1>7, <1>8, <1>9, <1>10, <1>11, <1>12, <1>13, <1>14, <1>15
  DEF Next, Main

\* The invariant of the snapshot holds in every reachable state.
THEOREM DurableHolds == Spec => []Durable
<1>1. Init => Durable
  BY DEF Init, Durable, BareRecordsNothing, SnapshotBehind, Absent, Resumed, AtRest,
         Ending, Looping
<1>2. IInv /\ Durable /\ [Next]_vars => Durable'
  BY NextDurable
<1>. QED
  BY <1>1, <1>2, IInvHolds, PTL DEF Spec

\* Whenever Run waits for the next result or writes the output, a crash loses
\* none of the files it has merged.
THEOREM LoopHeadDurable == Spec => []DurableAtLoopHead
<1>1. Durable => DurableAtLoopHead
  BY DEF Durable, SnapshotBehind, DurableAtLoopHead, AtRest, Ending
<1>. QED
  BY <1>1, DurableHolds, PTL

\* A recovered Run does not process again what its snapshot has, and neither
\* does the Run that stored it.
THEOREM CompletedSkipped == Spec => []NoReprocessing
<1>1. Durable /\ Places => NoReprocessing
  <2>. SUFFICES ASSUME Durable, Places, faults = 0, NEW f \in snapFile.completed
                PROVE  InHand(f) \cup Listed(f) = {}
    BY DEF NoReprocessing
  <2>1. CASE pc \in Looping
    <3>1. f \in completedFiles
      BY <2>1 DEF Durable, SnapshotBehind, Resumed
    <3>. QED
      BY <3>1 DEF Places, CompletedApart, InHand, Listed, Busy
  <2>2. CASE pc \notin Looping
    BY <2>2 DEF Places, QuietOutside, InHand, Listed, Busy
  <2>. QED
    BY <2>1, <2>2
<1>. QED
  BY <1>1, DurableHolds, PlacesHold, PTL

-----------------------------------------------------------------------------
(* One worker is enough *)

\* The connected workers change when Run connects to them and when it ends, and
\* workers crash and restart.
LEMMA WorkerSteps ==
    ASSUME [Next]_vars
    PROVE  \/ UNCHANGED <<workers, alive, crashed, workerCrashes>>
           \/ \E w \in Worker : connectToWorkers(w) \/ WorkerCrash(w) \/ WorkerRestart(w)
           \/ ForgetRun /\ pc' \in {"down", "discover"} /\ UNCHANGED <<alive, crashed, workerCrashes>>
<1>. USE DEF mainFrame, runVars, workerVars
<1>1. CASE discoverInputFiles \/ LoadCoordSnapshot \/ StartGoroutines
  BY <1>1 DEF discoverInputFiles, LoadCoordSnapshot, StartGoroutines
<1>2. CASE DropResult \/ MergeResult \/ ChannelClosed
  BY <1>2 DEF DropResult, MergeResult, ChannelClosed
<1>3. CASE SnapDelete \/ SnapCreate \/ SnapStore \/ CleanSnap
  BY <1>3 DEF SnapDelete, SnapCreate, SnapStore, CleanSnap
<1>4. CASE OutDelete \/ OutCreate \/ OutStore
  BY <1>4 DEF OutDelete, OutCreate, OutStore
<1>5. ASSUME NEW w \in Worker, SendMarker(w) \/ CleanWorker(w)
      PROVE  UNCHANGED <<workers, alive, crashed, workerCrashes>>
  BY <1>5 DEF SendMarker, CleanWorker
<1>6. ASSUME NEW g \in Worker, Goroutine(g)
      PROVE  UNCHANGED <<workers, alive, crashed, workerCrashes>>
  <2>. USE DEF poolFrame
  <2>1. CASE TakeFile(g) \/ CallWorker(g) \/ SendBatch(g) \/ FinishFile(g)
    BY <2>1 DEF TakeFile, CallWorker, SendBatch, FinishFile
  <2>2. CASE StreamFault(g) \/ PostResult(g) \/ Reassign(g) \/ PostError(g)
    BY <2>2 DEF StreamFault, PostResult, Reassign, PostError
  <2>3. CASE SaveWorkerSnapshot(g)
    BY <2>3 DEF SaveWorkerSnapshot
  <2>. QED
    BY <1>6, <2>1, <2>2, <2>3 DEF Goroutine
<1>7. CASE Start \/ CoordinatorCrash
  BY <1>7 DEF Start, CoordinatorCrash
<1>8. ASSUME NEW w \in Worker, NEW f \in File, OrphanEnd(w, f)
      PROVE  UNCHANGED <<workers, alive, crashed, workerCrashes>>
  BY <1>8 DEF OrphanEnd
<1>9. CASE UNCHANGED vars
  BY <1>9 DEF vars
<1>. QED
  BY <1>1, <1>2, <1>3, <1>4, <1>5, <1>6, <1>7, <1>8, <1>9 DEF Next, Main, Environment

\* Run connects to a worker that is up; from then on it is down after a crash only.
LEMMA NextDownHasCrashed == DownHasCrashed /\ ConnectedInTurn /\ [Next]_vars => DownHasCrashed'
<1>. SUFFICES ASSUME DownHasCrashed, ConnectedInTurn, [Next]_vars PROVE DownHasCrashed'
  OBVIOUS
<1>. USE DEF DownHasCrashed
<1>1. ASSUME NEW w \in Worker, connectToWorkers(w) PROVE DownHasCrashed'
  <2>1. workers \subseteq visited /\ w \notin visited
    BY <1>1 DEF connectToWorkers, ConnectedInTurn, First
  <2>2. /\ workers' \subseteq workers \cup (alive \cap {w})
        /\ crashed' = crashed \ {w} /\ alive' = alive
    BY <1>1 DEF connectToWorkers
  <2>. QED
    BY <2>1, <2>2
<1>2. ASSUME NEW w \in Worker, WorkerCrash(w) \/ WorkerRestart(w) PROVE DownHasCrashed'
  BY <1>2 DEF WorkerCrash, WorkerRestart, runVars
<1>3. CASE ForgetRun
  BY <1>3 DEF ForgetRun
<1>. QED
  BY <1>1, <1>2, <1>3, WorkerSteps

\* Run has no worker before it connects, and some worker after it.
LEMMA NextConnectedInTurn == IInv /\ ConnectedInTurn /\ [Next]_vars => ConnectedInTurn'
<1>. SUFFICES ASSUME IInv, ConnectedInTurn, [Next]_vars PROVE ConnectedInTurn'
  OBVIOUS
<1>. USE DEF ConnectedInTurn, Looping, mainFrame, runVars, markVars
<1>1. CASE discoverInputFiles \/ LoadCoordSnapshot \/ StartGoroutines
  BY <1>1 DEF discoverInputFiles, LoadCoordSnapshot, StartGoroutines
<1>2. CASE DropResult \/ MergeResult \/ ChannelClosed
  BY <1>2 DEF DropResult, MergeResult, ChannelClosed
<1>3. CASE SnapDelete \/ SnapCreate \/ SnapStore \/ CleanSnap
  BY <1>3 DEF SnapDelete, SnapCreate, SnapStore, CleanSnap
<1>4. CASE OutDelete \/ OutCreate \/ OutStore
  BY <1>4 DEF OutDelete, OutCreate, OutStore
<1>5. ASSUME NEW w \in Worker, SendMarker(w) \/ CleanWorker(w) PROVE ConnectedInTurn'
  BY <1>5 DEF SendMarker, CleanWorker
<1>6. ASSUME NEW w \in Worker, connectToWorkers(w) PROVE ConnectedInTurn'
  BY <1>6 DEF connectToWorkers
<1>7. ASSUME NEW g \in Worker, Goroutine(g) PROVE ConnectedInTurn'
  <2>1. UNCHANGED <<pc, workers, visited>>
    BY <1>7 DEF Goroutine, TakeFile, CallWorker, SendBatch, FinishFile, SaveWorkerSnapshot,
                StreamFault, PostResult, Reassign, PostError, poolFrame
  <2>. QED
    BY <2>1
<1>8. CASE Start \/ CoordinatorCrash
  BY <1>8 DEF Start, CoordinatorCrash, ForgetRun
<1>9. ASSUME NEW w \in Worker, NEW f \in File,
             WorkerCrash(w) \/ WorkerRestart(w) \/ OrphanEnd(w, f)
      PROVE  ConnectedInTurn'
  BY <1>9 DEF WorkerCrash, WorkerRestart, OrphanEnd
<1>10. CASE UNCHANGED vars
  BY <1>10 DEF vars
<1>11. File # {}
  BY SizeAssumption DEF File
<1>. QED
  BY <1>1, <1>2, <1>3, <1>4, <1>5, <1>6, <1>7, <1>8, <1>9, <1>10, <1>11
  DEF Next, Main, Environment

\* A goroutine goes on to another worker when the one it tried has crashed.
LEMMA NextTriedHaveCrashed ==
    IInv /\ Places /\ Survival /\ [Next]_vars => TriedHaveCrashed'
<1>. DEFINE Good(t, todos, h, ws, cr, fs) ==
         /\ todos # {} \/ t.phase # "idle" => h \in ws
         /\ t.phase # "idle" =>
                /\ t.worker \in ws
                /\ h \in t.tried \cup {t.worker}
                /\ fs = 0 => t.tried \subseteq cr
                /\ fs = 0 /\ t.phase = "broken" => t.worker \in cr
<1>. SUFFICES ASSUME IInv, Places, Survival, [Next]_vars, NEW h \in Worker
              PROVE  Good(task'[h], todo'[h], h, workers', crashed', faults')
  BY DEF TriedHaveCrashed, Busy
<1>. USE DEF runVars, workerVars
<1>0. /\ Good(task[h], todo[h], h, workers, crashed, faults)
      /\ task \in [Worker -> Task] /\ todo \in [Worker -> SUBSET File]
      /\ faults' = 0 => faults = 0 /\ ~Fault
  BY NoFaultBefore DEF Survival, TriedHaveCrashed, Busy, IInv, TypeOK
<1>1. ASSUME UNCHANGED <<task, todo, workers, crashed>>
      PROVE  Good(task'[h], todo'[h], h, workers', crashed', faults')
  BY <1>0, <1>1
<1>2. ASSUME todo'[h] = {}, task'[h].phase = "idle"
      PROVE  Good(task'[h], todo'[h], h, workers', crashed', faults')
  BY <1>2
<1>3. ASSUME NEW g \in Worker, Goroutine(g)
      PROVE  Good(task'[h], todo'[h], h, workers', crashed', faults')
  <2>0. UNCHANGED <<workers, crashed>>
    BY <1>3 DEF Goroutine, TakeFile, CallWorker, SendBatch, FinishFile, SaveWorkerSnapshot,
                StreamFault, PostResult, Reassign, PostError, poolFrame
  <2>1. CASE TakeFile(g)
    <3>1. PICK f \in todo[g] : /\ todo' = [todo EXCEPT ![g] = @ \ {f}]
                               /\ task' = [task EXCEPT ![g] = Call(f, g, {})]
      BY <2>1 DEF TakeFile
    <3>2. CASE h # g
      BY <1>0, <2>0, <3>1, <3>2
    <3>3. CASE h = g
      BY <1>0, <2>0, <3>1, <3>3 DEF Call
    <3>. QED
      BY <3>2, <3>3
  <2>2. CASE CallWorker(g)
    <3>1. UNCHANGED todo
      BY <2>2 DEF CallWorker
    <3>2. CASE h # g
      BY <1>0, <2>0, <2>2, <3>1, <3>2 DEF CallWorker
    <3>3. CASE h = g
      <4>1. task[h].worker \in alive \cup crashed
        BY <1>0, <2>2, <3>3 DEF CallWorker, Survival, DownHasCrashed
      <4>2. task'[h] = [task[h] EXCEPT !.phase = "open"]
            \/ (task'[h] = [task[h] EXCEPT !.phase = "broken"]
                 /\ (task[h].worker \notin alive \/ Fault))
        BY <1>0, <2>2, <3>3 DEF CallWorker
      <4>. QED
        BY <1>0, <2>0, <2>2, <3>1, <3>3, <4>1, <4>2 DEF CallWorker, Task
    <3>. QED
      BY <3>2, <3>3
  <2>3. CASE SendBatch(g) \/ FinishFile(g) \/ SaveWorkerSnapshot(g)
    <3>1. UNCHANGED todo
      BY <2>3 DEF SendBatch, FinishFile, SaveWorkerSnapshot
    <3>. QED
      BY <1>0, <2>0, <2>3, <3>1 DEF SendBatch, FinishFile, SaveWorkerSnapshot, Task
  <2>4. CASE StreamFault(g)
    <3>1. UNCHANGED todo /\ faults' # 0
      BY <1>0, <2>4 DEF StreamFault
    <3>. QED
      BY <1>0, <2>0, <2>4, <3>1 DEF StreamFault, Streaming, Task
  <2>5. CASE PostResult(g) \/ PostError(g)
    <3>1. UNCHANGED todo /\ task' = [task EXCEPT ![g] = Idle]
      BY <2>5 DEF PostResult, PostError
    <3>. QED
      BY <1>0, <2>0, <3>1 DEF Idle
  <2>6. CASE Reassign(g)
    <3>1. UNCHANGED todo /\ task[g].phase = "broken"
      BY <2>6 DEF Reassign
    <3>2. PICK w \in workers :
             task' = [task EXCEPT ![g] = Call(@.file, w, @.tried \cup {@.worker})]
      BY <2>6 DEF Reassign, Untried
    <3>. QED
      BY <1>0, <2>0, <3>1, <3>2 DEF Call
  <2>. QED
    BY <1>3, <2>1, <2>2, <2>3, <2>4, <2>5, <2>6 DEF Goroutine
<1>4. CASE StartGoroutines
  <2>. DEFINE pending == filterPending(allFiles, completedFiles)
  <2>1. /\ pending \in SUBSET File /\ workers \in SUBSET Worker
        /\ todo' = assignFiles(pending, workers) /\ UNCHANGED <<task, workers, crashed>>
    BY <1>4 DEF StartGoroutines, IInv, TypeOK, filterPending
  <2>. HIDE DEF pending
  <2>2. todo'[h] # {} => h \in workers
    BY <2>1, RoundRobin
  <2>. QED
    BY <1>0, <2>1, <2>2
<1>5. ASSUME NEW w \in Worker, connectToWorkers(w)
      PROVE  Good(task'[h], todo'[h], h, workers', crashed', faults')
  BY <1>2, <1>5 DEF connectToWorkers, poolVars, Places, QuietOutside, Looping, Busy
<1>6. CASE Start \/ CoordinatorCrash
  BY <1>2, <1>6 DEF Start, CoordinatorCrash, ForgetRun, Idle
<1>7. ASSUME NEW w \in Worker, WorkerCrash(w)
      PROVE  Good(task'[h], todo'[h], h, workers', crashed', faults')
  <2>1. /\ UNCHANGED <<todo, workers>> /\ crashed' = crashed \cup {w}
        /\ task'[h] = IF Streaming(h) /\ task[h].worker = w
                      THEN [task[h] EXCEPT !.phase = "broken"] ELSE task[h]
    BY <1>7 DEF WorkerCrash
  <2>. QED
    BY <1>0, <2>1 DEF Streaming, Task
<1>. USE DEF mainFrame, poolVars
<1>8. ASSUME NEW w \in Worker, NEW f \in File,
             SendMarker(w) \/ CleanWorker(w) \/ WorkerRestart(w) \/ OrphanEnd(w, f)
      PROVE  UNCHANGED <<task, todo, workers, crashed>>
  BY <1>8 DEF SendMarker, CleanWorker, WorkerRestart, OrphanEnd
<1>9. CASE discoverInputFiles \/ LoadCoordSnapshot \/ DropResult \/ MergeResult
  BY <1>1, <1>9 DEF discoverInputFiles, LoadCoordSnapshot, DropResult, MergeResult
<1>10. CASE SnapDelete \/ SnapCreate \/ SnapStore \/ CleanSnap \/ ChannelClosed
  BY <1>1, <1>10 DEF SnapDelete, SnapCreate, SnapStore, CleanSnap, ChannelClosed
<1>11. CASE OutDelete \/ OutCreate \/ OutStore
  BY <1>1, <1>11 DEF OutDelete, OutCreate, OutStore
<1>12. CASE UNCHANGED vars
  BY <1>1, <1>12 DEF vars
<1>13. File # {}
  BY SizeAssumption DEF File
<1>. HIDE DEF Good
<1>. QED
  BY <1>1, <1>3, <1>4, <1>5, <1>6, <1>7, <1>8, <1>9, <1>10, <1>11, <1>12, <1>13
  DEF Next, Main, Environment

\* No file moves, no worker is connected, and Run ends no sooner.
Steady ==
    /\ FilesStay
    /\ UNCHANGED <<workers, collectedPrimes>> /\ crashed \subseteq crashed'
    /\ pc' \in Closing => pc \in Closing
    /\ pc' \in {"cleanSnap", "cleanWorkers", "done"} =>
           OutStore \/ (pc \in {"cleanSnap", "cleanWorkers", "done"} /\ UNCHANGED outFile)

\* The steps that move files, and the others.
LEMMA SurvivalMoves ==
    ASSUME IInv, [Next]_vars
    PROVE  \/ Steady
           \/ pc' \notin Looping \cup Closing
           \/ LoadCoordSnapshot \/ StartGoroutines \/ DropResult \/ MergeResult
           \/ ChannelClosed
           \/ \E g \in Worker : TakeFile(g) \/ PostResult(g) \/ PostError(g)
<1>. USE DEF Looping, Closing, Ending, mainFrame, runVars
<1>1. CASE discoverInputFiles
  BY <1>1 DEF discoverInputFiles
<1>2. CASE SnapDelete \/ SnapCreate \/ SnapStore \/ CleanSnap
  <2>1. UNCHANGED <<workers, collectedPrimes, completedFiles, cap, todo, task, resultCh, outFile>>
    BY <1>2 DEF SnapDelete, SnapCreate, SnapStore, CleanSnap, poolVars
  <2>2. /\ pc' \in Looping <=> pc \in Looping
        /\ pc' \in Closing => pc \in Closing
        /\ pc' \in {"cleanSnap", "cleanWorkers", "done"} =>
               pc \in {"cleanSnap", "cleanWorkers", "done"}
        /\ UNCHANGED crashed
    BY <1>2 DEF SnapDelete, SnapCreate, SnapStore, CleanSnap, workerVars
  <2>. QED
    BY <2>1, <2>2 DEF Steady, FilesStay, Busy
<1>3. CASE OutDelete \/ OutCreate \/ OutStore
  <2>1. /\ UNCHANGED <<workers, collectedPrimes, completedFiles, cap, todo, task, resultCh, crashed>>
        /\ pc \in Closing /\ pc \notin Looping /\ pc' \notin Looping
    BY <1>3 DEF OutDelete, OutCreate, OutStore, poolVars, workerVars
  <2>2. pc' \in {"cleanSnap", "cleanWorkers", "done"} => OutStore
    BY <1>3 DEF OutDelete, OutCreate
  <2>. QED
    BY <2>1, <2>2 DEF Steady, FilesStay, Busy
<1>4. ASSUME NEW w \in Worker, SendMarker(w) \/ CleanWorker(w) PROVE Steady
  <2>1. UNCHANGED <<workers, collectedPrimes, completedFiles, cap, todo, task, resultCh,
                    outFile, crashed>>
    BY <1>4 DEF SendMarker, CleanWorker, poolVars, workerVars, afsVars
  <2>2. /\ pc' \in Looping <=> pc \in Looping
        /\ pc' \in Closing => pc \in Closing
        /\ pc' \in {"cleanSnap", "cleanWorkers", "done"} =>
               pc \in {"cleanSnap", "cleanWorkers", "done"}
    BY <1>4 DEF SendMarker, CleanWorker
  <2>. QED
    BY <2>1, <2>2 DEF Steady, FilesStay, Busy
<1>5. ASSUME NEW w \in Worker, connectToWorkers(w) PROVE pc' \notin Looping \cup Closing
  BY <1>5 DEF connectToWorkers
<1>6. ASSUME UNCHANGED <<pc, runVars, outFile>>, FilesStay, crashed \subseteq crashed'
      PROVE  Steady
  BY <1>6 DEF Steady
<1>7. ASSUME NEW g \in Worker, Goroutine(g),
             ~TakeFile(g), ~PostResult(g), ~PostError(g)
      PROVE  Steady
  <2>1. UNCHANGED <<pc, runVars, outFile>>
    BY <1>7, GoroutineFrame
  <2>2. UNCHANGED crashed
    BY <1>7 DEF Goroutine, CallWorker, SendBatch, FinishFile, SaveWorkerSnapshot,
                StreamFault, Reassign, workerVars
  <2>3. FilesStay
    BY <1>7, GoroutineKeepsFiles
  <2>. QED
    BY <1>6, <2>1, <2>2, <2>3
<1>8. CASE Start \/ CoordinatorCrash
  BY <1>8 DEF Start, CoordinatorCrash
<1>9. ASSUME NEW w \in Worker, NEW f \in File,
             WorkerCrash(w) \/ WorkerRestart(w) \/ OrphanEnd(w, f)
      PROVE  Steady
  <2>1. UNCHANGED <<pc, runVars, outFile>> /\ crashed \subseteq crashed'
    BY <1>9 DEF WorkerCrash, WorkerRestart, OrphanEnd, afsVars
  <2>. QED
    BY <1>6, <1>9, <2>1, WorkersKeepFiles
<1>10. CASE UNCHANGED vars
  BY <1>6, <1>10 DEF vars, afsVars, workerVars, poolVars, FilesStay, Busy
<1>11. File # {}
  BY SizeAssumption DEF File
<1>. QED
  BY <1>1, <1>2, <1>3, <1>4, <1>5, <1>7, <1>8, <1>9, <1>10, <1>11 DEF Next, Main, Environment

\* An error result is posted when every connected worker has been tried.
LEMMA NextErrorMeansNone == IInv /\ Places /\ Survival /\ [Next]_vars => ErrorMeansNone'
<1>. SUFFICES ASSUME IInv, Places, Survival, [Next]_vars, faults' = 0,
                     NEW i \in 1..Len(resultCh'), ~resultCh'[i].ok
              PROVE  workers' \subseteq crashed'
  BY DEF ErrorMeansNone
<1>0. /\ faults = 0 /\ resultCh \in Seq(Result)
      /\ \A j \in 1..Len(resultCh) : resultCh[j].ok \/ workers \subseteq crashed
  BY NoFaultBefore DEF Survival, ErrorMeansNone, IInv, TypeOK
<1>1. CASE Steady
  BY <1>0, <1>1 DEF Steady, FilesStay
<1>2. CASE LoadCoordSnapshot \/ StartGoroutines \/ DropResult \/ MergeResult \/ ChannelClosed
  <2>1. UNCHANGED <<workers, crashed>>
    BY <1>2 DEF LoadCoordSnapshot, StartGoroutines, DropResult, MergeResult, ChannelClosed,
                mainFrame, runVars, workerVars
  <2>2. resultCh' = resultCh \/ (resultCh # <<>> /\ resultCh' = Tail(resultCh))
    BY <1>2 DEF LoadCoordSnapshot, StartGoroutines, DropResult, MergeResult, ChannelClosed,
                mainFrame, poolVars
  <2>3. \E j \in 1..Len(resultCh) : resultCh'[i] = resultCh[j]
    BY <1>0, <2>2
  <2>. QED
    BY <1>0, <2>1, <2>3
<1>3. ASSUME NEW g \in Worker, TakeFile(g) \/ PostResult(g) \/ PostError(g)
      PROVE  workers' \subseteq crashed'
  <2>1. UNCHANGED <<workers, crashed>>
    BY <1>3 DEF TakeFile, PostResult, PostError, poolFrame, runVars, workerVars
  <2>2. CASE TakeFile(g)
    BY <1>0, <2>1, <2>2 DEF TakeFile
  <2>3. CASE PostResult(g)
    <3>1. resultCh' = Append(resultCh, [file |-> task[g].file, ok |-> TRUE,
                                        primes |-> task[g].primes])
      BY <2>3 DEF PostResult
    <3>2. i \in 1..Len(resultCh) /\ resultCh'[i] = resultCh[i]
      BY <1>0, <3>1
    <3>. QED
      BY <1>0, <2>1, <3>2
  <2>4. CASE PostError(g)
    <3>1. task[g].phase = "broken" /\ Untried(g) = {}
      BY <2>4 DEF PostError
    <3>2. /\ g \in task[g].tried \cup {task[g].worker}
          /\ task[g].tried \cup {task[g].worker} \subseteq crashed
      BY <1>0, <3>1 DEF Survival, TriedHaveCrashed, Busy
    <3>. QED
      BY <2>1, <3>1, <3>2 DEF Untried
  <2>. QED
    BY <1>3, <2>2, <2>3, <2>4
<1>4. ASSUME pc' \notin Looping PROVE FALSE
  BY <1>4, NextPlaces DEF Places, QuietOutside
<1>. QED
  BY <1>1, <1>2, <1>3, <1>4, SurvivalMoves

\* A file leaves its place for the next one, unless its result is an error.
LEMMA NextNothingLost == IInv /\ Places /\ Survival /\ [Next]_vars => NothingLost'
<1>. SUFFICES ASSUME IInv, Places, Survival, [Next]_vars, faults' = 0 PROVE NothingLost'
  BY DEF NothingLost
<1>. USE DEF Looping, Closing, Ending, NothingLost
<1>0. faults = 0 /\ ~Fault /\ NothingLost
  BY NoFaultBefore DEF Survival
<1>1. CASE Steady
  <2>1. \A f \in File : HasPlace(f) => HasPlace(f)'
    BY <1>1 DEF Steady, FilesStay, HasPlace
  <2>. QED
    BY <1>0, <1>1, <2>1 DEF Steady, FilesStay
<1>2. CASE pc' \notin Looping \cup Closing
  BY <1>2
<1>3. CASE LoadCoordSnapshot
  <2>1. pc = "load" /\ pc' \in {"connect", "outDelete"}
    BY <1>3 DEF LoadCoordSnapshot
  <2>2. allFiles = File
    BY <1>0, <2>1 DEF IInv, AllDiscovered
  <2>3. completedFiles' \in SUBSET File
    BY <1>3, MainTypeOK DEF Main, IInv, TypeOK
  <2>4. pc' = "outDelete" => completedFiles' = File
    BY <1>3, <2>2, <2>3 DEF LoadCoordSnapshot, filterPending
  <2>. QED
    BY <2>1, <2>4
<1>4. CASE StartGoroutines
  <2>. DEFINE pending == filterPending(allFiles, completedFiles)
  <2>1. /\ pc = "assign" /\ pc' = "collect" /\ workers \in SUBSET Worker /\ workers # {}
        /\ todo' = assignFiles(pending, workers) /\ UNCHANGED completedFiles
    BY <1>4 DEF StartGoroutines, Survival, ConnectedInTurn, IInv, TypeOK
  <2>2. pending = File \ completedFiles
    BY <1>0, <2>1 DEF IInv, AllDiscovered, filterPending
  <2>. HIDE DEF pending
  <2>3. \A f \in pending : \E g \in Worker : f \in todo'[g]
    BY <2>1, <2>2, RoundRobin
  <2>4. \A f \in File : HasPlace(f)'
    BY <2>1, <2>2, <2>3 DEF HasPlace
  <2>. QED
    BY <2>1, <2>4
<1>5. CASE DropResult
  <2>1. resultCh # <<>> /\ ~Head(resultCh).ok /\ resultCh \in Seq(Result)
    BY <1>5 DEF DropResult, IInv, TypeOK
  <2>2. 1 \in 1..Len(resultCh) /\ ~resultCh[1].ok
    BY <2>1
  <2>3. workers \subseteq crashed
    BY <1>0, <2>2 DEF Survival, ErrorMeansNone
  <2>4. UNCHANGED <<workers, crashed>> /\ pc' = "collect"
    BY <1>5 DEF DropResult, runVars, workerVars
  <2>. QED
    BY <2>3, <2>4
<1>6. CASE MergeResult
  <2>1. /\ resultCh # <<>> /\ resultCh' = Tail(resultCh) /\ resultCh \in Seq(Result)
        /\ completedFiles' = completedFiles \cup {Head(resultCh).file}
        /\ UNCHANGED <<todo, task, workers, crashed>> /\ pc = "collect" /\ pc' = "markers"
    BY <1>6 DEF MergeResult, workerVars, IInv, TypeOK
  <2>2. \A i \in 1..Len(resultCh) : resultCh[i].file = Head(resultCh).file
                                     \/ \E j \in 1..Len(resultCh') : resultCh'[j] = resultCh[i]
    <3>. SUFFICES ASSUME NEW i \in 1..Len(resultCh), i # 1
                  PROVE  \E j \in 1..Len(resultCh') : resultCh'[j] = resultCh[i]
      BY <2>1
    <3>1. i - 1 \in 1..Len(resultCh') /\ resultCh'[i - 1] = resultCh[i]
      BY <2>1
    <3>. QED
      BY <3>1
  <2>3. \A f \in File : HasPlace(f) => HasPlace(f)'
    BY <2>1, <2>2 DEF HasPlace, Busy
  <2>. QED
    BY <1>0, <2>1, <2>3
<1>7. CASE ChannelClosed
  <2>1. /\ pc = "collect" /\ pc' = "outDelete" /\ resultCh = <<>>
        /\ \A g \in Worker : todo[g] = {} /\ ~Busy(g)
        /\ UNCHANGED <<workers, crashed, completedFiles>>
    BY <1>7 DEF ChannelClosed, mainFrame, runVars, workerVars, Busy
  <2>2. workers # {} /\ completedFiles \in SUBSET File
    BY <2>1 DEF Survival, ConnectedInTurn, IInv, TypeOK
  <2>3. \A f \in File : HasPlace(f) => f \in completedFiles
    BY <2>1 DEF HasPlace
  <2>. QED
    BY <1>0, <2>1, <2>2, <2>3
<1>8. ASSUME NEW g \in Worker, TakeFile(g) PROVE NothingLost'
  <2>1. PICK f \in todo[g] : /\ todo' = [todo EXCEPT ![g] = @ \ {f}]
                             /\ task' = [task EXCEPT ![g] = Call(f, g, {})]
    BY <1>8 DEF TakeFile
  <2>2. UNCHANGED <<pc, resultCh, completedFiles, workers, crashed>> /\ ~Busy(g)
    BY <1>8 DEF TakeFile, poolFrame, runVars, workerVars, Busy
  <2>3. task \in [Worker -> Task] /\ todo \in [Worker -> SUBSET File]
    BY DEF IInv, TypeOK
  <2>4. /\ todo'[g] = todo[g] \ {f} /\ Busy(g)' /\ task'[g].file = f
        /\ \A h \in Worker \ {g} : /\ todo'[h] = todo[h]
                                   /\ Busy(h)' <=> Busy(h)
                                   /\ task'[h].file = task[h].file
    BY <2>1, <2>3 DEF Call, Busy
  <2>5. \A e \in File : HasPlace(e) => HasPlace(e)'
    BY <2>2, <2>4 DEF HasPlace
  <2>. QED
    BY <1>0, <2>2, <2>5
<1>9. ASSUME NEW g \in Worker, PostResult(g) \/ PostError(g) PROVE NothingLost'
  <2>1. PICK r : /\ resultCh' = Append(resultCh, r) /\ r.file = task[g].file
                 /\ task' = [task EXCEPT ![g] = Idle] /\ Busy(g)
    BY <1>9 DEF PostResult, PostError, Busy
  <2>2. UNCHANGED <<pc, todo, completedFiles, workers, crashed>>
    BY <1>9 DEF PostResult, PostError, poolFrame, runVars, workerVars
  <2>3. task \in [Worker -> Task] /\ resultCh \in Seq(Result)
    BY DEF IInv, TypeOK
  <2>4. \A h \in Worker \ {g} : (Busy(h)' <=> Busy(h)) /\ task'[h].file = task[h].file
    BY <2>1, <2>3 DEF Busy
  <2>5. /\ Len(resultCh) + 1 \in 1..Len(resultCh')
        /\ resultCh'[Len(resultCh) + 1].file = task[g].file
        /\ \A i \in 1..Len(resultCh) : i \in 1..Len(resultCh') /\ resultCh'[i] = resultCh[i]
    <3>. HIDE DEF Looping, Closing, Ending, NothingLost
    <3>. QED
      BY <2>1, <2>3
  <2>6. \A f \in File : HasPlace(f) => HasPlace(f)'
    BY <2>2, <2>4, <2>5 DEF HasPlace
  <2>. QED
    BY <1>0, <2>2, <2>6
<1>. QED
  BY <1>1, <1>2, <1>3, <1>4, <1>5, <1>6, <1>7, <1>8, <1>9, SurvivalMoves

\* The output is stored before the clean-up begins.
LEMMA NextOutputStored == IInv /\ OutputStored /\ [Next]_vars => OutputStored'
<1>. SUFFICES ASSUME IInv, OutputStored, [Next]_vars,
                     pc' \in {"cleanSnap", "cleanWorkers", "done"}
              PROVE  outFile' = Data({}, {}, collectedPrimes')
  BY DEF OutputStored
<1>1. CASE Steady
  <2>1. CASE OutStore
    BY <2>1 DEF OutStore, mainFrame, runVars
  <2>2. CASE pc \in {"cleanSnap", "cleanWorkers", "done"} /\ UNCHANGED outFile
    BY <1>1, <2>2 DEF Steady, OutputStored
  <2>. QED
    BY <1>1, <2>1, <2>2 DEF Steady
<1>2. CASE LoadCoordSnapshot \/ StartGoroutines \/ DropResult \/ MergeResult \/ ChannelClosed
  BY <1>2 DEF LoadCoordSnapshot, StartGoroutines, DropResult, MergeResult, ChannelClosed
<1>3. ASSUME NEW g \in Worker, TakeFile(g) \/ PostResult(g) \/ PostError(g)
      PROVE  outFile' = Data({}, {}, collectedPrimes')
  BY <1>3 DEF TakeFile, PostResult, PostError, poolFrame, runVars, OutputStored
<1>. QED
  BY <1>1, <1>2, <1>3, SurvivalMoves DEF Looping, Closing, Ending

\* The invariant of the workers holds in every reachable state.
THEOREM SurvivalHolds == Spec => []Survival
<1>1. Init => Survival
  BY DEF Init, Survival, DownHasCrashed, ConnectedInTurn, TriedHaveCrashed, ErrorMeansNone,
         NothingLost, OutputStored, Looping, Closing, Ending, Busy, Idle
<1>2. IInv /\ Places /\ Survival /\ [Next]_vars => Survival'
  BY NextDownHasCrashed, NextConnectedInTurn, NextTriedHaveCrashed, NextErrorMeansNone,
     NextNothingLost, NextOutputStored DEF Survival
<1>. QED
  BY <1>1, <1>2, IInvHolds, PlacesHold, PTL DEF Spec

\* With one connected worker that does not crash, whatever happens to the others
\* and to the coordinator before, a Run that returns nil has the primes of every
\* input file in its output.
THEOREM OneWorkerIsEnough == Spec => []SurvivorCompletes
<1>1. IInv /\ Survival => SurvivorCompletes
  <2>. SUFFICES ASSUME IInv, Survival, pc = "done", faults = 0,
                       workers = {} \/ workers \ crashed # {}
                PROVE  outFile = Data({}, {}, Primes(File))
    BY DEF SurvivorCompletes
  <2>1. completedFiles = File
    BY DEF Survival, NothingLost, Closing
  <2>. QED
    BY <2>1 DEF Survival, OutputStored, IInv, MergedWhole
<1>. QED
  BY <1>1, SurvivalHolds, IInvHolds, PTL

-----------------------------------------------------------------------------
(* The first Run leaves nothing behind *)

\* A worker's snapshot is saved by the worker of a goroutine of the present Run,
\* which is connected, or by a handler whose Run is gone.
LEMMA NextFirstRun ==
    IInv /\ Places /\ Survival /\ FirstRun /\ [Next]_vars => FirstRun'
<1>. SUFFICES ASSUME IInv, Places, Survival, FirstRun, [Next]_vars PROVE FirstRun'
  OBVIOUS
<1>. USE DEF Looping, Ending, runVars, workerVars
<1>0. /\ faults' = 0 => faults = 0 /\ ~Fault
      /\ runs \in Nat
  BY NoFaultBefore, BoundAssumption DEF IInv, TypeOK
<1>1. \A g \in Worker : Busy(g) => pc \in Looping /\ task[g].worker \in workers
  BY DEF Places, QuietOutside, Survival, TriedHaveCrashed
<1>2. ASSUME pc' \in Looping \cup Ending \cup {"cleanWorkers"} =>
                 pc \in Looping \cup Ending \cup {"cleanWorkers"},
             pc' \in {"cleanWorkers", "done", "discover", "load", "connect", "assign", "down"}
                 => pc' = pc,
             pc # "down",
             UNCHANGED <<workers, visited, runs>>,
             pc \notin Looping \cup Ending => UNCHANGED snapFile,
             orphans' \subseteq orphans \/ Fault,
             workerFiles' = workerFiles \/ (pc \in Looping /\ workerFiles' \subseteq workerFiles \cup workers)
      PROVE  FirstRun'
  BY <1>0, <1>2 DEF FirstRun, BeforeFirstRun, DuringFirstRun
<1>3. CASE discoverInputFiles
  BY <1>0, <1>3
  DEF discoverInputFiles, afsVars, FirstRun, BeforeFirstRun, DuringFirstRun
<1>4. CASE LoadCoordSnapshot
  <2>1. /\ pc = "load" /\ UNCHANGED <<snapFile, workerFiles, orphans, runs>>
        /\ pc' \in {"connect", "outDelete"}
    BY <1>4 DEF LoadCoordSnapshot, afsVars
  <2>2. ASSUME faults' = 0, runs' = 1
        PROVE  pc' = "connect" /\ snapFile = Absent /\ workerFiles = {} /\ orphans = {}
    <3>1. faults = 0 /\ snapFile = Absent /\ workerFiles = {} /\ orphans = {}
      BY <1>0, <2>1, <2>2 DEF FirstRun, DuringFirstRun
    <3>2. allFiles = File /\ File # {}
      BY <2>1, <3>1, SizeAssumption DEF IInv, AllDiscovered, File
    <3>3. completedFiles' = {}
      BY <1>4, <3>1 DEF LoadCoordSnapshot, readFromAFS, Absent
    <3>. QED
      BY <1>4, <3>1, <3>2, <3>3 DEF LoadCoordSnapshot, filterPending
  <2>3. runs # 0
    BY <2>1 DEF FirstRun, BeforeFirstRun
  <2>. QED
    BY <2>1, <2>2, <2>3 DEF FirstRun, BeforeFirstRun, DuringFirstRun
<1>5. ASSUME NEW w \in Worker, connectToWorkers(w) PROVE FirstRun'
  BY <1>0, <1>5 DEF connectToWorkers, afsVars, FirstRun, BeforeFirstRun, DuringFirstRun
<1>6. CASE StartGoroutines
  <2>1. /\ pc = "assign" /\ pc' = "collect"
        /\ UNCHANGED <<workers, workerFiles, orphans, runs>>
    BY <1>6 DEF StartGoroutines, afsVars
  <2>2. workers # {}
    BY <2>1 DEF Survival, ConnectedInTurn
  <2>. QED
    BY <1>0, <2>1, <2>2 DEF FirstRun, BeforeFirstRun, DuringFirstRun
<1>7. CASE MergeResult
  BY <1>0, <1>7 DEF MergeResult, afsVars, FirstRun, BeforeFirstRun, DuringFirstRun
<1>8. CASE DropResult \/ ChannelClosed
  BY <1>2, <1>8 DEF DropResult, ChannelClosed, mainFrame, markVars, afsVars
<1>9. ASSUME NEW w \in Worker, SendMarker(w) PROVE FirstRun'
  BY <1>0, <1>9 DEF SendMarker, afsVars, FirstRun, BeforeFirstRun, DuringFirstRun
<1>10. CASE SnapDelete \/ SnapCreate \/ SnapStore
  BY <1>2, <1>10 DEF SnapDelete, SnapCreate, SnapStore, mainFrame, markVars
<1>11. CASE OutDelete \/ OutCreate
  BY <1>2, <1>11 DEF OutDelete, OutCreate, mainFrame, markVars
<1>12. CASE OutStore
  <2>1. /\ pc = "outStore" /\ pc' \in {"failed", "cleanSnap", "done"}
        /\ pc' = "done" => workers = {}
        /\ UNCHANGED <<workers, snapFile, workerFiles, orphans, runs>>
    BY <1>12 DEF OutStore, mainFrame
  <2>. QED
    BY <1>0, <2>1 DEF FirstRun, BeforeFirstRun, DuringFirstRun
<1>13. CASE CleanSnap
  <2>1. /\ pc = "cleanSnap" /\ pc' = "cleanWorkers" /\ visited' = {}
        /\ ~Fault => snapFile' = Absent
        /\ UNCHANGED <<workers, workerFiles, orphans, runs>>
    BY <1>13 DEF CleanSnap
  <2>. QED
    BY <1>0, <2>1 DEF FirstRun, BeforeFirstRun, DuringFirstRun
<1>14. ASSUME NEW w \in Worker, CleanWorker(w) PROVE FirstRun'
  <2>1. /\ pc = "cleanWorkers" /\ visited' = visited \cup {w}
        /\ ~Fault => workerFiles' = workerFiles \ {w}
        /\ pc' = IF visited' = workers THEN "done" ELSE "cleanWorkers"
        /\ UNCHANGED <<workers, snapFile, orphans, runs>>
    BY <1>14 DEF CleanWorker
  <2>. QED
    BY <1>0, <2>1 DEF FirstRun, BeforeFirstRun, DuringFirstRun
<1>15. ASSUME NEW g \in Worker, Goroutine(g) PROVE FirstRun'
  <2>1. pc \in Looping /\ UNCHANGED <<pc, workers, visited, runs, snapFile>>
    <3>1. Busy(g) \/ todo[g] # {}
      BY <1>15 DEF Goroutine, TakeFile, CallWorker, SendBatch, FinishFile, SaveWorkerSnapshot,
                   StreamFault, Streaming, PostResult, Reassign, PostError, Busy
    <3>2. pc \in Looping
      BY <3>1 DEF Places, QuietOutside
    <3>3. UNCHANGED <<pc, workers, visited, runs, snapFile>>
      BY <1>15 DEF Goroutine, TakeFile, CallWorker, SendBatch, FinishFile, SaveWorkerSnapshot,
                   StreamFault, PostResult, Reassign, PostError, poolFrame, markVars
    <3>. QED
      BY <3>2, <3>3
  <2>2. CASE SaveWorkerSnapshot(g)
    <3>1. task[g].worker \in workers
      BY <1>1, <2>2 DEF SaveWorkerSnapshot, Busy
    <3>2. UNCHANGED orphans /\ workerFiles' \subseteq workerFiles \cup workers
      BY <2>2, <3>1 DEF SaveWorkerSnapshot
    <3>. QED
      BY <1>2, <2>1, <3>2
  <2>3. CASE StreamFault(g)
    BY <1>2, <2>1, <2>3 DEF StreamFault
  <2>4. CASE TakeFile(g) \/ CallWorker(g) \/ SendBatch(g) \/ FinishFile(g)
    <3>1. UNCHANGED <<orphans, workerFiles>>
      BY <2>4 DEF TakeFile, CallWorker, SendBatch, FinishFile
    <3>. QED
      BY <1>2, <2>1, <3>1
  <2>5. CASE PostResult(g) \/ Reassign(g) \/ PostError(g)
    <3>1. UNCHANGED <<orphans, workerFiles>>
      BY <2>5 DEF PostResult, Reassign, PostError
    <3>. QED
      BY <1>2, <2>1, <3>1
  <2>. QED
    BY <1>15, <2>2, <2>3, <2>4, <2>5 DEF Goroutine
<1>16. CASE Start
  <2>1. /\ pc' = "discover" /\ runs' = runs + 1 /\ UNCHANGED <<snapFile, workerFiles, orphans>>
    BY <1>16 DEF Start, afsVars
  <2>. QED
    BY <1>0, <2>1 DEF FirstRun, BeforeFirstRun, DuringFirstRun
<1>17. CASE CoordinatorCrash
  BY <1>0, <1>17 DEF CoordinatorCrash, Running, afsVars, FirstRun, BeforeFirstRun, DuringFirstRun
<1>18. ASSUME NEW w \in Worker, WorkerCrash(w) PROVE FirstRun'
  <2>1. /\ UNCHANGED <<pc, workers, visited, runs, snapFile, faults>>
        /\ orphans' \subseteq orphans
    BY <1>18 DEF WorkerCrash, markVars
  <2>2. workerFiles' = workerFiles \/ (pc \in Looping /\ workerFiles' \subseteq workerFiles \cup workers)
    <3>1. CASE \E g \in Worker : task[g].phase = "saving" /\ task[g].worker = w
      BY <1>1, <1>18, <3>1 DEF WorkerCrash, Busy
    <3>. QED
      BY <1>18, <3>1 DEF WorkerCrash
  <2>3. CASE pc # "down"
    BY <1>2, <2>1, <2>2, <2>3
  <2>4. CASE pc = "down"
    BY <2>1, <2>2, <2>4 DEF FirstRun, BeforeFirstRun, DuringFirstRun
  <2>. QED
    BY <2>3, <2>4
<1>19. ASSUME NEW w \in Worker, WorkerRestart(w) PROVE FirstRun'
  BY <1>19 DEF WorkerRestart, markVars, afsVars, FirstRun, BeforeFirstRun, DuringFirstRun
<1>20. ASSUME NEW w \in Worker, NEW f \in File, OrphanEnd(w, f) PROVE FirstRun'
  <2>1. orphans # {} /\ UNCHANGED <<pc, runs, faults>>
    BY <1>20 DEF OrphanEnd
  <2>. QED
    BY <2>1 DEF FirstRun, BeforeFirstRun, DuringFirstRun
<1>21. CASE UNCHANGED vars
  BY <1>21 DEF vars, markVars, afsVars, FirstRun, BeforeFirstRun, DuringFirstRun
<1>. QED
  BY <1>3, <1>4, <1>5, <1>6, <1>7, <1>8, <1>9, <1>10, <1>11, <1>12, <1>13, <1>14, <1>15,
     <1>16, <1>17, <1>18, <1>19, <1>20, <1>21 DEF Next, Main, Environment

\* A first Run that returns nil without a failed call leaves nothing but the
\* output on AFS, whatever workers crashed.
THEOREM FirstRunCleansUp == Spec => []CleanFirstRun
<1>1. Init => FirstRun
  BY DEF Init, FirstRun, BeforeFirstRun, DuringFirstRun
<1>2. IInv /\ Places /\ Survival /\ FirstRun /\ [Next]_vars => FirstRun'
  BY NextFirstRun
<1>3. FirstRun => CleanFirstRun
  BY DEF FirstRun, DuringFirstRun, CleanFirstRun
<1>. QED
  BY <1>1, <1>2, <1>3, IInvHolds, PlacesHold, SurvivalHolds, PTL DEF Spec

-----------------------------------------------------------------------------
(* The cut is consistent *)

\* Crashes of workers are counted.
LEMMA UndisturbedBefore ==
    ASSUME IInv, [Next]_vars
    PROVE  /\ workerCrashes \in Nat
           /\ workerCrashes' = 0 =>
                  workerCrashes = 0 /\ \A w \in Worker : ~WorkerCrash(w)
           /\ Undisturbed' => Undisturbed /\ ~Fault
<1>1. workerCrashes \in Nat
  BY BoundAssumption DEF IInv, TypeOK
<1>2. \/ workerCrashes' = workerCrashes
      \/ \E w \in Worker : WorkerCrash(w)
  BY WorkerSteps DEF connectToWorkers, WorkerRestart
<1>3. \A w \in Worker : WorkerCrash(w) => workerCrashes' = workerCrashes + 1
  BY DEF WorkerCrash
<1>. QED
  BY <1>1, <1>2, <1>3, NoFaultBefore DEF Undisturbed

\* Without crashes and failing calls every worker answers Health.
LEMMA NextAllConnected ==
    IInv /\ Survival /\ AllConnected /\ [Next]_vars => AllConnected'
<1>. SUFFICES ASSUME IInv, Survival, AllConnected, [Next]_vars PROVE AllConnected'
  OBVIOUS
<1>0. /\ workerCrashes' = 0 => workerCrashes = 0 /\ \A w \in Worker : ~WorkerCrash(w)
      /\ Undisturbed' => Undisturbed /\ ~Fault
      /\ workers \in SUBSET Worker /\ alive \in SUBSET Worker
  BY UndisturbedBefore DEF IInv, TypeOK
<1>1. workerCrashes' = 0 => alive' = Worker
  BY <1>0, WorkerSteps DEF AllConnected, connectToWorkers, WorkerRestart
<1>. SUFFICES ASSUME Undisturbed'
              PROVE  /\ pc' = "connect" => visited' \subseteq workers'
                     /\ pc' \in {"assign"} \cup Looping => workers' = Worker
  BY <1>1 DEF AllConnected
<1>2. Undisturbed /\ ~Fault /\ alive = Worker
  BY <1>0 DEF AllConnected, Undisturbed
<1>. USE DEF Looping, mainFrame, runVars, markVars
<1>3. ASSUME UNCHANGED workers, pc' = "connect" => pc = "connect" /\ UNCHANGED visited,
             pc' \in {"assign"} \cup Looping => pc \in {"assign"} \cup Looping
      PROVE  /\ pc' = "connect" => visited' \subseteq workers'
             /\ pc' \in {"assign"} \cup Looping => workers' = Worker
  BY <1>2, <1>3 DEF AllConnected
<1>4. CASE discoverInputFiles
  BY <1>4 DEF discoverInputFiles
<1>5. CASE LoadCoordSnapshot
  BY <1>5 DEF LoadCoordSnapshot, Survival, ConnectedInTurn
<1>6. ASSUME NEW w \in Worker, connectToWorkers(w)
      PROVE  /\ pc' = "connect" => visited' \subseteq workers'
             /\ pc' \in {"assign"} \cup Looping => workers' = Worker
  <2>1. /\ visited' = visited \cup {w} /\ workers' = workers \cup {w}
        /\ visited \subseteq workers
    BY <1>2, <1>6 DEF connectToWorkers, AllConnected
  <2>2. pc' \in {"assign"} \cup Looping => visited' = Worker
    BY <1>6 DEF connectToWorkers
  <2>. QED
    BY <1>0, <2>1, <2>2
<1>7. CASE StartGoroutines \/ DropResult \/ MergeResult \/ ChannelClosed
  BY <1>3, <1>7 DEF StartGoroutines, DropResult, MergeResult, ChannelClosed
<1>8. CASE SnapDelete \/ SnapCreate \/ SnapStore \/ CleanSnap
  BY <1>3, <1>8 DEF SnapDelete, SnapCreate, SnapStore, CleanSnap
<1>9. CASE OutDelete \/ OutCreate \/ OutStore
  BY <1>9 DEF OutDelete, OutCreate, OutStore
<1>10. ASSUME NEW w \in Worker, SendMarker(w) \/ CleanWorker(w)
       PROVE  /\ pc' = "connect" => visited' \subseteq workers'
              /\ pc' \in {"assign"} \cup Looping => workers' = Worker
  BY <1>3, <1>10 DEF SendMarker, CleanWorker
<1>11. ASSUME NEW g \in Worker, Goroutine(g)
       PROVE  /\ pc' = "connect" => visited' \subseteq workers'
              /\ pc' \in {"assign"} \cup Looping => workers' = Worker
  <2>1. UNCHANGED <<pc, workers, visited>>
    BY <1>11 DEF Goroutine, TakeFile, CallWorker, SendBatch, FinishFile, SaveWorkerSnapshot,
                 StreamFault, PostResult, Reassign, PostError, poolFrame
  <2>. QED
    BY <1>3, <2>1
<1>12. CASE Start \/ CoordinatorCrash
  BY <1>12 DEF Start, CoordinatorCrash
<1>13. ASSUME NEW w \in Worker, NEW f \in File, WorkerRestart(w) \/ OrphanEnd(w, f)
       PROVE  UNCHANGED <<pc, workers, visited>>
  BY <1>13 DEF WorkerRestart, OrphanEnd
<1>14. CASE UNCHANGED vars
  BY <1>3, <1>14 DEF vars
<1>15. \A w \in Worker : ~WorkerCrash(w)
  BY <1>0 DEF Undisturbed
<1>16. File # {}
  BY SizeAssumption DEF File
<1>. QED
  BY <1>3, <1>4, <1>5, <1>6, <1>7, <1>8, <1>9, <1>10, <1>11, <1>12, <1>13, <1>14, <1>15,
     <1>16 DEF Next, Main, Environment

\* Only a crash makes a worker forget a file.
LEMMA RecordsGrow ==
    ASSUME IInv, [Next]_vars, \A w \in Worker : ~WorkerCrash(w)
    PROVE  \A w \in Worker : workerCompleted[w] \subseteq workerCompleted'[w]
<1>. USE DEF mainFrame, workerVars
<1>0. workerCompleted \in [Worker -> SUBSET File]
  BY DEF IInv, TypeOK
<1>1. Main => UNCHANGED workerCompleted
  BY DEF Main, discoverInputFiles, LoadCoordSnapshot, connectToWorkers, StartGoroutines,
         DropResult, MergeResult, SendMarker, SnapDelete, SnapCreate, SnapStore, ChannelClosed,
         OutDelete, OutCreate, OutStore, CleanSnap, CleanWorker
<1>2. ASSUME NEW g \in Worker, Goroutine(g), ~FinishFile(g) PROVE UNCHANGED workerCompleted
  BY <1>2 DEF Goroutine, TakeFile, CallWorker, SendBatch, SaveWorkerSnapshot,
              StreamFault, PostResult, Reassign, PostError
<1>3. ASSUME NEW g \in Worker, FinishFile(g), NEW w \in Worker
      PROVE  workerCompleted[w] \subseteq workerCompleted'[w]
  BY <1>0, <1>3 DEF FinishFile, RecordFile
<1>4. ASSUME NEW v \in Worker, NEW f \in File, OrphanEnd(v, f), NEW w \in Worker
      PROVE  workerCompleted[w] \subseteq workerCompleted'[w]
  BY <1>0, <1>4 DEF OrphanEnd, RecordFile
<1>5. Start \/ CoordinatorCrash => UNCHANGED workerCompleted
  BY DEF Start, CoordinatorCrash
<1>6. \A w \in Worker : WorkerRestart(w) => UNCHANGED workerCompleted
  BY DEF WorkerRestart
<1>7. UNCHANGED vars => UNCHANGED workerCompleted
  BY DEF vars
<1>. QED
  BY <1>1, <1>2, <1>3, <1>4, <1>5, <1>6, <1>7 DEF Next, Environment

\* ProcessFile records the file before it saves and returns, so that what is
\* posted, merged and stored is recorded.
LEMMA NextRecordedFirst == IInv /\ RecordedFirst /\ [Next]_vars => RecordedFirst'
<1>. SUFFICES ASSUME IInv, RecordedFirst, [Next]_vars, Undisturbed' PROVE RecordedFirst'
  BY DEF RecordedFirst
<1>. DEFINE After(f) == \E w \in Worker : f \in workerCompleted'[w]
<1>0. /\ Undisturbed /\ \A w \in Worker : ~WorkerCrash(w)
      /\ task \in [Worker -> Task] /\ resultCh \in Seq(Result)
      /\ workerCompleted \in [Worker -> SUBSET File]
  BY UndisturbedBefore DEF Undisturbed, IInv, TypeOK
<1>1. \A f : Recorded(f) => After(f)
  BY <1>0, RecordsGrow DEF Recorded
<1>. HIDE DEF After
<1>2. \A f \in completedFiles' \cup snapFile'.completed : After(f)
  <2>1. ASSUME UNCHANGED <<completedFiles, snapFile>>
        PROVE  \A f \in completedFiles' \cup snapFile'.completed : After(f)
    BY <1>0, <1>1, <2>1 DEF RecordedFirst
  <2>2. CASE LoadCoordSnapshot
    BY <1>0, <1>1, <2>2 DEF LoadCoordSnapshot, afsVars, RecordedFirst
  <2>3. CASE MergeResult
    <3>1. 1 \in 1..Len(resultCh) /\ Head(resultCh) = resultCh[1] /\ resultCh[1].ok
      BY <1>0, <2>3 DEF MergeResult
    <3>2. Recorded(Head(resultCh).file)
      BY <1>0, <3>1 DEF RecordedFirst
    <3>. QED
      BY <1>0, <1>1, <2>3, <3>2 DEF MergeResult, afsVars, RecordedFirst
  <2>4. CASE SnapDelete \/ SnapCreate \/ SnapStore \/ CleanSnap
    <3>1. UNCHANGED completedFiles
      BY <2>4 DEF SnapDelete, SnapCreate, SnapStore, CleanSnap, mainFrame, runVars
    <3>2. snapFile'.completed \subseteq snapFile.completed \cup completedFiles
      BY <2>4 DEF SnapDelete, SnapCreate, SnapStore, CleanSnap, Absent, Empty, Data
    <3>. QED
      BY <1>0, <1>1, <3>1, <3>2 DEF RecordedFirst
  <2>5. CASE discoverInputFiles \/ StartGoroutines \/ DropResult \/ ChannelClosed
    BY <2>1, <2>5 DEF discoverInputFiles, StartGoroutines, DropResult, ChannelClosed,
                      mainFrame, runVars, afsVars
  <2>6. CASE OutDelete \/ OutCreate \/ OutStore
    BY <2>1, <2>6 DEF OutDelete, OutCreate, OutStore, mainFrame, runVars
  <2>7. ASSUME NEW w \in Worker, connectToWorkers(w) \/ SendMarker(w) \/ CleanWorker(w)
        PROVE  UNCHANGED <<completedFiles, snapFile>>
    BY <2>7 DEF connectToWorkers, SendMarker, CleanWorker, runVars, afsVars
  <2>8. ASSUME NEW g \in Worker, Goroutine(g) PROVE UNCHANGED <<completedFiles, snapFile>>
    BY <2>8, GoroutineFrame DEF runVars
  <2>9. CASE Environment
    <3>1. UNCHANGED snapFile /\ (UNCHANGED completedFiles \/ completedFiles' = {})
      BY <2>9, EnvironmentFrame DEF runVars, ForgetRun
    <3>. QED
      BY <1>0, <1>1, <3>1 DEF RecordedFirst
  <2>10. CASE UNCHANGED vars
    BY <2>1, <2>10 DEF vars, runVars, afsVars
  <2>. QED
    BY <2>1, <2>2, <2>3, <2>4, <2>5, <2>6, <2>7, <2>8, <2>9, <2>10 DEF Next, Main
<1>3. \A g \in Worker : task'[g].phase \in {"saving", "eof"} => After(task'[g].file)
  <2>. SUFFICES ASSUME NEW h \in Worker, task'[h].phase \in {"saving", "eof"}
                PROVE  After(task'[h].file)
    OBVIOUS
  <2>1. ASSUME task'[h] = task[h] PROVE After(task'[h].file)
    BY <1>0, <1>1, <2>1 DEF RecordedFirst
  <2>2. ASSUME NEW g \in Worker, Goroutine(g) PROVE After(task'[h].file)
    <3>1. CASE h # g
      <4>1. task'[h] = task[h]
        BY <1>0, <2>2, <3>1
        DEF Goroutine, TakeFile, CallWorker, SendBatch, FinishFile, SaveWorkerSnapshot,
            StreamFault, PostResult, Reassign, PostError
      <4>. QED
        BY <2>1, <4>1
    <3>2. CASE h = g /\ FinishFile(g)
      <4>1. /\ task[g].worker \in Worker /\ task'[g].file = task[g].file
            /\ workerCompleted' = [workerCompleted EXCEPT
                                     ![task[g].worker] = @ \cup {task[g].file}]
        BY <1>0, <3>2 DEF FinishFile, RecordFile, IInv, TasksWhole, Task
      <4>2. task[g].file \in workerCompleted'[task[g].worker]
        BY <1>0, <4>1
      <4>. QED
        BY <3>2, <4>1, <4>2 DEF After
    <3>3. CASE h = g /\ SaveWorkerSnapshot(g)
      <4>1. task[g].phase = "saving" /\ task'[g].file = task[g].file
        BY <1>0, <3>3 DEF SaveWorkerSnapshot, Task
      <4>. QED
        BY <1>0, <1>1, <3>3, <4>1 DEF RecordedFirst
    <3>4. CASE h = g /\ (TakeFile(g) \/ Reassign(g) \/ PostResult(g) \/ PostError(g))
      BY <1>0, <3>4 DEF TakeFile, Reassign, PostResult, PostError, Call, Idle
    <3>5. CASE h = g /\ (CallWorker(g) \/ SendBatch(g) \/ StreamFault(g))
      BY <1>0, <3>5 DEF CallWorker, SendBatch, StreamFault, Task
    <3>. QED
      BY <2>2, <3>1, <3>2, <3>3, <3>4, <3>5 DEF Goroutine
  <2>3. CASE Start \/ CoordinatorCrash
    BY <2>3 DEF Start, CoordinatorCrash, ForgetRun, Idle
  <2>4. ASSUME NEW w \in Worker, NEW f \in File, WorkerRestart(w) \/ OrphanEnd(w, f)
        PROVE  UNCHANGED task
    BY <2>4 DEF WorkerRestart, OrphanEnd, poolVars
  <2>5. UNCHANGED vars => UNCHANGED task
    BY DEF vars, poolVars
  <2>6. File # {}
    BY SizeAssumption DEF File
  <2>. QED
    BY <1>0, <2>1, <2>2, <2>3, <2>4, <2>5, <2>6, MainKeepsTasks DEF Next, Environment
<1>4. \A i \in 1..Len(resultCh') : resultCh'[i].ok => After(resultCh'[i].file)
  <2>. SUFFICES ASSUME NEW i \in 1..Len(resultCh'), resultCh'[i].ok
                PROVE  After(resultCh'[i].file)
    OBVIOUS
  <2>1. ASSUME UNCHANGED resultCh PROVE After(resultCh'[i].file)
    BY <1>0, <1>1, <2>1 DEF RecordedFirst
  <2>2. CASE PoolIdle \/ FilesStay \/ StartGoroutines \/ ChannelClosed
    BY <2>1, <2>2
    DEF PoolIdle, FilesStay, StartGoroutines, ChannelClosed, mainFrame, poolVars
  <2>3. CASE DropResult \/ MergeResult
    <3>1. resultCh # <<>> /\ resultCh' = Tail(resultCh)
      BY <2>3 DEF DropResult, MergeResult
    <3>2. i + 1 \in 1..Len(resultCh) /\ resultCh'[i] = resultCh[i + 1]
      BY <1>0, <3>1
    <3>. QED
      BY <1>0, <1>1, <3>2 DEF RecordedFirst
  <2>4. ASSUME NEW g \in Worker, TakeFile(g) PROVE UNCHANGED resultCh
    BY <2>4 DEF TakeFile
  <2>5. ASSUME NEW g \in Worker, PostResult(g) PROVE After(resultCh'[i].file)
    <3>1. resultCh' = Append(resultCh, [file |-> task[g].file, ok |-> TRUE,
                                        primes |-> task[g].primes])
      BY <2>5 DEF PostResult
    <3>2. \/ i \in 1..Len(resultCh) /\ resultCh'[i] = resultCh[i]
          \/ resultCh'[i].file = task[g].file
      BY <1>0, <3>1
    <3>3. Recorded(task[g].file)
      BY <1>0, <2>5 DEF PostResult, RecordedFirst
    <3>. QED
      BY <1>0, <1>1, <3>2, <3>3 DEF RecordedFirst
  <2>6. ASSUME NEW g \in Worker, PostError(g) PROVE After(resultCh'[i].file)
    <3>1. resultCh' = Append(resultCh, [file |-> task[g].file, ok |-> FALSE,
                                        primes |-> {}])
      BY <2>6 DEF PostError
    <3>2. i \in 1..Len(resultCh) /\ resultCh'[i] = resultCh[i]
      BY <1>0, <3>1
    <3>. QED
      BY <1>0, <1>1, <3>2 DEF RecordedFirst
  <2>7. CASE ForgetRun
    BY <2>7 DEF ForgetRun
  <2>. QED
    BY <2>1, <2>2, <2>3, <2>4, <2>5, <2>6, <2>7, FileMoves
<1>. QED
  BY <1>2, <1>3, <1>4 DEF RecordedFirst, Recorded, After

\* A marker's answer has everything its worker has recorded.
LEMMA NextCutFollows ==
    IInv /\ Survival /\ Markers /\ [Next]_vars => CutFollows'
<1>. SUFFICES ASSUME IInv, Survival, Markers, [Next]_vars, Undisturbed' PROVE CutFollows'
  BY DEF CutFollows
<1>. USE DEF Looping, mainFrame, markVars, runVars
<1>0. /\ Undisturbed /\ ~Fault /\ CutFollows /\ \A w \in Worker : ~WorkerCrash(w)
      /\ cut \in [Worker -> SUBSET File]
  BY UndisturbedBefore DEF Undisturbed, Markers, IInv, TypeOK
<1>1. \A w \in Worker : workerCompleted[w] \subseteq workerCompleted'[w]
  BY <1>0, RecordsGrow
<1>2. ASSUME UNCHANGED <<completedFiles, visited, cut, workers>>,
             pc' \in Looping \ {"collect"} => pc \in Looping \ {"collect"},
             pc' \in {"snapDelete", "snapCreate", "snapStore"} =>
                 pc \in {"snapDelete", "snapCreate", "snapStore"}
      PROVE  CutFollows'
  BY <1>0, <1>1, <1>2 DEF CutFollows, Answered
<1>3. ASSUME pc' \notin Looping \ {"collect"} PROVE CutFollows'
  BY <1>3 DEF CutFollows
<1>4. CASE MergeResult
  <2>1. /\ visited' = {} /\ pc' = "markers" /\ resultCh # <<>> /\ Head(resultCh).ok
        /\ completedFiles' = completedFiles \cup {Head(resultCh).file}
        /\ resultCh \in Seq(Result)
    BY <1>4 DEF MergeResult, IInv, TypeOK
  <2>2. 1 \in 1..Len(resultCh) /\ resultCh[1] = Head(resultCh)
    BY <2>1
  <2>3. \A f \in completedFiles' : Recorded(f)
    BY <1>0, <2>1, <2>2 DEF Markers, RecordedFirst
  <2>. QED
    BY <1>1, <2>1, <2>3 DEF CutFollows, Answered, Recorded
<1>5. ASSUME NEW v \in Worker, SendMarker(v) PROVE CutFollows'
  <2>. DEFINE dest == MarkerDest[v]
  <2>1. /\ pc = "markers" /\ visited' = visited \cup {v}
        /\ cut' = [cut EXCEPT ![dest] = workerCompleted[dest]]
        /\ UNCHANGED <<completedFiles, workers>>
        /\ pc' = IF visited' = workers THEN "snapDelete" ELSE "markers"
    <3>1. dest \in alive
      BY <1>0, MarkerAssumption DEF Markers, AllConnected, Undisturbed
    <3>. QED
      BY <1>0, <1>5, <3>1 DEF SendMarker, currentSnapshot
  <2>2. ASSUME NEW f \in completedFiles
        PROVE  \E w \in Worker :
                  f \in workerCompleted'[w] /\ (Answered(w)' => f \in cut'[w])
    <3>1. PICK w \in Worker : f \in workerCompleted[w] /\ (Answered(w) => f \in cut[w])
      BY <1>0, <2>1 DEF CutFollows
    <3>2. CASE w = dest
      BY <1>0, <1>1, <2>1, <3>1, <3>2
    <3>3. CASE w # dest
      BY <1>0, <1>1, <2>1, <3>1, <3>3 DEF Answered
    <3>. QED
      BY <3>2, <3>3
  <2>. QED
    BY <2>1, <2>2 DEF CutFollows
<1>6. CASE discoverInputFiles \/ LoadCoordSnapshot \/ StartGoroutines \/ DropResult
           \/ ChannelClosed
  BY <1>3, <1>6
  DEF discoverInputFiles, LoadCoordSnapshot, StartGoroutines, DropResult, ChannelClosed
<1>7. CASE SnapDelete \/ SnapCreate \/ SnapStore
  BY <1>2, <1>7 DEF SnapDelete, SnapCreate, SnapStore
<1>8. CASE OutDelete \/ OutCreate \/ OutStore \/ CleanSnap
  BY <1>3, <1>8 DEF OutDelete, OutCreate, OutStore, CleanSnap
<1>9. ASSUME NEW w \in Worker, connectToWorkers(w) \/ CleanWorker(w) PROVE CutFollows'
  BY <1>3, <1>9 DEF connectToWorkers, CleanWorker
<1>10. ASSUME NEW g \in Worker, Goroutine(g) PROVE CutFollows'
  <2>1. UNCHANGED <<pc, completedFiles, visited, cut, workers>>
    BY <1>10 DEF Goroutine, TakeFile, CallWorker, SendBatch, FinishFile, SaveWorkerSnapshot,
                 StreamFault, PostResult, Reassign, PostError, poolFrame
  <2>. QED
    BY <1>2, <2>1
<1>11. CASE Start \/ CoordinatorCrash
  BY <1>3, <1>11 DEF Start, CoordinatorCrash
<1>12. ASSUME NEW w \in Worker, NEW f \in File, WorkerRestart(w) \/ OrphanEnd(w, f)
       PROVE  CutFollows'
  BY <1>2, <1>12 DEF WorkerRestart, OrphanEnd
<1>13. CASE UNCHANGED vars
  BY <1>2, <1>13 DEF vars
<1>14. File # {}
  BY SizeAssumption DEF File
<1>. QED
  BY <1>0, <1>4, <1>5, <1>6, <1>7, <1>8, <1>9, <1>10, <1>11, <1>12, <1>13, <1>14
  DEF Next, Main, Environment

\* The invariant of the markers holds in every reachable state.
THEOREM MarkersHold == Spec => []Markers
<1>1. Init => Markers
  BY DEF Init, Markers, AllConnected, RecordedFirst, CutFollows, Looping, Idle, Absent
<1>2. IInv /\ Survival /\ Markers /\ [Next]_vars => Markers'
  BY NextAllConnected, NextRecordedFirst, NextCutFollows DEF Markers
<1>. QED
  BY <1>1, <1>2, IInvHolds, SurvivalHolds, PTL DEF Spec

\* Where every worker has a snapshot port of its own, a round of markers with no
\* failing call and no crash of a worker is a consistent cut, Runs before it that
\* were killed included: each result Run has merged is in some worker's answer.
THEOREM CutConsistent == Spec => [](OwnPorts => ConsistentCut)
<1>1. Markers /\ IInv => (OwnPorts => ConsistentCut)
  <2>. SUFFICES ASSUME Markers, IInv, OwnPorts, Undisturbed,
                       pc \in {"snapDelete", "snapCreate", "snapStore"},
                       NEW f \in completedFiles
                PROVE  \E w \in Worker : f \in cut[w]
    BY DEF ConsistentCut, Undisturbed
  <2>1. visited = Worker
    BY DEF Markers, AllConnected, CutFollows, Looping
  <2>2. PICK w \in Worker : Answered(w) => f \in cut[w]
    BY DEF Markers, CutFollows, Looping
  <2>3. Answered(w)
    BY <2>1 DEF OwnPorts, Answered
  <2>. QED
    BY <2>2, <2>3
<1>. QED
  BY <1>1, MarkersHold, IInvHolds, PTL

=============================================================================
