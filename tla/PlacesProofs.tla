---------------------------- MODULE PlacesProofs ----------------------------
(***************************************************************************)
(* Proofs about where the coordinator keeps its files: in a goroutine's    *)
(* list, in a goroutine's hands, in the result channel or among the        *)
(* completed ones, and never in two of these places.                       *)
(***************************************************************************)
EXTENDS CoordinatorProofs

\* Run's result loop, the snapshot after a result included.
Looping == {"collect", "markers", "snapDelete", "snapCreate", "snapStore"}

Busy(g) == task[g].phase # "idle"

\* The goroutines' lists share no file.
ListsApart == \A g, h \in Worker : g # h => todo[g] \cap todo[h] = {}

\* A file in hand is in nobody else's hands and on no list.
HandsApart ==
    \A g, h \in Worker : Busy(g) =>
        /\ task[g].file \notin todo[h]
        /\ g # h /\ Busy(h) => task[g].file # task[h].file

\* A file has one result in the channel, and is not processed again.
ResultsApart ==
    \A i \in 1..Len(resultCh) :
        /\ \A j \in 1..Len(resultCh) : i # j => resultCh[i].file # resultCh[j].file
        /\ \A g \in Worker : /\ resultCh[i].file \notin todo[g]
                             /\ Busy(g) => resultCh[i].file # task[g].file

\* A completed file is in none of these places.
CompletedApart ==
    \A f \in completedFiles :
        /\ \A g \in Worker : f \notin todo[g] /\ (Busy(g) => task[g].file # f)
        /\ \A i \in 1..Len(resultCh) : resultCh[i].file # f

\* Goroutines run, and results wait, during the result loop only.
QuietOutside ==
    pc \notin Looping =>
        /\ \A g \in Worker : todo[g] = {} /\ ~Busy(g)
        /\ resultCh = <<>>

\* The files handed out, lists, hands and channel together, are among P.
Within(P) ==
    /\ \A g \in Worker : todo[g] \subseteq P /\ (Busy(g) => task[g].file \in P)
    /\ \A i \in 1..Len(resultCh) : resultCh[i].file \in P

\* The channel was made for the files that were handed out.
RoomForAll ==
    pc \in Looping => \E P \in SUBSET File : cap = ResultCap(P) /\ Within(P)

\* The inductive invariant: a file is in one place, and the channel has room.
Places ==
    /\ ListsApart
    /\ HandsApart
    /\ ResultsApart
    /\ CompletedApart
    /\ QuietOutside
    /\ RoomForAll

-----------------------------------------------------------------------------
(* Round robin and the channel's capacity *)

\* Sets of files and of workers are finite.
LEMMA SmallSets ==
    ASSUME NEW S, S \in SUBSET File \/ S \in SUBSET Worker
    PROVE  IsFiniteSet(S) /\ S \in SUBSET Nat /\ Cardinality(S) \in Nat
<1>1. IsFiniteSet(File) /\ IsFiniteSet(Worker)
  BY FS_Interval, SizeAssumption DEF File, Worker
<1>2. IsFiniteSet(S)
  BY <1>1, FS_Subset
<1>3. S \in SUBSET Nat
  BY SizeAssumption DEF File, Worker
<1>. QED
  BY <1>2, <1>3, FS_CardinalityType

\* Positions in an ordered list count from 0 and are below its length, and
\* two elements have two positions.
LEMMA RankProperties ==
    ASSUME NEW S, S \in SUBSET File \/ S \in SUBSET Worker, NEW e \in S
    PROVE  /\ Rank(e, S) \in 0..(Cardinality(S) - 1)
           /\ \A d \in S : Rank(d, S) = Rank(e, S) => d = e
<1>. DEFINE Below(x) == {y \in S : y < x}
<1>1. IsFiniteSet(S) /\ S \in SUBSET Nat /\ Cardinality(S) \in Nat
  BY SmallSets
<1>2. \A x \in S : IsFiniteSet(Below(x)) /\ Cardinality(Below(x)) \in Nat
  BY <1>1, FS_Subset, FS_CardinalityType
<1>3. ASSUME NEW T \in SUBSET S, NEW x \in T, NEW U \in SUBSET T, x \notin U
      PROVE  Cardinality(U) < Cardinality(T)
  <2>1. IsFiniteSet(T) /\ IsFiniteSet(U) /\ U # T
    BY <1>1, <1>3, FS_Subset
  <2>2. Cardinality(U) <= Cardinality(T) /\ Cardinality(U) # Cardinality(T)
    BY <2>1, FS_Subset
  <2>3. Cardinality(U) \in Nat /\ Cardinality(T) \in Nat
    BY <2>1, FS_CardinalityType
  <2>. QED
    BY <2>2, <2>3
<1>4. Cardinality(Below(e)) < Cardinality(S)
  <2>1. e \notin Below(e) /\ Below(e) \in SUBSET S
    BY <1>1
  <2>. QED
    BY <1>3, <2>1
<1>5. ASSUME NEW c \in S, NEW d \in S, c < d
      PROVE  Cardinality(Below(c)) < Cardinality(Below(d))
  <2>1. Below(d) \in SUBSET S /\ c \in Below(d)
    BY <1>5
  <2>2. Below(c) \in SUBSET Below(d) /\ c \notin Below(c)
    <3>1. c \in Nat /\ d \in Nat /\ c < d
      BY <1>1, <1>5
    <3>2. \A y \in S : y < c => y < d
      BY <1>1, <3>1
    <3>3. ~(c < c)
      BY <3>1
    <3>. QED
      BY <3>2, <3>3
  <2>. QED
    BY <1>3, <2>1, <2>2
<1>6. \A x \in S : Rank(x, S) = Cardinality(Below(x))
  BY DEF Rank
<1>7. \A d \in S : Rank(d, S) = Rank(e, S) => d = e
  <2>. SUFFICES ASSUME NEW d \in S, Rank(d, S) = Rank(e, S), d # e PROVE FALSE
    OBVIOUS
  <2>1. d < e \/ e < d
    BY <1>1
  <2>2. Cardinality(Below(d)) = Cardinality(Below(e)) /\ Cardinality(Below(d)) \in Nat
    BY <1>2, <1>6
  <2>. QED
    BY <1>5, <2>1, <2>2
<1>. QED
  BY <1>1, <1>2, <1>4, <1>6, <1>7

\* assignFiles gives every pending file to exactly one of the connected workers.
LEMMA RoundRobin ==
    ASSUME NEW S \in SUBSET File, NEW ws \in SUBSET Worker
    PROVE  /\ \A g \in Worker : assignFiles(S, ws)[g] \subseteq S
           /\ \A g \in Worker : assignFiles(S, ws)[g] # {} => g \in ws
           /\ \A g, h \in Worker :
                 g # h => assignFiles(S, ws)[g] \cap assignFiles(S, ws)[h] = {}
           /\ ws # {} => \A f \in S : \E g \in Worker : f \in assignFiles(S, ws)[g]
<1>1. \A g \in Worker : assignFiles(S, ws)[g] =
          {f \in S : g \in ws /\ Rank(g, ws) = Rank(f, S) % Cardinality(ws)}
  BY DEF assignFiles
<1>2. ASSUME NEW g \in Worker, NEW h \in Worker, g # h,
             NEW f \in assignFiles(S, ws)[g] \cap assignFiles(S, ws)[h]
      PROVE  FALSE
  <2>1. g \in ws /\ h \in ws /\ Rank(g, ws) = Rank(h, ws)
    BY <1>1
  <2>. QED
    BY <1>2, <2>1, RankProperties
<1>3. ASSUME ws # {}, NEW f \in S PROVE \E g \in Worker : f \in assignFiles(S, ws)[g]
  <2>. DEFINE n == Cardinality(ws)
              R == [g \in ws |-> Rank(g, ws)]
  <2>1. IsFiniteSet(ws) /\ n \in Nat /\ n # 0
    BY <1>3, SmallSets, FS_EmptySet
  <2>2. IsFiniteSet(0..(n - 1)) /\ Cardinality(0..(n - 1)) = n
    BY <2>1, FS_Interval
  <2>3. R \in Injection(ws, 0..(n - 1))
    <3>1. R \in [ws -> 0..(n - 1)]
      BY RankProperties
    <3>2. \A g, h \in ws : R[g] = R[h] => g = h
      BY RankProperties
    <3>. HIDE DEF R, n
    <3>. QED
      BY <3>1, <3>2 DEF Injection, IsInjective
  <2>4. R \in Surjection(ws, 0..(n - 1))
    <3>. HIDE DEF R, n
    <3>. QED
      BY <2>2, <2>3, FS_Injection DEF n
  <2>5. Rank(f, S) % n \in 0..(n - 1)
    <3>1. Rank(f, S) \in Nat
      BY RankProperties, SmallSets
    <3>. HIDE DEF n
    <3>. QED
      BY <2>1, <3>1
  <2>6. PICK g \in ws : R[g] = Rank(f, S) % n
    <3>. HIDE DEF R, n
    <3>. QED
      BY <2>4, <2>5 DEF Surjection
  <2>. QED
    BY <1>1, <2>6
<1>. QED
  BY <1>1, <1>2, <1>3

-----------------------------------------------------------------------------
(* The steps that move files *)

\* No file changes its place.
FilesStay ==
    /\ UNCHANGED <<todo, resultCh, completedFiles, cap>>
    /\ \A g \in Worker : /\ Busy(g)' <=> Busy(g)
                         /\ task'[g].file = task[g].file
    /\ pc' \in Looping <=> pc \in Looping

\* Nothing of the pool changes while no goroutine runs.
PoolIdle == pc \notin Looping /\ pc' \notin Looping /\ UNCHANGED <<todo, task, resultCh>>

\* Between taking a file and posting its result a goroutine keeps it in hand.
LEMMA GoroutineKeepsFiles ==
    ASSUME IInv, NEW g \in Worker, Goroutine(g),
           ~TakeFile(g), ~PostResult(g), ~PostError(g)
    PROVE  FilesStay
<1>0. task \in [Worker -> Task]
  BY DEF IInv, TypeOK
<1>1. UNCHANGED <<pc, todo, resultCh, completedFiles, cap>>
  BY DEF Goroutine, CallWorker, SendBatch, FinishFile, SaveWorkerSnapshot,
         StreamFault, Reassign, poolFrame, runVars
<1>2. ASSUME NEW h \in Worker
      PROVE  (Busy(h)' <=> Busy(h)) /\ task'[h].file = task[h].file
  <2>1. CASE CallWorker(g) \/ SendBatch(g) \/ FinishFile(g)
    BY <1>0, <2>1 DEF CallWorker, SendBatch, FinishFile, Task, Busy
  <2>2. CASE SaveWorkerSnapshot(g) \/ StreamFault(g)
    BY <1>0, <2>2 DEF SaveWorkerSnapshot, StreamFault, Streaming, Task, Busy
  <2>3. CASE Reassign(g)
    BY <1>0, <2>3 DEF Reassign, Call, Busy
  <2>. QED
    BY <2>1, <2>2, <2>3 DEF Goroutine
<1>. QED
  BY <1>1, <1>2 DEF FilesStay

\* A worker's crash breaks streams, whose files stay with their goroutines.
LEMMA WorkersKeepFiles ==
    ASSUME IInv, NEW w \in Worker, NEW f \in File,
           WorkerCrash(w) \/ WorkerRestart(w) \/ OrphanEnd(w, f)
    PROVE  FilesStay
<1>1. UNCHANGED <<pc, todo, resultCh, completedFiles, cap>>
  BY DEF WorkerCrash, WorkerRestart, OrphanEnd, runVars, poolVars
<1>2. task \in [Worker -> Task]
  BY DEF IInv, TypeOK
<1>3. CASE WorkerCrash(w)
  <2>1. \A h \in Worker : (Busy(h)' <=> Busy(h)) /\ task'[h].file = task[h].file
    BY <1>2, <1>3 DEF WorkerCrash, Streaming, Task, Busy
  <2>. QED
    BY <1>1, <2>1 DEF FilesStay
<1>4. CASE WorkerRestart(w) \/ OrphanEnd(w, f)
  BY <1>1, <1>4 DEF WorkerRestart, OrphanEnd, poolVars, FilesStay, Busy
<1>. QED
  BY <1>3, <1>4

\* Files move when a goroutine takes one, posts one, when Run receives one, and
\* when the goroutines are started or the coordinator stops.
LEMMA FileMoves ==
    ASSUME IInv, [Next]_vars
    PROVE  \/ FilesStay
           \/ PoolIdle
           \/ StartGoroutines \/ DropResult \/ MergeResult \/ ChannelClosed
           \/ \E g \in Worker : TakeFile(g) \/ PostResult(g) \/ PostError(g)
           \/ ForgetRun /\ pc' \notin Looping
<1>. USE DEF Looping
<1>1. ASSUME UNCHANGED <<todo, task, resultCh, completedFiles, cap>>,
             pc' \in Looping <=> pc \in Looping
      PROVE  FilesStay
  BY <1>1 DEF FilesStay, Busy
<1>2. CASE discoverInputFiles \/ LoadCoordSnapshot
  BY <1>2 DEF discoverInputFiles, LoadCoordSnapshot, poolVars, PoolIdle
<1>3. CASE SnapDelete \/ SnapCreate \/ SnapStore \/ CleanSnap
  BY <1>1, <1>3 DEF SnapDelete, SnapCreate, SnapStore, CleanSnap, mainFrame, runVars, poolVars
<1>4. CASE OutDelete \/ OutCreate \/ OutStore
  BY <1>1, <1>4 DEF OutDelete, OutCreate, OutStore, mainFrame, runVars, poolVars
<1>5. ASSUME NEW w \in Worker, connectToWorkers(w) \/ SendMarker(w) \/ CleanWorker(w)
      PROVE  FilesStay
  BY <1>1, <1>5 DEF connectToWorkers, SendMarker, CleanWorker, runVars, poolVars
<1>6. ASSUME NEW g \in Worker, Goroutine(g),
             ~TakeFile(g), ~PostResult(g), ~PostError(g)
      PROVE  FilesStay
  BY <1>6, GoroutineKeepsFiles
<1>7. CASE Start \/ CoordinatorCrash
  BY <1>7 DEF Start, CoordinatorCrash
<1>8. ASSUME NEW w \in Worker, NEW f \in File,
             WorkerCrash(w) \/ WorkerRestart(w) \/ OrphanEnd(w, f)
      PROVE  FilesStay
  BY <1>8, WorkersKeepFiles
<1>9. CASE UNCHANGED vars
  BY <1>1, <1>9 DEF vars, runVars, poolVars
<1>10. File # {}
  BY SizeAssumption DEF File
<1>. QED
  BY <1>2, <1>3, <1>4, <1>5, <1>6, <1>7, <1>8, <1>9, <1>10
  DEF Next, Main, Environment

-----------------------------------------------------------------------------
(* A file is in one place *)

\* A step that moves no file leaves every file where it was.
LEMMA StayPlaces == Places /\ FilesStay => Places'
<1>. SUFFICES ASSUME Places, FilesStay PROVE Places'
  OBVIOUS
<1>. USE DEF FilesStay
<1>1. ListsApart' /\ HandsApart'
  BY DEF Places, ListsApart, HandsApart
<1>2. ResultsApart' /\ CompletedApart'
  BY DEF Places, ResultsApart, CompletedApart
<1>3. QuietOutside'
  BY DEF Places, QuietOutside
<1>4. RoomForAll'
  <2>. SUFFICES ASSUME pc' \in Looping
                PROVE  \E P \in SUBSET File : cap' = ResultCap(P) /\ Within(P)'
    BY DEF RoomForAll
  <2>1. PICK P \in SUBSET File : cap = ResultCap(P) /\ Within(P)
    BY DEF Places, RoomForAll
  <2>2. Within(P)'
    BY <2>1 DEF Within
  <2>. QED
    BY <2>1, <2>2
<1>. QED
  BY <1>1, <1>2, <1>3, <1>4 DEF Places

\* An empty pool is in order.
LEMMA EmptyPlaces ==
    ASSUME pc' \notin Looping, resultCh' = <<>>,
           \A g \in Worker : todo'[g] = {} /\ ~Busy(g)'
    PROVE  Places'
  BY DEF Places, ListsApart, HandsApart, ResultsApart, CompletedApart, QuietOutside,
         RoomForAll

\* The pending files are dealt out to goroutines that have nothing yet.
LEMMA StartPlaces == IInv /\ Places /\ StartGoroutines => Places'
<1>. SUFFICES ASSUME IInv, Places, StartGoroutines PROVE Places'
  OBVIOUS
<1>. DEFINE pending == filterPending(allFiles, completedFiles)
<1>1. /\ pending \in SUBSET File /\ workers \in SUBSET Worker
      /\ pending \cap completedFiles = {}
  BY DEF IInv, TypeOK, filterPending
<1>2. /\ pc = "assign" /\ pc' = "collect" /\ todo' = assignFiles(pending, workers)
      /\ cap' = ResultCap(pending) /\ UNCHANGED <<task, resultCh, completedFiles>>
  BY DEF StartGoroutines
<1>3. resultCh' = <<>> /\ \A g \in Worker : ~Busy(g)'
  BY <1>2 DEF Places, QuietOutside, Busy, Looping
<1>. HIDE DEF pending
<1>4. /\ \A g \in Worker : todo'[g] \subseteq pending
      /\ \A g, h \in Worker : g # h => todo'[g] \cap todo'[h] = {}
  BY <1>1, <1>2, RoundRobin
<1>5. ListsApart' /\ HandsApart' /\ ResultsApart' /\ QuietOutside'
  BY <1>2, <1>3, <1>4
  DEF ListsApart, HandsApart, ResultsApart, QuietOutside, Looping
<1>6. CompletedApart'
  BY <1>1, <1>2, <1>3, <1>4 DEF CompletedApart
<1>7. RoomForAll'
  BY <1>1, <1>2, <1>3, <1>4 DEF RoomForAll, Within
<1>. QED
  BY <1>5, <1>6, <1>7 DEF Places

\* A goroutine moves the file it takes from its list into its hands.
LEMMA TakePlaces ==
    ASSUME IInv, Places, NEW g \in Worker, TakeFile(g)
    PROVE  Places'
<1>1. PICK f \in todo[g] : /\ todo' = [todo EXCEPT ![g] = @ \ {f}]
                           /\ task' = [task EXCEPT ![g] = Call(f, g, {})]
  BY DEF TakeFile
<1>2. UNCHANGED <<pc, resultCh, completedFiles, cap>> /\ ~Busy(g)
  BY DEF TakeFile, poolFrame, runVars, Busy
<1>3. task \in [Worker -> Task] /\ todo \in [Worker -> SUBSET File]
  BY DEF IInv, TypeOK
<1>4. /\ todo'[g] = todo[g] \ {f} /\ Busy(g)' /\ task'[g].file = f
      /\ \A h \in Worker \ {g} : /\ todo'[h] = todo[h]
                                 /\ Busy(h)' <=> Busy(h)
                                 /\ task'[h].file = task[h].file
  BY <1>1, <1>3 DEF Call, Busy
<1>5. /\ \A h \in Worker \ {g} : f \notin todo[h]
      /\ \A h \in Worker : Busy(h) => task[h].file # f
  BY DEF Places, ListsApart, HandsApart
<1>6. /\ f \notin completedFiles
      /\ \A i \in 1..Len(resultCh) : resultCh[i].file # f
  BY DEF Places, ResultsApart, CompletedApart
<1>7. ListsApart'
  BY <1>4 DEF Places, ListsApart
<1>8. HandsApart'
  BY <1>4, <1>5 DEF Places, HandsApart
<1>9. ResultsApart'
  BY <1>2, <1>4, <1>6 DEF Places, ResultsApart
<1>10. CompletedApart'
  BY <1>2, <1>4, <1>6 DEF Places, CompletedApart
<1>11. pc \in Looping
  BY DEF Places, QuietOutside
<1>12. QuietOutside'
  BY <1>2, <1>11 DEF QuietOutside
<1>13. RoomForAll'
  <2>1. PICK P \in SUBSET File : cap = ResultCap(P) /\ Within(P)
    BY <1>11 DEF Places, RoomForAll
  <2>2. Within(P)'
    BY <1>2, <1>4, <2>1 DEF Within
  <2>. QED
    BY <1>2, <2>1, <2>2 DEF RoomForAll
<1>. QED
  BY <1>7, <1>8, <1>9, <1>10, <1>12, <1>13 DEF Places

\* A goroutine moves the file in its hands into the channel.
LEMMA PostPlaces ==
    ASSUME IInv, Places, NEW g \in Worker, PostResult(g) \/ PostError(g)
    PROVE  Places'
<1>. DEFINE f == task[g].file
<1>1. PICK r : /\ resultCh' = Append(resultCh, r) /\ r.file = f
               /\ task' = [task EXCEPT ![g] = Idle] /\ Busy(g)
  BY DEF PostResult, PostError, Busy
<1>2. UNCHANGED <<pc, todo, completedFiles, cap>>
  BY DEF PostResult, PostError, poolFrame, runVars
<1>3. task \in [Worker -> Task] /\ resultCh \in Seq(Result) /\ resultCh' \in Seq(Result)
  <2>1. Goroutine(g)
    BY DEF Goroutine
  <2>2. TypeOK'
    BY <2>1, GoroutineTypeOK DEF IInv
  <2>. QED
    BY <2>2 DEF IInv, TypeOK
<1>4. /\ ~Busy(g)'
      /\ \A h \in Worker \ {g} : (Busy(h)' <=> Busy(h)) /\ task'[h].file = task[h].file
  BY <1>1, <1>3 DEF Idle, Busy
<1>5. /\ Len(resultCh) \in Nat /\ Len(resultCh') = Len(resultCh) + 1
      /\ resultCh'[Len(resultCh) + 1].file = f
      /\ \A i \in 1..Len(resultCh) : resultCh'[i] = resultCh[i]
  BY <1>1, <1>3
<1>6. /\ \A h \in Worker : f \notin todo[h] /\ (h # g /\ Busy(h) => task[h].file # f)
      /\ f \notin completedFiles
      /\ \A i \in 1..Len(resultCh) : resultCh[i].file # f
  BY <1>1 DEF Places, HandsApart, ResultsApart, CompletedApart
<1>. HIDE DEF f
<1>7. ListsApart' /\ HandsApart'
  BY <1>2, <1>4 DEF Places, ListsApart, HandsApart
<1>8. \A i \in 1..Len(resultCh') :
          i \in 1..Len(resultCh) \/ (i = Len(resultCh) + 1 /\ i \notin 1..Len(resultCh))
  BY <1>5
<1>9. ResultsApart'
  BY <1>2, <1>4, <1>5, <1>6, <1>8 DEF Places, ResultsApart
<1>10. CompletedApart'
  BY <1>2, <1>4, <1>5, <1>6, <1>8 DEF Places, CompletedApart
<1>11. pc \in Looping
  BY <1>1 DEF Places, QuietOutside
<1>12. QuietOutside'
  BY <1>2, <1>11 DEF QuietOutside
<1>13. RoomForAll'
  <2>1. PICK P \in SUBSET File : cap = ResultCap(P) /\ Within(P)
    BY <1>11 DEF Places, RoomForAll
  <2>2. f \in P
    BY <1>1, <2>1 DEF Within, f
  <2>3. Within(P)'
    BY <1>2, <1>4, <1>5, <1>8, <2>1, <2>2 DEF Within
  <2>. QED
    BY <1>2, <2>1, <2>3 DEF RoomForAll
<1>. QED
  BY <1>7, <1>9, <1>10, <1>12, <1>13 DEF Places

\* Run takes the first result off the channel; merged, its file is completed.
LEMMA ReceivePlaces == IInv /\ Places /\ (DropResult \/ MergeResult) => Places'
<1>. SUFFICES ASSUME IInv, Places, DropResult \/ MergeResult PROVE Places'
  OBVIOUS
<1>. DEFINE f == Head(resultCh).file
<1>1. /\ resultCh # <<>> /\ resultCh' = Tail(resultCh)
      /\ UNCHANGED <<todo, task, cap>>
      /\ pc \in Looping /\ pc' \in Looping
      /\ completedFiles' \in {completedFiles, completedFiles \cup {f}}
  BY DEF DropResult, MergeResult, runVars, Looping
<1>2. resultCh \in Seq(Result)
  BY DEF IInv, TypeOK
<1>3. /\ Len(resultCh) \in Nat /\ 1 \in 1..Len(resultCh) /\ resultCh[1].file = f
      /\ Len(resultCh') = Len(resultCh) - 1
      /\ \A i \in 1..Len(resultCh') : /\ i + 1 \in 1..Len(resultCh)
                                      /\ i + 1 # 1
                                      /\ resultCh'[i] = resultCh[i + 1]
  BY <1>1, <1>2
<1>4. /\ \A h \in Worker : f \notin todo[h] /\ (Busy(h) => task[h].file # f)
      /\ \A i \in 1..Len(resultCh) : i # 1 => resultCh[i].file # f
  BY <1>3 DEF Places, ResultsApart
<1>. HIDE DEF f
<1>5. ListsApart' /\ HandsApart'
  BY <1>1 DEF Places, ListsApart, HandsApart, Busy
<1>6. ResultsApart'
  <2>1. \A i, j \in 1..Len(resultCh') : i # j => i + 1 # j + 1
    BY <1>3
  <2>. QED
    BY <1>1, <1>3, <2>1 DEF Places, ResultsApart, Busy
<1>7. CompletedApart'
  BY <1>1, <1>3, <1>4 DEF Places, CompletedApart, Busy
<1>8. QuietOutside'
  BY <1>1 DEF QuietOutside
<1>9. RoomForAll'
  <2>1. PICK P \in SUBSET File : cap = ResultCap(P) /\ Within(P)
    BY <1>1 DEF Places, RoomForAll
  <2>2. Within(P)'
    BY <1>1, <1>3, <2>1 DEF Within, Busy
  <2>. QED
    BY <1>1, <2>1, <2>2 DEF RoomForAll
<1>. QED
  BY <1>5, <1>6, <1>7, <1>8, <1>9 DEF Places

\* The invariant is kept by every step.
LEMMA NextPlaces == IInv /\ Places /\ [Next]_vars => Places'
<1>. SUFFICES ASSUME IInv, Places, [Next]_vars PROVE Places'
  OBVIOUS
<1>1. CASE PoolIdle
  BY <1>1, EmptyPlaces DEF PoolIdle, Places, QuietOutside, Busy
<1>2. CASE ChannelClosed
  <2>1. /\ pc' \notin Looping /\ UNCHANGED <<todo, task, resultCh>>
        /\ resultCh = <<>> /\ \A g \in Worker : todo[g] = {} /\ ~Busy(g)
    BY <1>2 DEF ChannelClosed, mainFrame, poolVars, Looping, Busy
  <2>. QED
    BY <2>1, EmptyPlaces DEF Busy
<1>3. CASE ForgetRun /\ pc' \notin Looping
  BY <1>3, EmptyPlaces DEF ForgetRun, Idle, Busy
<1>. QED
  BY <1>1, <1>2, <1>3, FileMoves, StayPlaces, StartPlaces, TakePlaces, PostPlaces,
     ReceivePlaces

-----------------------------------------------------------------------------
(* What the invariant says of the channel and of a file *)

\* Results of different files, all among P, are no more than P has files.
LEMMA ChannelBound ==
    ASSUME IInv, ResultsApart, NEW P \in SUBSET File, Within(P)
    PROVE  Len(resultCh) < ResultCap(P)
<1>. DEFINE n == Len(resultCh)
            F == [i \in 1..n |-> resultCh[i].file]
<1>1. n \in Nat
  BY DEF IInv, TypeOK
<1>2. IsFiniteSet(P) /\ Cardinality(P) \in Nat
  BY SmallSets
<1>3. F \in [1..n -> P] /\ \A i, j \in 1..n : F[i] = F[j] => i = j
  BY DEF ResultsApart, Within
<1>. HIDE DEF F, n
<1>4. F \in Injection(1..n, P)
  BY <1>3 DEF Injection, IsInjective
<1>5. Cardinality(1..n) <= Cardinality(P)
  BY <1>2, <1>4, FS_Injection
<1>6. Cardinality(1..n) = n
  <2>1. Cardinality(1..n) = IF 1 > n THEN 0 ELSE n - 1 + 1
    BY <1>1, FS_Interval
  <2>. QED
    BY <1>1, <2>1
<1>. QED
  BY <1>1, <1>2, <1>5, <1>6 DEF ResultCap, n

\* A set with at most one element has cardinality 0 or 1.
LEMMA AtMostOne ==
    ASSUME NEW S, \A x, y \in S : x = y
    PROVE  Cardinality(S) = IF S = {} THEN 0 ELSE 1
<1>1. CASE S = {}
  BY <1>1, FS_EmptySet
<1>2. CASE S # {}
  <2>1. PICK x : x \in S
    BY <1>2
  <2>2. S = {x}
    BY <2>1
  <2>. QED
    BY <1>2, <2>2, FS_Singleton
<1>. QED
  BY <1>1, <1>2

\* A file is in one place at most.
LEMMA OnePlace == IInv /\ Places => EachFileOnce
<1>. SUFFICES ASSUME IInv, Places, NEW f \in File
              PROVE  Cardinality(InHand(f)) + Cardinality(Listed(f))
                        + Cardinality(Queued(f))
                     <= IF f \in completedFiles THEN 0 ELSE 1
  BY DEF EachFileOnce
<1>1. \A x, y \in InHand(f) : x = y
  BY DEF Places, HandsApart, InHand, Busy
<1>2. \A x, y \in Listed(f) : x = y
  BY DEF Places, ListsApart, Listed
<1>3. \A x, y \in Queued(f) : x = y
  BY DEF Places, ResultsApart, Queued
<1>4. /\ InHand(f) = {} \/ Listed(f) = {}
      /\ InHand(f) = {} \/ Queued(f) = {}
      /\ Listed(f) = {} \/ Queued(f) = {}
  BY DEF Places, HandsApart, ResultsApart, InHand, Listed, Queued, Busy
<1>5. f \in completedFiles => InHand(f) = {} /\ Listed(f) = {} /\ Queued(f) = {}
  BY DEF Places, CompletedApart, InHand, Listed, Queued, Busy
<1>6. /\ Cardinality(InHand(f)) = IF InHand(f) = {} THEN 0 ELSE 1
      /\ Cardinality(Listed(f)) = IF Listed(f) = {} THEN 0 ELSE 1
      /\ Cardinality(Queued(f)) = IF Queued(f) = {} THEN 0 ELSE 1
  BY <1>1, <1>2, <1>3, AtMostOne
<1>. QED
  BY <1>4, <1>5, <1>6

-----------------------------------------------------------------------------
(* The theorems *)

\* The invariant holds in every reachable state.
THEOREM PlacesHold == Spec => []Places
<1>1. Init => Places
  BY DEF Init, Places, ListsApart, HandsApart, ResultsApart, CompletedApart, QuietOutside,
         RoomForAll, Looping, Busy, Idle
<1>2. IInv /\ Places /\ [Next]_vars => Places'
  BY NextPlaces
<1>. QED
  BY <1>1, <1>2, IInvHolds, PTL DEF Spec

\* However often a file is reassigned and whatever crashes, it is on one
\* goroutine's list, in one goroutine's hands, in the channel or completed.
THEOREM FilesOnce == Spec => []EachFileOnce
  BY PlacesHold, IInvHolds, OnePlace, PTL

\* The channel Run makes for its pending files has room for every result the
\* goroutines post: none of them ever blocks on its send.
THEOREM ChannelHasRoom == Spec => []ChannelNeverFull
<1>1. IInv /\ Places => ChannelNeverFull
  <2>. SUFFICES ASSUME IInv, Places, resultCh # <<>> PROVE Len(resultCh) < cap
    BY DEF ChannelNeverFull
  <2>1. PICK P \in SUBSET File : cap = ResultCap(P) /\ Within(P)
    BY DEF Places, QuietOutside, RoomForAll
  <2>. QED
    BY <2>1, ChannelBound DEF Places
<1>. QED
  BY <1>1, PlacesHold, IInvHolds, PTL

=============================================================================
