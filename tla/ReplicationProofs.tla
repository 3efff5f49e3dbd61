------------------------- MODULE ReplicationProofs -------------------------
(***************************************************************************)
(* Proofs about Replication, for any servers, any number of calls at a time*)
(* and any bounds: its type invariant, when a server may apply a request   *)
(* again, that every live server holds what was acknowledged, and that     *)
(* versions agree.                                                         *)
(***************************************************************************)
EXTENDS Replication, TLAPS

-----------------------------------------------------------------------------
(* The inductive invariants *)

\* The types, and that a client that is not idle has made a request.
Typed == TypeOK /\ (cpc # "idle" => request >= 1)

\* The call k is an attempt of the present request, at a primary that is alive.
Doing(k) == handler[k].alive /\ handler[k].id = request

\* Some server has the answer to the present request in its dedup table.
Answered == \E s \in Server : dedup[s]

\* A server that runs and about whose copy something is claimed.
Live(s) == up[s] /\ ~suspect[s]

\* A call that is alive is the primary's; only such a call still opens the file.
HandlerShape == \A k \in Slot :
    /\ handler[k].at = None =>
            ~handler[k].alive /\ \A p \in Server : handler[k].rep[p] = "done"
    /\ handler[k].at # None => handler[k].rep[handler[k].at] = "done"
    /\ handler[k].alive => handler[k].at = primary
    /\ \A p \in Server : handler[k].rep[p] = "open" => handler[k].alive
    /\ handler[k].id <= request

\* Answers are kept by the primary; the client waits for an attempt of its request.
ClientShape ==
    /\ waiting # None => Doing(waiting)
    /\ \A s \in Server : dedup[s] => s = primary

\* The newest call is the primary's, or the last one of a primary that has died.
NewestShape == newest # None =>
    handler[newest].at # None /\ (handler[newest].alive \/ primary = None)

\* A recovery runs at a live server, and lists the file at the present primary.
SyncShape == \A s \in Server :
    /\ ~up[s] => suspect[s]
    /\ sync[s].pc # "idle" => up[s]
    /\ sync[s].pc = "listed" => sync[s].src = primary /\ primary # None
    /\ sync[s].taken => sync[s].bad

Shape == HandlerShape /\ ClientShape /\ NewestShape /\ SyncShape

\* A server that has applied the request has its answer, is still at it, or has lost
\* its memory since.
Applied == \A s \in Server :
    exec[s] > 0 => \/ dedup[s] \/ died[s]
                   \/ \E k \in Slot : Doing(k) /\ handler[k].at = s

\* Without overlap there is one attempt at a time, and none after the answer.
Single ==
    ~overlap => /\ \A j, k \in Slot : Doing(j) /\ Doing(k) => j = k
                /\ Answered => \A k \in Slot : ~Doing(k)

Once == Applied /\ Single

\* A recovery that has met with no change has the present primary's file.
CleanSync == \A s \in Server :
    sync[s].pc \in {"listed", "writing"} /\ ~sync[s].bad /\ primary # None =>
        /\ sync[s].src = primary /\ s # primary
        /\ ~suspect[primary]
        /\ sync[s].version = ver[primary]
        /\ sync[s].pc = "writing" => sync[s].data = disk[primary]

\* What such a recovery writes is a content that was sent, and one the requests
\* may have made, after the primary has died too.
SyncedWanted == \A s \in Server :
    sync[s].pc = "writing" /\ ~sync[s].bad =>
        Sent(sync[s].data) /\ (primary = None => sync[s].data \in want)

\* The same for what the newest call has sent.
NewestWanted == \A p \in Server :
    newest # None /\ handler[newest].rep[p] = "sent" => handler[newest].data[p] \in want

\* A peer that is through with an attempt of the request has its effect.
Reached == \A k \in Slot, s \in Server :
    Doing(k) /\ Live(s) /\ handler[k].rep[s] = "done" => disk[s] = Effect(op, request)

\* When the answer is kept, every server has it.
ReachedAll == Answered => \A s \in Server : Live(s) => disk[s] = Effect(op, request)

\* Once the request is applied, the newest call is an attempt of it and sends its effect.
NewestDoing ==
    (Answered \/ \E k \in Slot : Doing(k)) /\ newest # None =>
        /\ Doing(newest)
        /\ \A p \in Server : handler[newest].rep[p] = "sent" =>
                                handler[newest].data[p] = Effect(op, request)

Kept == /\ CleanSync /\ SyncedWanted /\ NewestWanted /\ Reached /\ ReachedAll
        /\ NewestDoing /\ AckedOnLive

\* Without content the version is known.
BareVersions ==
    /\ \A s \in Server : Live(s) => /\ disk[s] = Absent => ver[s] = 0
                                    /\ disk[s] = Empty => ver[s] = 1
    /\ \A p \in Server : newest # None /\ handler[newest].rep[p] = "sent" =>
            /\ handler[newest].data[p] = Absent => handler[newest].version = 0
            /\ handler[newest].data[p] = Empty => handler[newest].version = 1

\* A store under way has not been acknowledged.
Unsettled ==
    /\ want # {} /\ \A c \in want : c <= request
    /\ cpc # "idle" /\ op = "store" => want # {request}

\* A peer that is through with the one attempt of a store has its version.
ReachedVersion == \A k \in Slot, s \in Server :
    ~overlap /\ op = "store" /\ Doing(k) /\ Live(s) /\ handler[k].rep[s] = "done"
        => ver[s] = handler[k].version

\* One version at the live servers, and in the recoveries to be relied on.
OneVersion == \E v \in Nat :
    /\ \A s \in Server : Live(s) => ver[s] = v
    /\ \A s \in Server : sync[s].pc = "writing" /\ ~sync[s].bad => sync[s].version = v

SettledVersion ==
    ~overlap /\ op = "store" /\ (Answered \/ Settled) => newest = None /\ OneVersion

Versions == BareVersions /\ Unsettled /\ ReachedVersion /\ SettledVersion

-----------------------------------------------------------------------------
(* Types *)

\* The initial records and what an operation leaves behind have their types.
LEMMA Values ==
    /\ NoSync \in Sync /\ NoCall \in Handler
    /\ \A o \in Op, r \in Data : Effect(o, r) \in Content
    /\ {Absent, Empty, Torn} \subseteq Content
BY ServerAssumption, BoundAssumption
DEF NoSync, NoCall, Sync, Handler, Effect, Op, Data, Content, Absent, Empty, Torn

\* The steps of the client alone keep the types.
LEMMA ClientTyped ==
    ASSUME Typed,
           \/ Request \/ Reconnect \/ GiveUp \/ CallFails \/ Timeout \/ Dedup
           \/ CreateExists
    PROVE  Typed'
<1> USE BoundAssumption, ServerAssumption DEF Typed, TypeOK, serverVars, fileVars,
        historyVars, onceVars
<1>1. CASE Request
  <2>1. /\ dedup' \in [Server -> BOOLEAN] /\ exec' \in [Server -> Nat]
        /\ died' \in [Server -> BOOLEAN]
    BY <1>1 DEF Request
  <2>2. request' \in 0..MaxRequests /\ request' >= 1 /\ attempt' \in 0..MaxAttempts
    BY <1>1 DEF Request
  <2> QED
    BY <1>1, <2>1, <2>2 DEF Request
<1>2. CASE Reconnect
  BY <1>2 DEF Reconnect
<1>3. CASE GiveUp
  BY <1>3 DEF GiveUp, Return
<1>4. CASE CallFails
  BY <1>4 DEF CallFails, Retry
<1>5. CASE Timeout
  BY <1>5 DEF Timeout, Retry, Fault
<1>6. CASE Dedup
  <2>1. Effect(op, request) \in Content
    BY <1>6, Values DEF Dedup, Accepted, Data
  <2> QED
    BY <1>6, <2>1 DEF Dedup, Accepted, Acknowledge, Return
<1>7. CASE CreateExists
  BY <1>7 DEF CreateExists, Return
<1> QED
  BY <1>1, <1>2, <1>3, <1>4, <1>5, <1>6, <1>7

-----------------------------------------------------------------------------
(* What the steps make of a call and of a recovery *)

\* Apply takes up a call.
LEMMA ApplyCall ==
    ASSUME Typed, NEW k \in Slot, Apply(k)
    PROVE  /\ handler' \in [Slot -> Handler]
           /\ \A j \in Slot : j # k => handler'[j] = handler[j]
           /\ handler'[k].at = conn /\ handler'[k].alive /\ handler'[k].id = request
           /\ handler'[k].version = NewVersion(conn) /\ NewVersion(conn) \in Nat
           /\ \A p \in Server :
                handler'[k].rep[p] = IF p = conn THEN "done"
                                     ELSE IF op = "store" THEN "open" ELSE "sent"
           /\ \A p \in Server :
                handler'[k].data[p] = IF op = "create" /\ p # conn THEN Empty ELSE Absent
<1> DEFINE rep == [p \in Server |-> IF p = conn THEN "done"
                                    ELSE IF op = "store" THEN "open" ELSE "sent"]
           data == [p \in Server |-> IF op = "create" /\ p # conn THEN Empty ELSE Absent]
           call == [at |-> conn, alive |-> TRUE, id |-> request,
                    version |-> NewVersion(conn), rep |-> rep, data |-> data]
<1>1. NewVersion(conn) \in Nat
  BY DEF Typed, TypeOK, NewVersion, Op
<1>2. rep \in [Server -> {"open", "sent", "done"}]
  OBVIOUS
<1>3. data \in [Server -> Content]
  BY Values
<1>4. call \in Handler
  BY <1>1, <1>2, <1>3 DEF Typed, TypeOK, Handler
<1>5. handler' = [handler EXCEPT ![k] = call]
  BY DEF Apply
<1>6. handler' \in [Slot -> Handler] /\ handler'[k] = call
      /\ \A j \in Slot : j # k => handler'[j] = handler[j]
  BY <1>4, <1>5 DEF Typed, TypeOK
<1> HIDE DEF rep, data
<1>7. /\ \A p \in Server : rep[p] = IF p = conn THEN "done"
                                    ELSE IF op = "store" THEN "open" ELSE "sent"
      /\ \A p \in Server : data[p] = IF op = "create" /\ p # conn THEN Empty ELSE Absent
  BY DEF rep, data
<1> QED
  BY <1>1, <1>6, <1>7

\* The goroutine for peer p of call k is through.
LEMMA ThroughCall ==
    ASSUME Typed, NEW k \in Slot, NEW p \in Server, Through(k, p)
    PROVE  /\ handler' \in [Slot -> Handler] /\ newest' \in Slot \cup {None}
           /\ \A j \in Slot : j # k => handler'[j] = handler[j]
           /\ \/ /\ handler'[k] = NoCall /\ ~handler[k].alive
                 /\ newest' = IF newest = k THEN None ELSE newest
              \/ /\ newest' = newest
                 /\ handler'[k].at = handler[k].at /\ handler'[k].id = handler[k].id
                 /\ handler'[k].version = handler[k].version
                 /\ handler'[k].alive <=> handler[k].alive
                 /\ \A q \in Server : handler'[k].rep[q] =
                        IF q = p THEN "done" ELSE handler[k].rep[q]
                 /\ \A q \in Server : handler'[k].data[q] =
                        IF q = p THEN Absent ELSE handler[k].data[q]
<1> DEFINE h == [handler[k] EXCEPT !.rep[p] = "done", !.data[p] = Absent]
<1>1. handler[k] \in Handler /\ handler \in [Slot -> Handler]
  BY DEF Typed, TypeOK
<1>2. /\ h \in Handler /\ (h.alive <=> handler[k].alive)
      /\ h.at = handler[k].at /\ h.id = handler[k].id
      /\ h.version = handler[k].version
      /\ \A q \in Server : h.rep[q] = IF q = p THEN "done" ELSE handler[k].rep[q]
      /\ \A q \in Server : h.data[q] = IF q = p THEN Absent ELSE handler[k].data[q]
  BY <1>1, Values DEF Handler
<1> HIDE DEF h
<1>3. NoCall \in Handler
  BY Values
<1>4. CASE ~h.alive /\ Replicated(h)
  <2>1. /\ handler' = [handler EXCEPT ![k] = NoCall]
        /\ newest' = IF newest = k THEN None ELSE newest
    BY <1>4 DEF Through, h
  <2> QED
    BY <2>1, <1>1, <1>2, <1>3, <1>4 DEF Typed, TypeOK
<1>5. CASE ~(~h.alive /\ Replicated(h))
  <2>1. /\ handler' = [handler EXCEPT ![k] = h]
        /\ newest' = newest
    BY <1>5 DEF Through, h
  <2>2. newest' \in Slot \cup {None}
    BY <2>1 DEF Typed, TypeOK
  <2> QED
    BY <2>1, <2>2, <1>1, <1>2
<1> QED
  BY <1>4, <1>5

\* ReplicateOpen reads the file for peer p.
LEMMA OpenCall ==
    ASSUME Typed, HandlerShape, NEW k \in Slot, NEW p \in Server, ReplicateOpen(k, p)
    PROVE  /\ handler' \in [Slot -> Handler]
           /\ \A j \in Slot : j # k => handler'[j] = handler[j]
           /\ handler'[k].at = handler[k].at /\ handler'[k].id = handler[k].id
           /\ handler'[k].version = handler[k].version
           /\ handler'[k].alive /\ handler[k].alive
           /\ primary \in Server /\ handler[k].at = primary /\ p # primary
           /\ \A q \in Server : handler'[k].rep[q] =
                  IF q # p THEN handler[k].rep[q]
                  ELSE IF Sent(disk[primary]) THEN "sent" ELSE "done"
           /\ \A q \in Server : handler'[k].data[q] =
                  IF q # p THEN handler[k].data[q]
                  ELSE IF Sent(disk[primary]) THEN disk[primary] ELSE Absent
<1>1. handler[k] \in Handler /\ handler \in [Slot -> Handler]
  BY DEF Typed, TypeOK
<1>2. /\ handler[k].alive /\ handler[k].at = primary /\ primary # None /\ p # primary
      /\ primary \in Server
  BY <1>1 DEF Typed, TypeOK, HandlerShape, ReplicateOpen
<1> DEFINE r == IF Sent(disk[primary]) THEN "sent" ELSE "done"
           d == IF Sent(disk[primary]) THEN disk[primary] ELSE Absent
           h == [handler[k] EXCEPT !.rep[p] = r, !.data[p] = d]
<1>3. r \in {"open", "sent", "done"} /\ d \in Content
  BY <1>2, Values DEF Typed, TypeOK
<1>4. handler' = [handler EXCEPT ![k] = h]
  BY <1>1, <1>2 DEF ReplicateOpen, Handler
<1> HIDE DEF r, d
<1>5. /\ h \in Handler /\ (h.alive <=> handler[k].alive)
      /\ h.at = handler[k].at /\ h.id = handler[k].id
      /\ h.version = handler[k].version
      /\ \A q \in Server : h.rep[q] = IF q # p THEN handler[k].rep[q] ELSE r
      /\ \A q \in Server : h.data[q] = IF q # p THEN handler[k].data[q] ELSE d
  BY <1>1, <1>3 DEF Handler
<1> HIDE DEF h
<1>6. /\ handler' \in [Slot -> Handler] /\ handler'[k] = h
      /\ \A j \in Slot : j # k => handler'[j] = handler[j]
  BY <1>1, <1>4, <1>5
<1> QED
  BY <1>2, <1>5, <1>6 DEF r, d

\* A crash ends the calls of server s and loses what is for it.
LEMMA CrashCall ==
    ASSUME Typed, NEW s \in Server, Crash(s)
    PROVE  /\ handler' \in [Slot -> Handler] /\ newest' \in Slot \cup {None}
           /\ newest' # None => newest' = newest /\ handler'[newest].at # None
           /\ \A j \in Slot :
                \/ handler'[j] = NoCall /\ (~handler[j].alive \/ handler[j].at = s)
                \/ /\ handler'[j].at = handler[j].at /\ handler'[j].id = handler[j].id
                   /\ handler'[j].version = handler[j].version
                   /\ handler'[j].alive <=> (handler[j].alive /\ handler[j].at # s)
                   /\ \A p \in Server : handler'[j].rep[p] =
                        IF Lost(j, p, s) THEN "done" ELSE handler[j].rep[p]
                   /\ \A p \in Server : handler'[j].data[p] =
                        IF Lost(j, p, s) THEN Absent ELSE handler[j].data[p]
<1>1. handler \in [Slot -> Handler] /\ NoCall \in Handler
  BY Values DEF Typed, TypeOK
<1> DEFINE R(j) == [p \in Server |-> IF Lost(j, p, s) THEN "done" ELSE handler[j].rep[p]]
           D(j) == [p \in Server |-> IF Lost(j, p, s) THEN Absent ELSE handler[j].data[p]]
           A(j) == handler[j].alive /\ handler[j].at # s
           H(j) == [handler[j] EXCEPT !.alive = A(j), !.rep = R(j), !.data = D(j)]
<1>2. handler' = [j \in Slot |-> IF ~H(j).alive /\ Replicated(H(j)) THEN NoCall ELSE H(j)]
  BY <1>1 DEF Crash, Handler
<1>3. ASSUME NEW j \in Slot
      PROVE  /\ H(j) \in Handler /\ (H(j).alive <=> A(j)) /\ H(j).rep = R(j)
             /\ H(j).data = D(j) /\ H(j).at = handler[j].at /\ H(j).id = handler[j].id
             /\ H(j).version = handler[j].version
  <2>1. handler[j] \in Handler
    BY <1>1
  <2>2. A(j) \in BOOLEAN
    OBVIOUS
  <2>3. R(j) \in [Server -> {"open", "sent", "done"}]
    BY <2>1 DEF Handler
  <2>4. D(j) \in [Server -> Content]
    BY <2>1, Values DEF Handler
  <2> HIDE DEF A, R, D
  <2> QED
    BY <2>1, <2>2, <2>3, <2>4 DEF Handler
<1>4. ASSUME NEW j \in Slot
      PROVE  /\ \A p \in Server :
                    R(j)[p] = IF Lost(j, p, s) THEN "done" ELSE handler[j].rep[p]
             /\ \A p \in Server :
                    D(j)[p] = IF Lost(j, p, s) THEN Absent ELSE handler[j].data[p]
  OBVIOUS
<1> HIDE DEF H, R, D
<1>5. handler' \in [Slot -> Handler]
  BY <1>1, <1>2, <1>3
<1>6. ASSUME NEW j \in Slot
      PROVE  \/ handler'[j] = NoCall /\ (~handler[j].alive \/ handler[j].at = s)
             \/ handler'[j] = H(j)
  BY <1>2, <1>3
<1>7. newest' = IF newest # None /\ handler'[newest].at = None THEN None ELSE newest
  BY DEF Crash
<1>8. newest' \in Slot \cup {None}
      /\ (newest' # None => newest' = newest /\ handler'[newest].at # None)
  BY <1>7 DEF Typed, TypeOK
<1> QED
  BY <1>3, <1>4, <1>5, <1>6, <1>8

\* A change of the file at server t spoils the recoveries that read or write it.
LEMMA DisturbSync ==
    ASSUME Typed, NEW t \in Server, NEW c, Disturb(t, c)
    PROVE  /\ sync' \in [Server -> Sync]
           /\ \A s \in Server :
                /\ sync'[s].pc = sync[s].pc /\ sync'[s].src = sync[s].src
                /\ sync'[s].version = sync[s].version /\ sync'[s].data = sync[s].data
                /\ sync'[s].bad <=>
                        sync[s].bad \/ (/\ sync[s].pc \in {"listed", "writing"}
                                        /\ t \in {s, sync[s].src})
                /\ sync'[s].taken => sync[s].taken \/ sync'[s].bad
<1> DEFINE Spoilt(s) == [sync[s] EXCEPT !.bad = TRUE,
                !.taken = @ \/ (s = t /\ sync[s].pc = "writing" /\ Sent(c))]
<1>1. sync' = [s \in Server |->
        IF sync[s].pc \in {"idle", "ask"} \/ t \notin {s, sync[s].src} THEN sync[s]
        ELSE Spoilt(s)]
  BY DEF Disturb
<1>2. ASSUME NEW s \in Server
      PROVE  /\ sync[s] \in Sync /\ Spoilt(s) \in Sync
             /\ Spoilt(s).pc = sync[s].pc /\ Spoilt(s).src = sync[s].src
             /\ Spoilt(s).version = sync[s].version /\ Spoilt(s).data = sync[s].data
             /\ Spoilt(s).bad
  BY DEF Typed, TypeOK, Sync
<1> HIDE DEF Spoilt
<1>3. ASSUME NEW s \in Server
      PROVE  sync[s].pc \in {"idle", "ask"} <=> sync[s].pc \notin {"listed", "writing"}
  BY <1>2 DEF Sync
<1> QED
  BY <1>1, <1>2, <1>3

\* A recovery at s writes: those that read from s are spoilt.
LEMMA WriteSync ==
    ASSUME Typed, NEW s \in Server, NEW c, NEW pc \in {"idle", "ask"}, SyncWrite(s, c, pc)
    PROVE  /\ sync' \in [Server -> Sync] /\ sync'[s] = [NoSync EXCEPT !.pc = pc]
           /\ \A t \in Server \ {s} :
                /\ sync'[t].pc = sync[t].pc /\ sync'[t].src = sync[t].src
                /\ sync'[t].version = sync[t].version /\ sync'[t].data = sync[t].data
                /\ sync'[t].bad <=> sync[t].bad \/ sync[t].src = s
                /\ sync'[t].taken <=> sync[t].taken
<1> DEFINE Spoilt(t) == [sync[t] EXCEPT !.bad = TRUE]
           Fresh == [NoSync EXCEPT !.pc = pc]
<1>1. sync' = [t \in Server |-> IF t = s THEN Fresh
                                ELSE IF sync[t].src = s THEN Spoilt(t) ELSE sync[t]]
  BY DEF SyncWrite
<1>2. Fresh \in Sync
  BY Values DEF Sync
<1>3. ASSUME NEW t \in Server
      PROVE  /\ sync[t] \in Sync /\ Spoilt(t) \in Sync
             /\ Spoilt(t).pc = sync[t].pc /\ Spoilt(t).src = sync[t].src
             /\ Spoilt(t).version = sync[t].version /\ Spoilt(t).data = sync[t].data
             /\ Spoilt(t).bad /\ (Spoilt(t).taken <=> sync[t].taken)
  BY DEF Typed, TypeOK, Sync
<1> HIDE DEF Spoilt, Fresh
<1>4. /\ sync' \in [Server -> Sync] /\ sync'[s] = Fresh
      /\ \A t \in Server \ {s} :
            sync'[t] = IF sync[t].src = s THEN Spoilt(t) ELSE sync[t]
  BY <1>1, <1>2, <1>3
<1> QED
  BY <1>3, <1>4 DEF Fresh

\* A new primary: the recoveries that have read from the old one are spoilt.
LEMMA PromoteSync ==
    ASSUME Typed, NEW s \in Server, Promote(s)
    PROVE  /\ sync' \in [Server -> Sync]
           /\ \A t \in Server :
                /\ sync'[t].src = sync[t].src
                /\ sync'[t].version = sync[t].version /\ sync'[t].data = sync[t].data
                /\ \/ sync'[t].pc = sync[t].pc
                   \/ sync'[t].pc = "ask" /\ sync[t].pc = "idle" /\ up[t]
                /\ sync'[t].bad <=> sync[t].bad \/ sync[t].pc = "writing"
                /\ sync'[t].taken <=> sync[t].taken
<1> DEFINE Asking(t) == [sync[t] EXCEPT !.pc = "ask"]
           Spoilt(t) == [sync[t] EXCEPT !.bad = @ \/ sync[t].pc = "writing"]
<1>1. sync' = [t \in Server |->
            IF t # s /\ up[t] /\ sync[t].pc = "idle" THEN Asking(t) ELSE Spoilt(t)]
  BY DEF Promote
<1>2. ASSUME NEW t \in Server
      PROVE  /\ sync[t] \in Sync /\ Asking(t) \in Sync /\ Spoilt(t) \in Sync
             /\ Asking(t).pc = "ask" /\ Asking(t).src = sync[t].src
             /\ Asking(t).version = sync[t].version /\ Asking(t).data = sync[t].data
             /\ (Asking(t).bad <=> sync[t].bad) /\ (Asking(t).taken <=> sync[t].taken)
             /\ Spoilt(t).pc = sync[t].pc /\ Spoilt(t).src = sync[t].src
             /\ Spoilt(t).version = sync[t].version /\ Spoilt(t).data = sync[t].data
             /\ (Spoilt(t).bad <=> sync[t].bad \/ sync[t].pc = "writing")
             /\ (Spoilt(t).taken <=> sync[t].taken)
  BY DEF Typed, TypeOK, Sync
<1> HIDE DEF Asking, Spoilt
<1>3. /\ sync' \in [Server -> Sync]
      /\ \A t \in Server : \/ sync'[t] = Asking(t) /\ up[t] /\ sync[t].pc = "idle"
                           \/ sync'[t] = Spoilt(t)
  BY <1>1, <1>2
<1> QED
  BY <1>2, <1>3

-----------------------------------------------------------------------------
(* The type invariant *)

\* A handler that applies its operation, or answers, keeps the types.
LEMMA HandlerTyped ==
    ASSUME Typed, HandlerShape, NEW k \in Slot, Apply(k) \/ Finish(k)
    PROVE  Typed'
<1> USE BoundAssumption, ServerAssumption DEF Typed, TypeOK, serverVars, fileVars,
        clientVars, onceVars
<1>1. CASE Apply(k)
  <2>1. /\ conn = primary /\ cpc = "call" /\ request \in Data
        /\ Effect(op, request) \in Content
    BY <1>1, Values DEF Apply, Accepted, Data
  <2>2. sync' \in [Server -> Sync]
    BY <1>1, DisturbSync DEF Apply
  <2>3. handler' \in [Slot -> Handler] /\ NewVersion(conn) \in Nat
    BY <1>1, ApplyCall
  <2>4. /\ disk' \in [Server -> Content] /\ ver' \in [Server -> Nat]
        /\ suspect' \in [Server -> BOOLEAN] /\ exec' \in [Server -> Nat]
        /\ died' \in [Server -> BOOLEAN]
    BY <1>1, <2>1, <2>3 DEF Apply
  <2>5. want' \in SUBSET Content /\ newest' \in Slot \cup {None}
        /\ overlap' \in BOOLEAN
    BY <1>1, <2>1 DEF Apply
  <2> QED
    BY <1>1, <2>1, <2>2, <2>3, <2>4, <2>5 DEF Apply
<1>2. CASE Finish(k)
  <2>1. handler' \in [Slot -> Handler] /\ newest' \in Slot \cup {None}
    BY <1>2, Values DEF Finish
  <2>2. dedup' \in [Server -> BOOLEAN]
    BY <1>2 DEF Finish
  <2>3. CASE waiting = k /\ Acknowledge /\ UNCHANGED faults
    <3>1. cpc = "wait" /\ request \in Data
      BY <2>3 DEF Data
    <3>2. Effect(op, request) \in Content
      BY <3>1, Values
    <3> QED
      BY <1>2, <2>1, <2>2, <2>3, <3>1, <3>2 DEF Finish, Acknowledge, Return
  <2>4. CASE waiting = k /\ Retry /\ Fault /\ UNCHANGED <<want, onceVars>>
    BY <1>2, <2>1, <2>2, <2>4 DEF Finish, Retry, Fault
  <2>5. CASE waiting # k /\ UNCHANGED <<clientVars, faults, want, onceVars>>
    BY <1>2, <2>1, <2>2, <2>5 DEF Finish
  <2> QED
    BY <1>2, <2>3, <2>4, <2>5 DEF Finish
<1> QED
  BY <1>1, <1>2

\* So does a replication that is opened, arrives or fails.
LEMMA ReplicateTyped ==
    ASSUME Typed, HandlerShape, NEW k \in Slot, NEW p \in Server,
           ReplicateOpen(k, p) \/ Replicate(k, p) \/ ReplicateFails(k, p)
    PROVE  Typed'
<1> USE BoundAssumption, ServerAssumption DEF Typed, TypeOK, serverVars, fileVars,
        clientVars, onceVars
<1>1. CASE ReplicateOpen(k, p)
  <2>1. handler' \in [Slot -> Handler]
    BY <1>1, OpenCall
  <2>2. suspect' \in [Server -> BOOLEAN] /\ newest' \in Slot \cup {None}
    BY <1>1 DEF ReplicateOpen
  <2> QED
    BY <1>1, <2>1, <2>2 DEF ReplicateOpen
<1>2. CASE Replicate(k, p)
  <2>1. handler' \in [Slot -> Handler] /\ newest' \in Slot \cup {None}
    BY <1>2, ThroughCall DEF Replicate
  <2>2. sync' \in [Server -> Sync]
    BY <1>2, DisturbSync DEF Replicate
  <2>3. handler[k].data[p] \in Content /\ handler[k].version \in Nat
    BY DEF Handler
  <2>4. /\ disk' \in [Server -> Content] /\ ver' \in [Server -> Nat]
        /\ suspect' \in [Server -> BOOLEAN]
    BY <1>2, <2>3 DEF Replicate
  <2> QED
    BY <1>2, <2>1, <2>2, <2>4 DEF Replicate
<1>3. CASE ReplicateFails(k, p)
  <2>1. handler' \in [Slot -> Handler] /\ newest' \in Slot \cup {None}
    BY <1>3, ThroughCall DEF ReplicateFails
  <2>2. faults' \in 0..MaxFaults
    BY <1>3 DEF ReplicateFails, Fault
  <2>3. suspect' \in [Server -> BOOLEAN]
    BY <1>3 DEF ReplicateFails
  <2> QED
    BY <1>3, <2>1, <2>2, <2>3 DEF ReplicateFails
<1> QED
  BY <1>1, <1>2, <1>3

\* So does a server that dies, comes back or is promoted.
LEMMA ServerTyped ==
    ASSUME Typed, HandlerShape, NEW s \in Server, Crash(s) \/ Restart(s) \/ Promote(s)
    PROVE  Typed'
<1> USE BoundAssumption, ServerAssumption DEF Typed, TypeOK, serverVars, fileVars,
        clientVars, historyVars, onceVars
<1>1. CASE Crash(s)
  <2>1. handler' \in [Slot -> Handler] /\ newest' \in Slot \cup {None}
    BY <1>1, CrashCall
  <2>2. sync' \in [Server -> Sync]
    <3>1. [NoSync EXCEPT !.pc = "ask"] \in Sync
      BY Values DEF Sync
    <3> QED
      BY <1>1, <3>1, Values DEF Crash
  <2>3. dedup' \in [Server -> BOOLEAN] /\ suspect' \in [Server -> BOOLEAN]
    BY <1>1 DEF Crash
  <2>6. ver' \in [Server -> Nat] /\ exec' \in [Server -> Nat] /\ died' \in [Server -> BOOLEAN]
    BY <1>1 DEF Crash
  <2>7. crashes' \in 0..MaxCrashes
    <3>1. crashes < MaxCrashes /\ crashes' = crashes + 1
      BY <1>1 DEF Crash
    <3> QED
      BY <3>1
  <2>4. /\ up' \in [Server -> BOOLEAN] /\ primary' \in Server \cup {None}
        /\ primary' # None => up'[primary']
    BY <1>1 DEF Crash
  <2>5. /\ cpc' \in {"idle", "call", "wait", "retry"} /\ waiting' \in Slot \cup {None}
        /\ cpc' = "wait" <=> waiting' # None
        /\ cpc' # "idle" => cpc # "idle"
        /\ UNCHANGED <<request, op, attempt, conn>>
    BY <1>1 DEF Crash, Retry
  <2> QED
    BY <1>1, <2>1, <2>2, <2>3, <2>4, <2>5, <2>6, <2>7 DEF Crash
<1>2. CASE Restart(s)
  <2>1. sync' \in [Server -> Sync]
    BY <1>2 DEF Restart, Sync
  <2>2. up' \in [Server -> BOOLEAN] /\ ver' \in [Server -> Nat]
        /\ (primary # None => up'[primary])
    BY <1>2 DEF Restart
  <2> QED
    BY <1>2, <2>1, <2>2 DEF Restart
<1>3. CASE Promote(s)
  BY <1>3, PromoteSync DEF Promote
<1> QED
  BY <1>1, <1>2, <1>3

\* So does each step of a recovery.
LEMMA SyncTyped ==
    ASSUME Typed, SyncShape, NEW s \in Server,
           SyncList(s) \/ SyncUseless(s) \/ SyncOpen(s) \/ SyncFinish(s) \/ SyncBreaks(s)
    PROVE  Typed'
<1> USE BoundAssumption, ServerAssumption DEF Typed, TypeOK, serverVars, fileVars,
        clientVars, historyVars, onceVars
<1>1. ASSUME NEW r \in Sync, SyncTo(s, r)
      PROVE  Typed'
  BY <1>1 DEF SyncTo
<1>2. CASE SyncList(s)
  <2>1. [NoSync EXCEPT !.pc = "listed", !.src = primary,
                       !.version = ver[primary], !.bad = suspect[primary]] \in Sync
    BY <1>2, Values DEF SyncList, Sync
  <2> QED
    BY <1>1, <1>2, <2>1, Values DEF SyncList
<1>3. CASE SyncUseless(s)
  BY <1>1, <1>3, Values DEF SyncUseless
<1>4. CASE SyncOpen(s)
  <2>1. disk[sync[s].src] \in Content /\ sync[s] \in Sync
    BY <1>4 DEF SyncOpen, SyncShape
  <2>2. [sync[s] EXCEPT !.pc = "writing", !.data = disk[sync[s].src]] \in Sync
    BY <2>1 DEF Sync
  <2> QED
    BY <1>1, <1>4, <2>2, Values DEF SyncOpen
<1>5. ASSUME NEW c \in Content, NEW pc \in {"idle", "ask"}, SyncWrite(s, c, pc)
      PROVE  sync' \in [Server -> Sync] /\ disk' \in [Server -> Content]
             /\ ver' \in [Server -> Nat]
  <2>1. sync' \in [Server -> Sync]
    BY <1>5, WriteSync
  <2>2. PICK x \in Content : disk' = [disk EXCEPT ![s] = x]
    BY <1>5, Values DEF SyncWrite
  <2>3. sync[s].version \in Nat
    BY DEF Sync
  <2> QED
    BY <1>5, <2>1, <2>2, <2>3 DEF SyncWrite
<1>6. CASE SyncFinish(s)
  <2>1. sync[s].data \in Content
    BY DEF Sync
  <2>2. suspect' \in [Server -> BOOLEAN]
    BY <1>6 DEF SyncFinish, Sync
  <2> QED
    BY <1>5, <1>6, <2>1, <2>2 DEF SyncFinish, SyncWrite
<1>7. CASE SyncBreaks(s)
  <2>1. faults' \in 0..MaxFaults /\ suspect' \in [Server -> BOOLEAN]
    BY <1>7 DEF SyncBreaks, Fault
  <2> QED
    BY <1>5, <1>7, <2>1, Values DEF SyncBreaks, SyncWrite
<1> QED
  BY <1>2, <1>3, <1>4, <1>6, <1>7

-----------------------------------------------------------------------------
(* Shape *)

\* The fields of an empty call and of a recovery that has just begun or ended.
LEMMA Fields ==
    /\ NoCall.at = None /\ ~NoCall.alive /\ NoCall.id = 0
    /\ \A p \in Server : NoCall.rep[p] = "done"
    /\ NoSync.pc = "idle" /\ ~NoSync.bad /\ ~NoSync.taken
    /\ \A pc : /\ [NoSync EXCEPT !.pc = pc].pc = pc /\ ~[NoSync EXCEPT !.pc = pc].bad
               /\ ~[NoSync EXCEPT !.pc = pc].taken
BY DEF NoCall, NoSync

\* The client's steps leave calls and recoveries as they are.
LEMMA ClientShapes ==
    ASSUME Typed, Typed', Shape,
           \/ Request \/ Reconnect \/ GiveUp \/ CallFails \/ Timeout \/ Dedup
           \/ CreateExists
    PROVE  Shape'
<1>1. /\ UNCHANGED <<serverVars, sync, handler, newest, suspect>>
      /\ waiting' # None => waiting' = waiting /\ request' = request
      /\ request' \in Nat /\ request \in Nat /\ request' >= request
      /\ dedup' = dedup \/ dedup' = [s \in Server |-> FALSE]
  BY DEF Request, Reconnect, GiveUp, CallFails, Timeout, Dedup, CreateExists, Return,
         Retry, Acknowledge, historyVars, Typed, TypeOK
<1>2. UNCHANGED <<up, primary>>
  BY <1>1 DEF serverVars
<1>3. HandlerShape'
  <2>1. \A k \in Slot : handler[k].id \in 0..MaxRequests
    BY DEF Typed, TypeOK, Handler
  <2> QED
    BY <1>1, <1>2, <2>1 DEF Shape, HandlerShape
<1>4. ClientShape'
  BY <1>1, <1>2 DEF Shape, ClientShape, Doing
<1>5. NewestShape' /\ SyncShape'
  BY <1>1, <1>2 DEF Shape, NewestShape, SyncShape
<1> QED
  BY <1>3, <1>4, <1>5 DEF Shape

\* A new call is the primary's newest, which the client waits for; a call that is
\* over is waited for by nobody.
LEMMA HandlerShapes ==
    ASSUME Typed, Typed', Shape, NEW k \in Slot, Apply(k) \/ Finish(k)
    PROVE  Shape'
<1> USE ServerAssumption
<1>1. CASE Apply(k)
  <2>1. /\ UNCHANGED <<up, primary, crashes, dedup, request>> /\ waiting' = k
        /\ newest' = k /\ conn = primary /\ conn \in Server /\ up[conn]
        /\ suspect' = [suspect EXCEPT ![conn] = FALSE]
        /\ Disturb(conn, Effect(op, request)) /\ request \in Nat /\ primary # None
    BY <1>1 DEF Apply, Accepted, serverVars, Typed, TypeOK
  <2>2. HandlerShape'
    BY <1>1, <2>1, ApplyCall DEF Shape, HandlerShape
  <2>3. ClientShape' /\ NewestShape'
    BY <1>1, <2>1, ApplyCall DEF Shape, ClientShape, NewestShape, Doing
  <2>4. SyncShape'
    BY <1>1, <2>1, DisturbSync DEF Shape, SyncShape, Typed, TypeOK
  <2> QED
    BY <2>2, <2>3, <2>4 DEF Shape
<1>2. CASE Finish(k)
  <2>1. /\ UNCHANGED <<up, primary, crashes, sync, suspect, request>>
        /\ handler' = [handler EXCEPT ![k] = NoCall] /\ handler[k].alive
        /\ dedup' = [dedup EXCEPT ![handler[k].at] = @ \/ handler[k].id = request]
        /\ newest' = IF newest = k THEN None ELSE newest
        /\ waiting' # None => waiting # k /\ waiting' = waiting
    BY <1>2 DEF Finish, serverVars, clientVars, Acknowledge, Return, Retry
  <2>2. /\ handler'[k] = NoCall /\ \A j \in Slot : j # k => handler'[j] = handler[j]
        /\ request \in Nat
    BY <2>1 DEF Typed, TypeOK
  <2>3. HandlerShape'
    BY <2>1, <2>2, Fields DEF Shape, HandlerShape
  <2>4. NewestShape' /\ SyncShape'
    BY <2>1, <2>2 DEF Shape, NewestShape, SyncShape, Typed, TypeOK
  <2>5. ClientShape'
    <3>1. \A s \in Server : dedup'[s] => s = primary
      BY <2>1 DEF Shape, ClientShape, HandlerShape, Typed, TypeOK
    <3> QED
      BY <2>1, <2>2, <3>1 DEF Shape, ClientShape, Doing, Typed, TypeOK
  <2> QED
    BY <2>3, <2>4, <2>5 DEF Shape
<1> QED
  BY <1>1, <1>2

\* A call is over before every peer is through only when its server has died.
LEMMA ReplicateShapes ==
    ASSUME Typed, Typed', Shape, NEW k \in Slot, NEW p \in Server,
           ReplicateOpen(k, p) \/ Replicate(k, p) \/ ReplicateFails(k, p)
    PROVE  Shape'
<1> USE ServerAssumption
<1>1. /\ UNCHANGED <<up, primary, dedup, request, waiting>>
      /\ waiting \in Slot \cup {None} /\ newest \in Slot \cup {None}
      /\ request \in Nat /\ handler[k].at \in Server \cup {None}
  BY DEF ReplicateOpen, Replicate, ReplicateFails, serverVars, clientVars, Typed, TypeOK,
         Handler
<1>2. CASE ReplicateOpen(k, p)
  <2>1. UNCHANGED sync /\ newest' \in {None, newest}
        /\ suspect' = [suspect EXCEPT ![p] = @ \/ ~Sent(disk[handler[k].at])]
    BY <1>2 DEF ReplicateOpen
  <2>2. HandlerShape'
    BY <1>1, <1>2, OpenCall DEF Shape, HandlerShape
  <2>3. ClientShape' /\ NewestShape'
    BY <1>1, <1>2, <2>1, OpenCall DEF Shape, ClientShape, NewestShape, Doing
  <2>4. SyncShape'
    BY <1>1, <2>1 DEF Shape, SyncShape, Typed, TypeOK
  <2> QED
    BY <2>2, <2>3, <2>4 DEF Shape
<1>3. ASSUME Through(k, p)
      PROVE  HandlerShape' /\ ClientShape' /\ NewestShape'
  <2>2. HandlerShape'
    BY <1>1, <1>3, ThroughCall, Fields DEF Shape, HandlerShape
  <2>3. ClientShape' /\ NewestShape'
    BY <1>1, <1>3, ThroughCall, Fields DEF Shape, ClientShape, NewestShape, Doing
  <2> QED
    BY <2>2, <2>3
<1>4. CASE Replicate(k, p)
  <2>1. /\ Through(k, p) /\ Disturb(p, handler[k].data[p]) /\ up[p]
        /\ suspect' = [suspect EXCEPT ![p] = k # newest]
    BY <1>4 DEF Replicate
  <2>2. SyncShape'
    BY <1>1, <2>1, DisturbSync DEF Shape, SyncShape, Typed, TypeOK
  <2> QED
    BY <1>3, <2>1, <2>2 DEF Shape
<1>5. CASE ReplicateFails(k, p)
  <2>1. /\ Through(k, p) /\ UNCHANGED sync
        /\ suspect' \in {suspect, [suspect EXCEPT ![p] = TRUE]}
    BY <1>5 DEF ReplicateFails
  <2>2. SyncShape'
    BY <1>1, <2>1 DEF Shape, SyncShape, Typed, TypeOK
  <2> QED
    BY <1>3, <2>1, <2>2 DEF Shape
<1> QED
  BY <1>2, <1>4, <1>5

\* What a crash does to recoveries and servers.
LEMMA CrashFacts ==
    ASSUME Typed, NEW s \in Server, Crash(s)
    PROVE  /\ up' = [up EXCEPT ![s] = FALSE] /\ suspect' = [suspect EXCEPT ![s] = TRUE]
           /\ dedup' = [dedup EXCEPT ![s] = FALSE] /\ died' = [died EXCEPT ![s] = TRUE]
           /\ ver' = [ver EXCEPT ![s] = 0]
           /\ primary' = IF primary = s THEN None ELSE primary
           /\ UNCHANGED <<disk, want, exec, overlap, request, op>>
           /\ waiting' # None => waiting' = waiting /\ handler[waiting].at # s
           /\ (cpc' = "idle") <=> (cpc = "idle")
           /\ \A t \in Server :
                IF t = s THEN sync'[t] = NoSync
                ELSE IF sync[t].pc = "listed" /\ sync[t].src = s
                     THEN sync'[t] = [NoSync EXCEPT !.pc = "ask"]
                     ELSE sync'[t] = sync[t]
<1>1. /\ up' = [up EXCEPT ![s] = FALSE] /\ suspect' = [suspect EXCEPT ![s] = TRUE]
      /\ dedup' = [dedup EXCEPT ![s] = FALSE] /\ died' = [died EXCEPT ![s] = TRUE]
      /\ ver' = [ver EXCEPT ![s] = 0]
      /\ primary' = IF primary = s THEN None ELSE primary
      /\ UNCHANGED <<disk, want, exec, overlap>>
  BY DEF Crash
<1>2. /\ UNCHANGED <<request, op>>
      /\ waiting' # None => waiting' = waiting /\ handler[waiting].at # s
      /\ (cpc' = "idle") <=> (cpc = "idle")
  BY DEF Crash, Retry, clientVars, Typed, TypeOK
<1>3. \A t \in Server :
                IF t = s THEN sync'[t] = NoSync
                ELSE IF sync[t].pc = "listed" /\ sync[t].src = s
                     THEN sync'[t] = [NoSync EXCEPT !.pc = "ask"]
                     ELSE sync'[t] = sync[t]
  BY DEF Crash
<1> QED
  BY <1>1, <1>2, <1>3

\* A crash ends the calls of the server and the lists being read from it.
LEMMA ServerShapes ==
    ASSUME Typed, Typed', Shape, NEW s \in Server, Crash(s) \/ Restart(s) \/ Promote(s)
    PROVE  Shape'
<1> USE ServerAssumption
<1>1. CASE Crash(s)
  <2>1. HandlerShape'
    <3> SUFFICES ASSUME NEW k \in Slot
                 PROVE  HandlerShape!(k)'
      BY DEF HandlerShape
    <3>1. request' = request /\ request \in Nat
          /\ primary' = IF primary = s THEN None ELSE primary
      BY <1>1, CrashFacts DEF Typed, TypeOK
    <3>2. CASE handler'[k] = NoCall
      BY <3>1, <3>2, Fields
    <3>3. CASE handler'[k] # NoCall
      <4>1. /\ handler'[k].at = handler[k].at /\ handler'[k].id = handler[k].id
            /\ handler'[k].alive <=> (handler[k].alive /\ handler[k].at # s)
            /\ \A p \in Server : handler'[k].rep[p] =
                        IF Lost(k, p, s) THEN "done" ELSE handler[k].rep[p]
        BY <1>1, <3>3, CrashCall
      <4>2. handler[k].at \in Server \cup {None}
        BY DEF Typed, TypeOK, Handler
      <4> QED
        BY <3>1, <4>1, <4>2 DEF Shape, HandlerShape, Lost
    <3> QED
      BY <3>2, <3>3
  <2>2. ClientShape'
    <3>1. \A t \in Server : dedup'[t] => t = primary'
      BY <1>1, CrashFacts DEF Shape, ClientShape, Typed, TypeOK
    <3>2. waiting' # None => Doing(waiting)'
      <4> HAVE waiting' # None
      <4>1. /\ waiting' = waiting /\ waiting \in Slot /\ handler[waiting].at # s
            /\ handler[waiting].alive /\ handler[waiting].id = request /\ request' = request
        BY <1>1, CrashFacts DEF Shape, ClientShape, Doing, Typed, TypeOK
      <4>2. handler'[waiting].alive /\ handler'[waiting].id = handler[waiting].id
        BY <1>1, <4>1, CrashCall
      <4> QED
        BY <4>1, <4>2 DEF Doing
    <3> QED
      BY <3>1, <3>2 DEF ClientShape
  <2>3. NewestShape'
    <3> SUFFICES ASSUME newest' # None
                 PROVE  /\ handler'[newest'].at # None
                        /\ handler'[newest'].alive \/ primary' = None
      BY DEF NewestShape
    <3>1. newest' = newest /\ newest \in Slot /\ handler'[newest].at # None
      BY <1>1, CrashCall
    <3>2. handler'[newest].alive <=> (handler[newest].alive /\ handler[newest].at # s)
      BY <1>1, <3>1, CrashCall, Fields
    <3>3. primary' = IF primary = s THEN None ELSE primary
      BY <1>1, CrashFacts
    <3> QED
      BY <3>1, <3>2, <3>3 DEF Shape, NewestShape, HandlerShape
  <2>4. SyncShape'
    <3> SUFFICES ASSUME NEW t \in Server
                 PROVE  SyncShape!(t)'
      BY DEF SyncShape
    <3>1. /\ t # s => up'[t] = up[t] /\ suspect'[t] = suspect[t]
          /\ suspect'[s] /\ primary' = IF primary = s THEN None ELSE primary
      BY <1>1, CrashFacts DEF Typed, TypeOK
    <3>2. \/ sync'[t] = NoSync
          \/ sync'[t] = [NoSync EXCEPT !.pc = "ask"] /\ t # s /\ up[t]
          \/ sync'[t] = sync[t] /\ t # s /\ ~(sync[t].pc = "listed" /\ sync[t].src = s)
      BY <1>1, CrashFacts DEF Shape, SyncShape
    <3>3. CASE sync'[t] = NoSync
      BY <3>1, <3>3, Fields DEF Shape, SyncShape
    <3>4. CASE sync'[t] = [NoSync EXCEPT !.pc = "ask"] /\ t # s /\ up[t]
      BY <3>1, <3>4, Fields
    <3>5. CASE sync'[t] = sync[t] /\ t # s /\ ~(sync[t].pc = "listed" /\ sync[t].src = s)
      BY <3>1, <3>5 DEF Shape, SyncShape
    <3> QED
      BY <3>2, <3>3, <3>4, <3>5
  <2> QED
    BY <2>1, <2>2, <2>3, <2>4 DEF Shape
<1>2. CASE Restart(s)
  <2>1. /\ UNCHANGED <<primary, dedup, handler, request, waiting, newest, suspect>>
        /\ up' = [up EXCEPT ![s] = TRUE] /\ sync' = [sync EXCEPT ![s].pc = "ask"]
        /\ ~up[s]
    BY <1>2 DEF Restart, clientVars, historyVars
  <2>2. HandlerShape' /\ ClientShape' /\ NewestShape'
    BY <2>1 DEF Shape, HandlerShape, ClientShape, NewestShape, Doing
  <2>3. SyncShape'
    BY <2>1 DEF Shape, SyncShape, Typed, TypeOK, Sync
  <2> QED
    BY <2>2, <2>3 DEF Shape
<1>3. CASE Promote(s)
  <2>1. /\ UNCHANGED <<up, dedup, handler, request, waiting, suspect>>
        /\ primary' = s /\ primary = None /\ newest' = None /\ up[s]
    BY <1>3 DEF Promote, clientVars
  <2>2. \A k \in Slot : ~handler[k].alive
    BY <2>1 DEF Shape, HandlerShape
  <2>3. HandlerShape' /\ NewestShape'
    BY <2>1, <2>2 DEF Shape, HandlerShape, NewestShape
  <2>4. ClientShape'
    BY <2>1 DEF Shape, ClientShape, Doing
  <2>5. SyncShape'
    BY <1>3, <2>1, PromoteSync DEF Shape, SyncShape
  <2> QED
    BY <2>3, <2>4, <2>5 DEF Shape
<1> QED
  BY <1>1, <1>2, <1>3

\* What the end of a recovery at s does.
LEMMA WriteFacts ==
    ASSUME Typed, Shape, NEW s \in Server, SyncFinish(s) \/ SyncBreaks(s)
    PROVE  /\ UNCHANGED <<up, primary, dedup, handler, request, op, cpc, waiting, want,
                          newest, exec, died, overlap>>
           /\ up[s] /\ sync[s].pc = "writing"
           /\ suspect' \in [Server -> BOOLEAN]
           /\ \A t \in Server \ {s} :
                suspect'[t] = suspect[t] /\ disk'[t] = disk[t] /\ ver'[t] = ver[t]
           /\ ~suspect'[s] => /\ ~sync[s].bad /\ disk'[s] = sync[s].data
                              /\ ver'[s] = sync[s].version
           /\ sync' \in [Server -> Sync] /\ sync'[s].pc \in {"idle", "ask"}
           /\ ~sync'[s].taken
           /\ \A t \in Server \ {s} :
                /\ sync'[t].pc = sync[t].pc /\ sync'[t].src = sync[t].src
                /\ sync'[t].version = sync[t].version /\ sync'[t].data = sync[t].data
                /\ sync'[t].bad <=> sync[t].bad \/ sync[t].src = s
                /\ sync'[t].taken <=> sync[t].taken
<1>1. PICK c \in {sync[s].data, Torn}, pc \in {"idle", "ask"} :
        /\ SyncWrite(s, c, pc) /\ sync[s].pc = "writing"
        /\ \/ suspect' = [suspect EXCEPT ![s] = sync[s].bad] /\ c = sync[s].data
           \/ suspect' = [suspect EXCEPT ![s] = TRUE]
  BY DEF SyncFinish, SyncBreaks
<1>2. /\ sync' \in [Server -> Sync] /\ sync'[s].pc \in {"idle", "ask"} /\ ~sync'[s].taken
      /\ \A t \in Server \ {s} :
            /\ sync'[t].pc = sync[t].pc /\ sync'[t].src = sync[t].src
            /\ sync'[t].version = sync[t].version /\ sync'[t].data = sync[t].data
            /\ sync'[t].bad <=> sync[t].bad \/ sync[t].src = s
            /\ sync'[t].taken <=> sync[t].taken
  <2>1. sync'[s] = [NoSync EXCEPT !.pc = pc]
    BY <1>1, WriteSync
  <2>2. sync'[s].pc = pc /\ ~sync'[s].taken
    BY <2>1, Fields
  <2> QED
    BY <1>1, <2>2, WriteSync
<1>3. /\ UNCHANGED <<up, primary, dedup, handler, request, op, cpc, waiting, want,
                     newest, exec, died, overlap>>
  BY <1>1 DEF SyncWrite, serverVars, clientVars, onceVars
<1>4. up[s] /\ (sync[s].taken => sync[s].bad) /\ sync[s].bad \in BOOLEAN
  BY <1>1 DEF Shape, SyncShape, Typed, TypeOK, Sync
<1>5. /\ suspect' \in [Server -> BOOLEAN]
      /\ \A t \in Server \ {s} : suspect'[t] = suspect[t]
      /\ ~suspect'[s] => ~sync[s].bad /\ c = sync[s].data
  BY <1>1, <1>4 DEF Typed, TypeOK
<1>6. PICK x : disk' = [disk EXCEPT ![s] = x] /\ (~sync[s].taken => x = c)
  BY <1>1 DEF SyncWrite
<1>7. ver' = [ver EXCEPT ![s] = sync[s].version]
  BY <1>1 DEF SyncWrite
<1>8. disk \in [Server -> Content] /\ ver \in [Server -> Nat]
  BY DEF Typed, TypeOK
<1>9. /\ \A t \in Server \ {s} : disk'[t] = disk[t] /\ ver'[t] = ver[t]
      /\ disk'[s] = x /\ ver'[s] = sync[s].version
  BY <1>6, <1>7, <1>8
<1> QED
  BY <1>1, <1>2, <1>3, <1>4, <1>5, <1>6, <1>9

\* A recovery lists the file at the primary and takes it from there.
LEMMA SyncShapes ==
    ASSUME Typed, Typed', Shape, NEW s \in Server,
           SyncList(s) \/ SyncUseless(s) \/ SyncOpen(s) \/ SyncFinish(s) \/ SyncBreaks(s)
    PROVE  Shape'
<1>1. ASSUME UNCHANGED <<primary, dedup, handler, request, waiting, newest>>
      PROVE  HandlerShape' /\ ClientShape' /\ NewestShape'
  BY <1>1 DEF Shape, HandlerShape, ClientShape, NewestShape, Doing
<1>2. CASE SyncFinish(s) \/ SyncBreaks(s)
  <2>1. SyncShape'
    BY <1>2, WriteFacts DEF Shape, SyncShape
  <2> QED
    BY <1>1, <1>2, <2>1, WriteFacts DEF Shape
<1>3. ASSUME NEW r, SyncTo(s, r), up[s],
             r.pc = "listed" => r.src = primary /\ primary # None, r.taken => r.bad
      PROVE  Shape'
  <2>1. SyncShape'
    BY <1>3 DEF SyncTo, Shape, SyncShape, serverVars, historyVars, Typed, TypeOK
  <2> QED
    BY <1>1, <1>3, <2>1 DEF SyncTo, Shape, serverVars, historyVars, clientVars
<1>4. CASE SyncList(s)
  <2> DEFINE r == [NoSync EXCEPT !.pc = "listed", !.src = primary,
                                 !.version = ver[primary], !.bad = suspect[primary]]
  <2>1. r.src = primary /\ ~r.taken /\ primary # None
    BY <1>4 DEF NoSync, SyncList
  <2>2. up[s]
    BY <1>4 DEF SyncList, Shape, SyncShape
  <2>3. SyncTo(s, NoSync) \/ SyncTo(s, r)
    BY <1>4 DEF SyncList
  <2> HIDE DEF r
  <2> QED
    BY <1>3, <2>1, <2>2, <2>3, Fields
<1>5. CASE SyncUseless(s)
  BY <1>3, <1>5, Fields DEF SyncUseless, Shape, SyncShape
<1>6. CASE SyncOpen(s)
  <2> DEFINE r == [sync[s] EXCEPT !.pc = "writing", !.data = disk[sync[s].src]]
  <2>1. r.pc = "writing" /\ r.taken = sync[s].taken /\ r.bad = sync[s].bad
    BY DEF Typed, TypeOK, Sync
  <2>2. up[s] /\ (sync[s].taken => sync[s].bad)
    BY <1>6 DEF SyncOpen, Shape, SyncShape
  <2>3. SyncTo(s, NoSync) \/ SyncTo(s, r)
    BY <1>6 DEF SyncOpen
  <2> HIDE DEF r
  <2> QED
    BY <1>3, <2>1, <2>2, <2>3, Fields
<1> QED
  BY <1>2, <1>4, <1>5, <1>6

\* Typed and Shape are inductive.
LEMMA NextShape ==
    ASSUME Typed, Shape, [Next]_vars
    PROVE  Typed' /\ Shape'
<1>1. CASE \/ Request \/ Reconnect \/ GiveUp \/ CallFails \/ Timeout \/ Dedup
           \/ CreateExists
  BY <1>1, ClientTyped, ClientShapes
<1>2. ASSUME NEW k \in Slot, Apply(k) \/ Finish(k)
      PROVE  Typed' /\ Shape'
  BY <1>2, HandlerTyped, HandlerShapes DEF Shape
<1>3. ASSUME NEW k \in Slot, NEW p \in Server,
             ReplicateOpen(k, p) \/ Replicate(k, p) \/ ReplicateFails(k, p)
      PROVE  Typed' /\ Shape'
  BY <1>3, ReplicateTyped, ReplicateShapes DEF Shape
<1>4. ASSUME NEW s \in Server, Crash(s) \/ Restart(s) \/ Promote(s)
      PROVE  Typed' /\ Shape'
  BY <1>4, ServerTyped, ServerShapes DEF Shape
<1>5. ASSUME NEW s \in Server,
           SyncList(s) \/ SyncUseless(s) \/ SyncOpen(s) \/ SyncFinish(s) \/ SyncBreaks(s)
      PROVE  Typed' /\ Shape'
  BY <1>5, SyncTyped, SyncShapes DEF Shape
<1>6. CASE UNCHANGED vars
  BY <1>6 DEF vars, serverVars, fileVars, clientVars, historyVars, onceVars, Typed, TypeOK,
        Shape, HandlerShape, ClientShape, NewestShape, SyncShape, Doing
<1> QED
  BY <1>1, <1>2, <1>3, <1>4, <1>5, <1>6 DEF Next

\* They hold before the first request.
LEMMA InitShape == Init => Typed /\ Shape
<1> SUFFICES ASSUME Init PROVE Typed /\ Shape
  OBVIOUS
<1>1. Typed
  <2>1. /\ up \in [Server -> BOOLEAN] /\ dedup \in [Server -> BOOLEAN]
        /\ suspect \in [Server -> BOOLEAN] /\ died \in [Server -> BOOLEAN]
    BY DEF Init
  <2>2. /\ disk \in [Server -> Content] /\ ver \in [Server -> Nat]
        /\ exec \in [Server -> Nat] /\ want \in SUBSET Content
    BY Values DEF Init
  <2>3. sync \in [Server -> Sync] /\ handler \in [Slot -> Handler]
    BY Values DEF Init
  <2>4. primary \in Server /\ conn \in Server /\ up[primary]
    BY DEF Init
  <2>5. /\ request = 0 /\ op = "delete" /\ cpc = "idle" /\ attempt = 0 /\ waiting = None
        /\ crashes = 0 /\ faults = 0 /\ newest = None /\ overlap = FALSE
    BY DEF Init
  <2>6. /\ request \in 0..MaxRequests /\ attempt \in 0..MaxAttempts
        /\ crashes \in 0..MaxCrashes /\ faults \in 0..MaxFaults
    BY <2>5, BoundAssumption
  <2>7. overlap \in BOOLEAN
    BY <2>5
  <2>8. op \in Op
    BY <2>5 DEF Op
  <2>9. /\ primary \in Server \cup {None} /\ (primary # None => up[primary])
        /\ waiting \in Slot \cup {None} /\ newest \in Slot \cup {None}
        /\ (cpc = "wait" <=> waiting # None) /\ cpc \in {"idle", "call", "wait", "retry"}
        /\ (cpc # "idle" => request >= 1)
    BY <2>4, <2>5
  <2> QED
    BY <2>1, <2>2, <2>3, <2>4, <2>6, <2>7, <2>8, <2>9 DEF Typed, TypeOK
<1>2. Shape
  BY Fields, ServerAssumption
  DEF Init, Shape, HandlerShape, ClientShape, NewestShape, SyncShape, Absent
<1> QED
  BY <1>1, <1>2

\* The type invariant: the attempts never exceed maxRetries, the client waits
\* exactly when there is a call to wait for, and the primary is alive.
THEOREM ReplicationTypes == Spec => []TypeOK
<1>1. Typed /\ Shape /\ [Next]_vars => (Typed /\ Shape)'
  BY NextShape
<1>2. Typed /\ Shape => TypeOK
  BY DEF Typed
<1> QED
  BY <1>1, <1>2, InitShape, PTL DEF Spec

-----------------------------------------------------------------------------
(* At most once *)

\* A new request has neither attempts nor an answer.
LEMMA RequestFresh ==
    ASSUME Typed, Shape, Request
    PROVE  ~Answered' /\ \A k \in Slot : ~Doing(k)'
<1>1. /\ handler' = handler /\ request' = request + 1 /\ request \in Nat
      /\ dedup' = [s \in Server |-> FALSE]
  BY DEF Request, Typed, TypeOK
<1>2. \A k \in Slot : handler[k].id <= request /\ handler[k].id \in Nat
  BY DEF Shape, HandlerShape, Typed, TypeOK, Handler
<1> QED
  BY <1>1, <1>2 DEF Answered, Doing

\* Apply starts an attempt at the primary, which has no answer.
LEMMA ApplyDoing ==
    ASSUME Typed, Shape, NEW k \in Slot, Apply(k)
    PROVE  /\ ~Answered /\ ~Answered' /\ Doing(k)' /\ handler[k].at = None /\ ~Doing(k)
           /\ \A j \in Slot : j # k => handler'[j] = handler[j] /\ (Doing(j)' <=> Doing(j))
<1>1. ~dedup[conn] /\ conn = primary /\ dedup' = dedup /\ request' = request
      /\ handler[k].at = None
  BY DEF Apply, Accepted, Free
<1> QED
  BY <1>1, ApplyCall DEF Answered, Doing, Shape, ClientShape, HandlerShape

\* Finish ends a call, with the answer of the request if it was an attempt of it.
LEMMA FinishDoing ==
    ASSUME Typed, Shape, NEW k \in Slot, Finish(k)
    PROVE  /\ handler[k].alive /\ handler[k].at = primary /\ primary \in Server
           /\ \A p \in Server : handler[k].rep[p] = "done"
           /\ handler'[k] = NoCall /\ ~Doing(k)' /\ newest' # k
           /\ newest' # None => newest' = newest
           /\ \A j \in Slot : j # k => handler'[j] = handler[j] /\ (Doing(j)' <=> Doing(j))
           /\ Answered' <=> Answered \/ Doing(k)
           /\ \A s \in Server : dedup'[s] <=> dedup[s] \/ (s = primary /\ Doing(k))
           /\ UNCHANGED <<up, primary, disk, ver, sync, suspect, request, op, exec, died,
                          overlap>>
<1>1. /\ handler[k].alive /\ handler[k].at = primary /\ primary \in Server
  BY DEF Finish, Shape, HandlerShape, Typed, TypeOK
<1>2. /\ handler'[k] = NoCall /\ newest' # k /\ (newest' # None => newest' = newest)
      /\ \A j \in Slot : j # k => handler'[j] = handler[j]
      /\ \A p \in Server : handler[k].rep[p] = "done"
  BY ServerAssumption DEF Finish, Typed, TypeOK, Replicated
<1>3. UNCHANGED <<up, primary, disk, ver, sync, suspect, request, op, exec, died,
                  overlap>>
  BY DEF Finish, serverVars, fileVars, clientVars, onceVars, Acknowledge, Return, Retry
<1>4. dedup' = [dedup EXCEPT ![primary] = @ \/ handler[k].id = request]
  BY <1>1 DEF Finish
<1>5. \A s \in Server : dedup'[s] <=> dedup[s] \/ (s = primary /\ Doing(k))
  BY <1>1, <1>4 DEF Typed, TypeOK, Doing
<1>6. ~Doing(k)' /\ \A j \in Slot : j # k => (Doing(j)' <=> Doing(j))
  BY <1>2, <1>3, Fields DEF Doing
<1> QED
  BY <1>1, <1>2, <1>3, <1>5, <1>6 DEF Answered

\* A crash of the primary ends all attempts and loses the answer; another one none.
LEMMA CrashDoing ==
    ASSUME Typed, Shape, NEW s \in Server, Crash(s)
    PROVE  /\ primary = s => ~Answered' /\ \A k \in Slot : ~Doing(k)'
           /\ primary # s => /\ (Answered' <=> Answered)
                             /\ \A k \in Slot : Doing(k)' <=> Doing(k)
           /\ \A k \in Slot : Doing(k)' => handler'[k].at = handler[k].at
<1>1. \A k \in Slot : /\ Doing(k)' <=> Doing(k) /\ handler[k].at # s
                      /\ Doing(k)' => handler'[k].at = handler[k].at
  BY CrashCall, CrashFacts, Fields DEF Doing
<1>2. \A t \in Server : dedup'[t] <=> dedup[t] /\ t # s
  BY CrashFacts DEF Typed, TypeOK
<1>3. \A k \in Slot : Doing(k) => handler[k].at = primary
  BY DEF Doing, Shape, HandlerShape
<1>4. \A t \in Server : dedup[t] => t = primary
  BY DEF Shape, ClientShape
<1> QED
  BY <1>1, <1>2, <1>3, <1>4 DEF Answered

\* A replication that is opened or over leaves the attempts as they are.
LEMMA ReplicateDoing ==
    ASSUME Typed, Shape, NEW k \in Slot, NEW p \in Server,
           ReplicateOpen(k, p) \/ Replicate(k, p) \/ ReplicateFails(k, p)
    PROVE  \A j \in Slot : /\ Doing(j)' <=> Doing(j)
                           /\ Doing(j) => handler'[j].at = handler[j].at
<1>1. request' = request
  BY DEF ReplicateOpen, Replicate, ReplicateFails, clientVars
<1>2. CASE ReplicateOpen(k, p)
  BY <1>1, <1>2, OpenCall DEF Shape, Doing
<1>3. CASE Through(k, p)
  BY <1>1, <1>3, ThroughCall, Fields DEF Doing
<1> QED
  BY <1>2, <1>3 DEF Replicate, ReplicateFails

\* Once is inductive: Apply is refused where the answer is kept, and a call is over
\* only when its answer is.
LEMMA NextOnce ==
    ASSUME Typed, Shape, Once, [Next]_vars
    PROVE  Once'
<1>1. ASSUME UNCHANGED <<dedup, exec, died, overlap>>,
             \A k \in Slot : /\ Doing(k)' <=> Doing(k)
                             /\ Doing(k) => handler'[k].at = handler[k].at
      PROVE  Once'
  <2>1. Answered' <=> Answered
    BY <1>1 DEF Answered
  <2> QED
    BY <1>1, <2>1 DEF Once, Applied, Single
<1>2. CASE Request
  <2>1. exec' = [s \in Server |-> 0]
    BY <1>2 DEF Request
  <2>2. Applied'
    BY <2>1 DEF Applied
  <2>3. Single'
    BY <1>2, RequestFresh DEF Single
  <2> QED
    BY <2>2, <2>3 DEF Once
<1>3. CASE Reconnect \/ GiveUp \/ CallFails \/ Timeout \/ Dedup \/ CreateExists
  <2>1. UNCHANGED <<dedup, exec, died, overlap, handler, request>>
    BY <1>3 DEF Reconnect, GiveUp, CallFails, Timeout, Dedup, CreateExists, Return, Retry,
                Acknowledge, onceVars
  <2> QED
    BY <1>1, <2>1 DEF Doing
<1>4. ASSUME NEW k \in Slot, Apply(k)
      PROVE  Once'
  <2>1. /\ exec' = [exec EXCEPT ![conn] = @ + 1] /\ dedup' = dedup /\ conn \in Server
        /\ overlap' = (overlap \/ \E j \in Slot : handler[j].at = conn
                                              /\ handler[j].id = request)
        /\ conn = primary /\ exec \in [Server -> Nat]
        /\ died' = [died EXCEPT ![conn] = FALSE] /\ died \in [Server -> BOOLEAN]
    BY <1>4 DEF Apply, Accepted, Typed, TypeOK
  <2>2. Applied'
    <3> SUFFICES ASSUME NEW s \in Server, exec'[s] > 0
                 PROVE  \/ dedup'[s] \/ died'[s]
                        \/ \E j \in Slot : Doing(j)' /\ handler'[j].at = s
      BY DEF Applied
    <3>1. CASE s = conn
      BY <1>4, <3>1, ApplyDoing, ApplyCall
    <3>2. CASE s # conn
      <4>1. exec[s] > 0 /\ (died'[s] <=> died[s]) /\ dedup'[s] = dedup[s]
        BY <2>1, <3>2
      <4>2. dedup[s] \/ died[s] \/ \E j \in Slot : Doing(j) /\ handler[j].at = s
        BY <4>1 DEF Once, Applied
      <4> QED
        BY <1>4, <4>1, <4>2, ApplyDoing
    <3> QED
      BY <3>1, <3>2
  <2>3. ASSUME ~overlap' PROVE ~overlap /\ \A j \in Slot : ~Doing(j)
    BY <2>1, <2>3 DEF Doing, Shape, HandlerShape
  <2>4. Single'
    BY <1>4, <2>3, ApplyDoing DEF Single
  <2> QED
    BY <2>2, <2>4 DEF Once
<1>5. ASSUME NEW k \in Slot, Finish(k)
      PROVE  Once'
  <2>1. Applied'
    BY <1>5, FinishDoing DEF Once, Applied, Doing
  <2>2. Single'
    BY <1>5, FinishDoing DEF Once, Single
  <2> QED
    BY <2>1, <2>2 DEF Once
<1>6. ASSUME NEW k \in Slot, NEW p \in Server,
             ReplicateOpen(k, p) \/ Replicate(k, p) \/ ReplicateFails(k, p)
      PROVE  Once'
  <2>1. UNCHANGED <<dedup, exec, died, overlap>>
    BY <1>6 DEF ReplicateOpen, Replicate, ReplicateFails, onceVars
  <2> QED
    BY <1>1, <1>6, <2>1, ReplicateDoing
<1>7. ASSUME NEW s \in Server, Crash(s)
      PROVE  Once'
  <2>1. /\ died' = [died EXCEPT ![s] = TRUE] /\ died \in [Server -> BOOLEAN]
        /\ exec' = exec /\ overlap' = overlap
        /\ \A t \in Server : dedup'[t] <=> dedup[t] /\ t # s
    BY <1>7, CrashFacts DEF Typed, TypeOK
  <2>2. \A k \in Slot : Doing(k) /\ handler[k].at # s =>
            Doing(k)' /\ handler'[k].at = handler[k].at
    BY <1>7, CrashDoing DEF Shape, HandlerShape, Doing
  <2>3. Applied'
    BY <2>1, <2>2 DEF Once, Applied
  <2>4. Single'
    BY <1>7, <2>1, CrashDoing DEF Once, Single
  <2> QED
    BY <2>3, <2>4 DEF Once
<1>8. ASSUME NEW s \in Server,
             \/ Restart(s) \/ Promote(s) \/ SyncList(s) \/ SyncUseless(s) \/ SyncOpen(s)
             \/ SyncFinish(s) \/ SyncBreaks(s)
      PROVE  Once'
  <2>1. UNCHANGED <<dedup, exec, died, overlap, handler, request>>
    BY <1>8 DEF Restart, Promote, SyncList, SyncUseless, SyncOpen, SyncFinish, SyncBreaks,
                SyncTo, SyncWrite, clientVars, onceVars
  <2> QED
    BY <1>1, <2>1 DEF Doing
<1>9. CASE UNCHANGED vars
  BY <1>1, <1>9 DEF vars, onceVars, clientVars, Doing
<1> QED
  BY <1>2, <1>3, <1>4, <1>5, <1>6, <1>7, <1>8, <1>9 DEF Next

\* It holds before the first request.
LEMMA InitOnce == Init => Once
<1> SUFFICES ASSUME Init PROVE Once
  OBVIOUS
<1>1. \A k \in Slot : ~Doing(k)
  BY Fields DEF Init, Doing
<1>2. exec = [s \in Server |-> 0] /\ dedup = [s \in Server |-> FALSE]
  BY DEF Init
<1> QED
  BY <1>1, <1>2 DEF Once, Applied, Single

\* A server applies a request again only if it has crashed since it last did, and the
\* dedup table with it, or while it is still at work on an earlier attempt: before an
\* attempt is over its answer is in the table, and a retry is refused there.
THEOREM RepeatsExplained == Spec => RepeatExplained
<1> DEFINE Explained == \A s \in Server :
        exec[s] > 0 /\ exec'[s] > exec[s] => died[s] \/ AtWork(s)
<1>1. ASSUME Typed, Shape, Once, [Next]_vars PROVE [Explained]_vars
  <2> SUFFICES ASSUME Next, NEW s \in Server, exec[s] > 0, exec'[s] > exec[s]
               PROVE  died[s] \/ AtWork(s)
    BY <1>1
  <2>1. exec \in [Server -> Nat]
    BY <1>1 DEF Typed, TypeOK
  <2>2. CASE Request
    BY <2>1, <2>2 DEF Request
  <2>3. ASSUME NEW k \in Slot, Apply(k) PROVE died[s] \/ AtWork(s)
    <3>1. exec' = [exec EXCEPT ![conn] = @ + 1] /\ ~dedup[conn]
      BY <2>3 DEF Apply
    <3>2. s = conn
      BY <2>1, <3>1
    <3> QED
      BY <1>1, <3>1, <3>2 DEF Once, Applied, Doing, AtWork
  <2>4. CASE exec' = exec
    BY <2>1, <2>4
  <2>5. CASE Reconnect \/ GiveUp \/ CallFails \/ Timeout \/ Dedup \/ CreateExists
    BY <2>4, <2>5 DEF Reconnect, GiveUp, CallFails, Timeout, Dedup, CreateExists, Return,
                      Acknowledge, onceVars
  <2>6. ASSUME NEW k \in Slot, NEW p \in Server,
               Finish(k) \/ ReplicateOpen(k, p) \/ Replicate(k, p) \/ ReplicateFails(k, p)
        PROVE  died[s] \/ AtWork(s)
    BY <2>4, <2>6 DEF Finish, ReplicateOpen, Replicate, ReplicateFails, Acknowledge, Return,
                      onceVars
  <2>7. ASSUME NEW t \in Server,
               \/ Crash(t) \/ Restart(t) \/ Promote(t) \/ SyncList(t) \/ SyncUseless(t)
               \/ SyncOpen(t) \/ SyncFinish(t) \/ SyncBreaks(t)
        PROVE  died[s] \/ AtWork(s)
    BY <2>4, <2>7 DEF Crash, Restart, Promote, SyncList, SyncUseless, SyncOpen, SyncFinish,
                      SyncBreaks, SyncTo, SyncWrite, onceVars
  <2> QED
    BY <2>2, <2>3, <2>5, <2>6, <2>7 DEF Next
<1>2. Typed /\ Shape /\ Once /\ [Next]_vars => (Typed /\ Shape /\ Once)'
  BY NextShape, NextOnce
<1>3. Typed /\ Shape /\ Once /\ [Next]_vars => [Explained]_vars
  BY <1>1
<1> QED
  BY <1>2, <1>3, InitShape, InitOnce, PTL DEF Spec, RepeatExplained

-----------------------------------------------------------------------------
(* Acknowledged requests on the live servers *)

\* A call that is alive has a primary, whose own part of it is done.
LEMMA DoingPrimary ==
    ASSUME Typed, Shape, NEW k \in Slot, handler[k].alive
    PROVE  /\ primary \in Server /\ up[primary] /\ handler[k].at = primary
           /\ handler[k].rep[primary] = "done"
BY DEF Typed, TypeOK, Shape, HandlerShape

\* So has an answer.
LEMMA AnsweredPrimary ==
    ASSUME Typed, Shape, Answered
    PROVE  primary \in Server /\ up[primary]
BY ServerAssumption DEF Typed, TypeOK, Shape, ClientShape, Answered

\* The client's steps keep what the servers hold; an answer from the dedup table
\* acknowledges what all of them have.
LEMMA KeptClient ==
    ASSUME Typed, Shape, Kept,
           \/ Request \/ Reconnect \/ GiveUp \/ CallFails \/ Timeout \/ Dedup
           \/ CreateExists
    PROVE  Kept'
<1>1. UNCHANGED <<up, primary, disk, ver, sync, handler, newest, suspect>>
  BY DEF Request, Reconnect, GiveUp, CallFails, Timeout, Dedup, CreateExists, Return,
         Retry, Acknowledge, historyVars, serverVars, fileVars
<1>2. CleanSync'
  BY <1>1 DEF Kept, CleanSync
<1>3. CASE Request
  <2>1. want' = want
    BY <1>3 DEF Request, historyVars
  <2>2. SyncedWanted' /\ NewestWanted' /\ AckedOnLive'
    BY <1>1, <2>1 DEF Kept, SyncedWanted, NewestWanted, AckedOnLive
  <2>3. Reached' /\ ReachedAll' /\ NewestDoing'
    BY <1>3, RequestFresh DEF Reached, ReachedAll, NewestDoing
  <2> QED
    BY <1>2, <2>2, <2>3 DEF Kept
<1>4. CASE Dedup
  <2>1. /\ dedup[conn] /\ conn \in Server /\ conn = primary
        /\ want' = {Effect(op, request)} /\ UNCHANGED <<dedup, request, op>>
    BY <1>4 DEF Dedup, Accepted, Acknowledge, Return, Typed, TypeOK
  <2>2. Answered /\ primary # None
    BY <2>1, ServerAssumption DEF Answered
  <2>3. SyncedWanted'
    BY <1>1, <2>2 DEF Kept, SyncedWanted
  <2>4. NewestWanted'
    BY <1>1, <2>1, <2>2 DEF Kept, NewestWanted, NewestDoing
  <2>5. AckedOnLive'
    BY <1>1, <2>1, <2>2 DEF Kept, AckedOnLive, ReachedAll, Live
  <2>6. Reached' /\ ReachedAll' /\ NewestDoing'
    BY <1>1, <2>1 DEF Kept, Reached, ReachedAll, NewestDoing, Doing, Answered, Live
  <2> QED
    BY <1>2, <2>3, <2>4, <2>5, <2>6 DEF Kept
<1>5. CASE Reconnect \/ GiveUp \/ CallFails \/ Timeout \/ CreateExists
  <2>1. UNCHANGED <<want, dedup, request, op>>
    BY <1>5 DEF Reconnect, GiveUp, CallFails, Timeout, CreateExists, Return, Retry,
                historyVars
  <2>2. SyncedWanted' /\ NewestWanted' /\ AckedOnLive'
    BY <1>1, <2>1 DEF Kept, SyncedWanted, NewestWanted, AckedOnLive
  <2>3. Reached' /\ ReachedAll' /\ NewestDoing'
    BY <1>1, <2>1 DEF Kept, Reached, ReachedAll, NewestDoing, Doing, Answered, Live
  <2> QED
    BY <1>2, <2>2, <2>3 DEF Kept
<1> QED
  BY <1>3, <1>4, <1>5

\* Apply changes the primary's file, and spoils the recoveries that read it.
LEMMA KeptApply ==
    ASSUME Typed, Shape, Kept, NEW k \in Slot, Apply(k)
    PROVE  Kept'
<1> DEFINE C == Effect(op, request)
<1>1. /\ conn = primary /\ conn \in Server /\ up[conn] /\ primary # None
      /\ UNCHANGED <<up, primary, dedup, request, op>>
      /\ newest' = k /\ want' = want \cup {C} /\ Disturb(conn, C)
  BY ServerAssumption DEF Apply, Accepted, Typed, TypeOK, serverVars
<1>2. /\ disk' = [disk EXCEPT ![conn] = C] /\ suspect' = [suspect EXCEPT ![conn] = FALSE]
  BY DEF Apply
<1>3. /\ disk'[conn] = C
      /\ \A s \in Server : s # conn => disk'[s] = disk[s] /\ suspect'[s] = suspect[s]
  BY <1>1, <1>2 DEF Typed, TypeOK
<1>4. \A s \in Server : sync'[s].pc \in {"listed", "writing"} => sync'[s].bad
  BY <1>1, DisturbSync DEF Kept, CleanSync
<1>5. CleanSync' /\ SyncedWanted'
  BY <1>4 DEF CleanSync, SyncedWanted
<1>6. \A p \in Server : handler'[k].rep[p] = "sent" => handler'[k].data[p] = C
  BY ApplyCall DEF Effect, Typed, TypeOK, Op
<1>7. NewestWanted' /\ NewestDoing'
  BY <1>1, <1>6, ApplyDoing DEF NewestWanted, NewestDoing
<1>8. Reached'
  <2> SUFFICES ASSUME NEW j \in Slot, NEW s \in Server, Doing(j)', Live(s)',
                      handler'[j].rep[s] = "done"
               PROVE  disk'[s] = C
    BY <1>1 DEF Reached
  <2>1. CASE s = conn
    BY <1>3, <2>1
  <2>2. CASE s # conn /\ j = k
    BY <1>1, <2>2, ApplyCall
  <2>3. CASE s # conn /\ j # k
    BY <1>1, <1>3, <2>3, ApplyDoing DEF Kept, Reached, Live
  <2> QED
    BY <2>1, <2>2, <2>3
<1>9. ReachedAll'
  BY ApplyDoing DEF ReachedAll
<1>10. AckedOnLive'
  BY <1>1, <1>3 DEF Kept, AckedOnLive
<1> QED
  BY <1>5, <1>7, <1>8, <1>9, <1>10 DEF Kept

\* An answer comes after every peer is through.
LEMMA KeptFinish ==
    ASSUME Typed, Shape, Kept, NEW k \in Slot, Finish(k)
    PROVE  Kept'
<1> DEFINE C == Effect(op, request)
<1>1. /\ UNCHANGED <<up, primary, disk, ver, sync, suspect, request, op>>
      /\ primary # None
  BY FinishDoing, ServerAssumption
<1>2. want' = want \/ (want' = {C} /\ Doing(k))
  BY ServerAssumption DEF Finish, Acknowledge, Shape, ClientShape, Typed, TypeOK
<1>3. Doing(k) => \A s \in Server : Live(s) => disk[s] = C
  BY FinishDoing DEF Kept, Reached
<1>4. CleanSync' /\ SyncedWanted'
  BY <1>1 DEF Kept, CleanSync, SyncedWanted
<1>5. AckedOnLive'
  BY <1>1, <1>2, <1>3 DEF Kept, AckedOnLive, Live
<1>6. Reached'
  BY <1>1, FinishDoing DEF Kept, Reached, Live
<1>7. ReachedAll'
  BY <1>1, <1>3, FinishDoing DEF Kept, ReachedAll, Live
<1>8. newest' # None => /\ newest' = newest /\ newest \in Slot /\ newest # k
                        /\ handler'[newest] = handler[newest]
                        /\ Doing(newest)' <=> Doing(newest)
  BY FinishDoing DEF Typed, TypeOK
<1>9. NewestWanted'
  BY <1>2, <1>8 DEF Kept, NewestWanted, NewestDoing
<1>10. NewestDoing'
  BY <1>1, <1>8, FinishDoing DEF Kept, NewestDoing
<1> QED
  BY <1>4, <1>5, <1>6, <1>7, <1>9, <1>10 DEF Kept

\* A replication sends what the primary has by then, which is the request's effect
\* unless the primary is suspect.
LEMMA KeptOpen ==
    ASSUME Typed, Shape, Kept, NEW k \in Slot, NEW p \in Server, ReplicateOpen(k, p)
    PROVE  Kept'
<1>1. /\ UNCHANGED <<up, primary, disk, ver, sync, dedup, request, op, want>>
      /\ newest' = IF newest = k /\ suspect[handler[k].at] THEN None ELSE newest
      /\ suspect' = [suspect EXCEPT ![p] = @ \/ ~Sent(disk[handler[k].at])]
  BY DEF ReplicateOpen, serverVars, fileVars, clientVars
<1>2. /\ primary \in Server /\ up[primary] /\ p # primary /\ handler[k].alive
      /\ handler[k].at = primary /\ handler[k].rep[primary] = "done"
      /\ newest' # None =>
            newest' = newest /\ newest \in Slot /\ (newest = k => ~suspect[primary])
  BY <1>1, OpenCall, DoingPrimary DEF Shape, Typed, TypeOK
<1>3. /\ \A s \in Server : s # p => suspect'[s] = suspect[s]
      /\ \A s \in Server : Live(s)' => Live(s)
      /\ ~suspect'[p] => Sent(disk[primary])
  BY <1>1, <1>2 DEF Live, Typed, TypeOK
<1>4. \A j \in Slot : Doing(j)' <=> Doing(j)
  BY ReplicateDoing
<1>5. CleanSync' /\ SyncedWanted'
  BY <1>1, <1>2, <1>3 DEF Kept, CleanSync, SyncedWanted
<1>6. Reached'
  <2> SUFFICES ASSUME NEW j \in Slot, NEW s \in Server, Doing(j), Live(s)', Live(s),
                      handler'[j].rep[s] = "done"
               PROVE  handler[j].rep[s] = "done"
    BY <1>1, <1>3, <1>4 DEF Kept, Reached
  <2> QED
    BY <1>3, OpenCall DEF Shape, Live
<1>7. ReachedAll' /\ AckedOnLive'
  BY <1>1, <1>3 DEF Kept, ReachedAll, AckedOnLive, Answered, Live
<1>8. NewestWanted'
  <2> SUFFICES ASSUME NEW q \in Server, newest' # None, handler'[newest'].rep[q] = "sent"
               PROVE  handler'[newest'].data[q] \in want
    BY <1>1 DEF NewestWanted
  <2>1. CASE newest = k /\ q = p
    <3>1. disk[primary] \in want
      BY <1>2, <2>1 DEF Kept, AckedOnLive
    <3> QED
      BY <1>2, <2>1, <3>1, OpenCall DEF Shape
  <2>2. CASE newest # k \/ q # p
    BY <1>2, <2>2, OpenCall DEF Shape, Kept, NewestWanted
  <2> QED
    BY <2>1, <2>2
<1>9. NewestDoing'
  <2> SUFFICES ASSUME Answered \/ \E j \in Slot : Doing(j), newest' # None
               PROVE  /\ Doing(newest)' /\ newest' = newest
                      /\ \A q \in Server : handler'[newest].rep[q] = "sent" =>
                                handler'[newest].data[q] = Effect(op, request)
    BY <1>1, <1>4 DEF NewestDoing, Answered
  <2>1. Doing(newest) /\ Doing(newest)'
    BY <1>2, <1>4 DEF Kept, NewestDoing
  <2>2. ASSUME NEW q \in Server, handler'[newest].rep[q] = "sent"
        PROVE  handler'[newest].data[q] = Effect(op, request)
    <3>1. CASE newest = k /\ q = p
      <4>1. disk[primary] = Effect(op, request)
        BY <1>2, <2>1, <3>1 DEF Kept, Reached, Live
      <4> QED
        BY <2>2, <3>1, <4>1, OpenCall DEF Shape
    <3>2. CASE newest # k \/ q # p
      BY <1>2, <2>2, <3>2, OpenCall DEF Shape, Kept, NewestDoing
    <3> QED
      BY <3>1, <3>2
  <2> QED
    BY <1>2, <2>1, <2>2
<1> QED
  BY <1>5, <1>6, <1>7, <1>8, <1>9 DEF Kept

\* What is still sent when peer p of call k is through was sent before.
LEMMA ThroughSent ==
    ASSUME Typed, NEW k \in Slot, NEW p \in Server, Through(k, p)
    PROVE  /\ newest' # None => newest' = newest /\ newest \in Slot
           /\ newest' # None => \A q \in Server : handler'[newest].rep[q] = "sent" =>
                    /\ handler[newest].rep[q] = "sent"
                    /\ handler'[newest].data[q] = handler[newest].data[q]
           /\ newest' # None => handler'[newest].version = handler[newest].version
<1>1. newest' # None => newest' = newest /\ newest \in Slot
  BY ThroughCall DEF Typed, TypeOK
<1> QED
  BY <1>1, ThroughCall, ServerAssumption

\* A replication of the newest call brings the request's effect; any other makes the
\* peer suspect.
LEMMA KeptReplicate ==
    ASSUME Typed, Shape, Kept, NEW k \in Slot, NEW p \in Server, Replicate(k, p)
    PROVE  Kept'
<1>1. /\ UNCHANGED <<up, primary, dedup, request, op, want>> /\ up[p]
      /\ Through(k, p) /\ Disturb(p, handler[k].data[p]) /\ handler[k].rep[p] = "sent"
  BY DEF Replicate, serverVars, clientVars
<1>2. /\ disk' = [disk EXCEPT ![p] = handler[k].data[p]]
      /\ ver' = [ver EXCEPT ![p] = handler[k].version]
      /\ suspect' = [suspect EXCEPT ![p] = k # newest]
  BY DEF Replicate
<1>3. /\ disk'[p] = handler[k].data[p] /\ (~suspect'[p] => k = newest)
      /\ \A s \in Server : s # p => /\ disk'[s] = disk[s] /\ ver'[s] = ver[s]
                                    /\ suspect'[s] = suspect[s]
  BY <1>2 DEF Typed, TypeOK
<1>4. \A s \in Server : s # p => (Live(s)' <=> Live(s))
  BY <1>1, <1>3 DEF Live
<1>5. \A j \in Slot : Doing(j)' <=> Doing(j)
  BY ReplicateDoing
<1>6. Answered' <=> Answered
  BY <1>1 DEF Answered
<1>7. CleanSync' /\ SyncedWanted'
  <2>1. \A s \in Server : sync'[s].pc \in {"listed", "writing"} /\ ~sync'[s].bad =>
            ~sync[s].bad /\ p # s /\ p # sync[s].src
    BY <1>1, DisturbSync
  <2>2. \A s \in Server : /\ sync'[s].pc = sync[s].pc /\ sync'[s].src = sync[s].src
                          /\ sync'[s].version = sync[s].version
                          /\ sync'[s].data = sync[s].data
    BY <1>1, DisturbSync
  <2>3. primary \in Server \cup {None}
    BY DEF Typed, TypeOK
  <2>4. CleanSync'
    BY <1>1, <1>3, <2>1, <2>2, <2>3 DEF Kept, CleanSync
  <2>5. SyncedWanted'
    BY <1>1, <2>1, <2>2 DEF Kept, SyncedWanted
  <2> QED
    BY <2>4, <2>5
<1>8. NewestWanted'
  BY <1>1, ThroughSent DEF Kept, NewestWanted
<1>9. ASSUME Answered \/ \E j \in Slot : Doing(j), Live(p)'
      PROVE  disk'[p] = Effect(op, request)
  <2>1. k = newest /\ newest # None
    BY <1>3, <1>9, ServerAssumption DEF Live
  <2> QED
    BY <1>1, <1>3, <1>9, <2>1 DEF Kept, NewestDoing
<1>10. Reached'
  <2> SUFFICES ASSUME NEW j \in Slot, NEW s \in Server, Doing(j), Live(s)',
                      handler'[j].rep[s] = "done"
               PROVE  disk'[s] = Effect(op, request)
    BY <1>1, <1>5 DEF Reached
  <2>1. CASE s = p
    BY <1>9, <2>1
  <2>2. CASE s # p
    <3>1. handler[j].rep[s] = "done"
      BY <1>1, <2>2, ThroughCall DEF Doing
    <3> QED
      BY <1>3, <1>4, <2>2, <3>1 DEF Kept, Reached
  <2> QED
    BY <2>1, <2>2
<1>11. ReachedAll'
  <2> SUFFICES ASSUME Answered, NEW s \in Server, Live(s)'
               PROVE  disk'[s] = Effect(op, request)
    BY <1>1, <1>6 DEF ReachedAll
  <2> QED
    BY <1>3, <1>4, <1>9 DEF Kept, ReachedAll
<1>12. NewestDoing'
  <2> SUFFICES ASSUME Answered \/ \E j \in Slot : Doing(j), newest' # None
               PROVE  /\ Doing(newest) /\ newest' = newest /\ newest \in Slot
                      /\ \A q \in Server : handler'[newest].rep[q] = "sent" =>
                                handler'[newest].data[q] = Effect(op, request)
    BY <1>1, <1>5, <1>6 DEF NewestDoing
  <2> QED
    BY <1>1, ThroughSent DEF Kept, NewestDoing
<1>13. AckedOnLive'
  <2> SUFFICES ASSUME NEW s \in Server, Live(s)'
               PROVE  disk'[s] \in want
    BY <1>1 DEF AckedOnLive, Live
  <2>1. CASE s = p
    <3>1. k = newest /\ newest # None
      BY <1>3, <2>1, ServerAssumption DEF Live
    <3> QED
      BY <1>1, <1>3, <2>1, <3>1 DEF Kept, NewestWanted
  <2>2. CASE s # p
    BY <1>3, <1>4, <2>2 DEF Kept, AckedOnLive, Live
  <2> QED
    BY <2>1, <2>2
<1> QED
  BY <1>7, <1>8, <1>10, <1>11, <1>12, <1>13 DEF Kept

\* A replication that fails makes a live peer suspect.
LEMMA KeptFails ==
    ASSUME Typed, Shape, Kept, NEW k \in Slot, NEW p \in Server, ReplicateFails(k, p)
    PROVE  Kept'
<1>1. /\ UNCHANGED <<up, primary, disk, ver, sync, dedup, request, op, want>>
      /\ Through(k, p) /\ handler[k].rep[p] # "done"
      /\ \/ (~up[p] \/ ~handler[k].alive) /\ suspect' = suspect
         \/ handler[k].alive /\ suspect' = [suspect EXCEPT ![p] = TRUE]
  BY DEF ReplicateFails, serverVars, fileVars, clientVars
<1>2. /\ \A s \in Server : s # p => suspect'[s] = suspect[s]
      /\ \A s \in Server : Live(s)' => Live(s)
      /\ Live(p)' => ~handler[k].alive
      /\ primary # None => suspect'[primary] = suspect[primary]
  <2>1. handler[k].alive => p # primary
    BY <1>1, DoingPrimary
  <2> QED
    BY <1>1, <2>1 DEF Live, Typed, TypeOK
<1>3. \A j \in Slot : Doing(j)' <=> Doing(j)
  BY ReplicateDoing
<1>4. CleanSync' /\ SyncedWanted'
  BY <1>1, <1>2 DEF Kept, CleanSync, SyncedWanted
<1>5. Reached'
  <2> SUFFICES ASSUME NEW j \in Slot, NEW s \in Server, Doing(j), Live(s)', Live(s),
                      handler'[j].rep[s] = "done"
               PROVE  handler[j].rep[s] = "done"
    BY <1>1, <1>2, <1>3 DEF Kept, Reached
  <2> QED
    BY <1>1, <1>2, ThroughCall DEF Doing
<1>6. ReachedAll' /\ AckedOnLive'
  BY <1>1, <1>2 DEF Kept, ReachedAll, AckedOnLive, Answered, Live
<1>7. NewestWanted'
  BY <1>1, ThroughSent DEF Kept, NewestWanted
<1>8. NewestDoing'
  <2> SUFFICES ASSUME Answered \/ \E j \in Slot : Doing(j), newest' # None
               PROVE  /\ Doing(newest) /\ newest' = newest /\ newest \in Slot
                      /\ \A q \in Server : handler'[newest].rep[q] = "sent" =>
                                handler'[newest].data[q] = Effect(op, request)
    BY <1>1, <1>3 DEF NewestDoing, Answered
  <2> QED
    BY <1>1, ThroughSent DEF Kept, NewestDoing
<1> QED
  BY <1>4, <1>5, <1>6, <1>7, <1>8 DEF Kept

\* A recovery that has the dead primary's file has one that is wanted.
LEMMA KeptCrash ==
    ASSUME Typed, Shape, Kept, NEW s \in Server, Crash(s)
    PROVE  Kept'
<1>1. /\ UNCHANGED <<disk, want, request, op>>
      /\ primary' = IF primary = s THEN None ELSE primary
  BY CrashFacts
<1>2. /\ \A t \in Server : t # s => /\ up'[t] = up[t] /\ suspect'[t] = suspect[t]
                                    /\ ver'[t] = ver[t]
      /\ \A t \in Server : Live(t)' => Live(t) /\ t # s
  BY CrashFacts DEF Typed, TypeOK, Live
<1>3. \A t \in Server : sync'[t].pc \in {"listed", "writing"} =>
            t # s /\ sync'[t] = sync[t] /\ ~(sync[t].pc = "listed" /\ sync[t].src = s)
  <2> SUFFICES ASSUME NEW t \in Server, sync'[t].pc \in {"listed", "writing"}
               PROVE  /\ t # s /\ sync'[t] = sync[t]
                      /\ ~(sync[t].pc = "listed" /\ sync[t].src = s)
    OBVIOUS
  <2>1. sync'[t] # NoSync /\ sync'[t] # [NoSync EXCEPT !.pc = "ask"]
    BY Fields
  <2> QED
    BY <2>1, CrashFacts
<1>4. CleanSync'
  <2> SUFFICES ASSUME NEW t \in Server, sync'[t].pc \in {"listed", "writing"},
                      ~sync'[t].bad, primary' # None
               PROVE  CleanSync!(t)!2'
    BY DEF CleanSync
  <2>1. primary \in Server /\ primary # s /\ primary' = primary /\ sync'[t] = sync[t]
    BY <1>1, <1>3 DEF Typed, TypeOK
  <2> QED
    BY <1>1, <1>2, <2>1 DEF Kept, CleanSync
<1>5. SyncedWanted'
  <2> SUFFICES ASSUME NEW t \in Server, sync'[t].pc = "writing", ~sync'[t].bad
               PROVE  Sent(sync[t].data) /\ (primary' = None => sync[t].data \in want)
                      /\ sync'[t] = sync[t]
    BY <1>1 DEF SyncedWanted
  <2>1. sync'[t] = sync[t]
    BY <1>3
  <2>2. Sent(sync[t].data) /\ (primary = None => sync[t].data \in want)
    BY <2>1 DEF Kept, SyncedWanted
  <2>3. CASE primary = s
    <3>1. ~suspect[s] /\ sync[t].data = disk[s]
      BY <2>1, <2>3, ServerAssumption DEF Kept, CleanSync
    <3>2. disk[s] \in want
      BY <2>3, <3>1, ServerAssumption DEF Kept, AckedOnLive, Typed, TypeOK
    <3> QED
      BY <2>1, <2>2, <3>1, <3>2
  <2>4. CASE primary # s
    BY <1>1, <2>1, <2>2, <2>4
  <2> QED
    BY <2>3, <2>4
<1>6. newest' # None => /\ newest' = newest /\ newest \in Slot
                        /\ \A q \in Server : handler'[newest].rep[q] = "sent" =>
                                /\ handler[newest].rep[q] = "sent"
                                /\ handler'[newest].data[q] = handler[newest].data[q]
  BY CrashCall, Fields
<1>7. NewestWanted'
  BY <1>1, <1>6 DEF Kept, NewestWanted
<1>8. Reached'
  <2> SUFFICES ASSUME NEW j \in Slot, NEW t \in Server, Doing(j)', Live(t)',
                      handler'[j].rep[t] = "done"
               PROVE  disk[t] = Effect(op, request)
    BY <1>1 DEF Reached
  <2>1. primary # s /\ Doing(j) /\ handler[j].at = primary
    BY CrashDoing DEF Shape, HandlerShape, Doing
  <2>2. t # s /\ Live(t)
    BY <1>2
  <2>3. handler[j].rep[t] = "done"
    BY <2>1, <2>2, CrashCall, Fields DEF Lost, Doing
  <2> QED
    BY <2>1, <2>2, <2>3 DEF Kept, Reached
<1>9. ReachedAll' /\ AckedOnLive'
  BY <1>1, <1>2, CrashDoing DEF Kept, ReachedAll, AckedOnLive, Live
<1>10. NewestDoing'
  <2> SUFFICES ASSUME Answered' \/ \E j \in Slot : Doing(j)', newest' # None
               PROVE  /\ Doing(newest)' /\ newest' = newest
                      /\ \A q \in Server : handler'[newest].rep[q] = "sent" =>
                                handler'[newest].data[q] = Effect(op, request)
    BY <1>1 DEF NewestDoing
  <2>1. primary # s /\ (Answered \/ \E j \in Slot : Doing(j)) /\ newest # None
    BY <1>6, CrashDoing
  <2> QED
    BY <1>6, <2>1, CrashDoing DEF Kept, NewestDoing
<1> QED
  BY <1>4, <1>5, <1>7, <1>8, <1>9, <1>10 DEF Kept

\* A server that comes back is suspect; a new primary has no call of its own yet.
LEMMA KeptServer ==
    ASSUME Typed, Shape, Kept, NEW s \in Server, Restart(s) \/ Promote(s)
    PROVE  Kept'
<1>1. UNCHANGED <<disk, dedup, handler, request, op, want, suspect>>
  BY DEF Restart, Promote, fileVars, clientVars, historyVars
<1>2. CASE Restart(s)
  <2>1. /\ UNCHANGED <<primary, newest>> /\ ~up[s] /\ suspect[s]
        /\ up' = [up EXCEPT ![s] = TRUE]
        /\ ver' = [ver EXCEPT ![s] = IF disk[s] = Absent THEN 0 ELSE 1]
        /\ sync' = [sync EXCEPT ![s].pc = "ask"]
    BY <1>2 DEF Restart, historyVars, Shape, SyncShape
  <2>2. /\ \A t \in Server : Live(t)' <=> Live(t)
        /\ primary # s /\ (primary # None => ver'[primary] = ver[primary])
    BY <1>1, <2>1, ServerAssumption DEF Live, Typed, TypeOK
  <2>3. \A t \in Server : sync'[t].pc \in {"listed", "writing"} => sync'[t] = sync[t]
    BY <2>1 DEF Typed, TypeOK, Sync
  <2>4. CleanSync'
    BY <1>1, <2>1, <2>2, <2>3 DEF Kept, CleanSync
  <2>5. SyncedWanted'
    BY <1>1, <2>1, <2>3 DEF Kept, SyncedWanted
  <2>6. NewestWanted' /\ Reached' /\ ReachedAll' /\ NewestDoing'
    BY <1>1, <2>1, <2>2
    DEF Kept, NewestWanted, Reached, ReachedAll, NewestDoing, Doing, Answered
  <2>7. AckedOnLive'
    BY <1>1, <2>2 DEF Kept, AckedOnLive, Live
  <2> QED
    BY <2>4, <2>5, <2>6, <2>7 DEF Kept
<1>3. CASE Promote(s)
  <2>1. up' = up /\ newest' = None /\ primary = None
    BY <1>3 DEF Promote
  <2>2. ~Answered' /\ \A k \in Slot : ~Doing(k)'
    BY <1>1, <2>1, AnsweredPrimary, DoingPrimary, ServerAssumption
    DEF Answered, Doing
  <2>3. \A t \in Server : sync'[t].pc \in {"listed", "writing"} => sync'[t].bad
    BY <1>3, <2>1, PromoteSync DEF Shape, SyncShape
  <2>4. CleanSync' /\ SyncedWanted'
    BY <2>3 DEF CleanSync, SyncedWanted
  <2>5. NewestWanted' /\ Reached' /\ ReachedAll' /\ NewestDoing'
    BY <2>1, <2>2 DEF NewestWanted, Reached, ReachedAll, NewestDoing
  <2>6. AckedOnLive'
    BY <1>1, <2>1 DEF Kept, AckedOnLive
  <2> QED
    BY <2>4, <2>5, <2>6 DEF Kept
<1> QED
  BY <1>2, <1>3

\* The record that a step before the end of a recovery leaves at s.
LEMMA ToFacts ==
    ASSUME Typed, Shape, NEW s \in Server, SyncList(s) \/ SyncUseless(s) \/ SyncOpen(s)
    PROVE  /\ UNCHANGED <<up, primary, disk, ver, dedup, handler, request, op, cpc, want,
                          newest, suspect, exec, died, overlap>>
           /\ \A t \in Server : t # s => sync'[t] = sync[t]
           /\ \/ sync'[s].pc = "idle"
              \/ /\ sync'[s].pc = "listed" /\ sync'[s].src = primary /\ primary \in Server
                 /\ s # primary /\ sync'[s].version = ver[primary]
                 /\ sync'[s].bad <=> suspect[primary]
              \/ /\ sync'[s].pc = "writing" /\ sync[s].pc = "listed"
                 /\ sync'[s].src = primary /\ sync[s].src = primary /\ primary \in Server
                 /\ sync'[s].version = sync[s].version /\ sync'[s].data = disk[primary]
                 /\ Sent(disk[primary]) /\ (sync'[s].bad <=> sync[s].bad)
<1>1. PICK record : SyncTo(s, record)
  BY DEF SyncList, SyncUseless, SyncOpen
<1>2. /\ UNCHANGED <<up, primary, disk, ver, dedup, handler, request, op, cpc, want,
                     newest, suspect, exec, died, overlap>>
      /\ \A t \in Server : t # s => sync'[t] = sync[t]
  BY <1>1 DEF SyncTo, serverVars, fileVars, clientVars, historyVars, onceVars, Typed, TypeOK
<1>3. ASSUME NEW r, SyncTo(s, r) PROVE sync'[s] = r
  BY <1>3 DEF SyncTo, Typed, TypeOK
<1>4. CASE SyncList(s)
  <2> DEFINE r == [NoSync EXCEPT !.pc = "listed", !.src = primary,
                                 !.version = ver[primary], !.bad = suspect[primary]]
  <2>1. /\ r.pc = "listed" /\ r.src = primary /\ r.version = ver[primary]
        /\ r.bad = suspect[primary] /\ primary \in Server /\ s # primary
    BY <1>4 DEF NoSync, SyncList, Typed, TypeOK
  <2>2. SyncTo(s, NoSync) \/ SyncTo(s, r)
    BY <1>4 DEF SyncList
  <2> HIDE DEF r
  <2> QED
    BY <1>2, <1>3, <2>1, <2>2, Fields
<1>5. CASE SyncUseless(s)
  BY <1>2, <1>3, <1>5, Fields DEF SyncUseless
<1>6. CASE SyncOpen(s)
  <2> DEFINE r == [sync[s] EXCEPT !.pc = "writing", !.data = disk[sync[s].src]]
  <2>1. sync[s].pc = "listed" /\ sync[s].src = primary /\ primary \in Server
    BY <1>6 DEF SyncOpen, Shape, SyncShape, Typed, TypeOK
  <2>2. /\ r.pc = "writing" /\ r.src = sync[s].src /\ r.version = sync[s].version
        /\ r.data = disk[sync[s].src] /\ r.bad = sync[s].bad
    BY DEF Typed, TypeOK, Sync
  <2>3. SyncTo(s, NoSync) \/ (SyncTo(s, r) /\ Sent(disk[sync[s].src]))
    BY <1>6 DEF SyncOpen
  <2> HIDE DEF r
  <2> QED
    BY <1>2, <1>3, <2>1, <2>2, <2>3, Fields
<1> QED
  BY <1>4, <1>5, <1>6

\* A recovery that has met with no change reads the present primary's file.
LEMMA KeptSync ==
    ASSUME Typed, Shape, Kept, NEW s \in Server,
           SyncList(s) \/ SyncUseless(s) \/ SyncOpen(s)
    PROVE  Kept'
<1>1. UNCHANGED <<up, primary, disk, ver, dedup, handler, request, op, want, newest, suspect>>
  BY ToFacts
<1>2. CleanSync'
  <2> SUFFICES ASSUME NEW t \in Server, sync'[t].pc \in {"listed", "writing"},
                      ~sync'[t].bad, primary # None
               PROVE  CleanSync!(t)!2'
    BY <1>1 DEF CleanSync
  <2>1. CASE t # s
    BY <1>1, <2>1, ToFacts DEF Kept, CleanSync
  <2>2. CASE t = s
    BY <1>1, <2>2, ToFacts DEF Kept, CleanSync
  <2> QED
    BY <2>1, <2>2
<1>3. SyncedWanted'
  BY <1>1, ToFacts, ServerAssumption DEF Kept, SyncedWanted
<1>4. NewestWanted' /\ Reached' /\ ReachedAll' /\ NewestDoing' /\ AckedOnLive'
  BY <1>1
  DEF Kept, NewestWanted, Reached, ReachedAll, NewestDoing, AckedOnLive, Doing, Answered, Live
<1> QED
  BY <1>2, <1>3, <1>4 DEF Kept

\* A recovery to be relied on writes what the present primary has.
LEMMA WriteClean ==
    ASSUME Typed, Shape, Kept, NEW s \in Server, SyncFinish(s) \/ SyncBreaks(s), Live(s)'
    PROVE  /\ disk'[s] \in want
           /\ primary # None =>
                /\ Live(primary) /\ primary # s
                /\ disk'[s] = disk[primary] /\ ver'[s] = ver[primary]
<1>1. /\ sync[s].pc = "writing" /\ ~sync[s].bad /\ disk'[s] = sync[s].data
      /\ ver'[s] = sync[s].version
  BY WriteFacts DEF Live
<1>2. CASE primary = None
  BY <1>1, <1>2 DEF Kept, SyncedWanted
<1>3. CASE primary # None
  <2>1. primary \in Server /\ up[primary]
    BY <1>3 DEF Typed, TypeOK
  <2>2. /\ ~suspect[primary] /\ primary # s
        /\ sync[s].data = disk[primary] /\ sync[s].version = ver[primary]
    BY <1>1, <1>3 DEF Kept, CleanSync
  <2>3. disk[primary] \in want
    BY <2>1, <2>2 DEF Kept, AckedOnLive
  <2> QED
    BY <1>1, <2>1, <2>2, <2>3 DEF Live
<1> QED
  BY <1>2, <1>3

\* What it writes is that file.
LEMMA KeptWrite ==
    ASSUME Typed, Shape, Kept, NEW s \in Server, SyncFinish(s) \/ SyncBreaks(s)
    PROVE  Kept'
<1>1. UNCHANGED <<up, primary, dedup, handler, request, op, want, newest>>
  BY WriteFacts
<1>2. \A t \in Server : t # s => (Live(t)' <=> Live(t)) /\ disk'[t] = disk[t]
  BY WriteFacts DEF Live
<1>3. CleanSync'
  <2> SUFFICES ASSUME NEW t \in Server, sync'[t].pc \in {"listed", "writing"},
                      ~sync'[t].bad, primary # None
               PROVE  CleanSync!(t)!2'
    BY <1>1 DEF CleanSync
  <2>1. t # s /\ sync[t].src # s /\ ~sync[t].bad /\ primary \in Server
    BY WriteFacts DEF Typed, TypeOK
  <2> QED
    BY <2>1, WriteFacts DEF Kept, CleanSync
<1>4. SyncedWanted'
  BY WriteFacts DEF Kept, SyncedWanted
<1>5. NewestWanted' /\ NewestDoing'
  BY <1>1 DEF Kept, NewestWanted, NewestDoing, Doing, Answered
<1>6. Reached'
  <2> SUFFICES ASSUME NEW j \in Slot, NEW t \in Server, Doing(j), Live(t)',
                      handler[j].rep[t] = "done"
               PROVE  disk'[t] = Effect(op, request)
    BY <1>1 DEF Reached, Doing
  <2>1. CASE t = s
    <3>1. primary \in Server /\ handler[j].rep[primary] = "done" /\ primary # None
      BY DoingPrimary, ServerAssumption DEF Doing
    <3> QED
      BY <2>1, <3>1, WriteClean DEF Kept, Reached
  <2>2. CASE t # s
    BY <1>2, <2>2 DEF Kept, Reached
  <2> QED
    BY <2>1, <2>2
<1>7. ReachedAll'
  <2> SUFFICES ASSUME Answered, NEW t \in Server, Live(t)'
               PROVE  disk'[t] = Effect(op, request)
    BY <1>1 DEF ReachedAll, Answered
  <2>1. CASE t = s
    <3>1. primary \in Server /\ primary # None
      BY AnsweredPrimary, ServerAssumption
    <3> QED
      BY <2>1, <3>1, WriteClean DEF Kept, ReachedAll
  <2>2. CASE t # s
    BY <1>2, <2>2 DEF Kept, ReachedAll
  <2> QED
    BY <2>1, <2>2
<1>8. AckedOnLive'
  <2> SUFFICES ASSUME NEW t \in Server, Live(t)'
               PROVE  disk'[t] \in want
    BY <1>1 DEF AckedOnLive, Live
  <2> QED
    BY <1>2, WriteClean DEF Kept, AckedOnLive, Live
<1> QED
  BY <1>3, <1>4, <1>5, <1>6, <1>7, <1>8 DEF Kept

\* Kept is inductive.
LEMMA NextKept ==
    ASSUME Typed, Shape, Kept, [Next]_vars
    PROVE  Kept'
<1>1. CASE \/ Request \/ Reconnect \/ GiveUp \/ CallFails \/ Timeout \/ Dedup
           \/ CreateExists
  BY <1>1, KeptClient
<1>2. ASSUME NEW k \in Slot, Apply(k) \/ Finish(k)
      PROVE  Kept'
  BY <1>2, KeptApply, KeptFinish
<1>3. ASSUME NEW k \in Slot, NEW p \in Server,
             ReplicateOpen(k, p) \/ Replicate(k, p) \/ ReplicateFails(k, p)
      PROVE  Kept'
  BY <1>3, KeptOpen, KeptReplicate, KeptFails
<1>4. ASSUME NEW s \in Server, Crash(s) \/ Restart(s) \/ Promote(s)
      PROVE  Kept'
  BY <1>4, KeptCrash, KeptServer
<1>5. ASSUME NEW s \in Server,
           SyncList(s) \/ SyncUseless(s) \/ SyncOpen(s) \/ SyncFinish(s) \/ SyncBreaks(s)
      PROVE  Kept'
  BY <1>5, KeptSync, KeptWrite
<1>6. CASE UNCHANGED vars
  <2>1. UNCHANGED <<up, primary, disk, ver, sync, dedup, handler, request, op, want,
                    newest, suspect>>
    BY <1>6 DEF vars, serverVars, fileVars, clientVars, historyVars
  <2> QED
    BY <2>1 DEF Kept, CleanSync, SyncedWanted, NewestWanted, Reached, ReachedAll,
        NewestDoing, AckedOnLive, Doing, Answered, Live
<1> QED
  BY <1>1, <1>2, <1>3, <1>4, <1>5, <1>6 DEF Next

\* It holds before the first request.
LEMMA InitKept == Init => Kept
<1> SUFFICES ASSUME Init PROVE Kept
  OBVIOUS
<1>1. /\ newest = None /\ want = {Absent} /\ \A s \in Server : disk[s] = Absent
      /\ \A s \in Server : sync[s] = NoSync
  BY DEF Init
<1>2. ~Answered /\ \A k \in Slot : ~Doing(k)
  BY Fields DEF Init, Answered, Doing
<1> QED
  BY <1>1, <1>2, Fields DEF Kept, CleanSync, SyncedWanted, NewestWanted, Reached, ReachedAll,
        NewestDoing, AckedOnLive

\* Synchronous replication: a live server that no failure has made suspect holds the
\* effect of the last acknowledged request or of one made since.  An answer is given
\* only when every peer is through, and a recovery or a call of an older primary
\* that crosses a newer request makes the copy suspect.
THEOREM AckedEverywhere == Spec => []AckedOnLive
<1>1. Typed /\ Shape /\ Kept /\ [Next]_vars => (Typed /\ Shape /\ Kept)'
  BY NextShape, NextKept
<1>2. Kept => AckedOnLive
  BY DEF Kept
<1> QED
  BY <1>1, <1>2, InitShape, InitKept, PTL DEF Spec

-----------------------------------------------------------------------------
(* Versions *)

\* One version stays one where no live server or recovery gets another.
LEMMA OneVersionStays ==
    ASSUME OneVersion,
           \A s \in Server : Live(s)' => Live(s) /\ ver'[s] = ver[s],
           \A s \in Server : sync'[s].pc = "writing" /\ ~sync'[s].bad =>
                /\ sync[s].pc = "writing" /\ ~sync[s].bad
                /\ sync'[s].version = sync[s].version
    PROVE  OneVersion'
<1>1. PICK v \in Nat :
        /\ \A s \in Server : Live(s) => ver[s] = v
        /\ \A s \in Server : sync[s].pc = "writing" /\ ~sync[s].bad => sync[s].version = v
  BY DEF OneVersion
<1>2. /\ \A s \in Server : Live(s)' => ver'[s] = v
      /\ \A s \in Server : sync'[s].pc = "writing" /\ ~sync'[s].bad => sync'[s].version = v
  BY <1>1
<1> QED
  BY <1>2 DEF OneVersion

\* What an operation makes of the file, in numbers.
LEMMA EffectBound ==
    ASSUME Typed
    PROVE  /\ Effect(op, request) <= request /\ Effect(op, request) \in Int
           /\ op = "store" => Effect(op, request) = request
           /\ \A c \in want : c \in Int
BY BoundAssumption DEF Typed, TypeOK, Effect, Op, Content, Data, Absent, Empty, Torn

\* The client's steps keep the versions; an error leaves a store unsettled.
LEMMA VersionsClient ==
    ASSUME Typed, Shape, Kept, Versions,
           \/ Request \/ Reconnect \/ GiveUp \/ CallFails \/ Timeout \/ Dedup
           \/ CreateExists
    PROVE  Versions'
<1>1. UNCHANGED <<up, disk, ver, sync, handler, newest, suspect>>
  BY DEF Request, Reconnect, GiveUp, CallFails, Timeout, Dedup, CreateExists, Return,
         Retry, Acknowledge, historyVars, serverVars, fileVars
<1>2. BareVersions'
  BY <1>1 DEF Versions, BareVersions, Live
<1>3. OneVersion => OneVersion'
  BY <1>1 DEF OneVersion, Live
<1>4. CASE Request
  <2>1. /\ want' = want /\ request' = request + 1 /\ request \in Nat /\ cpc' = "call"
    BY <1>4 DEF Request, historyVars, Typed, TypeOK
  <2>2. Unsettled'
    BY <2>1, EffectBound DEF Versions, Unsettled
  <2>3. ReachedVersion' /\ SettledVersion'
    BY <1>4, <2>1, RequestFresh DEF ReachedVersion, SettledVersion, Settled
  <2> QED
    BY <1>2, <2>2, <2>3 DEF Versions
<1>5. CASE Dedup
  <2>1. /\ dedup[conn] /\ conn \in Server /\ cpc' = "idle"
        /\ want' = {Effect(op, request)} /\ UNCHANGED <<dedup, request, op, overlap>>
    BY <1>5 DEF Dedup, Accepted, Acknowledge, Return, onceVars, Typed, TypeOK
  <2>2. Unsettled'
    BY <2>1, EffectBound DEF Unsettled
  <2>3. ReachedVersion'
    BY <1>1, <2>1 DEF Versions, ReachedVersion, Doing, Live
  <2>4. SettledVersion'
    BY <1>1, <1>3, <2>1 DEF Versions, SettledVersion, Answered
  <2> QED
    BY <1>2, <2>2, <2>3, <2>4 DEF Versions
<1>6. CASE Reconnect \/ GiveUp \/ CallFails \/ Timeout \/ CreateExists
  <2>1. /\ UNCHANGED <<want, dedup, request, op, overlap>> /\ cpc # "idle"
        /\ cpc' = "idle" => GiveUp \/ op = "create"
    BY <1>6 DEF Reconnect, GiveUp, CallFails, Timeout, CreateExists, Accepted, Return, Retry,
                historyVars, onceVars
  <2>2. Unsettled'
    BY <2>1 DEF Versions, Unsettled
  <2>3. ReachedVersion'
    BY <1>1, <2>1 DEF Versions, ReachedVersion, Doing, Live
  <2>4. op = "store" => ~Settled'
    BY <2>1, EffectBound DEF Versions, Unsettled, Settled
  <2>5. SettledVersion'
    BY <1>1, <1>3, <2>1, <2>4 DEF Versions, SettledVersion, Answered
  <2> QED
    BY <1>2, <2>2, <2>3, <2>5 DEF Versions
<1> QED
  BY <1>4, <1>5, <1>6

\* A store that overlaps no other is the only one to set versions.
LEMMA VersionsApply ==
    ASSUME Typed, Shape, Once, Versions, NEW k \in Slot, Apply(k)
    PROVE  Versions'
<1> DEFINE C == Effect(op, request)
<1>1. /\ conn = primary /\ conn \in Server /\ cpc = "call" /\ cpc' = "wait"
      /\ UNCHANGED <<up, request, op>> /\ newest' = k /\ want' = want \cup {C}
  BY DEF Apply, Accepted, Typed, TypeOK, serverVars
<1>2. /\ disk' = [disk EXCEPT ![conn] = C] /\ suspect' = [suspect EXCEPT ![conn] = FALSE]
      /\ ver' = [ver EXCEPT ![conn] = NewVersion(conn)]
      /\ overlap' = (overlap \/ \E j \in Slot : handler[j].at = conn
                                              /\ handler[j].id = request)
  BY DEF Apply
<1>3. /\ disk'[conn] = C /\ ver'[conn] = NewVersion(conn)
      /\ \A s \in Server : s # conn => /\ disk'[s] = disk[s] /\ suspect'[s] = suspect[s]
                                       /\ ver'[s] = ver[s]
  BY <1>1, <1>2 DEF Typed, TypeOK
<1>4. /\ C = Absent => NewVersion(conn) = 0
      /\ C = Empty => NewVersion(conn) = 1
      /\ op = "delete" => NewVersion(conn) = 0
      /\ op = "create" => NewVersion(conn) = 1
      /\ Absent # Empty
  BY <1>1 DEF Effect, NewVersion, Typed, TypeOK, Op, Absent, Empty
<1>5. BareVersions'
  <2>1. \A s \in Server : Live(s)' => /\ disk'[s] = Absent => ver'[s] = 0
                                      /\ disk'[s] = Empty => ver'[s] = 1
    BY <1>1, <1>3, <1>4 DEF Versions, BareVersions, Live
  <2>2. \A p \in Server : handler'[k].rep[p] = "sent" =>
            /\ handler'[k].data[p] = Absent => handler'[k].version = 0
            /\ handler'[k].data[p] = Empty => handler'[k].version = 1
    BY <1>4, ApplyCall DEF Typed, TypeOK, Op
  <2> QED
    BY <1>1, <2>1, <2>2 DEF BareVersions
<1>6. Unsettled'
  BY <1>1, EffectBound DEF Versions, Unsettled
<1>7. ReachedVersion'
  <2> SUFFICES ASSUME ~overlap', NEW j \in Slot, NEW s \in Server, Doing(j)',
                      handler'[j].rep[s] = "done"
               PROVE  ver'[s] = handler'[j].version
    BY DEF ReachedVersion
  <2>1. ~Doing(j)
    BY <1>1, <1>2 DEF Doing, Shape, HandlerShape
  <2>2. j = k
    BY <2>1, ApplyDoing
  <2>3. s = conn
    BY <1>1, <2>2, ApplyCall
  <2> QED
    BY <1>3, <2>2, <2>3, ApplyCall
<1>8. SettledVersion'
  BY <1>1, ApplyDoing DEF SettledVersion, Settled
<1> QED
  BY <1>5, <1>6, <1>7, <1>8 DEF Versions

\* When every peer is through they have the version of the call.
LEMMA VersionsFinish ==
    ASSUME Typed, Shape, Once, Kept, Versions, NEW k \in Slot, Finish(k)
    PROVE  Versions'
<1>1. /\ UNCHANGED <<up, primary, disk, ver, sync, suspect, request, op, overlap>>
      /\ primary \in Server /\ primary # None /\ up[primary]
  BY FinishDoing, ServerAssumption DEF Typed, TypeOK
<1>2. newest' # None => /\ newest' = newest /\ newest \in Slot /\ newest # k
                        /\ handler'[newest] = handler[newest]
  BY FinishDoing DEF Typed, TypeOK
<1>3. \/ want' = want /\ (cpc' = "idle" <=> cpc = "idle")
      \/ want' = {Effect(op, request)} /\ Doing(k) /\ cpc' = "idle"
  BY ServerAssumption
  DEF Finish, Acknowledge, Return, Retry, clientVars, Shape, ClientShape, Typed, TypeOK
<1>4. BareVersions'
  BY <1>1, <1>2 DEF Versions, BareVersions, Live
<1>5. Unsettled'
  BY <1>1, <1>3, EffectBound DEF Versions, Unsettled
<1>6. ReachedVersion'
  BY <1>1, FinishDoing DEF Versions, ReachedVersion, Live
<1>7. SettledVersion'
  <2> SUFFICES ASSUME ~overlap, op = "store", Answered' \/ Settled'
               PROVE  newest' = None /\ OneVersion'
    BY <1>1 DEF SettledVersion
  <2>1. CASE Doing(k)
    <3>1. newest' = None
      BY <1>2, <2>1, FinishDoing DEF Once, Single, Kept, NewestDoing
    <3>2. handler[k].version \in Nat
      BY DEF Typed, TypeOK, Handler
    <3>3. \A s \in Server : Live(s) => ver[s] = handler[k].version
      BY <2>1, FinishDoing DEF Versions, ReachedVersion
    <3>4. \A s \in Server : sync[s].pc = "writing" /\ ~sync[s].bad =>
                sync[s].version = ver[primary] /\ Live(primary)
      BY <1>1 DEF Kept, CleanSync, Live
    <3>5. OneVersion
      BY <1>1, <3>2, <3>3, <3>4 DEF OneVersion
    <3> QED
      BY <1>1, <3>1, <3>5 DEF OneVersion, Live
  <2>2. CASE ~Doing(k)
    <3>1. Answered \/ Settled
      BY <1>1, <1>3, <2>2, FinishDoing DEF Settled
    <3>2. newest = None /\ OneVersion
      BY <3>1 DEF Versions, SettledVersion
    <3> QED
      BY <1>1, <1>2, <3>2 DEF OneVersion, Live
  <2> QED
    BY <2>1, <2>2
<1> QED
  BY <1>4, <1>5, <1>6, <1>7 DEF Versions

\* A replication brings the version of its call.
LEMMA VersionsReplicate ==
    ASSUME Typed, Shape, Once, Kept, Versions, NEW k \in Slot, NEW p \in Server,
           ReplicateOpen(k, p) \/ Replicate(k, p) \/ ReplicateFails(k, p)
    PROVE  Versions'
<1>1. UNCHANGED <<up, dedup, request, op, cpc, want, overlap>>
  BY DEF ReplicateOpen, Replicate, ReplicateFails, serverVars, clientVars, onceVars
<1>2. (Answered' <=> Answered) /\ (Settled' <=> Settled)
  BY <1>1 DEF Answered, Settled
<1>3. \A j \in Slot : Doing(j)' <=> Doing(j)
  BY ReplicateDoing
<1>4. Unsettled'
  BY <1>1 DEF Versions, Unsettled
<1>5. CASE ReplicateOpen(k, p)
  <2>1. /\ UNCHANGED <<disk, ver, sync>>
        /\ newest' = IF newest = k /\ suspect[handler[k].at] THEN None ELSE newest
        /\ suspect' = [suspect EXCEPT ![p] = @ \/ ~Sent(disk[handler[k].at])]
    BY <1>5 DEF ReplicateOpen, fileVars
  <2>2. /\ \A s \in Server : Live(s)' => Live(s)
        /\ ~suspect'[p] => Sent(disk[primary])
        /\ newest' # None => newest' = newest /\ newest \in Slot
    BY <1>1, <1>5, <2>1, OpenCall DEF Shape, Live, Typed, TypeOK
  <2>3. BareVersions'
    <3>1. \A s \in Server : Live(s)' => /\ disk'[s] = Absent => ver'[s] = 0
                                        /\ disk'[s] = Empty => ver'[s] = 1
      BY <2>1, <2>2 DEF Versions, BareVersions
    <3>2. ASSUME NEW q \in Server, newest' # None, handler'[newest].rep[q] = "sent"
          PROVE  /\ handler'[newest].data[q] = Absent => handler'[newest].version = 0
                 /\ handler'[newest].data[q] = Empty => handler'[newest].version = 1
      <4>1. CASE newest = k /\ q = p
        BY <1>5, <3>2, <4>1, OpenCall DEF Shape, Sent
      <4>2. CASE newest # k \/ q # p
        BY <1>5, <2>2, <3>2, <4>2, OpenCall DEF Shape, Versions, BareVersions
      <4> QED
        BY <4>1, <4>2
    <3> QED
      BY <2>2, <3>1, <3>2 DEF BareVersions
  <2>4. ReachedVersion'
    <3> SUFFICES ASSUME NEW j \in Slot, NEW s \in Server, Doing(j), Live(s)', Live(s),
                        handler'[j].rep[s] = "done"
                 PROVE  /\ handler[j].rep[s] = "done"
                        /\ handler'[j].version = handler[j].version
      BY <1>1, <1>3, <2>1, <2>2 DEF Versions, ReachedVersion
    <3> QED
      BY <1>5, <2>2, OpenCall DEF Shape, Live
  <2>5. SettledVersion'
    BY <1>1, <1>2, <2>1, <2>2, OneVersionStays DEF Versions, SettledVersion
  <2> QED
    BY <1>4, <2>3, <2>4, <2>5 DEF Versions
<1>6. CASE Replicate(k, p)
  <2>1. /\ Through(k, p) /\ Disturb(p, handler[k].data[p]) /\ handler[k].rep[p] = "sent"
        /\ disk' = [disk EXCEPT ![p] = handler[k].data[p]]
        /\ ver' = [ver EXCEPT ![p] = handler[k].version]
        /\ suspect' = [suspect EXCEPT ![p] = k # newest]
    BY <1>6 DEF Replicate
  <2>2. /\ disk'[p] = handler[k].data[p] /\ ver'[p] = handler[k].version
        /\ (~suspect'[p] => k = newest)
        /\ \A s \in Server : s # p => /\ disk'[s] = disk[s] /\ ver'[s] = ver[s]
                                      /\ suspect'[s] = suspect[s]
    BY <2>1 DEF Typed, TypeOK
  <2>3. \A s \in Server : s # p => (Live(s)' <=> Live(s))
    BY <1>1, <2>2 DEF Live
  <2>4. BareVersions'
    <3>1. ASSUME NEW s \in Server, Live(s)'
          PROVE  /\ disk'[s] = Absent => ver'[s] = 0
                 /\ disk'[s] = Empty => ver'[s] = 1
      <4>1. CASE s = p
        <5>1. k = newest /\ newest # None
          BY <2>2, <3>1, <4>1, ServerAssumption DEF Live
        <5> QED
          BY <2>1, <2>2, <4>1, <5>1 DEF Versions, BareVersions
      <4>2. CASE s # p
        BY <2>2, <2>3, <3>1, <4>2 DEF Versions, BareVersions
      <4> QED
        BY <4>1, <4>2
    <3> QED
      BY <2>1, <3>1, ThroughSent DEF Versions, BareVersions
  <2>5. ReachedVersion'
    <3> SUFFICES ASSUME ~overlap, op = "store", NEW j \in Slot, NEW s \in Server, Doing(j),
                        Live(s)', handler'[j].rep[s] = "done"
                 PROVE  ver'[s] = handler'[j].version
      BY <1>1, <1>3 DEF ReachedVersion
    <3>1. handler'[j].version = handler[j].version
      BY <2>1, ThroughCall DEF Doing
    <3>2. CASE s = p
      <4>1. k = newest /\ newest # None
        BY <2>2, <3>2, ServerAssumption DEF Live
      <4>2. k = j
        BY <4>1 DEF Kept, NewestDoing, Once, Single
      <4> QED
        BY <2>2, <3>1, <3>2, <4>2
    <3>3. CASE s # p
      <4>1. handler[j].rep[s] = "done"
        BY <2>1, <3>3, ThroughCall DEF Doing
      <4> QED
        BY <2>2, <2>3, <3>1, <3>3, <4>1 DEF Versions, ReachedVersion
    <3> QED
      BY <3>2, <3>3
  <2>6. SettledVersion'
    <3> SUFFICES ASSUME newest = None, OneVersion
                 PROVE  newest' = None /\ OneVersion'
      BY <1>1, <1>2 DEF Versions, SettledVersion
    <3>1. newest' = None
      BY <2>1, ThroughSent
    <3>2. \A s \in Server : Live(s)' => Live(s) /\ ver'[s] = ver[s]
      BY <2>2, <2>3, ServerAssumption DEF Live
    <3>3. \A s \in Server : sync'[s].pc = "writing" /\ ~sync'[s].bad =>
                /\ sync[s].pc = "writing" /\ ~sync[s].bad
                /\ sync'[s].version = sync[s].version
      BY <2>1, DisturbSync
    <3> QED
      BY <3>1, <3>2, <3>3, OneVersionStays
  <2> QED
    BY <1>4, <2>4, <2>5, <2>6 DEF Versions
<1>7. CASE ReplicateFails(k, p)
  <2>1. /\ UNCHANGED <<disk, ver, sync>>
        /\ Through(k, p) /\ handler[k].rep[p] # "done"
        /\ \/ (~up[p] \/ ~handler[k].alive) /\ suspect' = suspect
           \/ handler[k].alive /\ suspect' = [suspect EXCEPT ![p] = TRUE]
    BY <1>7 DEF ReplicateFails, fileVars
  <2>2. /\ \A s \in Server : Live(s)' => Live(s)
        /\ Live(p)' => ~handler[k].alive
    BY <1>1, <2>1 DEF Live, Typed, TypeOK
  <2>3. BareVersions'
    BY <2>1, <2>2, ThroughSent DEF Versions, BareVersions
  <2>4. ReachedVersion'
    <3> SUFFICES ASSUME NEW j \in Slot, NEW s \in Server, Doing(j), Live(s)', Live(s),
                        handler'[j].rep[s] = "done"
                 PROVE  /\ handler[j].rep[s] = "done"
                        /\ handler'[j].version = handler[j].version
      BY <1>1, <1>3, <2>1, <2>2 DEF Versions, ReachedVersion
    <3> QED
      BY <2>1, <2>2, ThroughCall DEF Doing
  <2>5. SettledVersion'
    BY <1>1, <1>2, <2>1, <2>2, OneVersionStays, ThroughSent DEF Versions, SettledVersion
  <2> QED
    BY <1>4, <2>3, <2>4, <2>5 DEF Versions
<1> QED
  BY <1>5, <1>6, <1>7

\* Crashes, restarts and elections give no live server another version.
LEMMA VersionsServer ==
    ASSUME Typed, Shape, Versions, NEW s \in Server, Crash(s) \/ Restart(s) \/ Promote(s)
    PROVE  Versions'
<1>1. CASE Crash(s)
  <2>1. UNCHANGED <<disk, want, overlap, request, op>> /\ (cpc' = "idle" <=> cpc = "idle")
    BY <1>1, CrashFacts
  <2>2. \A t \in Server : Live(t)' => Live(t) /\ t # s /\ ver'[t] = ver[t]
    BY <1>1, CrashFacts DEF Typed, TypeOK, Live
  <2>3. Unsettled'
    BY <2>1 DEF Versions, Unsettled
  <2>4. newest' # None =>
            /\ newest' = newest /\ newest \in Slot
            /\ handler'[newest].version = handler[newest].version
            /\ \A q \in Server : handler'[newest].rep[q] = "sent" =>
                        /\ handler[newest].rep[q] = "sent"
                        /\ handler'[newest].data[q] = handler[newest].data[q]
    BY <1>1, CrashCall, Fields
  <2>5. BareVersions'
    BY <2>1, <2>2, <2>4 DEF Versions, BareVersions
  <2>6. ReachedVersion'
    <3> SUFFICES ASSUME ~overlap, op = "store", NEW j \in Slot, NEW t \in Server, Doing(j)',
                        Live(t)', handler'[j].rep[t] = "done"
                 PROVE  ver[t] = handler'[j].version
      BY <2>1, <2>2 DEF ReachedVersion
    <3>1. Doing(j) /\ handler[j].at # s
      BY <1>1, CrashDoing DEF Shape, HandlerShape, Doing
    <3>2. t # s /\ Live(t)
      BY <2>2
    <3>3. handler[j].rep[t] = "done" /\ handler'[j].version = handler[j].version
      BY <1>1, <3>1, <3>2, CrashCall, Fields DEF Lost, Doing
    <3> QED
      BY <3>1, <3>2, <3>3 DEF Versions, ReachedVersion
  <2>7. SettledVersion'
    <3> SUFFICES ASSUME newest = None, OneVersion
                 PROVE  newest' = None /\ OneVersion'
      BY <1>1, <2>1, CrashDoing DEF Versions, SettledVersion, Settled
    <3>1. \A t \in Server : sync'[t].pc = "writing" => sync'[t] = sync[t]
      <4> TAKE t \in Server
      <4> HAVE sync'[t].pc = "writing"
      <4>1. sync'[t] # NoSync /\ sync'[t] # [NoSync EXCEPT !.pc = "ask"]
        BY Fields
      <4> QED
        BY <1>1, <4>1, CrashFacts
    <3> QED
      BY <2>2, <2>4, <3>1, OneVersionStays
  <2> QED
    BY <2>3, <2>5, <2>6, <2>7 DEF Versions
<1>2. CASE Restart(s)
  <2>1. /\ UNCHANGED <<disk, dedup, handler, request, op, cpc, want, newest, suspect, overlap>>
        /\ ~up[s] /\ suspect[s] /\ up' = [up EXCEPT ![s] = TRUE]
        /\ ver' = [ver EXCEPT ![s] = IF disk[s] = Absent THEN 0 ELSE 1]
        /\ sync' = [sync EXCEPT ![s].pc = "ask"]
    BY <1>2 DEF Restart, clientVars, historyVars, onceVars, Shape, SyncShape
  <2>2. \A t \in Server : Live(t)' => Live(t) /\ ver'[t] = ver[t]
    BY <2>1 DEF Live, Typed, TypeOK
  <2>3. \A t \in Server : sync'[t].pc = "writing" => sync'[t] = sync[t]
    BY <2>1 DEF Typed, TypeOK, Sync
  <2>4. BareVersions' /\ Unsettled'
    BY <2>1, <2>2 DEF Versions, BareVersions, Unsettled
  <2>5. ReachedVersion'
    BY <2>1, <2>2 DEF Versions, ReachedVersion, Doing
  <2>6. SettledVersion'
    BY <2>1, <2>2, <2>3, OneVersionStays DEF Versions, SettledVersion, Answered, Settled
  <2> QED
    BY <2>4, <2>5, <2>6 DEF Versions
<1>3. CASE Promote(s)
  <2>1. /\ UNCHANGED <<up, disk, ver, dedup, handler, request, op, cpc, want, suspect, overlap>>
        /\ newest' = None
    BY <1>3 DEF Promote, fileVars, clientVars, onceVars
  <2>2. BareVersions' /\ Unsettled'
    BY <2>1 DEF Versions, BareVersions, Unsettled, Live
  <2>3. ReachedVersion'
    BY <2>1 DEF Versions, ReachedVersion, Doing, Live
  <2>4. \A t \in Server : sync'[t].pc = "writing" /\ ~sync'[t].bad =>
                /\ sync[t].pc = "writing" /\ ~sync[t].bad
                /\ sync'[t].version = sync[t].version
    BY <1>3, PromoteSync
  <2>5. \A t \in Server : Live(t)' => Live(t) /\ ver'[t] = ver[t]
    BY <2>1 DEF Live
  <2>6. SettledVersion'
    BY <2>1, <2>4, <2>5, OneVersionStays DEF Versions, SettledVersion, Answered, Settled
  <2> QED
    BY <2>2, <2>3, <2>6 DEF Versions
<1> QED
  BY <1>1, <1>2, <1>3

\* A recovery lists the version that the live servers agree on.
LEMMA VersionsSync ==
    ASSUME Typed, Shape, Kept, Versions, NEW s \in Server,
           SyncList(s) \/ SyncUseless(s) \/ SyncOpen(s)
    PROVE  Versions'
<1>1. UNCHANGED <<up, primary, disk, ver, dedup, handler, request, op, cpc, want, newest,
                  suspect, overlap>>
  BY ToFacts
<1>2. BareVersions' /\ Unsettled' /\ ReachedVersion'
  BY <1>1 DEF Versions, BareVersions, Unsettled, ReachedVersion, Doing, Live
<1>3. SettledVersion'
  <2> SUFFICES ASSUME OneVersion PROVE OneVersion'
    BY <1>1 DEF Versions, SettledVersion, Answered, Settled
  <2>1. PICK v \in Nat :
        /\ \A t \in Server : Live(t) => ver[t] = v
        /\ \A t \in Server : sync[t].pc = "writing" /\ ~sync[t].bad => sync[t].version = v
    BY DEF OneVersion
  <2>2. ASSUME NEW t \in Server, sync'[t].pc = "writing", ~sync'[t].bad
        PROVE  sync'[t].version = v
    <3>1. CASE t # s
      BY <2>1, <2>2, <3>1, ToFacts
    <3>2. CASE t = s
      <4>1. /\ sync[s].pc = "listed" /\ ~sync[s].bad /\ primary \in Server
            /\ sync'[s].version = sync[s].version
        BY <2>2, <3>2, ToFacts
      <4>2. primary # None /\ up[primary]
        BY <4>1, ServerAssumption DEF Typed, TypeOK
      <4>3. ~suspect[primary] /\ sync[s].version = ver[primary]
        BY <4>1, <4>2 DEF Kept, CleanSync
      <4> QED
        BY <2>1, <3>2, <4>1, <4>2, <4>3 DEF Live
    <3> QED
      BY <3>1, <3>2
  <2>3. \A t \in Server : Live(t)' => ver'[t] = v
    BY <1>1, <2>1 DEF Live
  <2> QED
    BY <2>2, <2>3 DEF OneVersion
<1> QED
  BY <1>2, <1>3 DEF Versions

\* It leaves that version behind.
LEMMA VersionsWrite ==
    ASSUME Typed, Shape, Kept, Versions, NEW s \in Server, SyncFinish(s) \/ SyncBreaks(s)
    PROVE  Versions'
<1>1. UNCHANGED <<up, primary, dedup, handler, request, op, cpc, want, newest, overlap>>
  BY WriteFacts
<1>2. \A t \in Server : t # s => /\ Live(t)' <=> Live(t)
                                 /\ disk'[t] = disk[t] /\ ver'[t] = ver[t]
  BY WriteFacts DEF Live
<1>3. Live(s)' => /\ sync[s].pc = "writing" /\ ~sync[s].bad /\ disk'[s] = sync[s].data
                  /\ ver'[s] = sync[s].version
  BY WriteFacts DEF Live
<1>4. BareVersions'
  <2>1. Live(s)' => Sent(disk'[s])
    BY <1>3 DEF Kept, SyncedWanted
  <2> QED
    BY <1>1, <1>2, <2>1 DEF Versions, BareVersions, Sent
<1>5. Unsettled'
  BY <1>1 DEF Versions, Unsettled
<1>6. ReachedVersion'
  <2> SUFFICES ASSUME ~overlap, op = "store", NEW j \in Slot, NEW t \in Server, Doing(j),
                      Live(t)', handler[j].rep[t] = "done"
               PROVE  ver'[t] = handler[j].version
    BY <1>1 DEF ReachedVersion, Doing
  <2>1. CASE t = s
    <3>1. primary \in Server /\ handler[j].rep[primary] = "done" /\ primary # None
      BY DoingPrimary, ServerAssumption DEF Doing
    <3> QED
      BY <2>1, <3>1, WriteClean DEF Versions, ReachedVersion
  <2>2. CASE t # s
    BY <1>2, <2>2 DEF Versions, ReachedVersion
  <2> QED
    BY <2>1, <2>2
<1>7. SettledVersion'
  <2> SUFFICES ASSUME OneVersion PROVE OneVersion'
    BY <1>1 DEF Versions, SettledVersion, Answered, Settled
  <2>1. PICK v \in Nat :
        /\ \A t \in Server : Live(t) => ver[t] = v
        /\ \A t \in Server : sync[t].pc = "writing" /\ ~sync[t].bad => sync[t].version = v
    BY DEF OneVersion
  <2>2. \A t \in Server : Live(t)' => ver'[t] = v
    BY <1>2, <1>3, <2>1
  <2>3. \A t \in Server : sync'[t].pc = "writing" /\ ~sync'[t].bad => sync'[t].version = v
    BY <2>1, WriteFacts
  <2> QED
    BY <2>2, <2>3 DEF OneVersion
<1> QED
  BY <1>4, <1>5, <1>6, <1>7 DEF Versions

\* Versions is inductive, given the other parts.
LEMMA NextVersions ==
    ASSUME Typed, Shape, Once, Kept, Versions, [Next]_vars
    PROVE  Versions'
<1>1. CASE \/ Request \/ Reconnect \/ GiveUp \/ CallFails \/ Timeout \/ Dedup
           \/ CreateExists
  BY <1>1, VersionsClient
<1>2. ASSUME NEW k \in Slot, Apply(k) \/ Finish(k)
      PROVE  Versions'
  BY <1>2, VersionsApply, VersionsFinish
<1>3. ASSUME NEW k \in Slot, NEW p \in Server,
             ReplicateOpen(k, p) \/ Replicate(k, p) \/ ReplicateFails(k, p)
      PROVE  Versions'
  BY <1>3, VersionsReplicate
<1>4. ASSUME NEW s \in Server, Crash(s) \/ Restart(s) \/ Promote(s)
      PROVE  Versions'
  BY <1>4, VersionsServer
<1>5. ASSUME NEW s \in Server,
           SyncList(s) \/ SyncUseless(s) \/ SyncOpen(s) \/ SyncFinish(s) \/ SyncBreaks(s)
      PROVE  Versions'
  BY <1>5, VersionsSync, VersionsWrite
<1>6. CASE UNCHANGED vars
  <2>1. UNCHANGED <<up, primary, disk, ver, sync, dedup, handler, request, op, cpc, want,
                    newest, suspect, overlap>>
    BY <1>6 DEF vars, serverVars, fileVars, clientVars, historyVars, onceVars
  <2> QED
    BY <2>1 DEF Versions, BareVersions, Unsettled, ReachedVersion, SettledVersion, OneVersion,
        Settled, Doing, Answered, Live
<1> QED
  BY <1>1, <1>2, <1>3, <1>4, <1>5, <1>6 DEF Next

\* It holds before the first request.
LEMMA InitVersions == Init => Versions
<1> SUFFICES ASSUME Init PROVE Versions
  OBVIOUS
<1>1. /\ newest = None /\ want = {Absent} /\ request = 0 /\ cpc = "idle" /\ op = "delete"
      /\ \A s \in Server : disk[s] = Absent /\ ver[s] = 0
  BY DEF Init
<1>2. \A k \in Slot : ~Doing(k)
  BY Fields DEF Init, Doing
<1> QED
  BY <1>1, <1>2
  DEF Versions, BareVersions, Unsettled, ReachedVersion, SettledVersion, Absent, Empty

\* What the invariants say of versions once a request is acknowledged.
LEMMA SettledAgrees == Typed /\ Kept /\ Versions => AgreedVersions
<1> SUFFICES ASSUME Typed, Kept, Versions, Settled, op = "store" => ~overlap,
                    NEW s \in Server, NEW t \in Server, Live(s), Live(t)
             PROVE  ver[s] = ver[t]
  BY DEF AgreedVersions, Live
<1>1. disk[s] = Effect(op, request) /\ disk[t] = Effect(op, request)
  BY DEF Kept, AckedOnLive, Settled, Live
<1>2. CASE op = "store"
  BY <1>2 DEF Versions, SettledVersion, OneVersion
<1>3. CASE op = "create"
  BY <1>1, <1>3 DEF Versions, BareVersions, Effect
<1>4. CASE op = "delete"
  BY <1>1, <1>4 DEF Versions, BareVersions, Effect
<1> QED
  BY <1>2, <1>3, <1>4 DEF Typed, TypeOK, Op

\* A version means the same at every server: after an acknowledged request the live
\* servers that are not suspect have one version, which a peer takes from the primary
\* and never counts by itself.
THEOREM VersionsAgree == Spec => []AgreedVersions
<1> DEFINE Inv == Typed /\ Shape /\ Once /\ Kept /\ Versions
<1>1. Inv /\ [Next]_vars => Inv'
  BY NextShape, NextOnce, NextKept, NextVersions
<1>2. Inv => AgreedVersions
  BY SettledAgrees
<1>3. Init => Inv
  BY InitShape, InitOnce, InitKept, InitVersions
<1> QED
  BY <1>1, <1>2, <1>3, PTL DEF Spec

=============================================================================
