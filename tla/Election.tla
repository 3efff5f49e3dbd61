------------------------------ MODULE Election ------------------------------
(***************************************************************************)
(* Failure detection and election of the AFS servers: heartbeat.go,        *)
(* election.go, NewHandler of handler.go (afsfs/pkg/server) and the start  *)
(* of a server process (afsfs/cmd/server).  A server is its identifier;    *)
(* smaller identifiers win elections.                                      *)
(*                                                                         *)
(* Time advances in ticks of one second, and the waits have the lengths    *)
(* the code gives them.  Calls and local steps are over before the next    *)
(* tick, in any order; only a question that goes round between backups     *)
(* lasts longer.  At most one server is down at a time, the failure the    *)
(* design is made for.                                                     *)
(***************************************************************************)
EXTENDS Integers, FiniteSets

CONSTANTS
    NumServers,         \* AFS servers s1, s2, ...
    FlagPrimary,        \* the server started with -primary=true
    heartbeatInterval,  \* ticks between two rounds of heartbeats
    heartbeatTimeout,   \* ticks without a heartbeat that start an election
    startupGrace,       \* ticks before a new backup starts to watch
    ProbeTimeout,       \* ticks isAlive waits
    AskTimeout,         \* ticks findExistingPrimary waits for each peer
    MaxCrashes,         \* bound: crashes of server processes
    MaxRestarts         \* bound: restarts of server processes

Server == 1..NumServers
None == 0

ASSUME ServerAssumption == NumServers \in Nat \ {0} /\ FlagPrimary \in Server

ASSUME TimeAssumption ==
    /\ heartbeatInterval \in Nat \ {0}
    /\ heartbeatTimeout \in Nat \ {0}
    /\ startupGrace \in Nat \ {0}
    /\ ProbeTimeout \in Nat \ {0}
    /\ AskTimeout \in Nat \ {0}

ASSUME CrashAssumption == MaxCrashes \in Nat /\ MaxRestarts \in Nat

VARIABLES
    status,         \* of the process; it serves RPCs only when "up"
    asked,          \* peers findExistingPrimary has asked
    primary,        \* h.primary
    known,          \* h.knownPrimaryAddr
    mon,            \* where the heartbeat monitor is; "off" when it has returned
    probed,         \* peers startElection has probed
    probing,        \* the peer whose answer it is waiting for
    live,           \* livePeers of startElection
    timer,          \* ticks since the monitor's or the start's current wait began
    sender,         \* a heartbeat sender is running
    senderRunning,  \* h.senderRunning
    gap,            \* ticks since the sender's last round
    beats,          \* Heartbeat calls in flight, <<from, to>>
    announces,      \* AnnouncePrimary calls in flight, <<from, to>>
    checking,       \* a GetPrimary call is about to forget the known primary
    crashes, restarts

roleVars == <<primary, known>>
probeVars == <<probed, probing, live>>
sendVars == <<sender, senderRunning>>
callVars == <<beats, announces, checking>>
procVars == <<status, asked, crashes, restarts>>
timerVars == <<timer, gap>>
vars == <<procVars, roleVars, mon, probeVars, timerVars, sendVars, callVars>>

-----------------------------------------------------------------------------

\* Faulty variant: a server is listed among its own peers.
PeersWithSelf(s) == Server

Peers(s) == Server \ {s}

Up(s) == status[s] = "up"

First(e, S) == e \in S /\ \A x \in S : e <= x

\* Some live server is primary.
Led == \E q \in Server : Up(q) /\ primary[q]

\* Whom a backup q asks when it is asked for the primary: the primary it
\* knows when that one is alive, otherwise its first live peer.
Hop(q) ==
    IF known[q] # None /\ Up(known[q]) THEN known[q]
    ELSE CHOOSE p \in Server : First(p, {x \in Peers(q) : Up(x)})

\* GetPrimary at q is answered at once: passed on from server to server, the
\* question reaches a primary.  Otherwise it comes back to a server that has
\* been asked and goes round until the callers' waits run out.
Answers(q) ==
    LET asks[n \in 0..NumServers] ==
            IF n = 0 THEN q
            ELSE IF primary[asks[n - 1]] THEN asks[n - 1] ELSE Hop(asks[n - 1])
    IN  Up(q) /\ Led /\ primary[asks[NumServers]]

Init ==
    /\ status = [s \in Server |-> "up"]
    /\ asked = [s \in Server |-> {}]
    /\ primary = [s \in Server |-> s = FlagPrimary]
    /\ known = [s \in Server |-> IF s = FlagPrimary THEN s ELSE None]
    /\ mon = [s \in Server |-> IF s = FlagPrimary THEN "off" ELSE "grace"]
    /\ probed = [s \in Server |-> {}]
    /\ probing = [s \in Server |-> None]
    /\ live = [s \in Server |-> {}]
    /\ timer = [s \in Server |-> 0]
    /\ sender = [s \in Server |-> s = FlagPrimary]
    /\ senderRunning = [s \in Server |-> FALSE]
    /\ gap = [s \in Server |-> 0]
    /\ beats = {}
    /\ announces = {}
    /\ checking = [s \in Server |-> FALSE]
    /\ crashes = 0 /\ restarts = 0

-----------------------------------------------------------------------------
(* Process start and crash *)

\* The process dies with all its state.  Calls to it are lost, calls it made
\* are lost or arrive.
Crash(s) ==
    /\ \A q \in Server : Up(q)
    /\ crashes < MaxCrashes
    /\ crashes' = crashes + 1
    /\ status' = [status EXCEPT ![s] = "down"]
    /\ primary' = [primary EXCEPT ![s] = FALSE]
    /\ known' = [known EXCEPT ![s] = None]
    /\ mon' = [mon EXCEPT ![s] = "off"]
    /\ probed' = [probed EXCEPT ![s] = {}]
    /\ probing' = [probing EXCEPT ![s] = None]
    /\ live' = [live EXCEPT ![s] = {}]
    /\ timer' = [timer EXCEPT ![s] = 0]
    /\ gap' = [gap EXCEPT ![s] = 0]
    /\ sender' = [sender EXCEPT ![s] = FALSE]
    /\ senderRunning' = [senderRunning EXCEPT ![s] = FALSE]
    /\ \E lost \in SUBSET {c \in announces : c[1] = s} :
        announces' = {c \in announces \ lost : c[2] # s}
    /\ \E lost \in SUBSET {c \in beats : c[1] = s} :
        beats' = {c \in beats \ lost : c[2] # s}
    /\ checking' = [checking EXCEPT ![s] = FALSE]
    /\ UNCHANGED <<asked, restarts>>

\* The process is started again; with -primary=true it first asks its peers.
Restart(s) ==
    /\ status[s] = "down"
    /\ restarts < MaxRestarts
    /\ restarts' = restarts + 1
    /\ status' = [status EXCEPT ![s] = IF s = FlagPrimary THEN "ask" ELSE "asBackup"]
    /\ UNCHANGED <<asked, crashes, roleVars, mon, probeVars, timerVars, sendVars, callVars>>

\* findExistingPrimary: the peers in turn, until one names a primary.
findExistingPrimary(s, p) ==
    /\ status[s] = "ask"
    /\ First(p, Peers(s) \ asked[s])
    /\ ~Up(p) \/ Answers(p) \/ timer[s] >= AskTimeout
    /\ timer' = [timer EXCEPT ![s] = 0]
    /\ asked' = [asked EXCEPT ![s] = @ \cup {p}]
    /\ status' = [status EXCEPT ![s] =
                    IF Answers(p) THEN "asBackup"
                    ELSE IF asked'[s] = Peers(s) THEN "asPrimary" ELSE "ask"]
    /\ UNCHANGED <<crashes, restarts, roleVars, mon, probeVars, gap, sendVars,
                   callVars>>

\* NewHandler and Serve: a primary starts a sender, a backup a monitor.
NewHandler(s) ==
    LET isPrimary == status[s] = "asPrimary" IN
    /\ status[s] \in {"asBackup", "asPrimary"}
    /\ status' = [status EXCEPT ![s] = "up"]
    /\ asked' = [asked EXCEPT ![s] = {}]
    /\ primary' = [primary EXCEPT ![s] = isPrimary]
    /\ known' = [known EXCEPT ![s] = IF isPrimary THEN s ELSE None]
    /\ sender' = [sender EXCEPT ![s] = isPrimary]
    /\ mon' = [mon EXCEPT ![s] = IF isPrimary THEN "off" ELSE "grace"]
    /\ timer' = [timer EXCEPT ![s] = 0]
    /\ UNCHANGED <<crashes, restarts, probeVars, gap, senderRunning, callVars>>

-----------------------------------------------------------------------------
(* Heartbeats *)

\* One round of the sender's loop calls every peer; a dead one refuses.
startHeartbeatSender(s) ==
    /\ sender[s] /\ primary[s]
    /\ gap[s] >= heartbeatInterval
    /\ gap' = [gap EXCEPT ![s] = 0]
    /\ beats' = beats \cup {<<s, p>> : p \in {q \in Peers(s) : Up(q)}}
    /\ UNCHANGED <<procVars, roleVars, mon, probeVars, timer, sendVars, announces,
                   checking>>

\* Heartbeat at p: its monitor's wait begins again, a backup notes the sender.
Heartbeat(s, p) ==
    /\ <<s, p>> \in beats
    /\ beats' = beats \ {<<s, p>>}
    /\ timer' = [timer EXCEPT ![p] = IF mon[p] = "poll" THEN 0 ELSE @]
    /\ known' = [known EXCEPT ![p] = IF primary[p] THEN @ ELSE s]
    /\ UNCHANGED <<procVars, primary, mon, probeVars, gap, sendVars, announces,
                   checking>>

\* The sender finds that it is no longer primary and returns; senderRunning
\* stays set.
SenderReturns(s) ==
    /\ sender[s] /\ ~primary[s]
    /\ gap[s] >= heartbeatInterval
    /\ sender' = [sender EXCEPT ![s] = FALSE]
    /\ gap' = [gap EXCEPT ![s] = 0]
    /\ UNCHANGED <<procVars, roleVars, mon, probeVars, timer, senderRunning, callVars>>

-----------------------------------------------------------------------------
(* The monitor of server s and its elections *)

\* startupGrace is over.
GraceOver(s) ==
    /\ mon[s] = "grace"
    /\ timer[s] >= startupGrace
    /\ mon' = [mon EXCEPT ![s] = "poll"]
    /\ timer' = [timer EXCEPT ![s] = 0]
    /\ UNCHANGED <<procVars, roleVars, probeVars, gap, sendVars, callVars>>

\* A look at the timer, every half second: an election starts.
startHeartbeatMonitor(s) ==
    /\ mon[s] = "poll"
    /\ timer[s] >= heartbeatTimeout
    /\ mon' = [mon EXCEPT ![s] = "probe"]
    /\ timer' = [timer EXCEPT ![s] = 0]
    /\ UNCHANGED <<procVars, roleVars, probeVars, gap, sendVars, callVars>>

\* startElection probes its peers in turn.
isAlive(s, p) ==
    /\ mon[s] = "probe" /\ probing[s] = None
    /\ First(p, Peers(s) \ probed[s])
    /\ probed' = [probed EXCEPT ![s] = @ \cup {p}]
    /\ probing' = [probing EXCEPT ![s] = p]
    /\ timer' = [timer EXCEPT ![s] = 0]
    /\ UNCHANGED <<procVars, roleVars, mon, live, gap, sendVars, callVars>>

\* The peer answers and counts as alive.
ProbeAnswered(s) ==
    /\ probing[s] # None
    /\ Answers(probing[s])
    /\ live' = [live EXCEPT ![s] = @ \cup {probing[s]}]
    /\ probing' = [probing EXCEPT ![s] = None]
    /\ UNCHANGED <<procVars, roleVars, mon, probed, timerVars, sendVars, callVars>>

\* The peer is dead or has not answered in time.
ProbeFails(s) ==
    /\ probing[s] # None
    /\ ~Up(probing[s]) \/ timer[s] >= ProbeTimeout
    /\ probing' = [probing EXCEPT ![s] = None]
    /\ UNCHANGED <<procVars, roleVars, mon, probed, live, timerVars, sendVars, callVars>>

\* Faulty variant: the largest identifier wins.
WinsByHighest(s) == \A p \in live[s] : s > p

\* No peer that answered has a smaller identifier.
Wins(s) == \A p \in live[s] : s < p

AllProbed(s) == mon[s] = "probe" /\ probing[s] = None /\ probed[s] = Peers(s)

\* setKnownPrimary at s.
setKnownPrimary(s, addr) ==
    /\ known' = [known EXCEPT ![s] = addr]
    /\ primary' = [primary EXCEPT ![s] = addr = s]

\* promoteToPrimary: a sender is started unless this server ever started one
\* here before.
promoteToPrimary(s) ==
    /\ primary' = [primary EXCEPT ![s] = TRUE]
    /\ known' = [known EXCEPT ![s] = s]
    /\ sender' = [sender EXCEPT ![s] = @ \/ ~senderRunning[s]]
    /\ senderRunning' = [senderRunning EXCEPT ![s] = TRUE]
    /\ gap' = [gap EXCEPT ![s] = IF senderRunning[s] THEN @ ELSE 0]

\* broadcastAnnouncePrimary: to the peers that answered; a dead one refuses.
broadcastAnnouncePrimary(s) ==
    announces' = announces \cup {<<s, p>> : p \in {q \in live[s] : Up(q)}}

\* s wins its election.
Promote(s) ==
    /\ AllProbed(s)
    /\ Wins(s)
    /\ promoteToPrimary(s)
    /\ broadcastAnnouncePrimary(s)
    /\ mon' = [mon EXCEPT ![s] = "elected"]
    /\ UNCHANGED <<procVars, probeVars, timer, beats, checking>>

\* Another server wins: its address becomes the known primary.
Follow(s) ==
    /\ AllProbed(s)
    /\ ~Wins(s)
    /\ \E w \in live[s] : First(w, live[s]) /\ setKnownPrimary(s, w)
    /\ mon' = [mon EXCEPT ![s] = "elected"]
    /\ UNCHANGED <<procVars, probeVars, timerVars, sendVars, callVars>>

\* Faulty variant: the monitor returns after every election.
MonitorReturns(s) ==
    /\ mon[s] = "elected"
    /\ mon' = [mon EXCEPT ![s] = "off"]
    /\ timer' = [timer EXCEPT ![s] = 0]
    /\ probed' = [probed EXCEPT ![s] = {}]
    /\ live' = [live EXCEPT ![s] = {}]
    /\ UNCHANGED <<procVars, roleVars, probing, gap, sendVars, callVars>>

\* Back in the monitor after an election: a primary's monitor returns.
AfterElection(s) ==
    /\ mon[s] = "elected"
    /\ mon' = [mon EXCEPT ![s] = IF primary[s] THEN "off" ELSE "poll"]
    /\ timer' = [timer EXCEPT ![s] = 0]
    /\ probed' = [probed EXCEPT ![s] = {}]
    /\ live' = [live EXCEPT ![s] = {}]
    /\ UNCHANGED <<procVars, roleVars, probing, gap, sendVars, callVars>>

\* AnnouncePrimary at p: it adopts the sender and is not primary any more.
AnnouncePrimary(s, p) ==
    /\ <<s, p>> \in announces
    /\ announces' = announces \ {<<s, p>>}
    /\ setKnownPrimary(p, s)
    /\ UNCHANGED <<procVars, mon, probeVars, timerVars, sendVars, beats, checking>>

-----------------------------------------------------------------------------
(* GetPrimary at a backup whose known primary does not answer: the call      *)
(* reads the address, waits for the checks to fail, and then clears whatever *)
(* address is known by that time.                                            *)

CheckKnown(p) ==
    /\ Up(p) /\ ~primary[p] /\ ~checking[p]
    /\ known[p] # None
    /\ ~Answers(known[p])
    /\ checking' = [checking EXCEPT ![p] = TRUE]
    /\ UNCHANGED <<procVars, roleVars, mon, probeVars, timerVars, sendVars, beats,
                   announces>>

ForgetKnown(p) ==
    /\ checking[p]
    /\ checking' = [checking EXCEPT ![p] = FALSE]
    /\ known' = [known EXCEPT ![p] = None]
    /\ UNCHANGED <<procVars, primary, mon, probeVars, timerVars, sendVars, beats,
                   announces>>

\* connectToPrimary of a client: backup q names p, and the client's ping of p is
\* a heartbeat from nobody p knows.
ClientPing(q, p) ==
    /\ Up(q) /\ ~primary[q]
    /\ known[q] = p /\ Answers(p)
    /\ mon[p] = "poll"
    /\ timer' = [timer EXCEPT ![p] = 0]
    /\ UNCHANGED <<procVars, roleVars, mon, probeVars, gap, sendVars, callVars>>

-----------------------------------------------------------------------------
(* Time *)

\* Something happens before the next tick at server s.  The monitor looks at
\* its timer within a tick after it has run out.
Urgent(s) ==
    \/ status[s] \in {"asBackup", "asPrimary"}
    \/ status[s] = "ask" /\ \E p \in Server :
           First(p, Peers(s) \ asked[s])
             /\ (~Up(p) \/ Answers(p) \/ timer[s] >= AskTimeout)
    \/ sender[s] /\ gap[s] >= heartbeatInterval
    \/ mon[s] = "grace" /\ timer[s] >= startupGrace
    \/ mon[s] = "poll" /\ timer[s] > heartbeatTimeout
    \/ mon[s] = "probe" /\ probing[s] = None
    \/ probing[s] # None /\ (~Up(probing[s]) \/ Answers(probing[s])
                               \/ timer[s] >= ProbeTimeout)
    \/ mon[s] = "elected"

Tick ==
    /\ beats = {} /\ announces = {}
    /\ \A s \in Server : ~Urgent(s)
    /\ timer' = [s \in Server |->
                   IF mon[s] # "off" \/ status[s] = "ask" THEN timer[s] + 1 ELSE 0]
    /\ gap' = [s \in Server |-> IF sender[s] THEN gap[s] + 1 ELSE 0]
    /\ UNCHANGED <<procVars, roleVars, mon, probeVars, sendVars, callVars>>

-----------------------------------------------------------------------------

\* Steps the goroutines of server s take by themselves.
Step(s) ==
    \/ \E p \in Server : findExistingPrimary(s, p) \/ isAlive(s, p)
    \/ NewHandler(s) \/ GraceOver(s) \/ ProbeAnswered(s) \/ ProbeFails(s)
    \/ startHeartbeatMonitor(s) \/ Promote(s) \/ Follow(s) \/ AfterElection(s)

Next ==
    \/ \E s \in Server :
        \/ Crash(s) \/ Restart(s) \/ Step(s)
        \/ startHeartbeatSender(s) \/ SenderReturns(s)
        \/ CheckKnown(s) \/ ForgetKnown(s)
    \/ \E s, p \in Server : AnnouncePrimary(s, p) \/ Heartbeat(s, p) \/ ClientPing(s, p)
    \/ Tick

\* Time passes, goroutines run and calls arrive; crashes, restarts and
\* requests from clients need not happen.
Fairness ==
    /\ \A s \in Server :
        /\ WF_vars(Step(s)) /\ WF_vars(ForgetKnown(s))
        /\ WF_vars(startHeartbeatSender(s)) /\ WF_vars(SenderReturns(s))
    /\ \A s, p \in Server : WF_vars(AnnouncePrimary(s, p)) /\ WF_vars(Heartbeat(s, p))
    /\ WF_vars(Tick)

Spec == Init /\ [][Next]_vars

FairSpec == Spec /\ Fairness

-----------------------------------------------------------------------------
(* Correctness *)

\* Type invariant; an election is only about other servers.
TypeOK ==
    /\ status \in [Server -> {"down", "ask", "asBackup", "asPrimary", "up"}]
    /\ asked \in [Server -> SUBSET Server]
    /\ primary \in [Server -> BOOLEAN]
    /\ known \in [Server -> Server \cup {None}]
    /\ mon \in [Server -> {"off", "grace", "poll", "probe", "elected"}]
    /\ probed \in [Server -> SUBSET Server]
    /\ probing \in [Server -> Server \cup {None}]
    /\ live \in [Server -> SUBSET Server]
    /\ \A s \in Server : probing[s] # s /\ s \notin live[s]
    /\ timer \in [Server -> Nat]
    /\ sender \in [Server -> BOOLEAN]
    /\ senderRunning \in [Server -> BOOLEAN]
    /\ gap \in [Server -> Nat]
    /\ beats \in SUBSET (Server \X Server)
    /\ announces \in SUBSET (Server \X Server)
    /\ checking \in [Server -> BOOLEAN]
    /\ crashes \in 0..MaxCrashes
    /\ restarts \in 0..MaxRestarts

\* A primary that lives on is only ever deposed by a server with a smaller
\* identifier (AnnouncePrimary has no such check: it is the election that
\* only announces to larger ones).
StepDownOnlyToLower ==
    [][\A s \in Server :
        primary[s] /\ ~primary'[s] /\ status'[s] = "up" => known'[s] < s]_vars

\* Every live server answers GetPrimary with a live primary.
AllLed == \A p \in Server : Up(p) => Answers(p)

\* Server p was primary, by promotion or from its start, and has been deposed
\* since; its monitor has returned and is not started again.
Deposed(p) == ~primary[p] /\ mon[p] = "off" /\ (senderRunning[p] \/ p = FlagPrimary)

Unwatched == \A p \in Server : Up(p) => Deposed(p)

\* Once crashes stop, every live server ends up answering GetPrimary with a live
\* primary, unless all live servers are deposed primaries.  Probes that time out,
\* announcements that cross, a known primary that is forgotten too late, a sender
\* that is not started again and questions that go round do not keep the servers
\* without a primary for ever.
LedUnlessUnwatched == <>[]AllLed \/ <>[]Unwatched

-----------------------------------------------------------------------------
(* What the repository's texts say and the code does not do                *)

\* README.md: "3 AFS servers survive any one failure. Bully election promotes
\* a backup to primary in ~3 seconds": once crashes stop there is one primary.
EventuallyOnePrimary ==
    <>[](Cardinality({s \in Server : Up(s) /\ primary[s]}) = 1)

\* README.md: "system survives any one server failure": with one server down at a
\* time, once crashes stop every live server ends up with a live primary.
EventuallyLed == <>[]AllLed

=============================================================================
