--------------------------- MODULE ElectionProofs ---------------------------
(***************************************************************************)
(* Proofs about the election of the AFS servers, for any number of         *)
(* servers, any lengths of the waits and any number of crashes.            *)
(***************************************************************************)
EXTENDS Election, TLAPS

\* An announcement in flight goes from a smaller identifier to a larger one:
\* the winner only announces itself to peers it has counted and beaten.
AnnouncesGoUp ==
    \A s, p \in Server : <<s, p>> \in announces => s < p

\* Only a running server is primary or has a monitor.
OnlyRunning ==
    \A s \in Server : primary[s] \/ mon[s] # "off" => Up(s)

\* The inductive invariant.
IInv == TypeOK /\ AnnouncesGoUp /\ OnlyRunning

-----------------------------------------------------------------------------

\* The start-up of a cluster: one server with -primary=true, the others
\* backups.
LEMMA InitIInv == Init => IInv
  BY ServerAssumption, CrashAssumption
  DEF Init, IInv, TypeOK, AnnouncesGoUp, OnlyRunning, Up, Server, None

\* Type correctness is kept by every action.
LEMMA NextTypeOK == TypeOK /\ [Next]_vars => TypeOK'
<1>. SUFFICES ASSUME TypeOK, [Next]_vars PROVE TypeOK'
  OBVIOUS
<1>. USE DEF None
<1>1. ASSUME NEW s \in Server, Crash(s) PROVE TypeOK'
  <2>1. announces' \subseteq announces /\ beats' \subseteq beats
    BY <1>1 DEF Crash
  <2>2. crashes' \in 0..MaxCrashes /\ restarts' \in 0..MaxRestarts
    BY <1>1, CrashAssumption DEF Crash, TypeOK
  <2>3. /\ probing' \in [Server -> Server \cup {None}]
        /\ live' \in [Server -> SUBSET Server]
        /\ \A q \in Server : probing'[q] # q /\ q \notin live'[q]
    BY <1>1, ServerAssumption DEF Crash, TypeOK, Server
  <2>4. /\ status' \in [Server -> {"down", "ask", "asBackup", "asPrimary", "up"}]
        /\ mon' \in [Server -> {"off", "grace", "poll", "probe", "elected"}]
        /\ asked' \in [Server -> SUBSET Server]
        /\ probed' \in [Server -> SUBSET Server]
        /\ known' \in [Server -> Server \cup {None}]
    BY <1>1 DEF Crash, TypeOK
  <2>5. /\ primary' \in [Server -> BOOLEAN]
        /\ sender' \in [Server -> BOOLEAN]
        /\ senderRunning' \in [Server -> BOOLEAN]
        /\ checking' \in [Server -> BOOLEAN]
    BY <1>1 DEF Crash, TypeOK
  <2>6. timer' \in [Server -> Nat] /\ gap' \in [Server -> Nat]
    BY <1>1 DEF Crash, TypeOK
  <2>. QED
    BY <2>1, <2>2, <2>3, <2>4, <2>5, <2>6 DEF TypeOK
<1>2. ASSUME NEW s \in Server, Restart(s) PROVE TypeOK'
  BY <1>2, CrashAssumption
  DEF TypeOK, Restart, roleVars, probeVars, timerVars, sendVars, callVars
<1>3. ASSUME NEW s \in Server, NEW p \in Server, findExistingPrimary(s, p) PROVE TypeOK'
  BY <1>3
  DEF TypeOK, findExistingPrimary, roleVars, probeVars, sendVars, callVars
<1>4. ASSUME NEW s \in Server, NewHandler(s) PROVE TypeOK'
  BY <1>4 DEF TypeOK, NewHandler, probeVars, callVars
<1>5. ASSUME NEW s \in Server, startHeartbeatSender(s) PROVE TypeOK'
  BY <1>5
  DEF TypeOK, startHeartbeatSender, Peers, procVars, roleVars, probeVars, sendVars
<1>6. ASSUME NEW s \in Server, SenderReturns(s) PROVE TypeOK'
  BY <1>6
  DEF TypeOK, SenderReturns, procVars, roleVars, probeVars, callVars
<1>7. ASSUME NEW s \in Server, NEW p \in Server, Heartbeat(s, p) PROVE TypeOK'
  BY <1>7 DEF TypeOK, Heartbeat, procVars, probeVars, sendVars
<1>8. ASSUME NEW s \in Server, GraceOver(s) \/ startHeartbeatMonitor(s) PROVE TypeOK'
  BY <1>8
  DEF TypeOK, GraceOver, startHeartbeatMonitor, procVars, roleVars, probeVars,
      sendVars, callVars
<1>9. ASSUME NEW s \in Server, NEW p \in Server, isAlive(s, p) PROVE TypeOK'
  BY <1>9
  DEF TypeOK, isAlive, First, Peers, procVars, roleVars, sendVars, callVars
<1>10. ASSUME NEW s \in Server, ProbeAnswered(s) \/ ProbeFails(s) PROVE TypeOK'
  <2>1. probing[s] \in Server /\ probing[s] # s
    BY <1>10 DEF TypeOK, ProbeAnswered, ProbeFails
  <2>2. /\ probing' \in [Server -> Server \cup {None}]
        /\ live' \in [Server -> SUBSET Server]
    BY <1>10, <2>1 DEF TypeOK, ProbeAnswered, ProbeFails
  <2>3. None \notin Server
    BY ServerAssumption DEF Server
  <2>4. \A q \in Server : probing'[q] # q /\ q \notin live'[q]
    BY <1>10, <2>1, <2>3 DEF TypeOK, ProbeAnswered, ProbeFails
  <2>. QED
    BY <1>10, <2>2, <2>4
    DEF TypeOK, ProbeAnswered, ProbeFails, procVars, roleVars, timerVars, sendVars,
        callVars
<1>11. ASSUME NEW s \in Server, Promote(s) PROVE TypeOK'
  BY <1>11
  DEF TypeOK, Promote, promoteToPrimary, broadcastAnnouncePrimary, procVars, probeVars
<1>12. ASSUME NEW s \in Server, Follow(s) PROVE TypeOK'
  BY <1>12
  DEF TypeOK, Follow, setKnownPrimary, First, procVars, probeVars, timerVars, sendVars,
      callVars
<1>13. ASSUME NEW s \in Server, AfterElection(s) PROVE TypeOK'
  BY <1>13
  DEF TypeOK, AfterElection, procVars, roleVars, sendVars, callVars
<1>14. ASSUME NEW s \in Server, NEW p \in Server, AnnouncePrimary(s, p) PROVE TypeOK'
  BY <1>14
  DEF TypeOK, AnnouncePrimary, setKnownPrimary, procVars, probeVars, timerVars, sendVars
<1>15. ASSUME NEW p \in Server, CheckKnown(p) \/ ForgetKnown(p) PROVE TypeOK'
  BY <1>15
  DEF TypeOK, CheckKnown, ForgetKnown, procVars, roleVars, probeVars, timerVars,
      sendVars
<1>16. ASSUME NEW q \in Server, NEW p \in Server, ClientPing(q, p) PROVE TypeOK'
  BY <1>16
  DEF TypeOK, ClientPing, procVars, roleVars, probeVars, sendVars, callVars
<1>17. ASSUME Tick PROVE TypeOK'
  BY <1>17
  DEF TypeOK, Tick, procVars, roleVars, probeVars, sendVars, callVars
<1>18. ASSUME UNCHANGED vars PROVE TypeOK'
  BY <1>18
  DEF TypeOK, vars, procVars, roleVars, probeVars, timerVars, sendVars, callVars
<1>. QED
  BY <1>1, <1>2, <1>3, <1>4, <1>5, <1>6, <1>7, <1>8, <1>9, <1>10, <1>11, <1>12,
     <1>13, <1>14, <1>15, <1>16, <1>17, <1>18 DEF Next, Step

\* Only a winner adds announcements, and it has beaten those it announces to.
LEMMA NextAnnouncesGoUp == IInv /\ [Next]_vars => AnnouncesGoUp'
<1>. SUFFICES ASSUME IInv, [Next]_vars,
                     NEW a \in Server, NEW b \in Server, <<a, b>> \in announces'
              PROVE  a < b
  BY DEF AnnouncesGoUp
<1>1. CASE <<a, b>> \in announces
  BY <1>1 DEF IInv, AnnouncesGoUp
<1>2. CASE \E s \in Server : Promote(s)
  <2>1. PICK s \in Server : Promote(s)
    BY <1>2
  <2>2. <<a, b>> \in announces \/ (a = s /\ b \in live[s])
    BY <2>1 DEF Promote, broadcastAnnouncePrimary
  <2>. QED
    BY <1>1, <2>1, <2>2 DEF Promote, Wins
<1>3. announces' \subseteq announces \/ \E s \in Server : Promote(s)
  <2>1. ASSUME NEW s \in Server, Crash(s) PROVE announces' \subseteq announces
    BY <2>1 DEF Crash
  <2>2. ASSUME NEW s \in Server, NEW p \in Server, AnnouncePrimary(s, p)
        PROVE  announces' \subseteq announces
    BY <2>2 DEF AnnouncePrimary
  <2>3. ASSUME NEW s \in Server,
               \/ Restart(s) \/ NewHandler(s) \/ startHeartbeatSender(s)
               \/ SenderReturns(s) \/ GraceOver(s) \/ startHeartbeatMonitor(s)
        PROVE  announces' \subseteq announces
    BY <2>3
    DEF Restart, NewHandler, startHeartbeatSender, SenderReturns, GraceOver,
        startHeartbeatMonitor, callVars
  <2>4. ASSUME NEW s \in Server,
               \/ ProbeAnswered(s) \/ ProbeFails(s) \/ Follow(s) \/ AfterElection(s)
               \/ CheckKnown(s) \/ ForgetKnown(s)
        PROVE  announces' \subseteq announces
    BY <2>4
    DEF ProbeAnswered, ProbeFails, Follow, AfterElection, CheckKnown, ForgetKnown,
        callVars
  <2>5. ASSUME NEW s \in Server, NEW p \in Server,
               \/ findExistingPrimary(s, p) \/ isAlive(s, p) \/ Heartbeat(s, p)
               \/ ClientPing(s, p)
        PROVE  announces' \subseteq announces
    BY <2>5 DEF findExistingPrimary, isAlive, Heartbeat, ClientPing, callVars
  <2>6. ASSUME Tick \/ UNCHANGED vars PROVE announces' \subseteq announces
    BY <2>6 DEF Tick, vars, callVars
  <2>. QED
    BY <2>1, <2>2, <2>3, <2>4, <2>5, <2>6 DEF Next, Step
<1>. QED
  BY <1>1, <1>2, <1>3

\* A process that dies takes its role and its monitor along.
LEMMA NextOnlyRunning == IInv /\ [Next]_vars => OnlyRunning'
<1>. SUFFICES ASSUME IInv, [Next]_vars, NEW q \in Server,
                     primary'[q] \/ mon'[q] # "off"
              PROVE  status'[q] = "up"
  BY DEF OnlyRunning, Up
<1>. USE DEF IInv, TypeOK, OnlyRunning, Up
<1>1. ASSUME NEW s \in Server,
             Crash(s) \/ Restart(s) \/ NewHandler(s)
      PROVE  status'[q] = "up"
  BY <1>1 DEF Crash, Restart, NewHandler, roleVars
<1>2. ASSUME NEW s \in Server, NEW p \in Server, findExistingPrimary(s, p)
      PROVE  status'[q] = "up"
  BY <1>2 DEF findExistingPrimary, roleVars
<1>3. ASSUME NEW s \in Server,
             \/ startHeartbeatSender(s) \/ SenderReturns(s) \/ GraceOver(s)
             \/ startHeartbeatMonitor(s) \/ ProbeAnswered(s) \/ ProbeFails(s)
      PROVE  status'[q] = "up"
  BY <1>3
  DEF startHeartbeatSender, SenderReturns, GraceOver, startHeartbeatMonitor,
      ProbeAnswered, ProbeFails, procVars, roleVars
<1>4. ASSUME NEW s \in Server, Promote(s) \/ Follow(s) PROVE status'[q] = "up"
  <2>1. status[s] = "up" /\ UNCHANGED status
    BY <1>4 DEF Promote, Follow, AllProbed, procVars
  <2>2. q # s => primary'[q] = primary[q] /\ mon'[q] = mon[q]
    BY <1>4 DEF Promote, promoteToPrimary, Follow, setKnownPrimary
  <2>. QED
    BY <2>1, <2>2
<1>5. ASSUME NEW s \in Server, NEW p \in Server, AnnouncePrimary(s, p)
      PROVE  status'[q] = "up"
  <2>1. s < p /\ s \in Int
    BY <1>5, ServerAssumption DEF AnnouncePrimary, AnnouncesGoUp, Server
  <2>2. primary'[q] => primary[q]
    BY <1>5, <2>1 DEF AnnouncePrimary, setKnownPrimary, procVars
  <2>. QED
    BY <2>2, <1>5 DEF AnnouncePrimary, procVars
<1>6. ASSUME NEW s \in Server, AfterElection(s) \/ CheckKnown(s) \/ ForgetKnown(s)
      PROVE  status'[q] = "up"
  BY <1>6 DEF AfterElection, CheckKnown, ForgetKnown, procVars, roleVars
<1>7. ASSUME NEW s \in Server, NEW p \in Server,
             isAlive(s, p) \/ Heartbeat(s, p) \/ ClientPing(s, p)
      PROVE  status'[q] = "up"
  BY <1>7 DEF isAlive, Heartbeat, ClientPing, procVars, roleVars
<1>8. ASSUME Tick \/ UNCHANGED vars PROVE status'[q] = "up"
  BY <1>8 DEF Tick, vars, procVars, roleVars
<1>. QED
  BY <1>1, <1>2, <1>3, <1>4, <1>5, <1>6, <1>7, <1>8 DEF Next, Step

\* The inductive invariant holds in every reachable state.
THEOREM IInvHolds == Spec => []IInv
<1>1. Init => IInv
  BY InitIInv
<1>2. IInv /\ [Next]_vars => IInv'
  BY NextTypeOK, NextAnnouncesGoUp, NextOnlyRunning DEF IInv
<1>. QED
  BY <1>1, <1>2, PTL DEF Spec

\* Type correctness of the servers' election state, whatever crashes happen.
THEOREM TypeCorrect == Spec => []TypeOK
  BY IInvHolds, PTL DEF IInv

-----------------------------------------------------------------------------

\* A step that takes a live server's primary role away makes it follow a
\* server with a smaller identifier.
LEMMA StepDown ==
    ASSUME IInv, [Next]_vars, NEW q \in Server,
           primary[q], ~primary'[q], status'[q] = "up"
    PROVE  known'[q] < q
<1>1. ASSUME NEW s \in Server, NEW p \in Server, AnnouncePrimary(s, p)
      PROVE  known'[q] < q
  BY <1>1 DEF AnnouncePrimary, setKnownPrimary, IInv, AnnouncesGoUp, TypeOK
<1>2. ASSUME NEW s \in Server, Follow(s) PROVE known'[q] < q
  <2>1. q = s
    BY <1>2 DEF Follow, setKnownPrimary, IInv, TypeOK
  <2>2. PICK w \in live[s] : First(w, live[s]) /\ known' = [known EXCEPT ![s] = w]
    BY <1>2 DEF Follow, setKnownPrimary
  <2>3. PICK p \in live[s] : ~(s < p)
    BY <1>2 DEF Follow, Wins
  <2>4. s \in Int /\ w \in Int /\ p \in Int /\ p # s
    BY ServerAssumption DEF IInv, TypeOK, Server
  <2>5. w <= p
    BY <2>2 DEF First
  <2>. QED
    BY <2>1, <2>2, <2>3, <2>4, <2>5 DEF IInv, TypeOK
<1>3. ASSUME NEW s \in Server, Crash(s) PROVE FALSE
  BY <1>3 DEF Crash, IInv, TypeOK
<1>4. ASSUME NEW s \in Server, NewHandler(s) PROVE FALSE
  BY <1>4 DEF NewHandler, IInv, TypeOK, OnlyRunning, Up
<1>5. ASSUME NEW s \in Server, Promote(s) PROVE FALSE
  BY <1>5 DEF Promote, promoteToPrimary, IInv, TypeOK
<1>6. ASSUME \/ UNCHANGED primary
             \/ \E s \in Server : Crash(s) \/ NewHandler(s) \/ Promote(s) \/ Follow(s)
             \/ \E s, p \in Server : AnnouncePrimary(s, p)
      PROVE  known'[q] < q
  BY <1>1, <1>2, <1>3, <1>4, <1>5, <1>6
<1>7. ASSUME NEW s \in Server,
             \/ Restart(s) \/ startHeartbeatSender(s) \/ SenderReturns(s)
             \/ GraceOver(s) \/ startHeartbeatMonitor(s) \/ AfterElection(s)
      PROVE  UNCHANGED primary
  BY <1>7
  DEF Restart, startHeartbeatSender, SenderReturns, GraceOver, startHeartbeatMonitor,
      AfterElection, roleVars
<1>8. ASSUME NEW s \in Server,
             ProbeAnswered(s) \/ ProbeFails(s) \/ CheckKnown(s) \/ ForgetKnown(s)
      PROVE  UNCHANGED primary
  BY <1>8 DEF ProbeAnswered, ProbeFails, CheckKnown, ForgetKnown, roleVars
<1>9. ASSUME NEW s \in Server, NEW p \in Server,
             \/ findExistingPrimary(s, p) \/ isAlive(s, p) \/ Heartbeat(s, p)
             \/ ClientPing(s, p)
      PROVE  UNCHANGED primary
  BY <1>9 DEF findExistingPrimary, isAlive, Heartbeat, ClientPing, roleVars
<1>10. ASSUME Tick \/ UNCHANGED vars PROVE UNCHANGED primary
  BY <1>10 DEF Tick, vars, roleVars
<1>. QED
  BY <1>6, <1>7, <1>8, <1>9, <1>10 DEF Next, Step

\* A primary that lives on is only ever deposed by a server with a smaller
\* identifier, although AnnouncePrimary accepts any announcement.
THEOREM StepDownCorrect == Spec => StepDownOnlyToLower
<1>. DEFINE A == \A s \in Server :
                   primary[s] /\ ~primary'[s] /\ status'[s] = "up" => known'[s] < s
<1>1. IInv /\ [Next]_vars => [A]_vars
  BY StepDown
<1>2. Spec => [][A]_vars
  BY <1>1, IInvHolds, PTL DEF Spec
<1>. QED
  BY <1>2 DEF StepDownOnlyToLower

=============================================================================
