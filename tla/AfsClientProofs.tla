--------------------------- MODULE AfsClientProofs ---------------------------
(***************************************************************************)
(* Proofs about AfsClient for any number of clients, contents, versions    *)
(* and faults: what the versions tell about a cached copy, and what Open   *)
(* returns.                                                                *)
(***************************************************************************)
EXTENDS AfsClient, TLAPS

-----------------------------------------------------------------------------
(* The inductive invariant *)

\* What a client's call knows of the file, as long as nobody changed it since.
CallInv(c) ==
    /\ cpc[c] \in {"storing", "renamed"} => local[c] \in Data
    /\ cpc[c] = "opened" => cached[c] # NoEntry
    /\ cpc[c] = "fetching" /\ ~raced[c] => got[c] = srv /\ srv # Absent
    /\ cpc[c] = "renamed" /\ ~raced[c] => local[c] = srv
    /\ cpc[c] = "creating" /\ ~raced[c] => srv = Empty
    /\ Opening(c) => srv \in seen[c]
    /\ cpc[c] = "fetching" => got[c] \in seen[c]

\* Versions that still tell are not ahead of the server's, and tell of a file
\* that is there.
EntryInv(c) ==
    cached[c] # NoEntry /\ ~stale[c] => cached[c] <= ver /\ srv # Absent

\* The two invariants, for one client, and why Open may trust a current copy.
CopyInv(c) ==
    /\ Clean(c) /\ cached[c] = ver /\ ~stale[c] => local[c] \in recent
    /\ cpc[c] = "opened" => recent \subseteq seen[c] \cup old[c]
    /\ cpc[c] = "open" /\ ~dirty[c] =>
            \/ local[c] \in seen[c]
            \/ trusted[c] /\ (stale[c] \/ local[c] \in old[c])

ClientInv(c) == CallInv(c) /\ EntryInv(c) /\ CopyInv(c)

IInv == TypeOK /\ srv \in recent /\ \A c \in Client : ClientInv(c)

-----------------------------------------------------------------------------
(* Invariance *)

LEMMA InitInv == Init => IInv
<1> SUFFICES ASSUME Init PROVE IInv OBVIOUS
<1> USE DEF Init
<1>1. TypeOK BY BoundAssumption DEF TypeOK, Content, NoEntry
<1>2. ASSUME NEW c \in Client PROVE ClientInv(c)
  BY DEF ClientInv, CallInv, EntryInv, CopyInv, Clean, Opening, NoEntry
<1> QED BY <1>1, <1>2 DEF IInv

LEMMA OpenCallInv ==
    ASSUME IInv, NEW c \in Client, OpenCall(c)
    PROVE  IInv'
<1> USE DEF IInv, OpenCall, Goto, serverVars, cacheVars, fetchVars,
            openVars, NoEntry
<1>1. TypeOK'
  BY DataAssumption, BoundAssumption DEF TypeOK, Content, ClientInv, CallInv
<1>2. (srv \in recent)'
  BY DEF TypeOK
<1>3. ASSUME NEW d \in Client PROVE ClientInv(d)'
  <2>1. ClientInv(d) /\ TypeOK BY <1>3
  <2>2. CallInv(d)'
    BY <2>1, DataAssumption DEF TypeOK, ClientInv, CallInv, Exposed, Opening
  <2>3. EntryInv(d)'
    BY <2>1, DataAssumption DEF TypeOK, ClientInv, CallInv, EntryInv
  <2>4. CopyInv(d)'
    BY <2>1, DataAssumption DEF TypeOK, ClientInv, CallInv, EntryInv, CopyInv, Clean, Opening
  <2> QED BY <2>2, <2>3, <2>4 DEF ClientInv
<1> QED BY <1>1, <1>2, <1>3

LEMMA TestAuthInv ==
    ASSUME IInv, NEW c \in Client, TestAuth(c)
    PROVE  IInv'
<1> USE DEF IInv, TestAuth, Goto, Trusted, TestVersion, Fault, serverVars, cacheVars,
            fetchVars, openVars, NoEntry
<1>1. TypeOK'
  BY DataAssumption, BoundAssumption DEF TypeOK, Content, ClientInv, CallInv
<1>2. (srv \in recent)'
  BY DEF TypeOK
<1>3. ASSUME NEW d \in Client PROVE ClientInv(d)'
  <2>1. ClientInv(d) /\ TypeOK BY <1>3
  <2>2. CallInv(d)'
    BY <2>1, DataAssumption DEF TypeOK, ClientInv, CallInv, Exposed, Opening
  <2>3. EntryInv(d)'
    BY <2>1, DataAssumption DEF TypeOK, ClientInv, CallInv, EntryInv
  <2>4. CopyInv(d)'
    BY <2>1, DataAssumption DEF TypeOK, ClientInv, CallInv, EntryInv, CopyInv, Clean, Opening
  <2> QED BY <2>2, <2>3, <2>4 DEF ClientInv
<1> QED BY <1>1, <1>2, <1>3

LEMMA FetchOpenInv ==
    ASSUME IInv, NEW c \in Client, FetchOpen(c)
    PROVE  IInv'
<1> USE DEF IInv, FetchOpen, Goto, serverVars, cacheVars, fetchVars,
            openVars, NoEntry
<1>1. TypeOK'
  BY DataAssumption, BoundAssumption DEF TypeOK, Content, ClientInv, CallInv
<1>2. (srv \in recent)'
  BY DEF TypeOK
<1>3. ASSUME NEW d \in Client PROVE ClientInv(d)'
  <2>1. ClientInv(d) /\ TypeOK BY <1>3
  <2>2. CallInv(d)'
    BY <2>1, DataAssumption DEF TypeOK, ClientInv, CallInv, Exposed, Opening
  <2>3. EntryInv(d)'
    BY <2>1, DataAssumption DEF TypeOK, ClientInv, CallInv, EntryInv
  <2>4. CopyInv(d)'
    BY <2>1, DataAssumption DEF TypeOK, ClientInv, CallInv, EntryInv, CopyInv, Clean, Opening
  <2> QED BY <2>2, <2>3, <2>4 DEF ClientInv
<1> QED BY <1>1, <1>2, <1>3

LEMMA FetchDoneInv ==
    ASSUME IInv, NEW c \in Client, FetchDone(c)
    PROVE  IInv'
<1> USE DEF IInv, FetchDone, Goto, FetchedVersion, serverVars, cacheVars, fetchVars,
            openVars, NoEntry
<1>1. TypeOK'
  BY DataAssumption, BoundAssumption DEF TypeOK, Content, ClientInv, CallInv
<1>2. (srv \in recent)'
  BY DEF TypeOK
<1>3. ASSUME NEW d \in Client PROVE ClientInv(d)'
  <2>1. ClientInv(d) /\ TypeOK BY <1>3
  <2>2. CallInv(d)'
    BY <2>1, DataAssumption DEF TypeOK, ClientInv, CallInv, Exposed, Opening
  <2>3. EntryInv(d)'
    <3>1. CASE d # c
      BY <2>1, <3>1 DEF TypeOK, ClientInv, EntryInv
    <3>2. CASE d = c
      <4>1. /\ cached'[c] = FetchedVersion(c) /\ srv' = srv /\ ver' = ver
            /\ ~stale'[c] => ~raced[c] /\ (fetched[c] = 0 \/ FetchedVersion(c) = ver)
        BY <2>1 DEF TypeOK
      <4>2. FetchedVersion(c) \in {ver, fetched[c]} /\ ver \in Nat
        BY <2>1 DEF TypeOK
      <4>3. ~raced[c] => srv # Absent
        BY <2>1, <3>2 DEF ClientInv, CallInv
      <4> QED BY ONLY <3>2, <4>1, <4>2, <4>3 DEF EntryInv
    <3> QED BY <3>1, <3>2
  <2>4. CopyInv(d)'
    BY <2>1, DataAssumption DEF TypeOK, ClientInv, CallInv, EntryInv, CopyInv, Clean, Opening
  <2> QED BY <2>2, <2>3, <2>4 DEF ClientInv
<1> QED BY <1>1, <1>2, <1>3

LEMMA FetchBreaksInv ==
    ASSUME IInv, NEW c \in Client, FetchBreaks(c)
    PROVE  IInv'
<1> USE DEF IInv, FetchBreaks, Goto, FetchedVersion, Fault, serverVars, cacheVars, fetchVars,
            openVars, NoEntry
<1>1. TypeOK'
  BY DataAssumption, BoundAssumption DEF TypeOK, Content, ClientInv, CallInv
<1>2. (srv \in recent)'
  BY DEF TypeOK
<1>3. ASSUME NEW d \in Client PROVE ClientInv(d)'
  <2>1. ClientInv(d) /\ TypeOK BY <1>3
  <2>2. CallInv(d)'
    BY <2>1, DataAssumption DEF TypeOK, ClientInv, CallInv, Exposed, Opening
  <2>3. EntryInv(d)'
    BY <2>1, DataAssumption DEF TypeOK, ClientInv, CallInv, EntryInv
  <2>4. CopyInv(d)'
    BY <2>1, DataAssumption DEF TypeOK, ClientInv, CallInv, EntryInv, CopyInv, Clean, Opening
  <2> QED BY <2>2, <2>3, <2>4 DEF ClientInv
<1> QED BY <1>1, <1>2, <1>3

LEMMA FetchFailsInv ==
    ASSUME IInv, NEW c \in Client, FetchFails(c)
    PROVE  IInv'
<1> USE DEF IInv, FetchFails, Goto, Forget, Fault, serverVars, cacheVars, fetchVars,
            openVars, NoEntry
<1>1. TypeOK'
  BY DataAssumption, BoundAssumption DEF TypeOK, Content, ClientInv, CallInv
<1>2. (srv \in recent)'
  BY DEF TypeOK
<1>3. ASSUME NEW d \in Client PROVE ClientInv(d)'
  <2>1. ClientInv(d) /\ TypeOK BY <1>3
  <2>2. CallInv(d)'
    BY <2>1, DataAssumption DEF TypeOK, ClientInv, CallInv, Exposed, Opening
  <2>3. EntryInv(d)'
    BY <2>1, DataAssumption DEF TypeOK, ClientInv, CallInv, EntryInv
  <2>4. CopyInv(d)'
    BY <2>1, DataAssumption DEF TypeOK, ClientInv, CallInv, EntryInv, CopyInv, Clean, Opening
  <2> QED BY <2>2, <2>3, <2>4 DEF ClientInv
<1> QED BY <1>1, <1>2, <1>3

LEMMA WriteInv ==
    ASSUME IInv, NEW c \in Client, Write(c)
    PROVE  IInv'
<1> USE DEF IInv, Write, Goto, Forget, serverVars, cacheVars, fetchVars,
            openVars, NoEntry
<1>1. TypeOK'
  BY DataAssumption, BoundAssumption DEF TypeOK, Content, ClientInv, CallInv
<1>2. (srv \in recent)'
  BY DEF TypeOK
<1>3. ASSUME NEW d \in Client PROVE ClientInv(d)'
  <2>1. ClientInv(d) /\ TypeOK BY <1>3
  <2>2. CallInv(d)'
    BY <2>1, DataAssumption DEF TypeOK, ClientInv, CallInv, Exposed, Opening
  <2>3. EntryInv(d)'
    BY <2>1, DataAssumption DEF TypeOK, ClientInv, CallInv, EntryInv
  <2>4. CopyInv(d)'
    BY <2>1, DataAssumption DEF TypeOK, ClientInv, CallInv, EntryInv, CopyInv, Clean, Opening
  <2> QED BY <2>2, <2>3, <2>4 DEF ClientInv
<1> QED BY <1>1, <1>2, <1>3

LEMMA CloseInv ==
    ASSUME IInv, NEW c \in Client, Close(c)
    PROVE  IInv'
<1> USE DEF IInv, Close, Goto, Forget, serverVars, cacheVars, fetchVars,
            openVars, NoEntry
<1>1. TypeOK'
  BY DataAssumption, BoundAssumption DEF TypeOK, Content, ClientInv, CallInv
<1>2. (srv \in recent)'
  BY DEF TypeOK
<1>3. ASSUME NEW d \in Client PROVE ClientInv(d)'
  <2>1. ClientInv(d) /\ TypeOK BY <1>3
  <2>2. CallInv(d)'
    BY <2>1, DataAssumption DEF TypeOK, ClientInv, CallInv, Exposed, Opening
  <2>3. EntryInv(d)'
    BY <2>1, DataAssumption DEF TypeOK, ClientInv, CallInv, EntryInv
  <2>4. CopyInv(d)'
    BY <2>1, DataAssumption DEF TypeOK, ClientInv, CallInv, EntryInv, CopyInv, Clean, Opening
  <2> QED BY <2>2, <2>3, <2>4 DEF ClientInv
<1> QED BY <1>1, <1>2, <1>3

LEMMA StoreRenameInv ==
    ASSUME IInv, NEW c \in Client, StoreRename(c)
    PROVE  IInv'
<1> USE DEF IInv, StoreRename, Goto, ChangeFile, serverVars, cacheVars, fetchVars,
            openVars, NoEntry
<1>1. TypeOK'
  BY DataAssumption, BoundAssumption DEF TypeOK, Content, ClientInv, CallInv
<1>2. (srv \in recent)'
  BY DEF TypeOK
<1>3. ASSUME NEW d \in Client PROVE ClientInv(d)'
  <2>1. ClientInv(d) /\ TypeOK BY <1>3
  <2>2. CallInv(d)'
    BY <2>1, DataAssumption DEF TypeOK, ClientInv, CallInv, Exposed, Opening
  <2>3. EntryInv(d)'
    BY <2>1, DataAssumption DEF TypeOK, ClientInv, CallInv, EntryInv
  <2>4. CopyInv(d)'
    BY <2>1, DataAssumption DEF TypeOK, ClientInv, CallInv, EntryInv, CopyInv, Clean, Opening
  <2> QED BY <2>2, <2>3, <2>4 DEF ClientInv
<1> QED BY <1>1, <1>2, <1>3

LEMMA StoreDoneInv ==
    ASSUME IInv, NEW c \in Client, StoreDone(c)
    PROVE  IInv'
<1> USE DEF IInv, StoreDone, Goto, SetVersion, serverVars, cacheVars, fetchVars,
            openVars, NoEntry
<1>1. TypeOK'
  BY DataAssumption, BoundAssumption DEF TypeOK, Content, ClientInv, CallInv
<1>2. (srv \in recent)'
  BY DEF TypeOK
<1>3. ASSUME NEW d \in Client PROVE ClientInv(d)'
  <2>1. ClientInv(d) /\ TypeOK BY <1>3
  <2>2. CallInv(d)'
    BY <2>1, DataAssumption DEF TypeOK, ClientInv, CallInv, Exposed, Opening
  <2>3. EntryInv(d)'
    BY <2>1, DataAssumption DEF TypeOK, ClientInv, CallInv, EntryInv
  <2>4. CopyInv(d)'
    BY <2>1, DataAssumption DEF TypeOK, ClientInv, CallInv, EntryInv, CopyInv, Clean, Opening
  <2> QED BY <2>2, <2>3, <2>4 DEF ClientInv
<1> QED BY <1>1, <1>2, <1>3

LEMMA StoreFailsInv ==
    ASSUME IInv, NEW c \in Client, StoreFails(c)
    PROVE  IInv'
<1> USE DEF IInv, StoreFails, Goto, Fault, serverVars, cacheVars, fetchVars,
            openVars, NoEntry
<1>1. TypeOK'
  BY DataAssumption, BoundAssumption DEF TypeOK, Content, ClientInv, CallInv
<1>2. (srv \in recent)'
  BY DEF TypeOK
<1>3. ASSUME NEW d \in Client PROVE ClientInv(d)'
  <2>1. ClientInv(d) /\ TypeOK BY <1>3
  <2>2. CallInv(d)'
    BY <2>1, DataAssumption DEF TypeOK, ClientInv, CallInv, Exposed, Opening
  <2>3. EntryInv(d)'
    BY <2>1, DataAssumption DEF TypeOK, ClientInv, CallInv, EntryInv
  <2>4. CopyInv(d)'
    BY <2>1, DataAssumption DEF TypeOK, ClientInv, CallInv, EntryInv, CopyInv, Clean, Opening
  <2> QED BY <2>2, <2>3, <2>4 DEF ClientInv
<1> QED BY <1>1, <1>2, <1>3

LEMMA CreateStatInv ==
    ASSUME IInv, NEW c \in Client, CreateStat(c)
    PROVE  IInv'
<1> USE DEF IInv, CreateStat, Goto, serverVars, cacheVars, fetchVars,
            openVars, NoEntry
<1>1. TypeOK'
  BY DataAssumption, BoundAssumption DEF TypeOK, Content, ClientInv, CallInv
<1>2. (srv \in recent)'
  BY DEF TypeOK
<1>3. ASSUME NEW d \in Client PROVE ClientInv(d)'
  <2>1. ClientInv(d) /\ TypeOK BY <1>3
  <2>2. CallInv(d)'
    BY <2>1, DataAssumption DEF TypeOK, ClientInv, CallInv, Exposed, Opening
  <2>3. EntryInv(d)'
    BY <2>1, DataAssumption DEF TypeOK, ClientInv, CallInv, EntryInv
  <2>4. CopyInv(d)'
    BY <2>1, DataAssumption DEF TypeOK, ClientInv, CallInv, EntryInv, CopyInv, Clean, Opening
  <2> QED BY <2>2, <2>3, <2>4 DEF ClientInv
<1> QED BY <1>1, <1>2, <1>3

LEMMA CreateFileInv ==
    ASSUME IInv, NEW c \in Client, CreateFile(c)
    PROVE  IInv'
<1> USE DEF IInv, CreateFile, Goto, ChangeFile, serverVars, cacheVars, fetchVars,
            openVars, NoEntry
<1>1. TypeOK'
  BY DataAssumption, BoundAssumption DEF TypeOK, Content, ClientInv, CallInv
<1>2. (srv \in recent)'
  BY DEF TypeOK
<1>3. ASSUME NEW d \in Client PROVE ClientInv(d)'
  <2>1. ClientInv(d) /\ TypeOK BY <1>3
  <2>2. CallInv(d)'
    BY <2>1, DataAssumption DEF TypeOK, ClientInv, CallInv, Exposed, Opening
  <2>3. EntryInv(d)'
    BY <2>1, DataAssumption DEF TypeOK, ClientInv, CallInv, EntryInv
  <2>4. CopyInv(d)'
    BY <2>1, DataAssumption DEF TypeOK, ClientInv, CallInv, EntryInv, CopyInv, Clean, Opening
  <2> QED BY <2>2, <2>3, <2>4 DEF ClientInv
<1> QED BY <1>1, <1>2, <1>3

LEMMA CreateDoneInv ==
    ASSUME IInv, NEW c \in Client, CreateDone(c)
    PROVE  IInv'
<1> USE DEF IInv, CreateDone, Goto, SetVersion, serverVars, cacheVars, fetchVars,
            openVars, NoEntry
<1>1. TypeOK'
  BY DataAssumption, BoundAssumption DEF TypeOK, Content, ClientInv, CallInv
<1>2. (srv \in recent)'
  BY DEF TypeOK
<1>3. ASSUME NEW d \in Client PROVE ClientInv(d)'
  <2>1. ClientInv(d) /\ TypeOK BY <1>3
  <2>2. CallInv(d)'
    BY <2>1, DataAssumption DEF TypeOK, ClientInv, CallInv, Exposed, Opening
  <2>3. EntryInv(d)'
    <3>1. CASE d = c
      BY <2>1, <3>1, DataAssumption DEF TypeOK, ClientInv, CallInv, EntryInv
    <3>2. CASE d # c
      <4>1. /\ stale'[d] = (stale[d] \/ ver # 0)
            /\ cached'[d] = cached[d] /\ local'[d] = local[d] /\ seen'[d] = seen[d]
            /\ cpc'[d] = cpc[d] /\ dirty' = dirty /\ srv' = srv /\ ver' = 1
        BY <2>1, <3>2 DEF TypeOK
      <4>2. ~stale'[d] => ~stale[d] /\ ver = 0
        BY <4>1
      <4> QED BY <2>1, <4>1, <4>2 DEF TypeOK, ClientInv, EntryInv
    <3> QED BY <3>1, <3>2
  <2>4. CopyInv(d)'
    <3>1. CASE d = c
      BY <2>1, <3>1, DataAssumption DEF TypeOK, ClientInv, CallInv, CopyInv, Clean,
                 Opening
    <3>2. CASE d # c
      <4>1. /\ stale'[d] = (stale[d] \/ ver # 0)
            /\ cached'[d] = cached[d] /\ local'[d] = local[d] /\ seen'[d] = seen[d]
            /\ cpc'[d] = cpc[d] /\ dirty' = dirty /\ srv' = srv /\ ver' = 1
        BY <2>1, <3>2 DEF TypeOK
      <4>2. ~stale'[d] => ~stale[d] /\ ver = 0
        BY <4>1
      <4> QED BY <2>1, <4>1, <4>2 DEF TypeOK, ClientInv, EntryInv, CopyInv, Clean, Opening
    <3> QED BY <3>1, <3>2
  <2> QED BY <2>2, <2>3, <2>4 DEF ClientInv
<1> QED BY <1>1, <1>2, <1>3

LEMMA DeleteFileInv ==
    ASSUME IInv, NEW c \in Client, DeleteFile(c)
    PROVE  IInv'
<1> USE DEF IInv, DeleteFile, Goto, ChangeFile, serverVars, cacheVars, fetchVars,
            openVars, NoEntry
<1>1. TypeOK'
  BY DataAssumption, BoundAssumption DEF TypeOK, Content, ClientInv, CallInv
<1>2. (srv \in recent)'
  BY DEF TypeOK
<1>3. ASSUME NEW d \in Client PROVE ClientInv(d)'
  <2>1. ClientInv(d) /\ TypeOK BY <1>3
  <2>2. CallInv(d)'
    BY <2>1, DataAssumption DEF TypeOK, ClientInv, CallInv, Exposed, Opening
  <2>3. EntryInv(d)'
    BY <2>1, DataAssumption DEF TypeOK, ClientInv, CallInv, EntryInv
  <2>4. CopyInv(d)'
    BY <2>1, DataAssumption DEF TypeOK, ClientInv, CallInv, EntryInv, CopyInv, Clean, Opening
  <2> QED BY <2>2, <2>3, <2>4 DEF ClientInv
<1> QED BY <1>1, <1>2, <1>3

LEMMA DeleteDoneInv ==
    ASSUME IInv, NEW c \in Client, DeleteDone(c)
    PROVE  IInv'
<1> USE DEF IInv, DeleteDone, Goto, SetVersion, serverVars, cacheVars, fetchVars,
            openVars, NoEntry
<1>1. TypeOK'
  BY DataAssumption, BoundAssumption DEF TypeOK, Content, ClientInv, CallInv
<1>2. (srv \in recent)'
  BY DEF TypeOK
<1>3. ASSUME NEW d \in Client PROVE ClientInv(d)'
  <2>1. ClientInv(d) /\ TypeOK BY <1>3
  <2>2. CallInv(d)'
    BY <2>1, DataAssumption DEF TypeOK, ClientInv, CallInv, Exposed, Opening
  <2>3. EntryInv(d)'
    BY <2>1, DataAssumption DEF TypeOK, ClientInv, CallInv, EntryInv
  <2>4. CopyInv(d)'
    <3>1. CASE d = c
      BY <2>1, <3>1 DEF TypeOK, CopyInv, Clean, Opening
    <3>2. CASE d # c
      <4>1. /\ stale'[d] /\ cpc'[d] = cpc[d] /\ seen' = seen
            /\ recent' \in {recent, {srv}}
        BY <2>1, <3>2 DEF TypeOK
      <4> QED BY <2>1, <4>1 DEF ClientInv, CopyInv, Opening
    <3> QED BY <3>1, <3>2
  <2> QED BY <2>2, <2>3, <2>4 DEF ClientInv
<1> QED BY <1>1, <1>2, <1>3

LEMMA UnansweredInv ==
    ASSUME IInv, NEW c \in Client, Unanswered(c)
    PROVE  IInv'
<1> USE DEF IInv
<1>1. /\ cpc[c] \in {"renamed", "creating", "deleting"}
      /\ cpc' = [cpc EXCEPT ![c] = "idle"]
      /\ faults' = faults + 1 /\ faults < MaxFaults
      /\ recent' \in {recent, {srv}}
      /\ UNCHANGED <<srv, cached, local, dirty, got, fetched, seen, old, trusted, raced>>
  BY DEF Unanswered, Fault, Changing, Goto, SetVersion, fetchVars, openVars
<1>2. \/ ver' = ver + 1 /\ stale' = stale
      \/ ver' = 1 /\ stale' = [d \in Client |-> stale[d] \/ ver # 0]
      \/ ver' = 0 /\ stale' = [d \in Client |-> TRUE]
  BY DEF Unanswered, SetVersion
<1>3. ver' \in Nat /\ stale' \in [Client -> BOOLEAN]
  <2>1. ver \in Nat /\ stale \in [Client -> BOOLEAN]
    BY DEF TypeOK
  <2>2. CASE ver' = ver + 1 /\ stale' = stale
    BY <2>1, <2>2
  <2>3. CASE ver' = 1 /\ stale' = [d \in Client |-> stale[d] \/ ver # 0]
    BY <2>3
  <2>4. CASE ver' = 0 /\ stale' = [d \in Client |-> TRUE]
    BY <2>4
  <2> QED BY <1>2, <2>2, <2>3, <2>4
<1>4. TypeOK'
  <2>1. recent' \in SUBSET Content
    BY <1>1 DEF TypeOK
  <2>2. faults' \in 0..MaxFaults
    BY <1>1, BoundAssumption DEF TypeOK
  <2>3. \A d \in Client : dirty'[d] => cpc'[d] = "open" /\ local'[d] \in Data
    BY <1>1 DEF TypeOK
  <2> QED BY <1>1, <1>3, <2>1, <2>2, <2>3 DEF TypeOK
<1>5. (srv \in recent)'
  BY <1>1
<1>6. ASSUME NEW d \in Client PROVE ClientInv(d)'
  <2>1. ClientInv(d) /\ TypeOK BY <1>6
  <2>2. CallInv(d)'
    BY <1>1, <2>1 DEF TypeOK, ClientInv, CallInv, Opening
  <2>3. ~stale'[d] => ~stale[d] /\ ver' > ver
    <3>1. CASE ver' = ver + 1 /\ stale' = stale
      BY <2>1, <3>1 DEF TypeOK
    <3>2. CASE ver' = 1 /\ stale' = [e \in Client |-> stale[e] \/ ver # 0]
      <4>1. stale'[d] = (stale[d] \/ ver # 0)
        BY <3>2
      <4>2. ~stale'[d] => ~stale[d] /\ ver = 0
        BY ONLY <4>1
      <4> QED BY <3>2, <4>2
    <3>3. CASE ver' = 0 /\ stale' = [e \in Client |-> TRUE]
      BY <3>3
    <3> QED BY <1>2, <3>1, <3>2, <3>3
  <2>4. EntryInv(d)'
    BY <1>1, <1>3, <2>1, <2>3 DEF TypeOK, ClientInv, EntryInv
  <2>5. ~stale'[d] => cached'[d] # ver'
    BY <1>1, <1>3, <2>1, <2>3 DEF TypeOK, ClientInv, EntryInv, NoEntry
  <2>6. CopyInv(d)'
    BY <1>1, <2>1, <2>3, <2>5 DEF TypeOK, ClientInv, CopyInv, Clean, Opening
  <2> QED BY <2>2, <2>4, <2>6 DEF ClientInv
<1> QED BY <1>4, <1>5, <1>6

LEMMA ClientCrashInv ==
    ASSUME IInv, NEW c \in Client, ClientCrash(c)
    PROVE  IInv'
<1> USE DEF IInv, ClientCrash, Goto, Forget, Fault, Changing, serverVars, cacheVars, fetchVars,
            openVars, NoEntry
<1>1. TypeOK'
  BY DataAssumption, BoundAssumption DEF TypeOK, Content, ClientInv, CallInv
<1>2. (srv \in recent)'
  BY DEF TypeOK
<1>3. ASSUME NEW d \in Client PROVE ClientInv(d)'
  <2>1. ClientInv(d) /\ TypeOK BY <1>3
  <2>2. CallInv(d)'
    BY <2>1, DataAssumption DEF TypeOK, ClientInv, CallInv, Exposed, Opening
  <2>3. EntryInv(d)'
    BY <2>1, DataAssumption DEF TypeOK, ClientInv, CallInv, EntryInv
  <2>4. CopyInv(d)'
    BY <2>1, DataAssumption DEF TypeOK, ClientInv, CallInv, EntryInv, CopyInv, Clean, Opening
  <2> QED BY <2>2, <2>3, <2>4 DEF ClientInv
<1> QED BY <1>1, <1>2, <1>3

LEMMA ServerRestartInv ==
    ASSUME IInv, ServerRestart
    PROVE  IInv'
<1> USE DEF IInv, ServerRestart, Fault, serverVars, cacheVars, fetchVars,
            openVars, NoEntry
<1>1. TypeOK'
  BY DataAssumption, BoundAssumption DEF TypeOK, Content, ClientInv, CallInv
<1>2. (srv \in recent)'
  BY DEF TypeOK
<1>3. ASSUME NEW d \in Client PROVE ClientInv(d)'
  <2>1. ClientInv(d) /\ TypeOK BY <1>3
  <2>2. CallInv(d)'
    BY <2>1, DataAssumption DEF TypeOK, ClientInv, CallInv, Exposed, Opening
  <2>3. EntryInv(d)'
    BY <2>1, DataAssumption DEF TypeOK, ClientInv, CallInv, EntryInv
  <2>4. CopyInv(d)'
    BY <2>1, DataAssumption DEF TypeOK, ClientInv, CallInv, EntryInv, CopyInv, Clean, Opening
  <2> QED BY <2>2, <2>3, <2>4 DEF ClientInv
<1> QED BY <1>1, <1>2, <1>3

LEMMA NextInv == IInv /\ [Next]_vars => IInv'
<1> SUFFICES ASSUME IInv, [Next]_vars PROVE IInv' OBVIOUS
<1>1. CASE UNCHANGED vars
  BY <1>1 DEF IInv, TypeOK, ClientInv, CallInv, EntryInv, CopyInv, Clean, Opening,
              vars, serverVars, cacheVars, fetchVars, openVars
<1>2. ASSUME NEW c \in Client, OpenCall(c) PROVE IInv' BY <1>2, OpenCallInv
<1>3. ASSUME NEW c \in Client, TestAuth(c) PROVE IInv' BY <1>3, TestAuthInv
<1>4. ASSUME NEW c \in Client, FetchOpen(c) PROVE IInv' BY <1>4, FetchOpenInv
<1>5. ASSUME NEW c \in Client, FetchDone(c) PROVE IInv' BY <1>5, FetchDoneInv
<1>6. ASSUME NEW c \in Client, FetchBreaks(c) PROVE IInv' BY <1>6, FetchBreaksInv
<1>7. ASSUME NEW c \in Client, FetchFails(c) PROVE IInv' BY <1>7, FetchFailsInv
<1>8. ASSUME NEW c \in Client, Write(c) PROVE IInv' BY <1>8, WriteInv
<1>9. ASSUME NEW c \in Client, Close(c) PROVE IInv' BY <1>9, CloseInv
<1>10. ASSUME NEW c \in Client, StoreRename(c) PROVE IInv' BY <1>10, StoreRenameInv
<1>11. ASSUME NEW c \in Client, StoreDone(c) PROVE IInv' BY <1>11, StoreDoneInv
<1>12. ASSUME NEW c \in Client, StoreFails(c) PROVE IInv' BY <1>12, StoreFailsInv
<1>13. ASSUME NEW c \in Client, CreateStat(c) PROVE IInv' BY <1>13, CreateStatInv
<1>14. ASSUME NEW c \in Client, CreateFile(c) PROVE IInv' BY <1>14, CreateFileInv
<1>15. ASSUME NEW c \in Client, CreateDone(c) PROVE IInv' BY <1>15, CreateDoneInv
<1>16. ASSUME NEW c \in Client, DeleteFile(c) PROVE IInv' BY <1>16, DeleteFileInv
<1>17. ASSUME NEW c \in Client, DeleteDone(c) PROVE IInv' BY <1>17, DeleteDoneInv
<1>18. ASSUME NEW c \in Client, Unanswered(c) PROVE IInv' BY <1>18, UnansweredInv
<1>19. ASSUME NEW c \in Client, ClientCrash(c) PROVE IInv' BY <1>19, ClientCrashInv
<1>20. CASE ServerRestart BY <1>20, ServerRestartInv
<1> QED
  BY <1>1, <1>2, <1>3, <1>4, <1>5, <1>6, <1>7, <1>8, <1>9, <1>10,
     <1>11, <1>12, <1>13, <1>14, <1>15, <1>16, <1>17, <1>18, <1>19, <1>20 DEF Next

LEMMA Invariance == Spec => []IInv
BY InitInv, NextInv, PTL DEF Spec

-----------------------------------------------------------------------------
(* What the runs check, for every value of the constants *)

\* The types of the clients' and the server's state.
THEOREM CacheTypes == Spec => []TypeOK
<1>1. IInv => TypeOK BY DEF IInv
<1> QED BY <1>1, Invariance, PTL

\* A copy with the server's version is what the file holds, unless the file was
\* deleted, the server restarted or a change raced with the call that took the
\* copy (cached versions of client.go against versions of handler.go).
THEOREM ValidCopies == Spec => []ValidIsCurrent
<1>1. IInv => ValidIsCurrent
  BY DEF IInv, ClientInv, CopyInv, ValidIsCurrent
<1> QED BY <1>1, Invariance, PTL

\* What Client.Open returns: a fetched file is what the server's file held while
\* Open ran, whatever happened meanwhile; a copy that TestAuth trusted is that, or
\* what a change half done when Open began had replaced, unless it is stale.
THEOREM FreshOpens == Spec => []OpenFresh
<1>1. IInv => OpenFresh
  BY DEF IInv, ClientInv, CopyInv, OpenFresh
<1> QED BY <1>1, Invariance, PTL

=============================================================================
