----------------------------- MODULE IpcProofs ------------------------------
(***************************************************************************)
(* Proofs about the IPC server, for every set of connections, requests,    *)
(* profiles, nodes, processes and faults.                                  *)
(***************************************************************************)
EXTENDS IpcServer, SingboxProofs, SequenceTheorems

\* What the handler of a connection holds while it awaits something.
TaskInv ==
  \A c \in Conns :
    /\ pc[c] # "line" => request[c] \in Requests
    /\ pc[c] \in {"fetch_lock", "network", "store"} => request[c].cmd = "FETCH"
    /\ pc[c] = "backend" => request[c].cmd \in {"CONNECT", "DISCONNECT", "STATUS"}
    /\ pc[c] = "start" => request[c].cmd = "CONNECT"
    /\ pc[c] = "call" => request[c].cmd \in {"CONNECT", "DISCONNECT"}
    /\ pc[c] \in {"backend", "start", "call"} /\ request[c].cmd = "CONNECT"
         => local[c] \in Profiles

\* Who owns the locks that are kept across awaits.
OwnInv ==
  \A c \in Conns :
    /\ pc[c] \in {"network", "store"} => Owns(c, fetchLock)
    /\ pc[c] \in {"start", "call"} => Owns(c, backendLock)

TypeInv == ServerTypeOK /\ TaskInv /\ OwnInv

-----------------------------------------------------------------------------
(* Types, and the server's use of the backend                              *)

\* A FIFO lock that a task joins or leaves still is a sequence of tasks.
LEMMA LockTypes ==
  ASSUME NEW S, NEW s \in Seq(S)
  PROVE  /\ \A c \in S : Append(s, c) \in Seq(S)
         /\ s # <<>> => Head(s) \in S /\ Tail(s) \in Seq(S)
  BY AppendProperties, HeadTailProperties

\* The tasks start with no request, lock or profile.
LEMMA InitTypeInv == Init => TypeInv
  <1> SUFFICES ASSUME Init
               PROVE  TypeInv
    OBVIOUS
  <1>1. TypeOK
    BY InitIInv DEF Init, IInv
  <1>2. <<>> \in Seq(Conns)
    OBVIOUS
  <1>3. ServerTypeOK
    BY <1>1, <1>2 DEF Init, ServerTypeOK, Awaits
  <1>4. TaskInv
    BY DEF Init, TaskInv
  <1>5. OwnInv
    BY DEF Init, OwnInv
  <1>6. QED
    BY <1>3, <1>4, <1>5 DEF TypeInv

\* Whatever the server does, it calls the backend as its API allows.
LEMMA StepBackend == TypeInv /\ [Next]_svars => [BackendNext]_bvars
  <1> SUFFICES ASSUME TypeInv, [Next]_svars
               PROVE  [BackendNext]_bvars
    OBVIOUS
  <1>1. ASSUME NEW c \in Conns, ConnectApplies(c)
        PROVE  BackendNext
    <2>1. local[c] \in Profiles /\ request[c].node \in Selections
      BY <1>1, ServerAssumption
      DEF TypeInv, TaskInv, ServerTypeOK, ConnectApplies, At, Selections
    <2>2. ApplyProfile(local[c], request[c].node)
      BY <1>1 DEF ConnectApplies
    <2>3. QED
      BY <2>1, <2>2 DEF BackendNext
  <1>2. ASSUME NEW c \in Conns, ConnectStarts(c) \/ DisconnectStops(c) \/ StatusAnswers(c)
        PROVE  [BackendNext]_bvars
    BY <1>2 DEF ConnectStarts, DisconnectStops, StatusAnswers, BackendNext
  <1>3. ASSUME NEW c \in Conns, NEW r \in Requests, Receive(c, r)
        PROVE  UNCHANGED bvars
    BY <1>3 DEF Receive
  <1>4. ASSUME NEW c \in Conns, Step(c)
        PROVE  [BackendNext]_bvars
    BY <1>1, <1>2, <1>4
    DEF Step, FetchBegin, FetchReturns, Store, GetProfile, StatusReads,
        ConnectWithoutProfile, ConnectClones, ConnectFindsBinary, ConnectFindsNoBinary,
        DisconnectNothing, CallReturns
  <1>5. CASE BackendStep \/ \E p \in Pids : Exits(p)
    BY <1>5 DEF BackendStep, Exits, BackendNext
  <1>6. QED
    BY <1>3, <1>4, <1>5 DEF Next, svars

\* A task that joins the queue of a lock takes the lock from nobody.
LEMMA JoinKeepsOwner ==
  ASSUME NEW S, NEW s \in Seq(S), NEW c \in S, NEW d \in S, Owns(d, s)
  PROVE  Owns(d, Append(s, c))
  BY HeadTailAppend, AppendProperties DEF Owns

\* Only the owner of a lock releases it.
LEMMA StepOwnInv == TypeInv /\ [Next]_svars => OwnInv'
  <1> SUFFICES ASSUME TypeInv, [Next]_svars, NEW d \in Conns
               PROVE  /\ pc'[d] \in {"network", "store"} => Owns(d, fetchLock')
                      /\ pc'[d] \in {"start", "call"} => Owns(d, backendLock')
    BY DEF OwnInv, Owns
  <1>0. fetchLock \in Seq(Conns) /\ backendLock \in Seq(Conns) /\ pc \in [Conns -> Awaits]
    BY DEF TypeInv, ServerTypeOK
  <1>1. /\ pc[d] \in {"network", "store"} => Owns(d, fetchLock)
        /\ pc[d] \in {"start", "call"} => Owns(d, backendLock)
    BY DEF TypeInv, OwnInv
  <1>2. \A c \in Conns :
          /\ pc[d] \in {"network", "store"} => Owns(d, Append(fetchLock, c))
          /\ pc[d] \in {"start", "call"} => Owns(d, Append(backendLock, c))
    BY <1>0, <1>1, JoinKeepsOwner
  <1> USE DEF At, GoesTo, Answers
  <1>3. ASSUME NEW c \in Conns, NEW r \in Requests, Receive(c, r)
        PROVE  /\ pc'[d] \in {"network", "store"} => Owns(d, fetchLock')
               /\ pc'[d] \in {"start", "call"} => Owns(d, backendLock')
    BY <1>0, <1>1, <1>2, <1>3 DEF Receive
  <1>4. ASSUME NEW c \in Conns,
               FetchBegin(c) \/ (\E p \in Profiles \cup {None} : FetchReturns(c, p))
        PROVE  /\ pc'[d] \in {"network", "store"} => Owns(d, fetchLock')
               /\ pc'[d] \in {"start", "call"} => Owns(d, backendLock')
    BY <1>0, <1>1, <1>4 DEF FetchBegin, FetchReturns, locks
  <1>5. ASSUME NEW c \in Conns, Store(c)
        PROVE  /\ pc'[d] \in {"network", "store"} => Owns(d, fetchLock')
               /\ pc'[d] \in {"start", "call"} => Owns(d, backendLock')
    <2>1. Owns(c, fetchLock)
      BY <1>5 DEF TypeInv, OwnInv, Store
    <2>2. QED
      BY <1>0, <1>1, <1>5, <2>1 DEF Store, Owns
  <1>6. ASSUME NEW c \in Conns,
               GetProfile(c) \/ StatusReads(c) \/ ConnectWithoutProfile(c) \/ ConnectClones(c)
        PROVE  /\ pc'[d] \in {"network", "store"} => Owns(d, fetchLock')
               /\ pc'[d] \in {"start", "call"} => Owns(d, backendLock')
    BY <1>0, <1>1, <1>2, <1>6
    DEF GetProfile, StatusReads, ConnectWithoutProfile, ConnectClones
  <1>7. ASSUME NEW c \in Conns,
               StatusAnswers(c) \/ ConnectFindsNoBinary(c) \/ DisconnectNothing(c)
        PROVE  /\ pc'[d] \in {"network", "store"} => Owns(d, fetchLock')
               /\ pc'[d] \in {"start", "call"} => Owns(d, backendLock')
    BY <1>0, <1>1, <1>7
    DEF StatusAnswers, ConnectFindsNoBinary, DisconnectNothing, Owns
  <1>8. ASSUME NEW c \in Conns,
               \/ ConnectFindsBinary(c)
               \/ ConnectApplies(c)
               \/ ConnectStarts(c)
               \/ DisconnectStops(c)
        PROVE  /\ pc'[d] \in {"network", "store"} => Owns(d, fetchLock')
               /\ pc'[d] \in {"start", "call"} => Owns(d, backendLock')
    BY <1>0, <1>1, <1>8
    DEF ConnectFindsBinary, ConnectApplies, ConnectStarts, DisconnectStops, Owns, tasks, locks
  <1>9. ASSUME NEW c \in Conns, CallReturns(c)
        PROVE  /\ pc'[d] \in {"network", "store"} => Owns(d, fetchLock')
               /\ pc'[d] \in {"start", "call"} => Owns(d, backendLock')
    <2>1. Owns(c, backendLock)
      BY <1>9 DEF TypeInv, OwnInv, CallReturns
    <2>2. QED
      BY <1>0, <1>1, <1>9, <2>1 DEF CallReturns, Owns
  <1>10. CASE BackendStep \/ (\E p \in Pids : Exits(p)) \/ UNCHANGED svars
    BY <1>1, <1>10 DEF BackendStep, Exits, UnchangedServer, svars, tasks, locks
  <1>11. QED
    BY <1>3, <1>4, <1>5, <1>6, <1>7, <1>8, <1>9, <1>10 DEF Next, Step

\* Steps that move one task keep the types of every task.
LEMMA StepTypeInv == TypeInv /\ TypeOK' /\ [Next]_svars => (ServerTypeOK /\ TaskInv)'
  <1> SUFFICES ASSUME TypeInv, TypeOK', [Next]_svars
               PROVE  (ServerTypeOK /\ TaskInv)'
    OBVIOUS
  <1>0. /\ \A c \in Conns : /\ Append(fetchLock, c) \in Seq(Conns)
                            /\ Append(dataLock, c) \in Seq(Conns)
                            /\ Append(backendLock, c) \in Seq(Conns)
        /\ fetchLock # <<>> => Tail(fetchLock) \in Seq(Conns)
        /\ dataLock # <<>> => Tail(dataLock) \in Seq(Conns)
        /\ backendLock # <<>> => Tail(backendLock) \in Seq(Conns)
    BY LockTypes DEF TypeInv, ServerTypeOK
  <1> USE <1>0 DEF TypeInv, ServerTypeOK, TaskInv, Awaits, At, GoesTo, Keeps, Answers,
          Owns, MayRead, MayWrite
  <1>1. ASSUME NEW c \in Conns, NEW r \in Requests, Receive(c, r)
        PROVE  (ServerTypeOK /\ TaskInv)'
    <2>1. r.cmd \in Commands
      BY ServerAssumption
    <2>2. Fetching \subseteq Conns
      BY DEF Fetching
    <2>3. CASE r.cmd = "FETCH"
      BY <1>1, <2>2, <2>3 DEF Receive, shared
    <2>4. CASE r.cmd \in {"CONNECT", "STATUS", "GET_PROFILE"}
      BY <1>1, <2>4 DEF Receive, shared
    <2>5. CASE r.cmd = "DISCONNECT"
      BY <1>1, <2>5 DEF Receive, shared
    <2>6. QED
      BY <2>1, <2>3, <2>4, <2>5 DEF Commands
  <1>2. ASSUME NEW c \in Conns, FetchBegin(c)
        PROVE  (ServerTypeOK /\ TaskInv)'
    BY <1>2 DEF FetchBegin, shared, locks
  <1>3. ASSUME NEW c \in Conns, NEW p \in Profiles \cup {None}, FetchReturns(c, p)
        PROVE  (ServerTypeOK /\ TaskInv)'
    BY <1>3 DEF FetchReturns, shared
  <1>4. ASSUME NEW c \in Conns, Store(c) \/ GetProfile(c)
        PROVE  (ServerTypeOK /\ TaskInv)'
    <2>2. CASE Store(c)
      <3>0. fetchLock # <<>>
        BY <2>2 DEF OwnInv, Store
      <3>1. profile' \in Profiles \cup {None} /\ fetchError' \in BOOLEAN
        BY <2>2 DEF Store
      <3>2. before' \in [Conns -> SUBSET Conns]
        BY <2>2 DEF Store
      <3>3. QED
        BY <2>2, <3>0, <3>1, <3>2 DEF Store
    <2>3. CASE GetProfile(c)
      BY <2>3 DEF GetProfile, shared
    <2>4. QED
      BY <1>4, <2>2, <2>3
  <1>5. ASSUME NEW c \in Conns, StatusReads(c) \/ StatusAnswers(c)
        PROVE  (ServerTypeOK /\ TaskInv)'
    BY <1>5 DEF StatusReads, StatusAnswers, shared
  <1>6. ASSUME NEW c \in Conns,
               \/ ConnectWithoutProfile(c)
               \/ ConnectClones(c)
               \/ ConnectFindsBinary(c)
               \/ ConnectFindsNoBinary(c)
        PROVE  (ServerTypeOK /\ TaskInv)'
    <2>1. CASE ConnectWithoutProfile(c)
      BY <2>1 DEF ConnectWithoutProfile, shared
    <2>2. CASE ConnectClones(c)
      BY <2>2 DEF ConnectClones, shared
    <2>3. CASE ConnectFindsBinary(c)
      BY <2>3 DEF ConnectFindsBinary, tasks, locks
    <2>4. CASE ConnectFindsNoBinary(c)
      BY <2>4 DEF ConnectFindsNoBinary, shared
    <2>5. QED
      BY <1>6, <2>1, <2>2, <2>3, <2>4
  <1>7. ASSUME NEW c \in Conns, ConnectApplies(c) \/ ConnectStarts(c)
        PROVE  (ServerTypeOK /\ TaskInv)'
    <2>1. CASE ConnectApplies(c) /\ outcome' = "Ok"
      BY <2>1 DEF ConnectApplies, shared
    <2>2. CASE ConnectApplies(c) /\ outcome' # "Ok"
      <3>1. Answers(c) /\ backendLock' = Tail(backendLock) /\ backendLock # <<>>
        BY <2>2 DEF ConnectApplies
      <3>2. UNCHANGED <<profile, fetchError, present, fetchLock, dataLock, readers, before>>
        BY <2>2 DEF ConnectApplies, shared
      <3>3. QED
        BY <3>1, <3>2
    <2>3. CASE ConnectStarts(c)
      BY <2>3 DEF ConnectStarts, shared, locks
    <2>4. QED
      BY <1>7, <2>1, <2>2, <2>3
  <1>8. ASSUME NEW c \in Conns, DisconnectNothing(c) \/ DisconnectStops(c)
        PROVE  (ServerTypeOK /\ TaskInv)'
    <2>1. CASE DisconnectNothing(c)
      BY <2>1 DEF DisconnectNothing, shared
    <2>2. CASE DisconnectStops(c)
      BY <2>2 DEF DisconnectStops, shared, locks
    <2>3. QED
      BY <1>8, <2>1, <2>2
  <1>9. ASSUME NEW c \in Conns, CallReturns(c)
        PROVE  (ServerTypeOK /\ TaskInv)'
    <2>1. backendLock # <<>>
      BY <1>9 DEF OwnInv, CallReturns
    <2>2. QED
      BY <1>9, <2>1 DEF CallReturns, shared
  <1>10. CASE BackendStep \/ (\E p \in Pids : Exits(p)) \/ UNCHANGED svars
    BY <1>10 DEF BackendStep, Exits, UnchangedServer, svars, shared, tasks, locks
  <1>11. QED
    BY <1>1, <1>2, <1>3, <1>4, <1>5, <1>6, <1>7, <1>8, <1>9, <1>10 DEF Next, Step

-----------------------------------------------------------------------------
(* FETCH                                                                   *)

\* fetch_lock holds each FETCH in progress once, and in front of it every
\* FETCH that was received before it and is still in progress.
FetchInv ==
  /\ \A i, j \in 1 .. Len(fetchLock) : fetchLock[i] = fetchLock[j] => i = j
  /\ \A c \in Fetching : \E i \in 1 .. Len(fetchLock) : fetchLock[i] = c
  /\ \A i \in 1 .. Len(fetchLock) : fetchLock[i] \in Fetching
  /\ \A i \in 1 .. Len(fetchLock) : \A c \in before[fetchLock[i]] :
       \E j \in 1 .. (i - 1) : fetchLock[j] = c

\* A new FETCH goes behind those in progress, the first leaves in front.
LEMMA StepFetchInv == TypeInv /\ FetchInv /\ [Next]_svars => FetchInv'
  <1> SUFFICES ASSUME TypeInv, FetchInv, [Next]_svars
               PROVE  FetchInv'
    OBVIOUS
  <1>0. /\ fetchLock \in Seq(Conns)
        /\ pc \in [Conns -> Awaits]
        /\ request \in [Conns -> Requests \cup {None}]
        /\ before \in [Conns -> SUBSET Conns]
    BY DEF TypeInv, ServerTypeOK
  <1>1. ASSUME NEW c \in Conns, NEW r \in Requests, Receive(c, r), r.cmd = "FETCH"
        PROVE  FetchInv'
    <2>1. /\ fetchLock' = Append(fetchLock, c)
          /\ before' = [before EXCEPT ![c] = Fetching]
      BY <1>1 DEF Receive
    <2>2. Fetching' = Fetching \cup {c} /\ c \notin Fetching
      BY <1>0, <1>1 DEF Receive, Fetching, GoesTo
    <2>3. /\ Len(fetchLock') = Len(fetchLock) + 1
          /\ \A i \in 1 .. Len(fetchLock) : fetchLock'[i] = fetchLock[i]
          /\ fetchLock'[Len(fetchLock) + 1] = c
          /\ Len(fetchLock) \in Nat
      BY <1>0, <2>1, AppendProperties
    <2>4. \A i \in 1 .. Len(fetchLock) : fetchLock[i] # c /\ fetchLock[i] \in Conns
      BY <2>2 DEF FetchInv, Fetching
    <2>5. /\ \A i \in 1 .. Len(fetchLock) : before'[fetchLock[i]] = before[fetchLock[i]]
          /\ before'[c] = Fetching
      BY <1>0, <2>1, <2>4
    <2>6. \A i, j \in 1 .. Len(fetchLock)' : fetchLock'[i] = fetchLock'[j] => i = j
      BY <2>3, <2>4 DEF FetchInv
    <2>7. \A d \in Fetching' : \E i \in 1 .. Len(fetchLock)' : fetchLock'[i] = d
      BY <2>2, <2>3 DEF FetchInv
    <2>8. \A i \in 1 .. Len(fetchLock)' : fetchLock'[i] \in Fetching'
      BY <2>2, <2>3 DEF FetchInv
    <2>9. \A i \in 1 .. Len(fetchLock)' : \A d \in before'[fetchLock'[i]] :
            \E j \in 1 .. (i - 1) : fetchLock'[j] = d
      <3> SUFFICES ASSUME NEW i \in 1 .. Len(fetchLock)', NEW d \in before'[fetchLock'[i]]
                   PROVE  \E j \in 1 .. (i - 1) : fetchLock'[j] = d
        OBVIOUS
      <3>1. CASE i = Len(fetchLock) + 1
        <4>1. d \in Fetching
          BY <2>3, <2>5, <3>1
        <4>2. PICK j \in 1 .. Len(fetchLock) : fetchLock[j] = d
          BY <4>1 DEF FetchInv
        <4>3. QED
          BY <2>3, <3>1, <4>2
      <3>2. CASE i \in 1 .. Len(fetchLock)
        <4>1. d \in before[fetchLock[i]]
          BY <2>3, <2>5, <3>2
        <4>2. PICK j \in 1 .. (i - 1) : fetchLock[j] = d
          BY <3>2, <4>1 DEF FetchInv
        <4>3. QED
          BY <2>3, <3>2, <4>2
      <3>3. QED
        BY <2>3, <3>1, <3>2
    <2>10. QED
      BY <2>6, <2>7, <2>8, <2>9 DEF FetchInv
  <1>2. ASSUME NEW c \in Conns, Store(c)
        PROVE  FetchInv'
    <2>1. fetchLock # <<>> /\ fetchLock[1] = c
      BY <1>0, <1>2 DEF TypeInv, OwnInv, Owns, Store, At
    <2>2. /\ Len(fetchLock') = Len(fetchLock) - 1
          /\ \A i \in 1 .. Len(fetchLock') : fetchLock'[i] = fetchLock[i + 1]
          /\ Len(fetchLock) \in Nat \ {0}
      BY <1>0, <1>2, <2>1, HeadTailProperties DEF Store
    <2>3. Fetching' = Fetching \ {c}
      BY <1>0, <1>2 DEF Store, Answers, GoesTo, Fetching
    <2>4. \A d \in Conns : before'[d] = before[d] \ {c}
      BY <1>2 DEF Store
    <2>5. \A i \in 2 .. Len(fetchLock) : fetchLock[i] # c /\ fetchLock[i] \in Conns
      BY <2>1, <2>2 DEF FetchInv, Fetching
    <2>6. \A i, j \in 1 .. Len(fetchLock)' : fetchLock'[i] = fetchLock'[j] => i = j
      BY <2>2 DEF FetchInv
    <2>7. \A d \in Fetching' : \E i \in 1 .. Len(fetchLock)' : fetchLock'[i] = d
      <3> SUFFICES ASSUME NEW d \in Fetching'
                   PROVE  \E i \in 1 .. Len(fetchLock)' : fetchLock'[i] = d
        OBVIOUS
      <3>1. PICK i \in 1 .. Len(fetchLock) : fetchLock[i] = d
        BY <2>3 DEF FetchInv
      <3>2. i # 1
        BY <2>1, <2>3, <3>1
      <3>3. i - 1 \in 1 .. Len(fetchLock)' /\ fetchLock'[i - 1] = d
        BY <2>2, <3>1, <3>2
      <3>4. QED
        BY <3>3
    <2>8. \A i \in 1 .. Len(fetchLock)' : fetchLock'[i] \in Fetching'
      BY <2>2, <2>3, <2>5 DEF FetchInv
    <2>9. \A i \in 1 .. Len(fetchLock)' : \A d \in before'[fetchLock'[i]] :
            \E j \in 1 .. (i - 1) : fetchLock'[j] = d
      <3> SUFFICES ASSUME NEW i \in 1 .. Len(fetchLock)', NEW d \in before'[fetchLock'[i]]
                   PROVE  \E j \in 1 .. (i - 1) : fetchLock'[j] = d
        OBVIOUS
      <3>1. i + 1 \in 2 .. Len(fetchLock) /\ fetchLock'[i] = fetchLock[i + 1]
        BY <2>2
      <3>2. d \in before[fetchLock[i + 1]] /\ d # c
        BY <2>4, <2>5, <3>1
      <3>3. PICK j \in 1 .. (i + 1 - 1) : fetchLock[j] = d
        BY <3>1, <3>2 DEF FetchInv
      <3>4. j # 1
        BY <2>1, <3>2, <3>3
      <3>5. j - 1 \in 1 .. (i - 1) /\ fetchLock'[j - 1] = d
        BY <2>2, <3>1, <3>3, <3>4
      <3>6. QED
        BY <3>5
    <2>10. QED
      BY <2>6, <2>7, <2>8, <2>9 DEF FetchInv
  <1>3. ASSUME UNCHANGED <<fetchLock, before>>, Fetching' = Fetching
        PROVE  FetchInv'
    BY <1>3 DEF FetchInv
  <1> USE DEF TypeInv, TaskInv, At, GoesTo, Answers, Fetching
  <1>4. ASSUME NEW c \in Conns, NEW r \in Requests, Receive(c, r), r.cmd # "FETCH"
        PROVE  FetchInv'
    BY <1>0, <1>3, <1>4 DEF Receive
  <1>5. ASSUME NEW c \in Conns,
               FetchBegin(c) \/ (\E p \in Profiles \cup {None} : FetchReturns(c, p))
        PROVE  FetchInv'
    BY <1>0, <1>3, <1>5 DEF FetchBegin, FetchReturns, locks
  <1>6. ASSUME NEW c \in Conns,
               \/ GetProfile(c) \/ StatusReads(c) \/ StatusAnswers(c)
               \/ ConnectWithoutProfile(c) \/ ConnectClones(c)
        PROVE  FetchInv'
    BY <1>0, <1>3, <1>6
    DEF GetProfile, StatusReads, StatusAnswers, ConnectWithoutProfile, ConnectClones
  <1>7. ASSUME NEW c \in Conns,
               \/ ConnectFindsBinary(c) \/ ConnectFindsNoBinary(c)
               \/ ConnectApplies(c) \/ ConnectStarts(c)
        PROVE  FetchInv'
    BY <1>0, <1>3, <1>7
    DEF ConnectFindsBinary, ConnectFindsNoBinary, ConnectApplies, ConnectStarts, tasks, locks
  <1>8. ASSUME NEW c \in Conns, DisconnectNothing(c) \/ DisconnectStops(c) \/ CallReturns(c)
        PROVE  FetchInv'
    BY <1>0, <1>3, <1>8 DEF DisconnectNothing, DisconnectStops, CallReturns, locks
  <1>9. CASE BackendStep \/ (\E p \in Pids : Exits(p)) \/ UNCHANGED svars
    BY <1>3, <1>9 DEF BackendStep, Exits, UnchangedServer, svars, tasks, locks
  <1>10. QED
    BY <1>1, <1>2, <1>4, <1>5, <1>6, <1>7, <1>8, <1>9 DEF Next, Step

-----------------------------------------------------------------------------
(* CONNECT and DISCONNECT                                                  *)

\* What a CONNECT that has applied its profile, and a backend method that a
\* handler has called, know of the backend.
MutexInv ==
  /\ call # "none" => backendLock # <<>> /\ pc[Head(backendLock)] = "call"
  /\ \A c \in Conns : pc[c] = "start" =>
       /\ call = "none"
       /\ state = "idle"
       /\ config = <<local[c], request[c].node>>
       /\ config # None
  /\ \A c \in Conns : pc[c] = "call" /\ request[c].cmd = "CONNECT" =>
       /\ config = <<local[c], request[c].node>>
       /\ call \in {"none", "write", "spawn", "settle"}
       /\ call = "none" /\ outcome = "Ok" => state = "running"
  /\ \A c \in Conns : pc[c] = "call" /\ request[c].cmd = "DISCONNECT" =>
       /\ call \in {"none", "kill", "reap"}
       /\ call = "none" /\ outcome = "Ok" => state = "idle"
  /\ \A c \in Conns : pc[c] \in {"start", "call"} => present
  /\ ~present => state = "idle" /\ call = "none"
  /\ state = "idle" /\ call = "none" /\ (\A c \in Conns : pc[c] # "start") => ~configPath

SInv == TypeInv /\ IInv /\ FetchInv /\ MutexInv

\* A task in the start or call of a backend method is the only one.
InBackend == {c \in Conns : pc[c] \in {"start", "call"}}

\* The owner of the mutex, when it is not in the backend, finds nobody there
\* and no method half done.
LEMMA OwnerAlone ==
  ASSUME TypeInv, MutexInv, NEW c \in Conns, Owns(c, backendLock),
         pc[c] \notin {"start", "call"}
  PROVE  InBackend = {} /\ call = "none"
  BY DEF InBackend, TypeInv, OwnInv, Owns, MutexInv

\* Steps of tasks outside the backend do not disturb those inside.
LEMMA QuietStep ==
  ASSUME TypeInv, MutexInv, UNCHANGED <<bvars, present>>, InBackend' = InBackend,
         \A d \in InBackend :
           pc'[d] = pc[d] /\ request'[d] = request[d] /\ local'[d] = local[d],
         \/ backendLock' = backendLock
         \/ \E c \in Conns : backendLock' = Append(backendLock, c)
         \/ call = "none"
  PROVE  MutexInv'
  <1>1. call # "none" =>
          backendLock' # <<>> /\ Head(backendLock') = Head(backendLock)
    <2>1. backendLock \in Seq(Conns)
      BY DEF TypeInv, ServerTypeOK
    <2>2. ASSUME NEW c \in Conns, backendLock # <<>>
          PROVE  /\ Append(backendLock, c) # <<>>
                 /\ Head(Append(backendLock, c)) = Head(backendLock)
      BY <2>1, <2>2, HeadTailAppend, AppendProperties
    <2>3. QED
      BY <2>2 DEF MutexInv
  <1>2. call # "none" => pc'[Head(backendLock')] = "call"
    <2> SUFFICES ASSUME call # "none"
                 PROVE  pc'[Head(backendLock')] = "call"
      OBVIOUS
    <2>1. Head(backendLock) \in Conns
      BY HeadTailProperties DEF MutexInv, TypeInv, ServerTypeOK
    <2>2. Head(backendLock) \in InBackend
      BY <2>1 DEF InBackend, MutexInv
    <2>3. QED
      BY <1>1, <2>2 DEF MutexInv
  <1>3. \A d \in Conns : pc'[d] \in {"start", "call"} <=> d \in InBackend
    BY DEF InBackend
  <1>4. UNCHANGED <<state, config, configPath, call, outcome, present>>
    BY DEF bvars, engine
  <1>5. \A d \in Conns : pc'[d] = "start" <=> pc[d] = "start"
    BY <1>3 DEF InBackend
  <1>6. QED
    BY <1>1, <1>2, <1>3, <1>4, <1>5 DEF MutexInv, InBackend

\* apply_profile and start() under the mutex.
LEMMA ConnectMutexInv ==
  ASSUME TypeInv, TypeInv', IInv, MutexInv, NEW c \in Conns,
         ConnectApplies(c) \/ ConnectStarts(c)
  PROVE  MutexInv'
  <1>0. pc \in [Conns -> Awaits] /\ request \in [Conns -> Requests \cup {None}]
    BY DEF TypeInv, ServerTypeOK
  <1>1. CASE ConnectApplies(c)
    <2>1. /\ At(c, "CONNECT", "backend") /\ Owns(c, backendLock) /\ present
          /\ UNCHANGED <<present, configPath, call>>
          /\ IF outcome' = "Ok" THEN pc' = [pc EXCEPT ![c] = "start"] /\ UNCHANGED <<request, local>>
                              ELSE pc' = [pc EXCEPT ![c] = "line"]
      BY <1>1
      DEF ConnectApplies, shared, Answers, GoesTo, ApplyProfile, ApplyRejected,
          ApplyInvalid, ApplyAccepted
    <2>2. InBackend = {} /\ call = "none"
      BY <2>1, OwnerAlone DEF At
    <2>3. CASE outcome' = "Ok"
      <3>1. ApplyAccepted(local[c], request[c].node)
        BY <1>1, <2>3 DEF ConnectApplies, ApplyProfile, ApplyRejected, ApplyInvalid
      <3>2. state' = "idle" /\ config' = <<local[c], request[c].node>> /\ config' # None
        BY <2>2, <3>1, RefreshFacts, BackendAssumption
        DEF ApplyAccepted, Adopt, Steady, Exited, IInv, CallInv
      <3>3. \A d \in Conns : pc'[d] \in {"start", "call"} => d = c
        BY <1>0, <2>1, <2>2, <2>3 DEF InBackend
      <3>4. pc'[c] = "start" /\ local'[c] = local[c] /\ request'[c] = request[c]
        BY <1>0, <2>1, <2>3
      <3>5. QED
        BY <2>1, <2>2, <3>2, <3>3, <3>4 DEF MutexInv
    <2>4. CASE outcome' # "Ok"
      <3>1. \A d \in Conns : pc'[d] \notin {"start", "call"} /\ pc[d] # "start"
        BY <1>0, <2>1, <2>2, <2>4 DEF InBackend
      <3>2. PICK r \in Refreshed : Adopt(r)
        BY <1>1, <2>4
        DEF ConnectApplies, ApplyProfile, ApplyRejected, ApplyInvalid, ApplyAccepted
      <3>3. state' = "idle" => state = "idle"
        <4>1. r.state = state \/ r.state = "error"
          BY RefreshFacts DEF Steady, Exited
        <4>2. QED
          BY <3>2, <4>1 DEF Adopt
      <3>4. QED
        BY <2>1, <2>2, <3>1, <3>3 DEF MutexInv
    <2>5. QED
      BY <2>3, <2>4
  <1>2. CASE ConnectStarts(c)
    <2>1. /\ call = "none" /\ state = "idle" /\ config # None /\ present
          /\ config = <<local[c], request[c].node>>
          /\ Owns(c, backendLock)
          /\ request[c].cmd = "CONNECT"
      BY <1>2 DEF ConnectStarts, At, MutexInv, TypeInv, OwnInv
    <2>2. StartBegin
      BY <1>2, <2>1, RefreshFacts DEF ConnectStarts, Start, StartRejected, Steady
    <2>3. \A d \in Conns : pc'[d] \in {"start", "call"} => d = c
      BY <1>0, <1>2, <2>1 DEF ConnectStarts, GoesTo, TypeInv, OwnInv, Owns
    <2>4. pc'[c] = "call" /\ UNCHANGED <<request, local, backendLock, present>>
      BY <1>0, <1>2 DEF ConnectStarts, GoesTo, locks, shared
    <2>5. call' = "write" /\ UNCHANGED config
      BY <2>2 DEF StartBegin
    <2>6. QED
      BY <2>1, <2>3, <2>4, <2>5 DEF MutexInv, Owns
  <1>3. QED
    BY <1>1, <1>2

\* The steps of a backend method that a handler has called.
LEMMA MethodMutexInv ==
  ASSUME TypeInv, IInv, MutexInv, BackendStep
  PROVE  MutexInv'
  <1>1. call # "none" /\ UNCHANGED <<pc, request, local, backendLock, present, config>>
    BY DEF BackendStep, Proceed, UnchangedServer, tasks, shared, locks, WriteConfig,
           WriteFails, SpawnSucceeds, SpawnFails, Settle, KillNothing, KillSucceeds, Reap,
           StopFails, StartFails, StopFinish
  <1>2. PICK h \in Conns : h = Head(backendLock) /\ backendLock # <<>> /\ pc[h] = "call"
    BY <1>1, HeadTailProperties DEF MutexInv, TypeInv, ServerTypeOK
  <1>3. /\ \A d \in Conns : pc[d] \in {"start", "call"} => d = h
        /\ present
        /\ request[h].cmd \in {"CONNECT", "DISCONNECT"}
    BY <1>2 DEF TypeInv, OwnInv, TaskInv, Owns, MutexInv
  <1>4. CASE request[h].cmd = "CONNECT"
    <2>1. WriteConfig \/ WriteFails \/ SpawnSucceeds \/ SpawnFails \/ Settle
      BY <1>2, <1>4
      DEF BackendStep, Proceed, MutexInv, KillNothing, KillSucceeds, Reap, StopFails
    <2>2. /\ call' \in {"none", "spawn", "settle"}
          /\ call' = "none" => state' \in {"running", "error"}
          /\ call' = "none" /\ outcome' = "Ok" => state' = "running"
      BY <2>1, RefreshFacts
      DEF WriteConfig, WriteFails, SpawnSucceeds, SpawnFails, Settle, StartFails, Adopt,
          Steady, Exited, IInv, CallInv
    <2>3. QED
      BY <1>1, <1>2, <1>3, <1>4, <2>2 DEF MutexInv
  <1>5. CASE request[h].cmd = "DISCONNECT"
    <2>1. KillNothing \/ KillSucceeds \/ Reap \/ StopFails
      BY <1>1, <1>2, <1>5
      DEF BackendStep, Proceed, MutexInv, WriteConfig, WriteFails, SpawnSucceeds,
          SpawnFails, Settle
    <2>2. /\ call' \in {"none", "reap"}
          /\ call' = "none" =>
               \/ state' = "idle" /\ configPath' = FALSE
               \/ state' = "error" /\ outcome' = "Process"
      BY <2>1 DEF KillNothing, KillSucceeds, Reap, StopFails, StopFinish
    <2>3. QED
      BY <1>1, <1>2, <1>3, <1>5, <2>2 DEF MutexInv
  <1>6. QED
    BY <1>3, <1>4, <1>5

\* Every step of the server keeps what the handlers know of the backend.
LEMMA StepMutexInv == TypeInv /\ TypeInv' /\ IInv /\ MutexInv /\ [Next]_svars => MutexInv'
  <1> SUFFICES ASSUME TypeInv, TypeInv', IInv, MutexInv, [Next]_svars
               PROVE  MutexInv'
    OBVIOUS
  <1>0. pc \in [Conns -> Awaits] /\ request \in [Conns -> Requests \cup {None}]
        /\ local \in [Conns -> Profiles \cup {None}]
    BY DEF TypeInv, ServerTypeOK
  <1>1. ASSUME NEW c \in Conns, NEW r \in Requests, Receive(c, r)
        PROVE  MutexInv'
    BY <1>0, <1>1, QuietStep DEF Receive, InBackend, GoesTo, shared
  <1>2. ASSUME NEW c \in Conns,
               FetchBegin(c) \/ (\E p \in Profiles \cup {None} : FetchReturns(c, p)) \/ Store(c)
        PROVE  MutexInv'
    BY <1>0, <1>2, QuietStep
    DEF FetchBegin, FetchReturns, Store, InBackend, At, GoesTo, Keeps, Answers, shared, locks
  <1>3. ASSUME NEW c \in Conns,
               GetProfile(c) \/ StatusReads(c) \/ ConnectWithoutProfile(c) \/ ConnectClones(c)
        PROVE  MutexInv'
    BY <1>0, <1>3, QuietStep
    DEF GetProfile, StatusReads, ConnectWithoutProfile, ConnectClones, InBackend, At,
        GoesTo, Keeps, Answers, shared
  <1>4. ASSUME NEW c \in Conns, ConnectFindsNoBinary(c) \/ DisconnectNothing(c)
        PROVE  MutexInv'
    <2>1. call = "none"
      BY <1>4, OwnerAlone DEF ConnectFindsNoBinary, DisconnectNothing, At
    <2>2. QED
      BY <1>0, <1>4, <2>1, QuietStep
      DEF ConnectFindsNoBinary, DisconnectNothing, InBackend, At, GoesTo, Keeps, Answers, shared
  <1>5. ASSUME NEW c \in Conns, CallReturns(c)
        PROVE  MutexInv'
    <2>1. \A d \in Conns : pc'[d] \notin {"start", "call"} /\ pc[d] # "start"
      BY <1>0, <1>5 DEF CallReturns, Answers, GoesTo, TypeInv, OwnInv, Owns
    <2>2. call = "none" /\ UNCHANGED <<bvars, present>>
      BY <1>5 DEF CallReturns, shared
    <2>3. QED
      BY <2>1, <2>2 DEF MutexInv, bvars, engine
  <1>6. ASSUME NEW c \in Conns, StatusAnswers(c)
        PROVE  MutexInv'
    <2>1. InBackend = {} /\ call = "none"
      BY <1>6, OwnerAlone DEF StatusAnswers, At
    <2>2. \A d \in Conns : pc'[d] \notin {"start", "call"} /\ pc[d] # "start"
      BY <1>0, <1>6, <2>1 DEF StatusAnswers, Answers, GoesTo, InBackend
    <2>3. /\ UNCHANGED <<call, configPath, present>>
          /\ state' = "idle" => state = "idle"
          /\ ~present => state' = state
      BY <1>6, RefreshFacts
      DEF StatusAnswers, Refresh, Adopt, Steady, Exited, shared, bvars, engine
    <2>4. QED
      BY <2>1, <2>2, <2>3 DEF MutexInv
  <1>7. ASSUME NEW c \in Conns, ConnectFindsBinary(c)
        PROVE  MutexInv'
    BY <1>7 DEF ConnectFindsBinary, MutexInv, bvars, engine, tasks, locks
  <1>8. ASSUME NEW c \in Conns, DisconnectStops(c)
        PROVE  MutexInv'
    <2>1. /\ InBackend = {} /\ call = "none" /\ present /\ Owns(c, backendLock)
          /\ request[c].cmd = "DISCONNECT"
      BY <1>8, OwnerAlone DEF DisconnectStops, At
    <2>2. \A d \in Conns : pc[d] # "start" /\ pc'[d] # "start" /\ (pc'[d] = "call" => d = c)
      BY <1>0, <1>8, <2>1 DEF DisconnectStops, GoesTo, InBackend
    <2>3. pc'[c] = "call" /\ UNCHANGED <<request, backendLock, present>>
      BY <1>0, <1>8 DEF DisconnectStops, GoesTo, locks, shared
    <2>4. \/ call' = "kill"
          \/ call' = "none" /\ state' = "idle" /\ state = "idle" /\ configPath' = configPath
      BY <1>8, <2>1 DEF DisconnectStops, Stop, StopIdle, StopBegin
    <2>5. QED
      BY <2>1, <2>2, <2>3, <2>4 DEF MutexInv, Owns
  <1>9. CASE (\E p \in Pids : Exits(p)) \/ UNCHANGED svars
    BY <1>9
    DEF Exits, ProcessExits, UnchangedServer, MutexInv, svars, bvars, engine, shared, tasks, locks
  <1>10. QED
    BY <1>1, <1>2, <1>3, <1>4, <1>5, <1>6, <1>7, <1>8, <1>9, ConnectMutexInv, MethodMutexInv
    DEF Next, Step

-----------------------------------------------------------------------------
(* The queues of the locks                                                 *)

\* The tasks of S, each once, in some order.
Queues(q, S) ==
  /\ \A i, j \in 1 .. Len(q) : q[i] = q[j] => i = j
  /\ \A c \in S : \E i \in 1 .. Len(q) : q[i] = c
  /\ \A i \in 1 .. Len(q) : q[i] \in S

DataTasks    == {c \in Conns : pc[c] \in {"read", "store"}}
BackendTasks == {c \in Conns : pc[c] \in {"backend", "start", "call"}}
Reporting    == {c \in Conns : pc[c] = "backend" /\ request[c].cmd = "STATUS"}

\* A task is in the queue of the lock it awaits or holds, once, and in no
\* other; only a STATUS that awaits the backend holds the data lock.
QueueInv ==
  /\ Queues(dataLock, DataTasks)
  /\ Queues(backendLock, BackendTasks)
  /\ readers = Reporting

\* A task that is not in a queue joins it at the end.
LEMMA JoinQueue ==
  ASSUME NEW X, NEW q \in Seq(X), NEW S, Queues(q, S), NEW c \in X, c \notin S
  PROVE  Queues(Append(q, c), S \cup {c})
  <1> DEFINE r == Append(q, c)
  <1>1. /\ Len(q) \in Nat
        /\ Len(r) = Len(q) + 1
        /\ \A i \in 1 .. Len(q) : r[i] = q[i]
        /\ r[Len(q) + 1] = c
    BY AppendProperties
  <1> HIDE DEF r
  <1>2. \A i \in 1 .. Len(q) : r[i] \in S /\ r[i] # c
    BY <1>1 DEF Queues
  <1>3. \A i, j \in 1 .. Len(r) : r[i] = r[j] => i = j
    BY <1>1, <1>2 DEF Queues
  <1>4. \A d \in S \cup {c} : \E i \in 1 .. Len(r) : r[i] = d
    BY <1>1 DEF Queues
  <1>5. \A i \in 1 .. Len(r) : r[i] \in S \cup {c}
    BY <1>1, <1>2
  <1>6. QED
    BY <1>3, <1>4, <1>5 DEF Queues, r

\* The owner of a lock is the first of its queue; it leaves in front.
LEMMA LeaveQueue ==
  ASSUME NEW X, NEW q \in Seq(X), NEW S, Queues(q, S), NEW c, Owns(c, q)
  PROVE  c \in S /\ Queues(Tail(q), S \ {c})
  <1> DEFINE r == Tail(q)
  <1>1. /\ Len(q) \in Nat \ {0}
        /\ Len(r) = Len(q) - 1
        /\ \A i \in 1 .. Len(r) : r[i] = q[i + 1]
        /\ q[1] = c
    BY HeadTailProperties, EmptySeq DEF Owns
  <1> HIDE DEF r
  <1>2. c \in S /\ \A i \in 2 .. Len(q) : q[i] \in S \ {c}
    BY <1>1 DEF Queues
  <1>3. \A i, j \in 1 .. Len(r) : r[i] = r[j] => i = j
    BY <1>1 DEF Queues
  <1>4. \A d \in S \ {c} : \E i \in 1 .. Len(r) : r[i] = d
    <2> SUFFICES ASSUME NEW d \in S \ {c}
                 PROVE  \E i \in 1 .. Len(r) : r[i] = d
      OBVIOUS
    <2>1. PICK i \in 1 .. Len(q) : q[i] = d
      BY DEF Queues
    <2>2. i # 1
      BY <1>1, <2>1
    <2>3. i - 1 \in 1 .. Len(r) /\ r[i - 1] = d
      BY <1>1, <2>1, <2>2
    <2>4. QED
      BY <2>3
  <1>5. \A i \in 1 .. Len(r) : r[i] \in S \ {c}
    BY <1>1, <1>2
  <1>6. QED
    BY <1>2, <1>3, <1>4, <1>5 DEF Queues, r

\* As long as somebody awaits a lock, somebody who awaits it owns it.
LEMMA QueueHasOwner ==
  ASSUME NEW X, NEW q \in Seq(X), NEW S, Queues(q, S), S # {}
  PROVE  \E c \in S : Owns(c, q)
  <1>1. PICK d \in S : TRUE
    OBVIOUS
  <1>2. PICK i \in 1 .. Len(q) : q[i] = d
    BY <1>1 DEF Queues
  <1>3. q # <<>> /\ Len(q) \in Nat /\ Head(q) = q[1]
    BY <1>2, EmptySeq, HeadTailProperties
  <1>4. q[1] \in S
    BY <1>2, <1>3 DEF Queues
  <1>5. QED
    BY <1>3, <1>4 DEF Owns

\* Every step moves the tasks between the queues with their program counters.
LEMMA StepQueueInv == TypeInv /\ QueueInv /\ [Next]_svars => QueueInv'
  <1> SUFFICES ASSUME TypeInv, QueueInv, [Next]_svars
               PROVE  QueueInv'
    OBVIOUS
  <1>0. /\ dataLock \in Seq(Conns) /\ backendLock \in Seq(Conns)
        /\ pc \in [Conns -> Awaits]
        /\ request \in [Conns -> Requests \cup {None}]
        /\ Queues(dataLock, DataTasks)
        /\ Queues(backendLock, BackendTasks)
        /\ readers = Reporting
    BY DEF TypeInv, ServerTypeOK, QueueInv
  <1>j. ASSUME NEW c \in Conns
        PROVE  /\ c \notin DataTasks => Queues(Append(dataLock, c), DataTasks \cup {c})
               /\ c \notin BackendTasks =>
                    Queues(Append(backendLock, c), BackendTasks \cup {c})
    BY <1>0, JoinQueue
  <1>l. ASSUME NEW c \in Conns
        PROVE  /\ Owns(c, dataLock) => Queues(Tail(dataLock), DataTasks \ {c})
               /\ Owns(c, backendLock) => Queues(Tail(backendLock), BackendTasks \ {c})
    BY <1>0, LeaveQueue
  <1>q. ASSUME UNCHANGED <<dataLock, backendLock, readers>>,
               DataTasks' = DataTasks, BackendTasks' = BackendTasks, Reporting' = Reporting
        PROVE  QueueInv'
    BY <1>0, <1>q DEF QueueInv
  \* What becomes of the three sets when one task moves.
  <1>m. ASSUME NEW c \in Conns,
               \A d \in Conns \ {c} : pc'[d] = pc[d] /\ request'[d] = request[d]
        PROVE  /\ pc'[c] \in {"read", "store"} => DataTasks' = DataTasks \cup {c}
               /\ pc'[c] \notin {"read", "store"} => DataTasks' = DataTasks \ {c}
               /\ pc'[c] \in {"backend", "start", "call"} => BackendTasks' = BackendTasks \cup {c}
               /\ pc'[c] \notin {"backend", "start", "call"} => BackendTasks' = BackendTasks \ {c}
               /\ pc'[c] = "backend" /\ request'[c].cmd = "STATUS"
                    => Reporting' = Reporting \cup {c}
               /\ ~(pc'[c] = "backend" /\ request'[c].cmd = "STATUS")
                    => Reporting' = Reporting \ {c}
    <2>1. /\ pc'[c] \in {"read", "store"} => DataTasks' = DataTasks \cup {c}
          /\ pc'[c] \notin {"read", "store"} => DataTasks' = DataTasks \ {c}
      BY <1>m DEF DataTasks
    <2>2. /\ pc'[c] \in {"backend", "start", "call"} => BackendTasks' = BackendTasks \cup {c}
          /\ pc'[c] \notin {"backend", "start", "call"} => BackendTasks' = BackendTasks \ {c}
      BY <1>m DEF BackendTasks
    <2>3. /\ pc'[c] = "backend" /\ request'[c].cmd = "STATUS"
               => Reporting' = Reporting \cup {c}
          /\ ~(pc'[c] = "backend" /\ request'[c].cmd = "STATUS")
               => Reporting' = Reporting \ {c}
      BY <1>m DEF Reporting
    <2>4. QED
      BY <2>1, <2>2, <2>3
  <1>a. ASSUME NEW c \in Conns, Answers(c)
        PROVE  /\ DataTasks' = DataTasks \ {c}
               /\ BackendTasks' = BackendTasks \ {c}
               /\ Reporting' = Reporting \ {c}
    <2>1. pc'[c] = "line" /\ \A d \in Conns \ {c} : pc'[d] = pc[d] /\ request'[d] = request[d]
      BY <1>0, <1>a DEF Answers, GoesTo
    <2>2. QED
      BY <1>m, <2>1
  <1>t. \A c \in Conns : /\ c \in DataTasks <=> pc[c] \in {"read", "store"}
                         /\ c \in BackendTasks <=> pc[c] \in {"backend", "start", "call"}
                         /\ c \in Reporting =>
                              pc[c] = "backend" /\ request[c].cmd = "STATUS"
    BY DEF DataTasks, BackendTasks, Reporting
  <1>s. ASSUME NEW c \in Conns
        PROVE  /\ pc[c] \notin {"read", "store"} => DataTasks \ {c} = DataTasks
               /\ pc[c] \in {"backend", "start", "call"} => BackendTasks \cup {c} = BackendTasks
               /\ pc[c] \notin {"backend", "start", "call"} => BackendTasks \ {c} = BackendTasks
               /\ ~(pc[c] = "backend" /\ request[c].cmd = "STATUS") => Reporting \ {c} = Reporting
    BY DEF DataTasks, BackendTasks, Reporting
  <1>1. ASSUME NEW c \in Conns, NEW r \in Requests, Receive(c, r)
        PROVE  QueueInv'
    <2>1. /\ pc[c] = "line" /\ readers' = readers
          /\ r.cmd \in Commands
          /\ request'[c] = r
          /\ \A d \in Conns \ {c} : pc'[d] = pc[d] /\ request'[d] = request[d]
      BY <1>0, <1>1, ServerAssumption DEF Receive, GoesTo
    <2>2. c \notin DataTasks /\ c \notin BackendTasks /\ c \notin Reporting
      BY <1>t, <2>1
    <2>3. CASE r.cmd = "FETCH"
      <3>1. pc'[c] = "fetch_lock" /\ UNCHANGED <<dataLock, backendLock>>
        BY <1>0, <1>1, <2>3 DEF Receive, GoesTo
      <3>2. DataTasks' = DataTasks /\ BackendTasks' = BackendTasks /\ Reporting' = Reporting
        BY <1>m, <1>s, <2>1, <3>1
      <3>3. QED
        BY <1>q, <2>1, <3>1, <3>2
    <2>4. CASE r.cmd \in {"CONNECT", "STATUS", "GET_PROFILE"}
      <3>1. /\ pc'[c] = "read"
            /\ dataLock' = Append(dataLock, c) /\ backendLock' = backendLock
        BY <1>0, <1>1, <2>4 DEF Receive, GoesTo
      <3>2. /\ DataTasks' = DataTasks \cup {c} /\ BackendTasks' = BackendTasks
            /\ Reporting' = Reporting
        BY <1>m, <1>s, <2>1, <3>1
      <3>3. QED
        BY <1>0, <1>j, <2>1, <2>2, <3>1, <3>2 DEF QueueInv
    <2>5. CASE r.cmd = "DISCONNECT"
      <3>1. /\ pc'[c] = "backend"
            /\ backendLock' = Append(backendLock, c) /\ dataLock' = dataLock
        BY <1>0, <1>1, <2>5 DEF Receive, GoesTo
      <3>2. /\ DataTasks' = DataTasks /\ BackendTasks' = BackendTasks \cup {c}
            /\ Reporting' = Reporting
        <4>1. request'[c].cmd # "STATUS" /\ pc'[c] \notin {"read", "store"}
          BY <2>1, <2>5, <3>1
        <4>2. DataTasks' = DataTasks
          BY <1>m, <1>s, <2>1, <4>1
        <4>3. BackendTasks' = BackendTasks \cup {c}
          BY <1>m, <2>1, <3>1
        <4>4. Reporting' = Reporting
          BY <1>m, <1>s, <2>1, <4>1
        <4>5. QED
          BY <4>2, <4>3, <4>4
      <3>3. QED
        BY <1>0, <1>j, <2>1, <2>2, <3>1, <3>2 DEF QueueInv
    <2>6. QED
      BY <2>1, <2>3, <2>4, <2>5 DEF Commands
  <1>2. ASSUME NEW c \in Conns, FetchBegin(c)
        PROVE  QueueInv'
    <2>1. /\ pc[c] = "fetch_lock" /\ pc'[c] = "network"
          /\ \A d \in Conns \ {c} : pc'[d] = pc[d]
          /\ UNCHANGED <<request, dataLock, backendLock, readers>>
      BY <1>0, <1>2 DEF FetchBegin, At, GoesTo, locks
    <2>2. DataTasks' = DataTasks /\ BackendTasks' = BackendTasks /\ Reporting' = Reporting
      BY <1>m, <1>s, <2>1
    <2>3. QED
      BY <1>q, <2>1, <2>2
  <1>3. ASSUME NEW c \in Conns, NEW p \in Profiles \cup {None}, FetchReturns(c, p)
        PROVE  QueueInv'
    <2>1. /\ pc[c] = "network" /\ pc'[c] = "store"
          /\ \A d \in Conns \ {c} : pc'[d] = pc[d]
          /\ dataLock' = Append(dataLock, c)
          /\ UNCHANGED <<request, backendLock, readers>>
      BY <1>0, <1>3 DEF FetchReturns, At, GoesTo
    <2>2. /\ DataTasks' = DataTasks \cup {c} /\ BackendTasks' = BackendTasks
          /\ Reporting' = Reporting
      BY <1>m, <1>s, <2>1
    <2>3. QED
      BY <1>0, <1>j, <1>t, <2>1, <2>2 DEF QueueInv
  \* The task at the head of the data lock answers.
  <1>4. ASSUME NEW c \in Conns, Store(c) \/ GetProfile(c) \/ ConnectWithoutProfile(c)
        PROVE  QueueInv'
    <2>1. /\ pc[c] \in {"read", "store"} /\ Owns(c, dataLock) /\ Answers(c)
          /\ dataLock' = Tail(dataLock)
          /\ UNCHANGED <<backendLock, readers>>
      BY <1>4 DEF Store, GetProfile, ConnectWithoutProfile, At, MayRead, MayWrite
    <2>2. /\ DataTasks' = DataTasks \ {c} /\ BackendTasks' = BackendTasks
          /\ Reporting' = Reporting
      BY <1>a, <1>s, <2>1
    <2>3. QED
      BY <1>0, <1>l, <2>1, <2>2 DEF QueueInv
  \* The task at the head of the data lock goes on to the backend.
  <1>5. ASSUME NEW c \in Conns, StatusReads(c) \/ ConnectClones(c)
        PROVE  QueueInv'
    <2>1. /\ pc[c] = "read" /\ Owns(c, dataLock) /\ pc'[c] = "backend"
          /\ \A d \in Conns \ {c} : pc'[d] = pc[d]
          /\ dataLock' = Tail(dataLock)
          /\ backendLock' = Append(backendLock, c)
          /\ request' = request
      BY <1>0, <1>5 DEF StatusReads, ConnectClones, At, GoesTo, MayRead
    <2>2. /\ DataTasks' = DataTasks \ {c} /\ BackendTasks' = BackendTasks \cup {c}
          /\ Reporting' = IF request[c].cmd = "STATUS" THEN Reporting \cup {c}
                                                       ELSE Reporting \ {c}
      BY <1>m, <1>s, <2>1
    <2>3. /\ c \notin BackendTasks /\ c \notin Reporting
      BY <1>t, <2>1
    <2>4. readers' = Reporting'
      BY <1>0, <1>5, <2>2, <2>3 DEF StatusReads, ConnectClones, At
    <2>5. QED
      BY <1>0, <1>j, <1>l, <2>1, <2>2, <2>3, <2>4 DEF QueueInv
  \* The owner of the backend mutex answers.
  <1>6. ASSUME NEW c \in Conns,
               \/ StatusAnswers(c) \/ ConnectFindsNoBinary(c) \/ DisconnectNothing(c)
               \/ ConnectApplies(c) /\ outcome' # "Ok"
               \/ CallReturns(c)
        PROVE  QueueInv'
    <2>1. /\ pc[c] \in {"backend", "call"} /\ Owns(c, backendLock) /\ Answers(c)
          /\ backendLock' = Tail(backendLock) /\ dataLock' = dataLock
      BY <1>6
      DEF StatusAnswers, ConnectFindsNoBinary, DisconnectNothing, ConnectApplies,
          CallReturns, At, TypeInv, OwnInv
    <2>2. /\ DataTasks' = DataTasks /\ BackendTasks' = BackendTasks \ {c}
          /\ Reporting' = Reporting \ {c}
      BY <1>a, <1>s, <2>1
    <2>3. readers' = readers \ {c}
      <3>1. CASE StatusAnswers(c)
        BY <3>1 DEF StatusAnswers
      <3>2. CASE ~StatusAnswers(c)
        <4>1. readers' = readers /\ (pc[c] = "backend" => request[c].cmd # "STATUS")
          BY <1>6, <3>2
          DEF ConnectFindsNoBinary, DisconnectNothing, ConnectApplies, CallReturns, At
        <4>2. QED
          BY <1>0, <1>t, <4>1
      <3>3. QED
        BY <3>1, <3>2
    <2>4. QED
      BY <1>0, <1>l, <2>1, <2>2, <2>3 DEF QueueInv
  \* The owner of the backend mutex goes on inside the backend.
  <1>7. ASSUME NEW c \in Conns,
               \/ ConnectApplies(c) /\ outcome' = "Ok"
               \/ ConnectStarts(c) \/ DisconnectStops(c)
        PROVE  QueueInv'
    <2>1. /\ pc[c] \in {"backend", "start"} /\ request[c].cmd # "STATUS"
          /\ UNCHANGED <<request, dataLock, backendLock, readers>>
          /\ pc'[c] \in {"start", "call"} /\ \A d \in Conns \ {c} : pc'[d] = pc[d]
      BY <1>0, <1>7 DEF ConnectApplies, ConnectStarts, DisconnectStops, At, GoesTo, locks
    <2>2. DataTasks' = DataTasks
      BY <1>m, <1>s, <2>1
    <2>3. BackendTasks' = BackendTasks
      BY <1>m, <1>s, <2>1
    <2>4. Reporting' = Reporting
      <3>1. Reporting' = Reporting \ {c}
        BY <1>m, <2>1
      <3>2. Reporting \ {c} = Reporting
        BY <1>s, <2>1
      <3>3. QED
        BY <3>1, <3>2
    <2>5. QED
      BY <1>q, <2>1, <2>2, <2>3, <2>4
  <1>8. CASE \/ \E c \in Conns : ConnectFindsBinary(c)
             \/ BackendStep
             \/ \E p \in Pids : Exits(p)
             \/ UNCHANGED svars
    <2>1. UNCHANGED <<pc, request, dataLock, backendLock, readers>>
      BY <1>8 DEF ConnectFindsBinary, BackendStep, Exits, UnchangedServer, svars, tasks, locks
    <2>2. QED
      BY <1>q, <2>1 DEF DataTasks, BackendTasks, Reporting
  <1>9. QED
    BY <1>1, <1>2, <1>3, <1>4, <1>5, <1>6, <1>7, <1>8 DEF Next, Step

\* The owner of the backend mutex can go on; when nobody awaits the mutex, nobody
\* holds the data lock for reading, and the first who awaits that lock can go
\* on; when nobody does either, the first FETCH can.
LEMMA SomebodyMayGo == SInv /\ QueueInv => NeverStuck
  <1> SUFFICES ASSUME SInv, QueueInv, NEW c \in Conns, pc[c] # "line"
               PROVE  \E d \in Conns : MayGo(d)
    BY DEF NeverStuck
  <1>0. /\ dataLock \in Seq(Conns) /\ backendLock \in Seq(Conns)
        /\ fetchLock \in Seq(Conns) /\ pc \in [Conns -> Awaits]
        /\ TypeInv /\ MutexInv
    BY DEF SInv, TypeInv, ServerTypeOK
  <1>1. CASE BackendTasks # {}
    <2>1. PICK d \in BackendTasks : Owns(d, backendLock)
      BY <1>0, <1>1, QueueHasOwner DEF QueueInv
    <2>2. d \in Conns /\ pc[d] \in {"backend", "start", "call"}
      BY DEF BackendTasks
    <2>3. pc[d] = "backend" => call = "none"
      BY <1>0, <2>1, <2>2, OwnerAlone
    <2>4. pc[d] = "start" => call = "none"
      BY <1>0, <2>2 DEF MutexInv
    <2>5. MayGo(d)
      BY <2>1, <2>2, <2>3, <2>4 DEF MayGo
    <2>6. QED
      BY <2>2, <2>5
  <1>2. CASE BackendTasks = {} /\ DataTasks # {}
    <2>1. PICK d \in DataTasks : Owns(d, dataLock)
      BY <1>0, <1>2, QueueHasOwner DEF QueueInv
    <2>2. d \in Conns /\ pc[d] \in {"read", "store"}
      BY DEF DataTasks
    <2>3. readers = {}
      BY <1>2 DEF QueueInv, BackendTasks, Reporting
    <2>4. MayGo(d)
      BY <2>1, <2>2, <2>3 DEF MayGo, MayRead, MayWrite
    <2>5. QED
      BY <2>2, <2>4
  <1>3. CASE BackendTasks = {} /\ DataTasks = {}
    <2>1. \A d \in Conns : pc[d] \in {"line", "fetch_lock", "network"}
      BY <1>0, <1>3 DEF BackendTasks, DataTasks, Awaits
    <2>2. c \in Fetching
      BY <1>0, <2>1 DEF Fetching, TypeInv, TaskInv
    <2>3. PICK d \in Fetching : Owns(d, fetchLock)
      <3>1. Queues(fetchLock, Fetching)
        BY DEF SInv, FetchInv, Queues
      <3>2. QED
        BY <1>0, <2>2, <3>1, QueueHasOwner
    <2>4. d \in Conns /\ pc[d] \in {"fetch_lock", "network"}
      BY <2>1, <2>3 DEF Fetching
    <2>5. MayGo(d)
      BY <2>3, <2>4 DEF MayGo
    <2>6. QED
      BY <2>4, <2>5
  <1>4. QED
    BY <1>1, <1>2, <1>3

-----------------------------------------------------------------------------
(* Theorems                                                                *)

\* The inductive invariant of the server.
THEOREM ServerInvariant == Spec => []SInv
  <1>1. Init => SInv
    <2>1. Init => FetchInv
      BY DEF Init, FetchInv, Fetching
    <2>2. Init => MutexInv
      BY DEF Init, BackendInit, MutexInv
    <2>3. QED
      BY <2>1, <2>2, InitIInv, InitTypeInv DEF Init, SInv
  <1>2. SInv /\ [Next]_svars => SInv'
    <2> SUFFICES ASSUME SInv, [Next]_svars
                 PROVE  SInv'
      OBVIOUS
    <2>1. IInv'
      BY StepBackend, StepIInv DEF SInv
    <2>2. TypeInv'
      BY <2>1, StepTypeInv, StepOwnInv DEF SInv, IInv, TypeInv
    <2>3. QED
      BY <2>1, <2>2, StepFetchInv, StepMutexInv DEF SInv
  <1>3. QED
    BY <1>1, <1>2, PTL DEF Spec

\* Type correctness of the server.
THEOREM ServerTypeCorrect == Spec => []ServerTypeOK
  <1>1. SInv => ServerTypeOK
    BY DEF SInv, TypeInv
  <1>2. QED
    BY <1>1, ServerInvariant, PTL

\* Whatever clients send, the handlers use the backend as one caller that
\* makes one call after another would: every theorem about the backend holds
\* in the daemon.
THEOREM ServerUsesBackend == Spec => BackendSpec
  <1>1. Init => BackendInit
    BY DEF Init
  <1>2. SInv /\ [Next]_svars => [BackendNext]_bvars
    BY StepBackend DEF SInv
  <1>3. QED
    BY <1>1, <1>2, ServerInvariant, PTL DEF Spec, BackendSpec

\* FETCHes reach the network and store their results in the order in which
\* they were received.
THEOREM FetchOrder == Spec => []FetchesInOrder
  <1>1. SInv => FetchesInOrder
    <2> SUFFICES ASSUME SInv, NEW c \in Conns,
                        At(c, "FETCH", "network") \/ At(c, "FETCH", "store")
                 PROVE  before[c] = {}
      BY DEF FetchesInOrder
    <2>1. fetchLock \in Seq(Conns) /\ fetchLock # <<>> /\ fetchLock[1] = c
      BY DEF SInv, TypeInv, ServerTypeOK, OwnInv, Owns, At
    <2>2. 1 \in 1 .. Len(fetchLock)
      BY <2>1
    <2>3. \A d \in before[c] : \E j \in 1 .. (1 - 1) : fetchLock[j] = d
      BY <2>1, <2>2 DEF SInv, FetchInv
    <2>4. QED
      BY <2>3
  <1>2. QED
    BY <1>1, ServerInvariant, PTL

\* The backend runs one method at a time, for the owner of its mutex.
THEOREM OneMethod == Spec => []BackendExclusive
  <1>1. SInv => BackendExclusive
    BY DEF SInv, TypeInv, OwnInv, MutexInv, IInv, CallInv, BackendExclusive
  <1>2. QED
    BY <1>1, ServerInvariant, PTL

\* No order in which the requests of any number of clients come makes their
\* handlers wait for one another in a circle.
THEOREM NoDeadlock == Spec => []NeverStuck
  <1>1. Init => QueueInv
    <2>1. Init => Queues(<<>>, {})
      BY DEF Queues
    <2>2. Init => DataTasks = {} /\ BackendTasks = {} /\ Reporting = {}
      BY DEF Init, DataTasks, BackendTasks, Reporting
    <2>3. QED
      BY <2>1, <2>2 DEF Init, QueueInv
  <1>2. SInv /\ QueueInv /\ [Next]_svars => QueueInv'
    BY StepQueueInv DEF SInv
  <1>3. QED
    BY <1>1, <1>2, SomebodyMayGo, ServerInvariant, PTL DEF Spec

\* OK answers to CONNECT and DISCONNECT say what the backend has done.
THEOREM TrueAnswers == Spec => []AnswersTrue
  <1>1. SInv => AnswersTrue
    <2> SUFFICES ASSUME SInv, NEW c \in Conns,
                        pc[c] = "call", call = "none", outcome = "Ok"
                 PROVE  IF request[c].cmd = "CONNECT"
                          THEN /\ state = "running"
                               /\ config = <<local[c], request[c].node>>
                               /\ child \in Live => proc[child] = config
                          ELSE state = "idle" /\ child = None /\ ~configPath
      BY DEF AnswersTrue
    <2>1. \A d \in Conns : pc[d] # "start"
      BY DEF SInv, TypeInv, OwnInv, Owns
    <2>2. request[c].cmd \in {"CONNECT", "DISCONNECT"}
      BY DEF SInv, TypeInv, TaskInv
    <2>3. CASE request[c].cmd = "CONNECT"
      BY <2>3 DEF SInv, MutexInv, IInv, ServesApplied
    <2>4. CASE request[c].cmd = "DISCONNECT"
      BY <2>1, <2>4 DEF SInv, MutexInv, IInv, CallInv
    <2>5. QED
      BY <2>2, <2>3, <2>4
  <1>2. QED
    BY <1>1, ServerInvariant, PTL

\* Unless a failure hides it, no config file outlives the tunnel: an idle
\* daemon has none on disk.
THEOREM NoFileLeft ==
  ASSUME FilesKept
  PROVE  Spec => []IdleLeavesNoFile
  <1>1. Init => SecretInv
    BY DEF Init, BackendInit, SecretInv
  <1>2. SInv /\ SecretInv /\ [Next]_svars => SecretInv'
    BY StepBackend, StepSecretInv DEF SInv
  <1>3. SInv /\ SecretInv => IdleLeavesNoFile
    BY DEF SInv, MutexInv, SecretInv, IdleLeavesNoFile
  <1>4. QED
    BY <1>1, <1>2, <1>3, ServerInvariant, PTL DEF Spec

\* A STATUS that reports running has just seen the process alive, with the
\* node it names.
THEOREM TrueStatus == Spec => StatusTrue
  <1>1. SInv /\ [Next]_svars =>
          [\A c \in Conns :
             At(c, "STATUS", "backend") /\ pc'[c] = "line" /\ state' = "running"
               => child' \in Live /\ proc[child'] = config']_svars
    <2> SUFFICES ASSUME SInv, Next, NEW c \in Conns, At(c, "STATUS", "backend"),
                        pc'[c] = "line", state' = "running"
                 PROVE  child' \in Live /\ proc[child'] = config'
      OBVIOUS
    <2>0. pc \in [Conns -> Awaits] /\ IInv /\ TypeInv
      BY DEF SInv, TypeInv, ServerTypeOK
    <2>1. StatusAnswers(c)
      <3>1. \A d \in Conns, r \in Requests : ~Receive(d, r)
        BY <2>0 DEF Receive, GoesTo, At
      <3>2. ~BackendStep /\ \A p \in Pids : ~Exits(p)
        BY DEF BackendStep, Exits, UnchangedServer, tasks, At
      <3>3. ASSUME NEW d \in Conns, Step(d), d # c
            PROVE  pc'[c] = pc[c]
        BY <2>0, <3>3
        DEF Step, FetchBegin, FetchReturns, Store, GetProfile, StatusReads, StatusAnswers,
            ConnectWithoutProfile, ConnectClones, ConnectFindsBinary, ConnectFindsNoBinary,
            ConnectApplies, ConnectStarts, DisconnectNothing, DisconnectStops,
            CallReturns, GoesTo, Answers, tasks
      <3>4. Step(c)
        BY <3>1, <3>2, <3>3 DEF Next, At
      <3>5. QED
        BY <3>4
        DEF Step, FetchBegin, FetchReturns, Store, GetProfile, StatusReads,
            ConnectWithoutProfile, ConnectClones, ConnectFindsBinary, ConnectFindsNoBinary,
            ConnectApplies, ConnectStarts, DisconnectNothing, DisconnectStops,
            CallReturns, At
    <2>2. present
      <3>1. CASE ~present
        BY <2>1, <3>1 DEF StatusAnswers, SInv, MutexInv, bvars, engine
      <3>2. QED
        BY <3>1
    <2>3. PICK r \in Refreshed : Adopt(r)
      BY <2>1, <2>2 DEF StatusAnswers, Refresh
    <2>4. config' = config /\ proc' = proc
      BY <2>1, <2>2 DEF StatusAnswers, Refresh
    <2>5. child' = child /\ child \in Live
      BY <2>3, RefreshFacts DEF Adopt, Steady, Exited
    <2>6. QED
      BY <2>0, <2>4, <2>5 DEF IInv, ServesApplied
  <1>2. QED
    BY <1>1, ServerInvariant, PTL DEF Spec, StatusTrue
=============================================================================
