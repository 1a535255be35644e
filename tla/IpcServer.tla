----------------------------- MODULE IpcServer ------------------------------
(***************************************************************************)
(* The IPC server of crates/conflux-ipc/src/server.rs in one daemon: a     *)
(* task per client connection, each serving one request at a time, over    *)
(* the shared EngineState.  It extends SingboxBackend, whose methods the   *)
(* CONNECT, DISCONNECT and STATUS handlers call under the backend mutex.   *)
(*                                                                         *)
(* A handler is cut into steps at its awaits: the three tokio locks and    *)
(* the network.  tokio's locks are FIFO: a sequence holds the tasks that   *)
(* own or wait for a lock in the order of their calls, the owner first.    *)
(* Readers that tokio lets in together enter here one after the other in   *)
(* the order of their calls, which is arbitrary.                           *)
(* PING and lines that do not parse touch no shared state and are left     *)
(* out.  A client that goes away does not stop its handler.                *)
(***************************************************************************)
EXTENDS SingboxBackend, Sequences

CONSTANTS
  Conns,    \* client connections, each with its task
  Requests  \* the requests clients send, [cmd, node]

Commands == {"FETCH", "CONNECT", "DISCONNECT", "STATUS", "GET_PROFILE"}

\* parse_request_line accepts CONNECT with a node id only.
ASSUME ServerAssumption ==
  /\ Requests \subseteq [cmd : Commands, node : Selections]
  /\ \A r \in Requests : r.cmd = "CONNECT" => r.node \in NodeIds
  /\ None \notin Profiles

VARIABLES
  profile,     \* data.profile
  fetchError,  \* data.last_error is Some
  present,     \* the backend option is Some
  pc,          \* what the task of each connection awaits
  request,     \* the request it serves
  local,       \* the profile its handler holds across awaits
  fetchLock,   \* tasks owning and awaiting fetch_lock
  dataLock,    \* tasks awaiting the data lock
  readers,     \* tasks holding the data lock for reading across an await
  backendLock, \* tasks owning and awaiting the backend mutex
  before       \* history: the FETCHes received before this one, unanswered

tasks  == <<pc, request, local>>
locks  == <<fetchLock, dataLock, readers, backendLock>>
shared == <<profile, fetchError, present>>
svars  == <<bvars, shared, tasks, locks, before>>

\* "line": the next request; "call": the backend method it has called.
Awaits == {"line", "fetch_lock", "network", "store", "read", "backend",
           "start", "call"}

ServerTypeOK ==
  /\ TypeOK
  /\ profile \in Profiles \cup {None}
  /\ fetchError \in BOOLEAN
  /\ present \in BOOLEAN
  /\ pc \in [Conns -> Awaits]
  /\ request \in [Conns -> Requests \cup {None}]
  /\ local \in [Conns -> Profiles \cup {None}]
  /\ fetchLock \in Seq(Conns)
  /\ dataLock \in Seq(Conns)
  /\ readers \subseteq Conns
  /\ backendLock \in Seq(Conns)
  /\ before \in [Conns -> SUBSET Conns]

Init ==
  /\ BackendInit
  /\ profile \in Profiles \cup {None}  \* run_daemon may have prefetched it
  /\ fetchError \in BOOLEAN
  /\ profile # None => ~fetchError
  /\ present \in BOOLEAN              \* whether the sing-box binary was found
  /\ pc = [c \in Conns |-> "line"]
  /\ request = [c \in Conns |-> None]
  /\ local = [c \in Conns |-> None]
  /\ fetchLock = <<>>
  /\ dataLock = <<>>
  /\ readers = {}
  /\ backendLock = <<>>
  /\ before = [c \in Conns |-> {}]

-----------------------------------------------------------------------------
(* Steps of a task                                                         *)

At(c, cmd, await) == pc[c] = await /\ request[c].cmd = cmd

GoesTo(c, await) == pc' = [pc EXCEPT ![c] = await]

Keeps(c, p) == local' = [local EXCEPT ![c] = p]

\* The handler returns and its response is written.
Answers(c) ==
  /\ GoesTo(c, "line")
  /\ Keeps(c, None)
  /\ request' = [request EXCEPT ![c] = None]

Owns(c, lock) == lock # <<>> /\ Head(lock) = c

\* Readers behind a waiting writer wait as well.
MayRead(c)  == Owns(c, dataLock)
MayWrite(c) == Owns(c, dataLock) /\ readers = {}

Fetching == {c \in Conns : pc[c] # "line" /\ request[c].cmd = "FETCH"}

\* Mutant: a data lock that lets readers overtake the tasks that wait.
ReceiveBarging(c, r) ==
  /\ pc[c] = "line"
  /\ request' = [request EXCEPT ![c] = r]
  /\ \/ /\ r.cmd = "FETCH"
        /\ GoesTo(c, "fetch_lock")
        /\ fetchLock' = Append(fetchLock, c)
        /\ before' = [before EXCEPT ![c] = Fetching]
        /\ UNCHANGED <<dataLock, backendLock>>
     \/ /\ r.cmd \in {"CONNECT", "STATUS", "GET_PROFILE"}
        /\ GoesTo(c, "read")
        /\ dataLock' = <<c>> \o dataLock
        /\ UNCHANGED <<fetchLock, backendLock, before>>
     \/ /\ r.cmd = "DISCONNECT"
        /\ GoesTo(c, "backend")
        /\ backendLock' = Append(backendLock, c)
        /\ UNCHANGED <<fetchLock, dataLock, before>>
  /\ UNCHANGED <<bvars, shared, local, readers>>

\* serve_connection parses a line, and the handler runs to its first lock.
Receive(c, r) ==
  /\ pc[c] = "line"
  /\ request' = [request EXCEPT ![c] = r]
  /\ \/ /\ r.cmd = "FETCH"
        /\ GoesTo(c, "fetch_lock")
        /\ fetchLock' = Append(fetchLock, c)
        /\ before' = [before EXCEPT ![c] = Fetching]
        /\ UNCHANGED <<dataLock, backendLock>>
     \/ /\ r.cmd \in {"CONNECT", "STATUS", "GET_PROFILE"}
        /\ GoesTo(c, "read")
        /\ dataLock' = Append(dataLock, c)
        /\ UNCHANGED <<fetchLock, backendLock, before>>
     \/ /\ r.cmd = "DISCONNECT"
        /\ GoesTo(c, "backend")
        /\ backendLock' = Append(backendLock, c)
        /\ UNCHANGED <<fetchLock, dataLock, before>>
  /\ UNCHANGED <<bvars, shared, local, readers>>

-----------------------------------------------------------------------------
(* FETCH                                                                   *)

\* Mutant: FETCH handlers are not serialized.
FetchBeginUnserialized(c) ==
  /\ At(c, "FETCH", "fetch_lock")
  /\ GoesTo(c, "network")
  /\ UNCHANGED <<bvars, shared, request, local, locks, before>>

FetchBegin(c) ==
  /\ At(c, "FETCH", "fetch_lock")
  /\ Owns(c, fetchLock)
  /\ GoesTo(c, "network")
  /\ UNCHANGED <<bvars, shared, request, local, locks, before>>

\* fetch_and_normalize returns a profile or, None, an error.
FetchReturns(c, p) ==
  /\ At(c, "FETCH", "network")
  /\ GoesTo(c, "store")
  /\ Keeps(c, p)
  /\ dataLock' = Append(dataLock, c)
  /\ UNCHANGED <<bvars, shared, request, fetchLock, readers, backendLock, before>>

\* set_profile or set_fetch_error, then both guards are dropped.
Store(c) ==
  /\ At(c, "FETCH", "store")
  /\ MayWrite(c)
  /\ profile' = IF local[c] = None THEN profile ELSE local[c]
  /\ fetchError' = (local[c] = None)
  /\ dataLock' = Tail(dataLock)
  /\ fetchLock' = Tail(fetchLock)
  /\ before' = [d \in Conns |-> before[d] \ {c}]
  /\ Answers(c)
  /\ UNCHANGED <<bvars, present, readers, backendLock>>

-----------------------------------------------------------------------------
(* GET_PROFILE and STATUS                                                  *)

GetProfile(c) ==
  /\ At(c, "GET_PROFILE", "read")
  /\ MayRead(c)
  /\ dataLock' = Tail(dataLock)
  /\ Answers(c)
  /\ UNCHANGED <<bvars, shared, fetchLock, readers, backendLock, before>>

\* status_json keeps its read guard while it waits for the backend.
StatusReads(c) ==
  /\ At(c, "STATUS", "read")
  /\ MayRead(c)
  /\ dataLock' = Tail(dataLock)
  /\ readers' = readers \cup {c}
  /\ backendLock' = Append(backendLock, c)
  /\ GoesTo(c, "backend")
  /\ UNCHANGED <<bvars, shared, request, local, fetchLock, before>>

\* Mutant: STATUS reads the state without refreshing it.
StatusAnswersStale(c) ==
  /\ At(c, "STATUS", "backend")
  /\ Owns(c, backendLock)
  /\ readers' = readers \ {c}
  /\ backendLock' = Tail(backendLock)
  /\ Answers(c)
  /\ UNCHANGED <<bvars, shared, fetchLock, dataLock, before>>

StatusAnswers(c) ==
  /\ At(c, "STATUS", "backend")
  /\ Owns(c, backendLock)
  /\ IF present THEN Refresh ELSE UNCHANGED bvars
  /\ readers' = readers \ {c}
  /\ backendLock' = Tail(backendLock)
  /\ Answers(c)
  /\ UNCHANGED <<shared, fetchLock, dataLock, before>>

-----------------------------------------------------------------------------
(* CONNECT and DISCONNECT                                                  *)

ConnectWithoutProfile(c) ==
  /\ At(c, "CONNECT", "read")
  /\ MayRead(c)
  /\ profile = None
  /\ dataLock' = Tail(dataLock)
  /\ Answers(c)
  /\ UNCHANGED <<bvars, shared, fetchLock, readers, backendLock, before>>

\* The profile is cloned and the data lock released before the backend is
\* awaited.
ConnectClones(c) ==
  /\ At(c, "CONNECT", "read")
  /\ MayRead(c)
  /\ profile # None
  /\ Keeps(c, profile)
  /\ dataLock' = Tail(dataLock)
  /\ backendLock' = Append(backendLock, c)
  /\ GoesTo(c, "backend")
  /\ UNCHANGED <<bvars, shared, request, fetchLock, readers, before>>

\* The binary was not found when the daemon started: CONNECT looks again.
ConnectFindsBinary(c) ==
  /\ At(c, "CONNECT", "backend")
  /\ Owns(c, backendLock)
  /\ ~present
  /\ present' = TRUE
  /\ UNCHANGED <<bvars, profile, fetchError, tasks, locks, before>>

ConnectFindsNoBinary(c) ==
  /\ At(c, "CONNECT", "backend")
  /\ Owns(c, backendLock)
  /\ ~present
  /\ backendLock' = Tail(backendLock)
  /\ Answers(c)
  /\ UNCHANGED <<bvars, shared, fetchLock, dataLock, readers, before>>

\* Mutant: the mutex is released between apply_profile and start.
ConnectAppliesUnlocked(c) ==
  /\ At(c, "CONNECT", "backend")
  /\ Owns(c, backendLock)
  /\ present
  /\ ApplyProfile(local[c], request[c].node)
  /\ backendLock' = Tail(backendLock)
  /\ IF outcome' = "Ok" THEN GoesTo(c, "start") /\ UNCHANGED <<request, local>>
                        ELSE Answers(c)
  /\ UNCHANGED <<shared, fetchLock, dataLock, readers, before>>

\* Mutant: a failed apply is recorded in last_error, inside the backend mutex.
ConnectAppliesRecording(c) ==
  /\ At(c, "CONNECT", "backend")
  /\ Owns(c, backendLock)
  /\ present
  /\ ApplyProfile(local[c], request[c].node)
  /\ IF outcome' = "Ok"
       THEN GoesTo(c, "start") /\ UNCHANGED dataLock
       ELSE GoesTo(c, "store") /\ dataLock' = Append(dataLock, c)
  /\ UNCHANGED <<shared, request, local, fetchLock, backendLock, readers, before>>

\* apply_profile; start() follows at once when it succeeds.
ConnectApplies(c) ==
  /\ At(c, "CONNECT", "backend")
  /\ Owns(c, backendLock)
  /\ present
  /\ ApplyProfile(local[c], request[c].node)
  /\ IF outcome' = "Ok"
       THEN /\ GoesTo(c, "start")
            /\ UNCHANGED <<request, local, backendLock>>
       ELSE /\ Answers(c)
            /\ backendLock' = Tail(backendLock)
  /\ UNCHANGED <<shared, fetchLock, dataLock, readers, before>>

ConnectStarts(c) ==
  /\ At(c, "CONNECT", "start")
  /\ Start
  /\ GoesTo(c, "call")
  /\ UNCHANGED <<shared, request, local, locks, before>>

DisconnectNothing(c) ==
  /\ At(c, "DISCONNECT", "backend")
  /\ Owns(c, backendLock)
  /\ ~present
  /\ backendLock' = Tail(backendLock)
  /\ Answers(c)
  /\ UNCHANGED <<bvars, shared, fetchLock, dataLock, readers, before>>

DisconnectStops(c) ==
  /\ At(c, "DISCONNECT", "backend")
  /\ Owns(c, backendLock)
  /\ present
  /\ Stop
  /\ GoesTo(c, "call")
  /\ UNCHANGED <<shared, request, local, locks, before>>

\* start() or stop() has returned: OK or ERR, by `outcome`.
CallReturns(c) ==
  /\ pc[c] = "call"
  /\ call = "none"
  /\ backendLock' = Tail(backendLock)
  /\ Answers(c)
  /\ UNCHANGED <<bvars, shared, fetchLock, dataLock, readers, before>>

-----------------------------------------------------------------------------
(* The daemon                                                              *)

\* What the task of a connection does next, once it has a request.
Step(c) ==
  \/ FetchBegin(c)
  \/ \E p \in Profiles \cup {None} : FetchReturns(c, p)
  \/ Store(c)
  \/ GetProfile(c)
  \/ StatusReads(c)
  \/ StatusAnswers(c)
  \/ ConnectWithoutProfile(c)
  \/ ConnectClones(c)
  \/ ConnectFindsBinary(c)
  \/ ConnectFindsNoBinary(c)
  \/ ConnectApplies(c)
  \/ ConnectStarts(c)
  \/ DisconnectNothing(c)
  \/ DisconnectStops(c)
  \/ CallReturns(c)

UnchangedServer == UNCHANGED <<shared, tasks, locks, before>>

BackendStep == Proceed /\ UnchangedServer

Exits(p) == ProcessExits(p) /\ UnchangedServer

Next ==
  \/ \E c \in Conns, r \in Requests : Receive(c, r)
  \/ \E c \in Conns : Step(c)
  \/ BackendStep
  \/ \E p \in Pids : Exits(p)

Spec == Init /\ [][Next]_svars

\* The runtime polls every task that can go on, a fetch returns, a method that runs
\* goes on, and a killed process dies.  Nothing is assumed of clients.  That a fetch
\* returns is the time-out of each network attempt (FetchEnds of SubscriptionFetch);
\* the helper that resolves happ:// links has none, and one that hangs keeps
\* fetch_lock for ever.
Fairness ==
  /\ \A c \in Conns : WF_svars(Step(c))
  /\ WF_svars(BackendStep)
  /\ \A p \in Pids : WF_svars(p = held /\ Exits(p))

FairSpec == Spec /\ Fairness

-----------------------------------------------------------------------------
(* Properties                                                              *)

\* server.rs: fetch_lock makes "the last completed fetch" match "request
\* order".  A FETCH reaches the network only when every FETCH received
\* before it has stored its result, so a slow answer never replaces the
\* profile of a later request.
FetchesInOrder ==
  \A c \in Conns : At(c, "FETCH", "network") \/ At(c, "FETCH", "store")
                     => before[c] = {}

\* One task is inside the backend at a time, it is at the head of the mutex,
\* and no method is left half done when the mutex passes on: no handler ever
\* sees Starting or Stopping.
BackendExclusive ==
  /\ \A c \in Conns : pc[c] \in {"start", "call"} => Owns(c, backendLock)
  /\ call # "none" => backendLock # <<>> /\ pc[Head(backendLock)] = "call"
  /\ state \in {"starting", "stopping"} => call # "none"

\* CONNECT applies and starts under one lock, so a daemon that is idle and
\* runs no method has left no config file on disk, whatever crashed before:
\* the profile applied over a crash is always started.
IdleLeavesNoFile ==
  (state = "idle" /\ call = "none" /\ \A c \in Conns : pc[c] # "start")
    => disk = None

\* An OK answer to CONNECT is true: the last thing the daemon observed of
\* the node the client asked for is a live process started with it; and an
\* OK answer to DISCONNECT leaves no handle and no file to clean up.
AnswersTrue ==
  \A c \in Conns :
    pc[c] = "call" /\ call = "none" /\ outcome = "Ok" =>
      IF request[c].cmd = "CONNECT"
        THEN /\ state = "running"
             /\ config = <<local[c], request[c].node>>
             /\ child \in Live => proc[child] = config
        ELSE state = "idle" /\ child = None /\ ~configPath

\* A STATUS that says running was true when it was read: the process was
\* alive, with the selected node it names.
StatusTrue ==
  [][\A c \in Conns :
       At(c, "STATUS", "backend") /\ pc'[c] = "line" /\ state' = "running"
         => child' \in Live /\ proc[child'] = config']_svars

\* What a task awaits is there: its turn for the lock, and a backend that is
\* not inside another method.  A network attempt times out, and a method that
\* a task has called goes on or has returned.
MayGo(c) ==
  \/ pc[c] \in {"network", "call"}
  \/ pc[c] = "fetch_lock" /\ Owns(c, fetchLock)
  \/ pc[c] = "store" /\ MayWrite(c)
  \/ pc[c] = "read" /\ MayRead(c)
  \/ pc[c] = "backend" /\ Owns(c, backendLock) /\ call = "none"
  \/ pc[c] = "start" /\ call = "none"

\* No order of lock acquisitions deadlocks: a FETCH keeps fetch_lock while it
\* waits for the data lock, and a STATUS its read guard while it waits for
\* the backend, yet while any request is unanswered some task can go on.
NeverStuck ==
  (\E c \in Conns : pc[c] # "line") => \E c \in Conns : MayGo(c)

\* Every request is answered, if fetches return and killed processes die: neither
\* STATUS polling nor backend calls starve a FETCH of the data lock.
AllAnswered == \A c \in Conns : (pc[c] # "line") ~> (pc[c] = "line")

\* README.md: CONNECT applies the "last fetched profile".
ConnectUsesLastFetched == [][config' # config => config'[1] = profile]_svars
=============================================================================
