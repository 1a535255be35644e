---------------------------- MODULE EngineProofs ----------------------------
(***************************************************************************)
(* IpcServer implements EngineService, for every set of connections,       *)
(* requests, profiles, nodes, processes and faults.                        *)
(***************************************************************************)
EXTENDS IpcEngine, IpcProofs

\* What a CONNECT or a DISCONNECT in the backend owes to what clients have seen
\* of it before.
Called(c) ==
  IF request[c].cmd = "CONNECT"
    THEN /\ config # None
         /\ call = "none" /\ outcome # "Ok" => state = "error"
    ELSE /\ config = committed[2]
         /\ state = "stopping" => committed[1] = "running"
         /\ call = "none" /\ outcome # "Ok" => state = "error" /\ committed[1] = "running"

CommitInv ==
  /\ committed \in {"idle", "running", "error"} \X (Usable \cup {None})
  /\ InBackend = {} => committed = <<state, config>>
  /\ \A c \in Conns : pc[c] = "call" => Called(c)

EInv == SInv /\ CommitInv

-----------------------------------------------------------------------------
(* The recorded history                                                    *)

\* The handler that returns is the only one whose response is recorded.
LEMMA Said ==
  ASSUME TypeInv, Record, NEW c \in Conns, NEW await \in Awaits, GoesTo(c, await),
         pc[c] # "line" \/ await # "line"
  PROVE  said' = IF await = "line" THEN ResponseOf(c) ELSE None
  <1>0. pc \in [Conns -> Awaits]
    BY DEF TypeInv, ServerTypeOK
  <1>1. \A d \in Conns : Answering(d) <=> d = c /\ await = "line"
    BY <1>0 DEF Answering, GoesTo
  <1>2. CASE await = "line"
    <2>1. (CHOOSE d \in Conns : Answering(d)) = c
      BY <1>1, <1>2
    <2>2. QED
      BY <1>1, <1>2, <2>1 DEF Record
  <1>3. CASE await # "line"
    BY <1>1, <1>3 DEF Record
  <1>4. QED
    BY <1>2, <1>3

\* A step in which no task moves has no response.
LEMMA Unsaid ==
  ASSUME Record, UNCHANGED pc
  PROVE  said' = None
  BY DEF Record, Answering

\* The backend as clients see it changes when nobody is in it.
LEMMA Committed ==
  ASSUME Record
  PROVE  /\ InBackend' = {} => committed' = <<state', config'>>
         /\ InBackend' # {} => committed' = committed
  BY DEF Record, InBackend

\* Two tasks are never in the backend at once, and a method in progress has its
\* caller there.
LEMMA OneInBackend ==
  ASSUME TypeInv, MutexInv
  PROVE  /\ \A c, d \in InBackend : c = d
         /\ call # "none" => InBackend # {}
  <1>1. call # "none" => Head(backendLock) \in Conns
    BY HeadTailProperties DEF MutexInv, TypeInv, ServerTypeOK
  <1>2. QED
    BY <1>1 DEF InBackend, TypeInv, OwnInv, Owns, MutexInv

\* Which tasks are in the backend after a step of a task.
LEMMA WhoIsIn ==
  ASSUME TypeInv, NEW c \in Conns, NEW await \in Awaits, GoesTo(c, await)
  PROVE  InBackend' = IF await \in {"start", "call"} THEN InBackend \cup {c}
                                                     ELSE InBackend \ {c}
  <1>1. pc \in [Conns -> Awaits]
    BY DEF TypeInv, ServerTypeOK
  <1>2. QED
    BY <1>1 DEF GoesTo, InBackend

-----------------------------------------------------------------------------
(* The mapping                                                             *)

\* What a step of one task does to the chosen profiles.
LEMMA ChosenStep ==
  ASSUME TypeInv, NEW c \in Conns, NEW await \in Awaits, GoesTo(c, await),
         \A d \in Conns \ {c} : request'[d] = request[d] /\ local'[d] = local[d]
  PROVE  Chosen' = [Chosen EXCEPT ![c] =
                      IF await \in {"backend", "start", "call"} /\ request'[c].cmd = "CONNECT"
                        THEN local'[c] ELSE None]
  <1>1. pc \in [Conns -> Awaits]
    BY DEF TypeInv, ServerTypeOK
  <1>2. pc'[c] = await /\ \A d \in Conns \ {c} : pc'[d] = pc[d]
    BY <1>1 DEF GoesTo
  <1>3. QED
    BY <1>2 DEF Chosen

\* A response in one step of EngineService, the other components given.
LEMMA Silent ==
  ASSUME said' = None, Served' = Served, Chosen' = Chosen
  PROVE  Service!Next
  BY DEF Service!Next, Service!Silence

\* A task that neither enters nor leaves the backend, nor finds it free, leaves
\* clients with the backend they have seen.
LEMMA Bystander ==
  ASSUME TypeInv, MutexInv, CommitInv, Record, UNCHANGED <<state, config>>,
         InBackend' = InBackend
  PROVE  committed' = committed
  BY Committed DEF CommitInv

\* An engine is what its four fields are.
LEMMA EngineFields ==
  ASSUME NEW P, NEW F, NEW S, NEW C,
         NEW e \in [profile : P, fetchError : F, status : S, config : C]
  PROVE  e = Seen(e.profile, e.fetchError, <<e.status, e.config>>)
  BY DEF Seen

-----------------------------------------------------------------------------
(* Steps that clients do not see                                           *)

\* A request that comes in, or a handler that waits for something else.
LEMMA WaitingServes ==
  ASSUME EInv, Record, NEW c \in Conns,
         \/ \E r \in Requests : Receive(c, r)
         \/ FetchBegin(c)
         \/ \E p \in Profiles \cup {None} : FetchReturns(c, p)
         \/ StatusReads(c)
  PROVE  Service!Next
  <1>1. PICK await \in {"fetch_lock", "read", "backend", "network", "store"} :
          /\ GoesTo(c, await)
          /\ await = "backend" => request'[c].cmd # "CONNECT"
    <2>1. request \in [Conns -> Requests \cup {None}]
      BY DEF EInv, SInv, TypeInv, ServerTypeOK
    <2>2. ASSUME NEW r \in Requests, Receive(c, r), r.cmd = "DISCONNECT"
          PROVE  GoesTo(c, "backend") /\ request'[c].cmd # "CONNECT"
      BY <2>1, <2>2 DEF Receive
    <2>3. QED
      BY <2>2 DEF Receive, FetchBegin, FetchReturns, StatusReads, At
  <1>2. /\ pc[c] \notin {"backend", "start", "call"}
        /\ UNCHANGED <<bvars, shared>>
        /\ \A d \in Conns \ {c} : request'[d] = request[d] /\ local'[d] = local[d]
    BY DEF Receive, FetchBegin, FetchReturns, StatusReads, At, Keeps, EInv, SInv, TypeInv,
           ServerTypeOK
  <1>3. await \in Awaits /\ await \notin {"line", "start", "call"}
    BY DEF Awaits
  <1>4. said' = None
    BY <1>1, <1>3, Said DEF EInv, SInv
  <1>5. InBackend' = InBackend
    BY <1>1, <1>2, <1>3, WhoIsIn DEF EInv, SInv, InBackend
  <1>6. Served' = Served
    BY <1>2, <1>5, Bystander DEF EInv, SInv, Served, Seen, shared, bvars, engine
  <1>7. Chosen' = Chosen
    <2>1. Chosen' = [Chosen EXCEPT ![c] = None]
      BY <1>1, <1>2, <1>3, ChosenStep DEF EInv, SInv
    <2>2. Chosen[c] = None
      BY <1>2 DEF Chosen
    <2>3. QED
      BY <2>1, <2>2 DEF Chosen
  <1>8. QED
    BY <1>4, <1>6, <1>7, Silent

\* A handler that goes on inside the mutex: the binary is found, or a method of
\* the backend begins.
LEMMA InsideServes ==
  ASSUME EInv, Record, NEW c \in Conns,
         \/ ConnectFindsBinary(c)
         \/ ConnectApplies(c) /\ outcome' = "Ok"
         \/ ConnectStarts(c)
         \/ DisconnectStops(c)
  PROVE  Service!Next
  <1>0. /\ pc \in [Conns -> Awaits]
        /\ request \in [Conns -> Requests \cup {None}]
        /\ local \in [Conns -> Profiles \cup {None}]
    BY DEF EInv, SInv, TypeInv, ServerTypeOK
  <1>1. CASE ConnectFindsBinary(c)
    <2>1. UNCHANGED <<pc, request, local, profile, fetchError, state, config>>
      BY <1>1 DEF ConnectFindsBinary, tasks, bvars, engine
    <2>2. Served' = Served
      BY <2>1, Bystander DEF EInv, SInv, Served, Seen, InBackend
    <2>3. Chosen' = Chosen
      BY <2>1 DEF Chosen
    <2>4. QED
      BY <2>1, <2>2, <2>3, Unsaid, Silent
  <1>2. ASSUME NEW await \in {"start", "call"}, GoesTo(c, await), pc[c] \in {"backend", "start"},
               UNCHANGED <<profile, fetchError, request, local>>
        PROVE  Service!Next
    <2>1. await \in Awaits /\ await # "line"
      BY DEF Awaits
    <2>2. said' = None
      BY <1>2, <2>1, Said DEF EInv, SInv
    <2>3. committed' = committed
      BY <1>2, <2>1, WhoIsIn, Committed DEF EInv, SInv
    <2>4. Chosen' = Chosen
      BY <1>0, <1>2 DEF Chosen, GoesTo
    <2>5. QED
      BY <1>2, <2>2, <2>3, <2>4, Silent DEF Served, Seen
  <1>3. QED
    BY <1>1, <1>2 DEF ConnectApplies, ConnectStarts, DisconnectStops, At, shared

\* A backend method that goes on, and an exit.
LEMMA BackendServes ==
  ASSUME EInv, Record, BackendStep \/ (\E p \in Pids : Exits(p)) \/ UNCHANGED svars
  PROVE  Service!Next
  <1>1. UNCHANGED <<pc, request, local, profile, fetchError>>
    BY DEF BackendStep, Exits, UnchangedServer, svars, tasks, shared
  <1>2. \/ call # "none"
        \/ UNCHANGED <<state, config>>
    BY DEF BackendStep, Proceed, Exits, ProcessExits, WriteConfig, WriteFails, SpawnSucceeds,
           SpawnFails, Settle, KillNothing, KillSucceeds, Reap, StopFails, svars, bvars, engine
  <1>3. InBackend' = InBackend
    BY <1>1 DEF InBackend
  <1>4. committed' = committed
    BY <1>2, <1>3, OneInBackend, Committed, Bystander DEF EInv, SInv
  <1>5. Served' = Served /\ Chosen' = Chosen
    BY <1>1, <1>4 DEF Served, Seen, Chosen
  <1>6. QED
    BY <1>1, <1>5, Unsaid, Silent

-----------------------------------------------------------------------------
(* The outcomes EngineApi allows, over an engine whose fields are known     *)

\* A fetch that fails changes the error alone.
LEMMA FetchFails ==
  ASSUME NEW p, NEW f, NEW s
  PROVE  Service!Err(Seen(p, TRUE, s)) \in Service!FetchOutcomes(Seen(p, f, s))
  <1> DEFINE e == Seen(p, f, s)
             u == [e EXCEPT !.fetchError = TRUE]
  <1>1. e \in [profile : {p}, fetchError : {f}, status : {s[1]}, config : {s[2]}]
    BY DEF Seen
  <1> HIDE DEF e
  <1>2. u \in [profile : {p}, fetchError : {f, TRUE}, status : {s[1]}, config : {s[2]}]
    BY <1>1
  <1>3. u.profile = p /\ u.fetchError = TRUE /\ u.status = s[1] /\ u.config = s[2]
    BY <1>1
  <1>4. u = Seen(p, TRUE, s)
    BY <1>2, <1>3, EngineFields DEF Seen
  <1>5. Service!Err(u) \in Service!FetchOutcomes(e)
    BY Zenon DEF Service!FetchOutcomes
  <1>6. QED
    BY <1>4, <1>5, Zenon DEF e

\* One that succeeds stores its profile and clears the error.
LEMMA FetchSucceeds ==
  ASSUME NEW p, NEW f, NEW s, NEW q \in Profiles
  PROVE  Service!Ok(Seen(q, FALSE, s), q) \in Service!FetchOutcomes(Seen(p, f, s))
  <1> DEFINE e == Seen(p, f, s)
             u == [e EXCEPT !.profile = q, !.fetchError = FALSE]
  <1>1. e \in [profile : {p}, fetchError : {f}, status : {s[1]}, config : {s[2]}]
    BY DEF Seen
  <1> HIDE DEF e
  <1>2. u \in [profile : {p, q}, fetchError : {f, FALSE}, status : {s[1]}, config : {s[2]}]
    BY <1>1
  <1>3. u.profile = q /\ u.fetchError = FALSE /\ u.status = s[1] /\ u.config = s[2]
    BY <1>1
  <1>4. u = Seen(q, FALSE, s)
    BY <1>2, <1>3, EngineFields DEF Seen
  <1>5. Service!Ok(u, q) \in Service!FetchOutcomes(e)
    BY Zenon DEF Service!FetchOutcomes
  <1>6. QED
    BY <1>4, <1>5, Zenon DEF e

\* A refresh leaves the engine, or finds its process dead.
LEMMA Notices ==
  ASSUME NEW p, NEW f, NEW s
  PROVE  /\ Seen(p, f, s) \in Service!Noticed(Seen(p, f, s))
         /\ s[1] = "running" =>
              Seen(p, f, <<"error", s[2]>>) \in Service!Noticed(Seen(p, f, s)) \ {Seen(p, f, s)}
  <1> DEFINE e == Seen(p, f, s)
             u == [e EXCEPT !.status = "error"]
  <1>1. u = Seen(p, f, <<"error", s[2]>>)
    <2>1. e \in [profile : {p}, fetchError : {f}, status : {s[1]}, config : {s[2]}]
      BY DEF Seen
    <2> HIDE DEF e
    <2>2. u \in [profile : {p}, fetchError : {f}, status : {s[1], "error"}, config : {s[2]}]
      BY <2>1
    <2>3. u.profile = p /\ u.fetchError = f /\ u.status = "error" /\ u.config = s[2]
      BY <2>1
    <2>4. QED
      BY <2>2, <2>3, EngineFields DEF Seen
  <1>2. e.status = s[1] /\ Seen(p, f, <<"error", s[2]>>).status = "error"
    BY DEF Seen
  <1> HIDE DEF e
  <1>3. e \in Service!Noticed(e)
    BY Zenon DEF Service!Noticed
  <1>4. e.status = "running" => u \in Service!Noticed(e)
    BY Zenon DEF Service!Noticed
  <1>5. QED
    BY <1>1, <1>2, <1>3, <1>4 DEF e

\* STATUS shows what a refresh leaves.
LEMMA StatusIsShown ==
  ASSUME NEW e, NEW s \in Service!Noticed(e)
  PROVE  Service!Ok(s, A!Shown(s)) \in Service!StatusOutcomes(e)
  BY Zenon DEF Service!StatusOutcomes, Service!Shown, A!Shown, Service!NodeOf, A!NodeOf

\* A stop that succeeds leaves the backend idle, its config kept.
LEMMA DisconnectSucceeds ==
  ASSUME NEW p, NEW f, NEW s
  PROVE  LET left == Seen(p, f, <<"idle", s[2]>>)
         IN  Service!Ok(left, A!Backend(left)) \in Service!DisconnectOutcomes(Seen(p, f, s))
  <1> DEFINE e == Seen(p, f, s)
             u == [e EXCEPT !.status = "idle"]
  <1>1. u = Seen(p, f, <<"idle", s[2]>>)
    <2>1. e \in [profile : {p}, fetchError : {f}, status : {s[1]}, config : {s[2]}]
      BY DEF Seen
    <2> HIDE DEF e
    <2>2. u \in [profile : {p}, fetchError : {f}, status : {s[1], "idle"}, config : {s[2]}]
      BY <2>1
    <2>3. u.profile = p /\ u.fetchError = f /\ u.status = "idle" /\ u.config = s[2]
      BY <2>1
    <2>4. QED
      BY <2>2, <2>3, EngineFields DEF Seen
  <1> HIDE DEF e
  <1>2. Service!Ok(u, A!Backend(u)) \in Service!DisconnectOutcomes(e)
    BY Zenon DEF Service!DisconnectOutcomes, Service!Backend, A!Backend, Service!NodeOf, A!NodeOf
  <1>3. QED
    BY <1>1, <1>2, Zenon DEF e

\* One that fails has found a running backend.
LEMMA DisconnectFails ==
  ASSUME NEW p, NEW f, NEW s, s[1] = "running"
  PROVE  Service!Err(Seen(p, f, <<"error", s[2]>>))
           \in Service!DisconnectOutcomes(Seen(p, f, s))
  <1> DEFINE e == Seen(p, f, s)
             u == Seen(p, f, <<"error", s[2]>>)
  <1>1. u \in Service!Noticed(e) \ {e}
    BY Notices
  <1> HIDE DEF e, u
  <1>2. Service!Err(u) \in Service!DisconnectOutcomes(e)
    BY <1>1, Zenon DEF Service!DisconnectOutcomes
  <1>3. QED
    BY <1>2 DEF e, u

\* A CONNECT may change nothing, or notice a death and be refused.
LEMMA ConnectRefused ==
  ASSUME NEW e, NEW p, NEW n
  PROVE  /\ Service!Err(e) \in Service!ConnectOutcomes(e, p, n)
         /\ \A s \in Service!Noticed(e) :
              <<p, n>> \notin Usable =>
                Service!Err(s) \in Service!ConnectOutcomes(e, p, n)
  <1>1. Service!Err(e) \in Service!ConnectOutcomes(e, p, n)
    BY Zenon DEF Service!ConnectOutcomes
  <1>2. ASSUME NEW s \in Service!Noticed(e), <<p, n>> \notin Usable
        PROVE  Service!Err(s) \in Service!ConnectOutcomes(e, p, n)
    <2>1. Service!Err(s) \in Service!ApplyOutcomes(s, p, n)
      BY <1>2, Zenon DEF Service!ApplyOutcomes
    <2>2. QED
      BY <2>1, Zenon DEF Service!ConnectOutcomes
  <1>3. QED
    BY <1>1, <1>2, Zenon

\* Once a selection is accepted CONNECT has it running, or leaves Error.
LEMMA ConnectTries ==
  ASSUME NEW p, NEW f, NEW s, NEW q, NEW n, <<q, n>> \in Usable
  PROVE  LET left(status) == Seen(p, f, <<status, <<q, n>>>>)
             outcomes     == Service!ConnectOutcomes(Seen(p, f, s), q, n)
         IN  /\ Service!Ok(left("running"), <<"running", n>>) \in outcomes
             /\ Service!Err(left("error")) \in outcomes
  <1>1. PICK w : w # "running" /\ Seen(p, f, <<w, s[2]>>) \in Service!Noticed(Seen(p, f, s))
    <2>1. CASE s[1] = "running"
      BY <2>1, Notices
    <2>2. CASE s[1] # "running"
      <3>1. Seen(p, f, s) = Seen(p, f, <<s[1], s[2]>>)
        BY DEF Seen
      <3>2. QED
        BY <2>2, <3>1, Notices
    <2>3. QED
      BY <2>1, <2>2
  <1> DEFINE e     == Seen(p, f, <<w, s[2]>>)
             u(st) == [e EXCEPT !.status = st, !.config = <<q, n>>]
             left(st) == Seen(p, f, <<st, <<q, n>>>>)
  <1>2. e \in [profile : {p}, fetchError : {f}, status : {w}, config : {s[2]}]
    BY DEF Seen
  <1> HIDE DEF e
  <1>3. ASSUME NEW st
        PROVE  u(st) = left(st)
    <2> DEFINE v == u(st)
    <2>1. v \in [profile : {p}, fetchError : {f}, status : {w, st}, config : {s[2], <<q, n>>}]
      BY <1>2
    <2>2. v.profile = p /\ v.fetchError = f /\ v.status = st /\ v.config = <<q, n>>
      BY <1>2
    <2>3. QED
      BY <2>1, <2>2, EngineFields DEF Seen
  <1>4. e.status # "running"
    BY <1>1, <1>2
  <1>5. /\ Service!Ok(u("running"), <<"running", n>>) \in Service!ApplyOutcomes(e, q, n)
        /\ Service!Err(u("error")) \in Service!ApplyOutcomes(e, q, n)
    BY <1>4, Zenon DEF Service!ApplyOutcomes
  <1>6. /\ u("running") = left("running")
        /\ u("error") = left("error")
    BY <1>3, Zenon
  <1>7. /\ Service!Ok(left("running"), <<"running", n>>) \in Service!ApplyOutcomes(e, q, n)
        /\ Service!Err(left("error")) \in Service!ApplyOutcomes(e, q, n)
    BY <1>5, <1>6, Zenon
  <1>8. e \in Service!Noticed(Seen(p, f, s))
    BY <1>1 DEF e
  <1>9. QED
    BY <1>7, <1>8, Zenon DEF Service!ConnectOutcomes

\* A response that reports an outcome of its request.
LEMMA Responding ==
  ASSUME NEW c, NEW cmd, NEW STATE O, NEW ACTION r, NEW ACTION d,
         [engine |-> Served', result |-> r, data |-> d] \in O,
         said' = [to |-> c, cmd |-> cmd, result |-> r, data |-> d]
  PROVE  Service!Responds(c, cmd, O)
  <1> DEFINE o == [engine |-> Served', result |-> r, data |-> d]
  <1>1. o.engine = Served' /\ o.result = r /\ o.data = d
    OBVIOUS
  <1>2. o \in O
    OBVIOUS
  <1> HIDE DEF o
  <1>3. QED
    BY <1>1, <1>2 DEF Service!Responds

-----------------------------------------------------------------------------
(* Steps that answer                                                       *)

\* What is common to them.
LEMMA Answered ==
  ASSUME TypeInv, Record, NEW c \in Conns, pc[c] # "line", Answers(c)
  PROVE  /\ said' = ResponseOf(c)
         /\ Chosen' = [Chosen EXCEPT ![c] = None]
         /\ pc[c] \notin {"backend", "start", "call"} => Chosen' = Chosen
         /\ request[c].cmd # "CONNECT" => Chosen' = Chosen
         /\ InBackend' = InBackend \ {c}
  <1>0. "line" \in Awaits /\ GoesTo(c, "line")
    BY DEF Awaits, Answers
  <1>1. said' = ResponseOf(c)
    BY <1>0, Said
  <1>2. InBackend' = InBackend \ {c}
    BY <1>0, WhoIsIn
  <1>3. \A d \in Conns \ {c} : request'[d] = request[d] /\ local'[d] = local[d]
    BY DEF Answers, Keeps, TypeInv, ServerTypeOK
  <1>4. Chosen' = [Chosen EXCEPT ![c] = None]
    BY <1>0, <1>3, ChosenStep
  <1>5. pc[c] \notin {"backend", "start", "call"} \/ request[c].cmd # "CONNECT" => Chosen[c] = None
    BY DEF Chosen
  <1>6. Chosen[c] = None => Chosen' = Chosen
    BY <1>4 DEF Chosen
  <1>7. QED
    BY <1>1, <1>2, <1>4, <1>5, <1>6

\* FETCH takes effect when it stores its result.
LEMMA StoreServes ==
  ASSUME EInv, Record, NEW c \in Conns, Store(c)
  PROVE  Service!Next
  <1>0. local[c] \in Profiles \cup {None} /\ TypeInv /\ MutexInv /\ CommitInv
    BY DEF EInv, SInv, TypeInv, ServerTypeOK
  <1>1. /\ pc[c] = "store" /\ request[c].cmd = "FETCH" /\ Answers(c)
        /\ UNCHANGED <<state, config>>
        /\ profile' = IF local[c] = None THEN profile ELSE local[c]
        /\ fetchError' = (local[c] = None)
    BY DEF Store, At, bvars, engine
  <1>2. said' = ResponseOf(c) /\ Chosen' = Chosen /\ InBackend' = InBackend
    BY <1>0, <1>1, Answered DEF InBackend
  <1>3. committed' = committed
    BY <1>0, <1>1, <1>2, Bystander
  <1>4. Service!Responds(c, "FETCH", Service!FetchOutcomes(Served))
    <2>1. CASE local[c] = None
      <3>1. Served' = Seen(profile, TRUE, committed)
        BY <1>1, <1>3, <2>1 DEF Served
      <3>2. said' = [to |-> c, cmd |-> "FETCH", result |-> "ERR", data |-> None]
        BY <1>1, <1>2, <2>1 DEF ResponseOf
      <3>3. [engine |-> Served', result |-> "ERR", data |-> None] \in Service!FetchOutcomes(Served)
        BY <3>1, FetchFails DEF Served, Service!Err
      <3>4. QED
        BY <3>2, <3>3, Responding
    <2>2. CASE local[c] # None
      <3>1. Served' = Seen(local[c], FALSE, committed)
        BY <1>1, <1>3, <2>2 DEF Served
      <3>2. said' = [to |-> c, cmd |-> "FETCH", result |-> "OK", data |-> local[c]]
        BY <1>1, <1>2, <2>2 DEF ResponseOf
      <3>3. [engine |-> Served', result |-> "OK", data |-> local[c]]
              \in Service!FetchOutcomes(Served)
        BY <1>0, <2>2, <3>1, FetchSucceeds DEF Served, Service!Ok
      <3>4. QED
        BY <3>2, <3>3, Responding
    <2>3. QED
      BY <2>1, <2>2
  <1>5. QED
    BY <1>2, <1>4 DEF Service!Next, Service!Fetch

\* GET_PROFILE, and a CONNECT that finds no profile.
LEMMA ReadServes ==
  ASSUME EInv, Record, NEW c \in Conns, GetProfile(c) \/ ConnectWithoutProfile(c)
  PROVE  Service!Next
  <1>0. TypeInv /\ MutexInv /\ CommitInv
    BY DEF EInv, SInv
  <1>1. /\ pc[c] = "read" /\ Answers(c)
        /\ UNCHANGED <<state, config, profile, fetchError>>
    BY DEF GetProfile, ConnectWithoutProfile, At, bvars, engine, shared
  <1>2. said' = ResponseOf(c) /\ Chosen' = Chosen /\ InBackend' = InBackend
    BY <1>0, <1>1, Answered DEF InBackend
  <1>3. committed' = committed
    BY <1>0, <1>1, <1>2, Bystander
  <1>4. Served' = Served /\ Served.profile = profile
    BY <1>1, <1>3 DEF Served, Seen
  <1>5. CASE GetProfile(c)
    <2>1. said' = [to |-> c, cmd |-> "GET_PROFILE",
                   result |-> IF profile = None THEN "ERR" ELSE "OK", data |-> profile]
      BY <1>2, <1>5 DEF ResponseOf, GetProfile, At
    <2>2. [engine |-> Served', result |-> IF profile = None THEN "ERR" ELSE "OK", data |-> profile]
            \in Service!GetProfileOutcomes(Served)
      BY <1>4 DEF Service!GetProfileOutcomes, Service!Ok, Service!Err
    <2>3. Service!Responds(c, "GET_PROFILE", Service!GetProfileOutcomes(Served))
      BY <2>1, <2>2, Responding
    <2>4. QED
      BY <1>2, <2>3 DEF Service!Next, Service!GetProfile
  <1>6. CASE ConnectWithoutProfile(c)
    <2>1. said' = [to |-> c, cmd |-> "CONNECT", result |-> "ERR", data |-> None] /\ profile = None
      BY <1>1, <1>2, <1>6 DEF ResponseOf, ConnectWithoutProfile, At
    <2>2. [engine |-> Served', result |-> "ERR", data |-> None] \in {Service!Err(Served)}
      BY <1>4 DEF Service!Err
    <2>3. Service!Responds(c, "CONNECT", {Service!Err(Served)})
      BY <2>1, <2>2, Responding
    <2>4. QED
      BY <1>2, <1>4, <2>1, <2>3 DEF Service!Next, Service!ConnectNothing
  <1>7. QED
    BY <1>5, <1>6

\* STATUS refreshes the backend alone, and shows what it leaves.
LEMMA StatusServes ==
  ASSUME EInv, Record, NEW c \in Conns, StatusAnswers(c)
  PROVE  Service!Next
  <1>0. TypeInv /\ MutexInv /\ CommitInv
    BY DEF EInv, SInv
  <1>1. /\ pc[c] = "backend" /\ request[c].cmd = "STATUS" /\ Answers(c)
        /\ Owns(c, backendLock)
        /\ UNCHANGED <<config, profile, fetchError>>
        /\ state' = state \/ (state = "running" /\ state' = "error")
    BY RefreshFacts
    DEF StatusAnswers, At, Refresh, Adopt, Steady, Exited, bvars, engine, shared
  <1>2. said' = ResponseOf(c) /\ Chosen' = Chosen /\ InBackend' = InBackend
    BY <1>0, <1>1, Answered DEF InBackend
  <1>3. InBackend = {}
    BY <1>0, <1>1, OwnerAlone
  <1>4. committed = <<state, config>> /\ committed' = <<state', config>>
    BY <1>0, <1>1, <1>2, <1>3, Committed DEF CommitInv
  <1>5. /\ Served = Seen(profile, fetchError, <<state, config>>)
        /\ Served' = Seen(profile, fetchError, <<state', config>>)
    BY <1>1, <1>4 DEF Served
  <1>6. Served' \in Service!Noticed(Served)
    <2>1. CASE state' = state
      BY <1>5, <2>1, Notices
    <2>2. CASE state = "running" /\ state' = "error"
      <3>1. <<state, config>>[1] = "running" /\ <<state, config>>[2] = config
        BY <2>2
      <3>2. QED
        BY <1>5, <2>2, <3>1, Notices
    <2>3. QED
      BY <1>1, <2>1, <2>2
  <1>7. said' = [to |-> c, cmd |-> "STATUS", result |-> "OK", data |-> A!Shown(Served')]
    BY <1>1, <1>2, <1>5 DEF ResponseOf
  <1>8. [engine |-> Served', result |-> "OK", data |-> A!Shown(Served')]
          \in Service!StatusOutcomes(Served)
    BY <1>6, StatusIsShown DEF Service!Ok
  <1>9. Service!Responds(c, "STATUS", Service!StatusOutcomes(Served))
    BY <1>7, <1>8, Responding
  <1>10. QED
    BY <1>2, <1>9 DEF Service!Next, Service!Status

\* A CONNECT settles on the profile it clones.
LEMMA CloneServes ==
  ASSUME EInv, Record, NEW c \in Conns, ConnectClones(c)
  PROVE  Service!Next
  <1>0. TypeInv /\ MutexInv /\ CommitInv
    BY DEF EInv, SInv
  <1>1. /\ pc[c] = "read" /\ GoesTo(c, "backend") /\ request[c].cmd = "CONNECT"
        /\ UNCHANGED <<state, config, profile, fetchError, request>>
        /\ profile # None
        /\ local' = [local EXCEPT ![c] = profile]
    BY DEF ConnectClones, At, Keeps, bvars, engine, shared
  <1>2. "backend" \in Awaits
    BY DEF Awaits
  <1>3. said' = None
    BY <1>0, <1>1, <1>2, Said
  <1>4. InBackend' = InBackend
    BY <1>0, <1>1, <1>2, WhoIsIn DEF InBackend
  <1>5. Served' = Served /\ Served.profile = profile
    BY <1>0, <1>1, <1>4, Bystander DEF Served, Seen
  <1>6. Chosen[c] = None /\ Chosen' = [Chosen EXCEPT ![c] = profile]
    <2>1. \A d \in Conns \ {c} : request'[d] = request[d] /\ local'[d] = local[d]
      BY <1>0, <1>1 DEF TypeInv, ServerTypeOK
    <2>2. local'[c] = profile
      BY <1>0, <1>1 DEF TypeInv, ServerTypeOK
    <2>3. Chosen[c] = None
      BY <1>1 DEF Chosen
    <2>4. QED
      BY <1>0, <1>1, <1>2, <2>1, <2>2, <2>3, ChosenStep
  <1>7. QED
    BY <1>1, <1>3, <1>5, <1>6 DEF Service!Next, Service!Choose

\* What a CONNECT behind the mutex has settled on.
LEMMA Settled ==
  ASSUME TypeInv, NEW c \in Conns, pc[c] \in {"backend", "start", "call"},
         request[c].cmd = "CONNECT"
  PROVE  /\ Chosen[c] = local[c] /\ Chosen[c] # None
         /\ request[c].node \in NodeIds
  BY ServerAssumption DEF TypeInv, TaskInv, Chosen

\* A CONNECT that fails before start(): without the sing-box binary, over a
\* running process, or with a selection generate_config refuses.
LEMMA RefusalServes ==
  ASSUME EInv, Record, NEW c \in Conns,
         ConnectFindsNoBinary(c) \/ (ConnectApplies(c) /\ outcome' # "Ok")
  PROVE  Service!Next
  <1> DEFINE p == local[c]
             n == request[c].node
  <1>0. TypeInv /\ MutexInv /\ CommitInv /\ IInv
    BY DEF EInv, SInv
  <1>1. /\ pc[c] = "backend" /\ request[c].cmd = "CONNECT" /\ Answers(c)
        /\ Owns(c, backendLock)
        /\ UNCHANGED <<profile, fetchError>>
    BY DEF ConnectFindsNoBinary, ConnectApplies, At, shared
  <1>2. /\ said' = ResponseOf(c) /\ Chosen' = [Chosen EXCEPT ![c] = None]
        /\ InBackend' = InBackend
    BY <1>0, <1>1, Answered DEF InBackend
  <1>3. InBackend = {} /\ call = "none"
    BY <1>0, <1>1, OwnerAlone
  <1>4. committed = <<state, config>> /\ committed' = <<state', config'>>
    BY <1>0, <1>2, <1>3, Committed DEF CommitInv
  <1>5. /\ Served = Seen(profile, fetchError, <<state, config>>)
        /\ Served' = Seen(profile, fetchError, <<state', config'>>)
    BY <1>1, <1>4 DEF Served
  <1>6. \/ UNCHANGED <<state, config>>
        \/ <<p, n>> \notin Usable /\ state = "running" /\ state' = "error" /\ config' = config
    <2>1. CASE ConnectFindsNoBinary(c)
      BY <2>1 DEF ConnectFindsNoBinary, bvars, engine
    <2>2. CASE ApplyRejected
      BY <1>0, <1>3, <2>2, RefreshFacts DEF ApplyRejected, Adopt, Steady, Exited, IInv, CallInv
    <2>3. CASE ApplyInvalid(p, n)
      BY <2>3, RefreshFacts DEF ApplyInvalid, Adopt, Steady, Exited
    <2>4. QED
      BY <2>1, <2>2, <2>3 DEF ConnectApplies, ApplyProfile, ApplyAccepted
  <1>7. Service!Err(Served') \in Service!ConnectOutcomes(Served, p, n)
    <2>1. CASE UNCHANGED <<state, config>>
      BY <1>5, <2>1, ConnectRefused
    <2>2. CASE <<p, n>> \notin Usable /\ state = "running" /\ state' = "error" /\ config' = config
      <3>1. <<state, config>>[1] = "running" /\ <<state, config>>[2] = config
        BY <2>2
      <3>2. Served' \in Service!Noticed(Served)
        BY <1>5, <2>2, <3>1, Notices
      <3>3. QED
        BY <2>2, <3>2, ConnectRefused
    <2>3. QED
      BY <1>6, <2>1, <2>2
  <1>8. said' = [to |-> c, cmd |-> "CONNECT", result |-> "ERR", data |-> None]
    BY <1>1, <1>2 DEF ResponseOf
  <1>9. Service!Responds(c, "CONNECT", Service!ConnectOutcomes(Served, p, n))
    BY <1>7, <1>8, Responding DEF Service!Err
  <1>10. QED
    BY <1>0, <1>1, <1>2, <1>9, Settled DEF Service!Next, Service!Connect

\* A DISCONNECT without a backend finds it idle.
LEMMA NothingServes ==
  ASSUME EInv, Record, NEW c \in Conns, DisconnectNothing(c)
  PROVE  Service!Next
  <1>0. TypeInv /\ MutexInv /\ CommitInv
    BY DEF EInv, SInv
  <1>1. /\ pc[c] = "backend" /\ request[c].cmd = "DISCONNECT" /\ Answers(c)
        /\ Owns(c, backendLock) /\ ~present
        /\ UNCHANGED <<profile, fetchError, state, config>>
    BY DEF DisconnectNothing, At, shared, bvars, engine
  <1>2. /\ said' = ResponseOf(c) /\ Chosen' = Chosen /\ InBackend' = InBackend
    BY <1>0, <1>1, Answered DEF InBackend
  <1>3. InBackend = {} /\ state = "idle"
    BY <1>0, <1>1, OwnerAlone DEF MutexInv
  <1>4. committed = <<state, config>> /\ committed' = <<state, config>>
    BY <1>0, <1>1, <1>2, <1>3, Committed DEF CommitInv
  <1>5. committed[2] = config
    BY <1>4
  <1>6. /\ Served = Seen(profile, fetchError, committed)
        /\ Served' = Seen(profile, fetchError, <<"idle", committed[2]>>)
    BY <1>1, <1>3, <1>4, <1>5 DEF Served
  <1>7. said' = [to |-> c, cmd |-> "DISCONNECT", result |-> "OK", data |-> A!Backend(Served')]
    BY <1>1, <1>2, <1>3, <1>5, <1>6 DEF ResponseOf
  <1>8. [engine |-> Served', result |-> "OK", data |-> A!Backend(Served')]
          \in Service!DisconnectOutcomes(Served)
    BY <1>6, DisconnectSucceeds DEF Service!Ok
  <1>9. Service!Responds(c, "DISCONNECT", Service!DisconnectOutcomes(Served))
    BY <1>7, <1>8, Responding
  <1>10. QED
    BY <1>2, <1>9 DEF Service!Next, Service!Disconnect

\* CONNECT and DISCONNECT take effect when start() or stop() has returned.
LEMMA ReturnServes ==
  ASSUME EInv, Record, NEW c \in Conns, CallReturns(c)
  PROVE  Service!Next
  <1> DEFINE p == local[c]
             n == request[c].node
  <1>0. TypeInv /\ MutexInv /\ CommitInv /\ TypeOK /\ Called(c)
    BY DEF EInv, SInv, TypeInv, ServerTypeOK, CommitInv, CallReturns
  <1>1. /\ pc[c] = "call" /\ call = "none" /\ Answers(c)
        /\ UNCHANGED <<profile, fetchError, state, config>>
    BY DEF CallReturns, shared, bvars, engine
  <1>2. /\ said' = ResponseOf(c) /\ InBackend' = InBackend \ {c}
        /\ Chosen' = [Chosen EXCEPT ![c] = None]
        /\ request[c].cmd # "CONNECT" => Chosen' = Chosen
    BY <1>0, <1>1, Answered
  <1>3. InBackend' = {}
    BY <1>0, <1>1, <1>2, OneInBackend DEF InBackend
  <1>4. committed' = <<state, config>>
    BY <1>1, <1>3, Committed
  <1>5. /\ Served = Seen(profile, fetchError, committed)
        /\ Served' = Seen(profile, fetchError, <<state, config>>)
    BY <1>1, <1>4 DEF Served
  <1>6. CASE request[c].cmd = "CONNECT"
    <2>1. config = <<p, n>> /\ config \in Usable
      BY <1>0, <1>1, <1>6 DEF MutexInv, Called, TypeOK
    <2>2. Service!Responds(c, "CONNECT", Service!ConnectOutcomes(Served, p, n))
      <3>1. CASE outcome = "Ok"
        <4>1. Served' = Seen(profile, fetchError, <<"running", <<p, n>>>>)
          BY <1>0, <1>1, <1>5, <1>6, <2>1, <3>1 DEF MutexInv
        <4>2. Service!Ok(Served', <<"running", n>>) \in Service!ConnectOutcomes(Served, p, n)
          BY <1>5, <2>1, <4>1, ConnectTries
        <4>3. said' = [to |-> c, cmd |-> "CONNECT", result |-> "OK", data |-> A!Backend(Served')]
          BY <1>1, <1>2, <1>5, <1>6, <3>1 DEF ResponseOf
        <4>4. A!Backend(Served') = <<"running", n>>
          <5>1. config # None /\ config[2] = n
            BY <2>1, BackendAssumption
          <5>2. QED
            BY <2>1, <4>1, <5>1 DEF A!Backend, A!NodeOf, Seen
        <4>5. QED
          BY <4>2, <4>3, <4>4, Responding DEF Service!Ok
      <3>2. CASE outcome # "Ok"
        <4>1. Served' = Seen(profile, fetchError, <<"error", <<p, n>>>>)
          BY <1>0, <1>1, <1>5, <1>6, <2>1, <3>2 DEF Called
        <4>2. Service!Err(Served') \in Service!ConnectOutcomes(Served, p, n)
          BY <1>5, <2>1, <4>1, ConnectTries
        <4>3. said' = [to |-> c, cmd |-> "CONNECT", result |-> "ERR", data |-> None]
          BY <1>1, <1>2, <1>6, <3>2 DEF ResponseOf
        <4>4. QED
          BY <4>2, <4>3, Responding DEF Service!Err
      <3>3. QED
        BY <3>1, <3>2
    <2>3. QED
      BY <1>0, <1>1, <1>2, <1>6, <2>2, Settled DEF Service!Next, Service!Connect
  <1>7. CASE request[c].cmd = "DISCONNECT"
    <2>1. config = committed[2]
      BY <1>0, <1>7 DEF Called
    <2>2. Service!Responds(c, "DISCONNECT", Service!DisconnectOutcomes(Served))
      <3>1. CASE outcome = "Ok"
        <4>1. Served' = Seen(profile, fetchError, <<"idle", committed[2]>>)
          BY <1>0, <1>1, <1>5, <1>7, <2>1, <3>1 DEF MutexInv
        <4>2. Service!Ok(Served', A!Backend(Served')) \in Service!DisconnectOutcomes(Served)
          BY <1>5, <4>1, DisconnectSucceeds
        <4>3. said' = [to |-> c, cmd |-> "DISCONNECT", result |-> "OK", data |-> A!Backend(Served')]
          BY <1>1, <1>2, <1>5, <1>7, <3>1 DEF ResponseOf
        <4>4. QED
          BY <4>2, <4>3, Responding DEF Service!Ok
      <3>2. CASE outcome # "Ok"
        <4>1. /\ Served' = Seen(profile, fetchError, <<"error", committed[2]>>)
              /\ committed[1] = "running"
          BY <1>0, <1>1, <1>5, <1>7, <2>1, <3>2 DEF Called
        <4>2. Service!Err(Served') \in Service!DisconnectOutcomes(Served)
          BY <1>5, <4>1, DisconnectFails
        <4>3. said' = [to |-> c, cmd |-> "DISCONNECT", result |-> "ERR", data |-> None]
          BY <1>1, <1>2, <1>7, <3>2 DEF ResponseOf
        <4>4. QED
          BY <4>2, <4>3, Responding DEF Service!Err
      <3>3. QED
        BY <3>1, <3>2
    <2>3. QED
      BY <1>2, <1>7, <2>2 DEF Service!Next, Service!Disconnect
  <1>8. QED
    BY <1>0, <1>1, <1>6, <1>7 DEF TypeInv, TaskInv

-----------------------------------------------------------------------------
(* The invariant of the history                                            *)

\* The invariant holds initially.
LEMMA InitEInv == EngineInit => EInv
  <1> SUFFICES ASSUME EngineInit
               PROVE  EInv
    OBVIOUS
  <1>1. SInv
    <2>1. FetchInv /\ MutexInv
      BY DEF EngineInit, Init, BackendInit, FetchInv, Fetching, MutexInv
    <2>2. QED
      BY <2>1, InitIInv, InitTypeInv DEF EngineInit, Init, SInv
  <1>2. CommitInv
    BY DEF EngineInit, Init, BackendInit, CommitInv
  <1>3. QED
    BY <1>1, <1>2 DEF EInv

\* What a backend method in progress owes is kept by the steps of the method.
LEMMA MethodCalled ==
  ASSUME EInv, BackendStep, committed' = committed, NEW h \in Conns, pc[h] = "call"
  PROVE  Called(h)'
  <1>1. /\ call # "none" /\ UNCHANGED <<pc, request, config>>
        /\ Called(h) /\ SInv
    BY DEF BackendStep, Proceed, UnchangedServer, tasks, WriteConfig, WriteFails,
           SpawnSucceeds, SpawnFails, Settle, KillNothing, KillSucceeds, Reap, StopFails,
           StartFails, StopFinish, EInv, CommitInv
  <1>2. CASE request[h].cmd = "CONNECT"
    <2>1. WriteConfig \/ WriteFails \/ SpawnSucceeds \/ SpawnFails \/ Settle
      BY <1>1, <1>2
      DEF BackendStep, Proceed, SInv, MutexInv, KillNothing, KillSucceeds, Reap, StopFails
    <2>2. call' = "none" /\ outcome' # "Ok" => state' = "error"
      BY <2>1, RefreshFacts
      DEF WriteConfig, WriteFails, SpawnSucceeds, SpawnFails, Settle, StartFails, Adopt
    <2>3. QED
      BY <1>1, <1>2, <2>2 DEF Called
  <1>3. CASE request[h].cmd # "CONNECT"
    <2>0. request[h].cmd = "DISCONNECT" /\ call \in {"kill", "reap"}
      BY <1>1, <1>3 DEF SInv, TypeInv, TaskInv, MutexInv
    <2>1. KillNothing \/ KillSucceeds \/ Reap \/ StopFails
      BY <2>0
      DEF BackendStep, Proceed, WriteConfig, WriteFails, SpawnSucceeds, SpawnFails, Settle
    <2>2. state \in {"stopping", "error"}
      BY <1>1, <2>0 DEF SInv, IInv, CallInv
    <2>3. \/ state' = state /\ call' = "reap"
          \/ state' = "idle" /\ outcome' = "Ok"
          \/ state = "stopping" /\ state' = "error"
      BY <2>1, <2>2 DEF KillNothing, KillSucceeds, Reap, StopFails, StopFinish
    <2>4. QED
      BY <1>1, <1>3, <2>3, committed' = committed DEF Called
  <1>4. QED
    BY <1>2, <1>3

\* What start() and stop() find when a handler calls them.
LEMMA CallsCalled ==
  ASSUME EInv, committed' = committed, NEW c \in Conns, ConnectStarts(c) \/ DisconnectStops(c)
  PROVE  /\ Called(c)'
         /\ \A d \in Conns : pc'[d] = "call" => d = c
  <1>0. TypeInv /\ MutexInv /\ CommitInv /\ IInv /\ pc \in [Conns -> Awaits]
    BY DEF EInv, SInv, TypeInv, ServerTypeOK
  <1>1. CASE ConnectStarts(c)
    <2>1. /\ pc[c] = "start" /\ request'[c] = request[c] /\ request[c].cmd = "CONNECT"
          /\ call = "none" /\ state = "idle" /\ config # None
          /\ pc' = [pc EXCEPT ![c] = "call"]
      BY <1>0, <1>1 DEF ConnectStarts, At, GoesTo, MutexInv
    <2>2. call' = "write" /\ config' = config
      BY <1>1, <2>1, RefreshFacts DEF ConnectStarts, Start, StartRejected, StartBegin, Steady
    <2>3. \A d \in Conns : pc'[d] = "call" => d = c
      BY <1>0, <2>1, OneInBackend DEF InBackend
    <2>4. QED
      BY <2>1, <2>2, <2>3 DEF Called
  <1>2. CASE DisconnectStops(c)
    <2>1. /\ pc[c] = "backend" /\ request'[c] = request[c] /\ request[c].cmd = "DISCONNECT"
          /\ Owns(c, backendLock) /\ Stop
          /\ pc' = [pc EXCEPT ![c] = "call"]
      BY <1>2 DEF DisconnectStops, At, GoesTo
    <2>2. InBackend = {} /\ call = "none"
      BY <1>0, <2>1, OwnerAlone
    <2>3. committed[1] = state /\ committed[2] = config
      BY <1>0, <2>2 DEF CommitInv
    <2>4. /\ config' = config
          /\ state' = "stopping" => state = "running"
          /\ call' = "none" => outcome' = "Ok"
      <3>1. CASE StopIdle
        BY <3>1 DEF StopIdle
      <3>2. CASE StopBegin
        BY <3>2, RefreshFacts DEF StopBegin, Adopt, Steady, Exited
      <3>3. QED
        BY <2>1, <3>1, <3>2 DEF Stop
    <2>5. \A d \in Conns : pc'[d] = "call" => d = c
      BY <1>0, <2>1, <2>2 DEF InBackend
    <2>6. QED
      BY <2>1, <2>3, <2>4, <2>5 DEF Called
  <1>3. QED
    BY <1>1, <1>2

\* Every other step leaves a call in progress alone, or finds none.
LEMMA OthersCalled ==
  ASSUME EInv, committed' = committed, NEW d \in Conns, pc'[d] = "call",
         \/ \E c \in Conns, r \in Requests : Receive(c, r)
         \/ \E c \in Conns :
              /\ Step(c)
              /\ ~ConnectStarts(c) /\ ~DisconnectStops(c)
         \/ \E p \in Pids : Exits(p)
         \/ UNCHANGED svars
  PROVE  Called(d)'
  <1>0. TypeInv /\ MutexInv /\ CommitInv /\ pc \in [Conns -> Awaits]
        /\ request \in [Conns -> Requests \cup {None}]
    BY DEF EInv, SInv, TypeInv, ServerTypeOK
  <1>1. SUFFICES ASSUME pc[d] = "call", request'[d] = request[d]
                 PROVE  UNCHANGED <<state, config, call, outcome>>
    <2>1. pc[d] = "call" /\ request'[d] = request[d]
      BY <1>0
      DEF Step, Receive, FetchBegin, FetchReturns, Store, GetProfile, StatusReads,
          StatusAnswers, ConnectWithoutProfile, ConnectClones, ConnectFindsBinary,
          ConnectFindsNoBinary, ConnectApplies, DisconnectNothing, CallReturns, At, GoesTo,
          Answers, Exits, UnchangedServer, svars, tasks
    <2>2. Called(d)
      BY <1>0, <2>1 DEF CommitInv
    <2>3. QED
      BY <2>1, <2>2 DEF Called
  <1>2. d \in InBackend
    BY <1>1 DEF InBackend
  <1>3. ASSUME NEW c \in Conns, StatusAnswers(c) \/ ConnectApplies(c)
        PROVE  FALSE
    BY <1>0, <1>2, <1>3, OwnerAlone DEF StatusAnswers, ConnectApplies, At
  <1>4. CASE \E c \in Conns : Step(c) /\ ~ConnectStarts(c) /\ ~DisconnectStops(c)
    BY <1>3, <1>4
    DEF Step, FetchBegin, FetchReturns, Store, GetProfile, StatusReads,
        ConnectWithoutProfile, ConnectClones, ConnectFindsBinary, ConnectFindsNoBinary,
        DisconnectNothing, CallReturns, bvars, engine
  <1>5. CASE \/ \E c \in Conns, r \in Requests : Receive(c, r)
             \/ \E p \in Pids : Exits(p)
             \/ UNCHANGED svars
    BY <1>5 DEF Receive, Exits, ProcessExits, svars, bvars, engine
  <1>6. QED
    BY <1>4, <1>5

\* Every step keeps it.
LEMMA StepCommitInv == EInv /\ SInv' /\ [Next]_svars /\ Record => CommitInv'
  <1> SUFFICES ASSUME EInv, SInv', [Next]_svars, Record
               PROVE  CommitInv'
    OBVIOUS
  <1>0. TypeOK' /\ CommitInv
    BY DEF SInv, IInv, EInv
  <1>1. InBackend' = {} => committed' = <<state', config'>>
    BY Committed
  <1>2. InBackend' # {} => committed' = committed
    BY Committed
  <1>3. InBackend' = {} => state' \in {"idle", "running", "error"}
    <2>1. call' # "none" => Head(backendLock') \in Conns
      BY HeadTailProperties DEF SInv, MutexInv, TypeInv, ServerTypeOK
    <2>2. call' # "none" => InBackend' # {}
      BY <2>1 DEF InBackend, SInv, MutexInv
    <2>3. QED
      BY <2>2 DEF SInv, IInv, CallInv
  <1>4. committed' \in {"idle", "running", "error"} \X (Usable \cup {None})
    BY <1>0, <1>1, <1>2, <1>3 DEF TypeOK, CommitInv
  <1>5. ASSUME NEW d \in Conns, pc'[d] = "call"
        PROVE  Called(d)'
    <2>1. committed' = committed
      BY <1>2, <1>5 DEF InBackend
    <2>2. CASE \E c \in Conns : ConnectStarts(c) \/ DisconnectStops(c)
      BY <1>5, <2>1, <2>2, CallsCalled
    <2>3. CASE BackendStep
      <3>1. pc[d] = "call"
        BY <1>5, <2>3 DEF BackendStep, UnchangedServer, tasks
      <3>2. QED
        BY <2>1, <2>3, <3>1, MethodCalled
    <2>4. CASE \/ \E c \in Conns, r \in Requests : Receive(c, r)
               \/ \E c \in Conns : Step(c) /\ ~ConnectStarts(c) /\ ~DisconnectStops(c)
               \/ \E p \in Pids : Exits(p)
               \/ UNCHANGED svars
      BY <1>5, <2>1, <2>4, OthersCalled
    <2>5. QED
      BY <2>2, <2>3, <2>4 DEF Next
  <1>6. QED
    BY <1>1, <1>4, <1>5 DEF CommitInv

-----------------------------------------------------------------------------
(* The refinement                                                          *)

\* Whatever handlers do between their awaits, every request has one effect at
\* one moment, its response says what the effect was, and no STATUS shows a
\* backend in the middle of a CONNECT or a DISCONNECT: IpcServer implements
\* EngineService, for any number of clients.
THEOREM ServerImplementsService == EngineSpec => ImplementsEngine
  <1>1. EngineInit => Service!Init
    <2> SUFFICES ASSUME EngineInit
                 PROVE  Service!Init
      OBVIOUS
    <2>1. Served = Seen(profile, fetchError, <<"idle", None>>)
      BY DEF EngineInit, Init, BackendInit, Served
    <2>2. /\ Served \in Service!Engine
          /\ Served.profile # None => ~Served.fetchError
          /\ Served.status = "idle" /\ Served.config = None
      BY <2>1 DEF EngineInit, Init, Seen, Service!Engine
    <2>3. Chosen = [c \in Conns |-> None]
      BY DEF EngineInit, Init, Chosen
    <2>4. QED
      BY <2>2, <2>3 DEF EngineInit, Service!Init
  <1>2. EngineInit => EInv
    BY InitEInv
  <1>3. EInv /\ [EngineNext]_evars => EInv'
    <2> SUFFICES ASSUME EInv, [EngineNext]_evars
                 PROVE  EInv'
      OBVIOUS
    <2>1. [Next]_svars
      BY DEF EngineNext, evars
    <2>2. IInv'
      BY <2>1, StepBackend, StepIInv DEF EInv, SInv
    <2>3. TypeInv'
      BY <2>1, <2>2, StepTypeInv, StepOwnInv DEF EInv, SInv, IInv, TypeInv
    <2>4. SInv'
      BY <2>1, <2>2, <2>3, StepFetchInv, StepMutexInv DEF EInv, SInv
    <2>5. CASE EngineNext
      BY <2>1, <2>4, <2>5, StepCommitInv DEF EngineNext, EInv
    <2>6. CASE UNCHANGED evars
      BY <2>4, <2>6
      DEF EInv, CommitInv, Called, InBackend, evars, history, svars, bvars, engine, tasks
    <2>7. QED
      BY <2>5, <2>6
  <1>4. EInv /\ [EngineNext]_evars => [Service!Next]_(Service!service)
    <2> SUFFICES ASSUME EInv, [EngineNext]_evars
                 PROVE  [Service!Next]_(Service!service)
      OBVIOUS
    <2>1. CASE UNCHANGED evars
      <3>1. UNCHANGED <<Served, Chosen, said>>
        BY <2>1 DEF evars, history, svars, shared, tasks, Served, Chosen, Seen
      <3>2. QED
        BY <3>1 DEF Service!service
    <2>2. ASSUME Record, NEW c \in Conns, NEW r \in Requests, Receive(c, r)
          PROVE  Service!Next
      BY <2>2, WaitingServes
    <2>3. ASSUME Record, NEW c \in Conns, Step(c)
          PROVE  Service!Next
      <3>1. CASE \/ FetchBegin(c) \/ (\E p \in Profiles \cup {None} : FetchReturns(c, p))
                 \/ StatusReads(c)
        BY <2>3, <3>1, WaitingServes
      <3>2. CASE Store(c)
        BY <2>3, <3>2, StoreServes
      <3>3. CASE GetProfile(c) \/ ConnectWithoutProfile(c)
        BY <2>3, <3>3, ReadServes
      <3>4. CASE StatusAnswers(c)
        BY <2>3, <3>4, StatusServes
      <3>5. CASE ConnectClones(c)
        BY <2>3, <3>5, CloneServes
      <3>6. CASE \/ ConnectFindsBinary(c) \/ ConnectStarts(c) \/ DisconnectStops(c)
                 \/ ConnectApplies(c) /\ outcome' = "Ok"
        BY <2>3, <3>6, InsideServes
      <3>7. CASE ConnectFindsNoBinary(c) \/ (ConnectApplies(c) /\ outcome' # "Ok")
        BY <2>3, <3>7, RefusalServes
      <3>8. CASE DisconnectNothing(c)
        BY <2>3, <3>8, NothingServes
      <3>9. CASE CallReturns(c)
        BY <2>3, <3>9, ReturnServes
      <3>10. QED
        BY <2>3, <3>1, <3>2, <3>3, <3>4, <3>5, <3>6, <3>7, <3>8, <3>9 DEF Step
    <2>4. ASSUME Record, BackendStep \/ (\E p \in Pids : Exits(p))
          PROVE  Service!Next
      BY <2>4, BackendServes
    <2>5. QED
      BY <2>1, <2>2, <2>3, <2>4 DEF EngineNext, Next
  <1>5. QED
    BY <1>1, <1>2, <1>3, <1>4, PTL DEF EngineSpec, ImplementsEngine, Service!ServiceSpec
=============================================================================
