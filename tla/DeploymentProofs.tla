-------------------------- MODULE DeploymentProofs --------------------------
(***************************************************************************)
(* Theorems on Deployment, for any number of clients, daemons, endpoints   *)
(* and subscriptions.  The daemons move as DaemonSpec says, so all of      *)
(* DaemonProofs holds of them.  The rest rests on DeploymentInv: who waits *)
(* for a start() in progress and with which profile, and how new the       *)
(* profile is that a daemon keeps once it has told a client of it.         *)
(***************************************************************************)
EXTENDS Deployment, DaemonProofs

\* The variables are functions, which DeploymentTypeOK leaves out.
Shape ==
  /\ serving \in [Daemons -> [client : Clients, profile : Versions] \cup {None}]
  /\ response = [c \in Clients |-> response[c]]
  /\ own = [c \in Clients |-> own[c]]

\* A start() in progress has its daemon alive and its client waiting.
StartHasClient ==
  \A d \in Daemons : serving[d] # None =>
    /\ phase[d] = "serve"
    /\ at[serving[d].client] = "CONNECT"
    /\ peer[serving[d].client] = d
    /\ response[serving[d].client] = None

\* Its profile is no older than the one its client was told of by this daemon.
StartIsFresh ==
  \A d \in Daemons :
    (serving[d] # None /\ own[serving[d].client] # None /\ own[serving[d].client].by = d)
      => serving[d].profile >= own[serving[d].client].profile

\* From the response to its FETCH to its next, a client that is still in fetch()
\* holds that response, or has asked again, and the daemon that answered, if it
\* still serves, has a profile at least as new.
Kept(c) ==
  LET by == own[c].by
      ok == response[c] # None /\ response[c].result = "OK"
  IN /\ by \in Daemons /\ own[c].profile \in 1..version
     /\ phase[by] \in Ended \cup {"serve"}
     /\ phase[by] = "serve" => /\ engine[by].profile \in Versions
                               /\ engine[by].profile >= own[c].profile
     /\ at[c] = "FETCH" /\ ok => peer[c] = by /\ response[c].data = own[c].profile
     /\ at[c] = "GET_PROFILE" => by \in SummaryOnly
     /\ at[c] = "GET_PROFILE" /\ ok /\ peer[c] = by => response[c].data >= own[c].profile

OwnIsKept == \A c \in Clients : own[c] # None => Kept(c)

DeploymentInv ==
  /\ DeploymentTypeOK
  /\ DaemonInv
  /\ Shape
  /\ StartHasClient
  /\ StartIsFresh
  /\ OwnIsKept

-----------------------------------------------------------------------------
(* The daemons of a deployment                                             *)

\* Whatever else happens, the daemons make a step of their own or none.
LEMMA StepDaemons == [Next]_vars => [DaemonNext]_dvars
<1> SUFFICES ASSUME [Next]_vars, ~UNCHANGED dvars PROVE DaemonNext
  OBVIOUS
<1>1. ASSUME NEW c \in Clients, NEW e \in Endpoints, NEW cmd \in Cmds, Call(c, e, cmd)
      PROVE  FALSE
  BY <1>1 DEF Call
<1>2. ASSUME NEW c \in Clients, Receive(c) \/ Ends(c) PROVE FALSE
  BY <1>2 DEF Receive, Ends
<1>3. ASSUME NEW d \in Daemons, LaunchDaemon(d) \/ BootEngine(d) \/ DaemonEnds(d)
      PROVE  DaemonNext
  BY <1>3 DEF LaunchDaemon, BootEngine, DaemonEnds, DaemonNext
<1>4. ASSUME NEW d \in Daemons, Settle(d) PROVE FALSE
  BY <1>4 DEF Settle, Responds
<1>5. ASSUME NEW d \in Daemons, ChildExits(d) PROVE FALSE
  BY <1>5 DEF ChildExits
<1>6. ASSUME NEW d \in Daemons, NEW c \in Clients, Handles(d, c) PROVE FALSE
  BY <1>6 DEF Handles, Fetch, GetProfile, Status, Disconnect, ConnectRefused, Spawn, Responds
<1>7. CASE UNCHANGED vars
  BY <1>7 DEF vars
<1>. QED
  BY <1>1, <1>2, <1>3, <1>4, <1>5, <1>6, <1>7 DEF Next

\* Clients, requests and sing-box leave the daemons to themselves: what holds of
\* DaemonInstances holds in a deployment.
THEOREM DeploymentRunsDaemons == Spec => DaemonSpec
<1>1. Init => DaemonInit BY DEF Init
<1>. QED BY <1>1, StepDaemons, PTL DEF Spec, DaemonSpec

\* Only a daemon that does not serve yet boots.
LEMMA BootMoves ==
  ASSUME DaemonTypeOK, NEW d \in Daemons, Boot(d) \/ Launch(d)
  PROVE  /\ phase[d] \notin Ended \cup {"serve"}
         /\ \A x \in Daemons \ {d} : phase'[x] = phase[x]
BY DEF DaemonTypeOK, Boot, Launch, Prefetched, Acquire, Refuse, Claim, Unlink, Bind,
       Blocked, Restrict, Moves, Ended

LEMMA EndMoves ==
  ASSUME DaemonTypeOK, NEW d \in Daemons, End(d)
  PROVE  /\ phase'[d] \in Ended
         /\ \A x \in Daemons \ {d} : phase'[x] = phase[x]
BY DEF DaemonTypeOK, End, Fail, Die, Ended, Fallible

-----------------------------------------------------------------------------
(* What a request may do to an engine                                      *)

\* A death that is noticed leaves an engine with the same profile.
LEMMA NoticedTyped ==
  ASSUME NEW e \in A!Engine, NEW s \in A!Noticed(e)
  PROVE  s \in A!Engine /\ s.profile = e.profile
BY DEF A!Noticed, A!Engine

\* A FETCH stores what it answers, and an error leaves the profile.
LEMMA FetchStores ==
  ASSUME NEW e \in A!Engine, NEW o \in A!FetchOutcomes(e)
  PROVE  /\ o.engine \in A!Engine
         /\ \/ o.result = "OK" /\ o.data \in Versions /\ o.engine.profile = o.data
            \/ o.result = "ERR" /\ o.engine.profile = e.profile
<1>1. CASE o = A!Err([e EXCEPT !.fetchError = TRUE])
  BY <1>1 DEF A!Err, A!Engine
<1>2. ASSUME NEW p \in Versions, o = A!Ok([e EXCEPT !.profile = p, !.fetchError = FALSE], p)
      PROVE  /\ o.engine \in A!Engine
             /\ o.result = "OK" /\ o.data \in Versions /\ o.engine.profile = o.data
  BY <1>2 DEF A!Ok, A!Engine
<1>. QED
  BY <1>1, <1>2 DEF A!FetchOutcomes

\* CONNECT leaves an engine with the same profile, whatever start() does.
LEMMA ConnectTyped ==
  ASSUME NEW e \in A!Engine, NEW p, NEW o \in A!ConnectOutcomes(e, p, Node)
  PROVE  o.engine \in A!Engine /\ o.engine.profile = e.profile
<1>1. CASE o = A!Err(e)
  BY <1>1 DEF A!Err
<1>2. ASSUME NEW s \in A!Noticed(e), o \in A!ApplyOutcomes(s, p, Node)
      PROVE  o.engine \in A!Engine /\ o.engine.profile = e.profile
  <2>1. s \in A!Engine /\ s.profile = e.profile
    BY NoticedTyped
  <2>2. CASE o = A!Err(s)
    BY <2>1, <2>2 DEF A!Err
  <2>3. ASSUME NEW status \in {"running", "error"}, <<p, Node>> \in Versions \X {Node},
               o.engine = [s EXCEPT !.status = status, !.config = <<p, Node>>]
        PROVE  o.engine \in A!Engine /\ o.engine.profile = e.profile
    BY <2>1, <2>3 DEF A!Engine
  <2>. QED
    BY <1>2, <2>2, <2>3 DEF A!ApplyOutcomes, A!Ok, A!Err
<1>. QED
  BY <1>1, <1>2 DEF A!ConnectOutcomes

\* STATUS and DISCONNECT too.
LEMMA OthersTyped ==
  ASSUME NEW e \in A!Engine, NEW o \in A!StatusOutcomes(e) \cup A!DisconnectOutcomes(e)
  PROVE  o.engine \in A!Engine /\ o.engine.profile = e.profile
<1>1. ASSUME NEW s \in A!Noticed(e), o.engine = s
      PROVE  o.engine \in A!Engine /\ o.engine.profile = e.profile
  BY <1>1, NoticedTyped
<1>2. CASE o.engine = [e EXCEPT !.status = "idle"]
  BY <1>2 DEF A!Engine
<1>. QED
  BY <1>1, <1>2 DEF A!StatusOutcomes, A!DisconnectOutcomes, A!Ok, A!Err

\* GET_PROFILE changes nothing and answers with the profile.
LEMMA GetProfileReads ==
  ASSUME NEW e \in A!Engine, NEW o \in A!GetProfileOutcomes(e)
  PROVE  o.engine = e /\ (o.result = "OK" => o.data = e.profile)
BY DEF A!GetProfileOutcomes, A!Ok, A!Err

-----------------------------------------------------------------------------
(* DeploymentInv is inductive                                              *)

Inductive == DeploymentInv /\ DaemonInv'

LEMMA DeploymentInvInit == Init => DeploymentInv
<1> SUFFICES ASSUME Init PROVE DeploymentInv
  OBVIOUS
<1>1. DaemonInv
  BY DaemonInvInit DEF Init
<1>2. Fresh \in A!Engine
  BY DEF Fresh, A!Engine
<1>3. DeploymentTypeOK
  BY <1>1, <1>2, DeploymentAssumption DEF Init, DeploymentTypeOK, DaemonInv
<1>4. Shape
  BY DEF Init, Shape
<1>5. StartHasClient /\ StartIsFresh /\ OwnIsKept
  BY DEF Init, StartHasClient, StartIsFresh, OwnIsKept
<1>. QED
  BY <1>1, <1>3, <1>4, <1>5 DEF DeploymentInv

\* A client that sends or gives up waits for no start() and keeps no profile but
\* the one a summary announced.
LEMMA ClientStep ==
  ASSUME Inductive, NEW c \in Clients,
         \/ \E e \in Endpoints, cmd \in Cmds : Call(c, e, cmd)
         \/ Receive(c) \/ Ends(c)
  PROVE  DeploymentInv'
<1> USE DEF Inductive, DeploymentInv
<1>1. UNCHANGED <<dvars, engines>>
  BY DEF Call, Receive, Ends
<1>2. /\ at' = [at EXCEPT ![c] = at'[c]] /\ at'[c] \in Cmds \cup {"idle", "GET_PROFILE"}
      /\ peer' = [peer EXCEPT ![c] = peer'[c]] /\ peer'[c] \in Daemons \cup {None}
      /\ at'[c] # "idle" => peer'[c] # None
      /\ response' = [response EXCEPT ![c] = None]
  <2> DEFINE Moved ==
        /\ at' = [at EXCEPT ![c] = at'[c]] /\ at'[c] \in Cmds \cup {"idle", "GET_PROFILE"}
        /\ peer' = [peer EXCEPT ![c] = peer'[c]] /\ peer'[c] \in Daemons \cup {None}
        /\ at'[c] # "idle" => peer'[c] # None
        /\ response' = [response EXCEPT ![c] = None]
  <2>1. ASSUME Returns(c) PROVE Moved
    BY <2>1 DEF Returns, DeploymentTypeOK
  <2>2. ASSUME NEW e \in Endpoints, NEW cmd \in Cmds \cup {"GET_PROFILE"}, Sends(c, e, cmd)
        PROVE  Moved
    BY <2>1, <2>2 DEF Sends, Reachable, DeploymentTypeOK, DaemonTypeOK
  <2>3. ASSUME Receive(c) PROVE Moved
    <3>1. CASE Incomplete(c)
      <4>1. peer[c] \in Daemons
        BY <3>1 DEF Incomplete, DeploymentTypeOK
      <4>2. EndpointOf[peer[c]] \in Endpoints
        BY <4>1, DaemonAssumption
      <4>. QED BY <2>2, <2>3, <3>1, <4>2 DEF Receive
    <3>. QED BY <2>1, <2>3, <3>1 DEF Receive
  <2>. HIDE DEF Moved
  <2>4. Moved
    BY <2>1, <2>2, <2>3 DEF Call, Ends
  <2>. QED
    BY <2>4 DEF Moved
<1>3. DeploymentTypeOK'
  BY <1>1, <1>2 DEF DeploymentTypeOK, DaemonInv, engines
<1>4. own' = [own EXCEPT ![c] = own'[c]]
  BY DEF Call, Receive, Ends, Shape
<1>5. Shape'
  BY <1>1, <1>2, <1>4 DEF Shape, engines
<1>6. \A d \in Daemons : serving[d] # None => serving[d].client # c
  BY DEF StartHasClient, Call, Receive, Ends, dvars, Ended
<1>7. StartHasClient'
  <2> SUFFICES ASSUME NEW d \in Daemons, serving[d] # None
               PROVE  /\ phase[d] = "serve"
                      /\ at'[serving[d].client] = "CONNECT"
                      /\ peer'[serving[d].client] = d
                      /\ response'[serving[d].client] = None
    BY <1>1 DEF StartHasClient, engines, dvars
  <2>1. serving[d].client \in Clients \ {c}
    BY <1>6 DEF DeploymentTypeOK
  <2>. QED
    BY <1>2, <2>1 DEF StartHasClient, Shape, DeploymentTypeOK
<1>10. StartIsFresh'
  <2> SUFFICES ASSUME NEW d \in Daemons, serving[d] # None,
                      own'[serving[d].client] # None, own'[serving[d].client].by = d
               PROVE  serving[d].profile >= own'[serving[d].client].profile
    BY <1>1 DEF StartIsFresh, engines
  <2>1. own'[serving[d].client] = own[serving[d].client]
    BY <1>4, <1>6 DEF Shape, DeploymentTypeOK
  <2>. QED
    BY <2>1 DEF StartIsFresh
<1>8. ASSUME NEW x \in Clients \ {c}, own'[x] # None PROVE Kept(x)'
  <2>1. own'[x] = own[x] /\ at'[x] = at[x] /\ peer'[x] = peer[x] /\ response'[x] = response[x]
    BY <1>2, <1>4 DEF DeploymentTypeOK, Shape
  <2>2. Kept(x)
    BY <1>8, <2>1 DEF OwnIsKept
  <2>. QED
    BY <1>1, <2>1, <2>2 DEF Kept, engines, dvars
<1>9. ASSUME own'[c] # None PROVE Kept(c)'
  <2>1. own'[c] = own[c]
    BY <1>9 DEF Call, Receive, Ends, Shape
  <2>2. Kept(c)
    BY <1>9, <2>1 DEF OwnIsKept
  <2>3. response'[c] = None
    BY <1>2 DEF Shape
  <2>4. at'[c] = "GET_PROFILE" => own[c].by \in SummaryOnly
    <3>1. CASE \E e \in Endpoints, cmd \in Cmds : Call(c, e, cmd)
      BY <1>9, <3>1 DEF Call, Sends, Returns, Fetching, Shape, DeploymentTypeOK
    <3>2. CASE Ends(c)
      BY <3>2 DEF Ends, Returns, DeploymentTypeOK
    <3>3. CASE Receive(c) /\ Incomplete(c)
      BY <2>2, <3>3 DEF Receive, Incomplete, Kept
    <3>4. CASE Receive(c) /\ ~Incomplete(c)
      BY <3>4 DEF Receive, Returns, DeploymentTypeOK
    <3>. QED
      BY <3>1, <3>2, <3>3, <3>4
  <2>. QED
    BY <1>1, <2>1, <2>2, <2>3, <2>4 DEF Kept, engines, dvars
<1>. QED
  BY <1>3, <1>5, <1>7, <1>8, <1>9, <1>10 DEF OwnIsKept

\* What a handler does besides FETCH: the profile stays, and one client gets a
\* response.
LEMMA HandlerStep ==
  ASSUME Inductive, NEW d \in Daemons, NEW c \in Clients, phase[d] = "serve",
         at[c] # "FETCH", peer[c] = d, at[c] # "idle",
         response[c] = None,
         NEW o, o.engine \in A!Engine, o.engine.profile = engine[d].profile,
         o.result = "OK" /\ at[c] = "GET_PROFILE" => o.data = engine[d].profile,
         Responds(d, c, o), UNCHANGED <<own, version>>,
         alive' \subseteq Daemons,
         \/ serving' = serving /\ (at[c] # "CONNECT" \/ serving[d] = None)
         \/ serving' = [serving EXCEPT ![d] = None] /\ serving[d].client = c
  PROVE  DeploymentInv'
<1> USE DEF Inductive, DeploymentInv, Responds
<1>1. engine' = [engine EXCEPT ![d] = o.engine] /\ UNCHANGED <<dvars, at, peer>>
  OBVIOUS
<1>2. DeploymentTypeOK'
  BY <1>1 DEF DeploymentTypeOK, DaemonInv, Shape
<1>3. Shape'
  BY DEF Shape
<1>4. StartHasClient' /\ StartIsFresh'
  BY <1>1 DEF StartHasClient, StartIsFresh, dvars, Shape
<1>5. OwnIsKept'
  <2> SUFFICES ASSUME NEW x \in Clients, own[x] # None PROVE Kept(x)'
    BY DEF OwnIsKept
  <2>1. Kept(x)
    BY DEF OwnIsKept
  <2>2. engine'[own[x].by].profile = engine[own[x].by].profile
    BY <1>1, <2>1 DEF Kept, DeploymentTypeOK
  <2>3. CASE x # c
    BY <1>1, <2>1, <2>2, <2>3 DEF Kept, dvars, Shape
  <2>4. CASE x = c
    BY <1>1, <2>1, <2>2, <2>4 DEF Kept, dvars, Shape, Told, Fetching
  <2>. QED
    BY <2>3, <2>4
<1>. QED
  BY <1>2, <1>3, <1>4, <1>5

\* FETCH gives the engine a newer profile, which the client then owns.
LEMMA FetchStep ==
  ASSUME Inductive, NEW d \in Daemons, NEW c \in Clients, Fetch(d, c)
  PROVE  DeploymentInv'
<1> USE DEF Inductive, DeploymentInv
<1>1. engine[d] \in A!Engine
  BY DEF DeploymentTypeOK
<1>2. PICK o \in A!FetchOutcomes(engine[d]) :
        /\ version' = IF o.result = "OK" THEN version + 1 ELSE version
        /\ o.result = "OK" => o.data = version'
        /\ Responds(d, c, o)
        /\ own' = [own EXCEPT ![c] = IF o.result = "OK" THEN [by |-> d, profile |-> o.data]
                                     ELSE None]
  BY DEF Fetch
<1>3. /\ o.engine \in A!Engine
      /\ \/ o.result = "OK" /\ o.data \in Versions /\ o.engine.profile = o.data
         \/ o.result = "ERR" /\ o.engine.profile = engine[d].profile
  BY <1>1, FetchStores
<1>4. /\ engine' = [engine EXCEPT ![d] = o.engine]
      /\ response' = [response EXCEPT ![c] = [result |-> o.result, data |-> Told(c, o)]]
      /\ UNCHANGED <<dvars, at, peer, alive, serving>>
  BY <1>2 DEF Responds, Fetch
<1>5. /\ phase[d] = "serve" /\ peer[c] = d /\ at[c] = "FETCH" /\ response[c] = None
      /\ Told(c, o) = o.data
  BY DEF Fetch, Pending, Told, Fetching
<1>6. version' \in 0..MaxVersion /\ version' >= version /\ version \in 0..MaxVersion
  BY <1>2, <1>3, DeploymentAssumption DEF DeploymentTypeOK, Versions
<1>7. DeploymentTypeOK'
  BY <1>3, <1>4, <1>6 DEF DeploymentTypeOK, DaemonInv
<1>8. Shape'
  BY <1>2, <1>4 DEF Shape
<1>9. StartHasClient' /\ StartIsFresh'
  BY <1>2, <1>4, <1>5 DEF StartHasClient, StartIsFresh, dvars, Shape, DeploymentTypeOK
<1>10. ASSUME NEW x \in Clients, own'[x] # None PROVE Kept(x)'
  <2>1. CASE x = c
    <3>1. o.result = "OK" /\ own'[c] = [by |-> d, profile |-> o.data]
      BY <1>2, <1>10, <2>1 DEF Shape
    <3>2. /\ engine'[d].profile = own'[c].profile /\ own'[c].profile = version'
          /\ own'[c].profile \in Versions
      BY <1>2, <1>3, <1>4, <3>1 DEF DeploymentTypeOK
    <3>. QED
      BY <1>4, <1>5, <1>6, <2>1, <3>1, <3>2 DEF Kept, dvars, Shape, Versions
  <2>2. CASE x # c
    <3>1. own[x] # None /\ own'[x] = own[x] /\ response'[x] = response[x]
      BY <1>2, <1>4, <1>10, <2>2 DEF Shape
    <3>2. Kept(x)
      BY <3>1 DEF OwnIsKept
    <3>3. CASE own[x].by # d
      BY <1>4, <1>6, <3>1, <3>2, <3>3 DEF Kept, dvars, DeploymentTypeOK
    <3>4. CASE own[x].by = d
      <4>1. engine'[d].profile \in Versions /\ engine'[d].profile >= own[x].profile
        BY <1>2, <1>3, <1>4, <1>5, <1>6, <3>2, <3>4 DEF Kept, DeploymentTypeOK, Versions
      <4>. QED
        BY <1>4, <1>6, <3>1, <3>2, <3>4, <4>1 DEF Kept, dvars
    <3>. QED
      BY <3>3, <3>4
  <2>. QED
    BY <2>1, <2>2
<1>. QED
  BY <1>7, <1>8, <1>9, <1>10 DEF OwnIsKept

\* Every other handler is a HandlerStep, or starts a process for a client.
LEMMA HandlesStep ==
  ASSUME Inductive, NEW d \in Daemons, NEW c \in Clients, Handles(d, c)
  PROVE  DeploymentInv'
<1> USE DEF Inductive, DeploymentInv
<1>1. engine[d] \in A!Engine /\ alive \subseteq Daemons
  BY DEF DeploymentTypeOK
<1>2. CASE Fetch(d, c)
  BY <1>2, FetchStep
<1>3. CASE GetProfile(d, c)
  <2>1. PICK o \in A!GetProfileOutcomes(engine[d]) : Responds(d, c, o)
    BY <1>3 DEF GetProfile
  <2>2. o.engine = engine[d] /\ (o.result = "OK" => o.data = engine[d].profile)
    BY <1>1, GetProfileReads
  <2>. QED
    BY <1>1, <1>3, <2>1, <2>2, HandlerStep DEF GetProfile, Pending
<1>4. CASE Status(d, c)
  <2>1. PICK o \in A!StatusOutcomes(engine[d]) : Responds(d, c, o)
    BY <1>4 DEF Status
  <2>2. o.engine \in A!Engine /\ o.engine.profile = engine[d].profile
    BY <1>1, OthersTyped
  <2>. QED
    BY <1>1, <1>4, <2>1, <2>2, HandlerStep DEF Status, Pending
<1>5. CASE Disconnect(d, c)
  <2>1. PICK o \in A!DisconnectOutcomes(engine[d]) : Responds(d, c, o)
    BY <1>5 DEF Disconnect
  <2>2. o.engine \in A!Engine /\ o.engine.profile = engine[d].profile
    BY <1>1, OthersTyped
  <2>3. alive' \subseteq Daemons
    BY <1>1, <1>5 DEF Disconnect
  <2>. QED
    BY <1>1, <1>5, <2>1, <2>2, <2>3, HandlerStep DEF Disconnect, Pending
<1>6. CASE ConnectRefused(d, c)
  <2>1. A!Err(engine[d]).engine = engine[d]
    BY DEF A!Err
  <2>. QED
    BY <1>1, <1>6, <2>1, HandlerStep DEF ConnectRefused, Pending
<1>7. CASE Spawn(d, c)
  <2>1. engine[d].profile \in Versions
    BY <1>1, <1>7 DEF Spawn, A!Engine
  <2>2. DeploymentTypeOK'
    BY <1>7, <2>1 DEF Spawn, DeploymentTypeOK, Shape, DaemonInv, clients
  <2>3. Shape'
    BY <1>7, <2>1 DEF Spawn, Shape, clients
  <2>4. StartHasClient'
    BY <1>7 DEF Spawn, Pending, StartHasClient, Shape, clients, dvars
  <2>5. OwnIsKept'
    BY <1>7 DEF Spawn, OwnIsKept, Kept, clients, dvars
  <2>6. StartIsFresh'
    <3>1. own[c] # None /\ own[c].by = d => engine[d].profile >= own[c].profile
      BY <1>7 DEF Spawn, Pending, OwnIsKept, Kept
    <3>. QED
      BY <1>7, <3>1 DEF Spawn, StartIsFresh, Shape, clients
  <2>. QED
    BY <2>2, <2>3, <2>4, <2>5, <2>6
<1>. QED
  BY <1>2, <1>3, <1>4, <1>5, <1>6, <1>7 DEF Handles

\* The end of start() answers the client that waits for it.
LEMMA SettleStep ==
  ASSUME Inductive, NEW d \in Daemons, Settle(d)
  PROVE  DeploymentInv'
<1> USE DEF Inductive, DeploymentInv
<1> DEFINE x == serving[d].client
<1>1. engine[d] \in A!Engine /\ alive \subseteq Daemons
  BY DEF DeploymentTypeOK
<1>2. PICK o \in A!ConnectOutcomes(engine[d], serving[d].profile, Node) : Responds(d, x, o)
  BY DEF Settle
<1>3. o.engine \in A!Engine /\ o.engine.profile = engine[d].profile
  BY <1>1, ConnectTyped
<1>4. /\ x \in Clients /\ phase[d] = "serve" /\ at[x] = "CONNECT"
      /\ peer[x] = d /\ response[x] = None
  BY DEF Settle, DeploymentTypeOK, StartHasClient
<1>. QED
  BY <1>1, <1>2, <1>3, <1>4, HandlerStep DEF Settle

\* A daemon that comes up does not serve, so nobody waits for it or rests on it.
LEMMA ComesUpStep ==
  ASSUME Inductive, NEW d \in Daemons, LaunchDaemon(d) \/ BootEngine(d)
  PROVE  DeploymentInv'
<1> USE DEF Inductive, DeploymentInv
<1>1. /\ phase[d] \notin Ended \cup {"serve"}
      /\ \A x \in Daemons \ {d} : phase'[x] = phase[x]
  BY BootMoves DEF LaunchDaemon, BootEngine, DaemonInv
<1>2. UNCHANGED <<alive, serving, clients>>
  BY DEF LaunchDaemon, BootEngine, engines
<1>3. /\ engine' \in [Daemons -> A!Engine]
      /\ \A x \in Daemons \ {d} : engine'[x] = engine[x]
      /\ version' \in 0..MaxVersion /\ version' >= version
  <2>1. CASE UNCHANGED <<engine, version>>
    BY <2>1, DeploymentAssumption DEF DeploymentTypeOK
  <2>2. ASSUME NEW o \in A!FetchOutcomes(engine[d]),
               version' = IF o.result = "OK" THEN version + 1 ELSE version,
               o.result = "OK" => o.data = version',
               engine' = [engine EXCEPT ![d] = o.engine]
        PROVE  /\ engine' \in [Daemons -> A!Engine]
               /\ \A x \in Daemons \ {d} : engine'[x] = engine[x]
               /\ version' \in 0..MaxVersion /\ version' >= version
    <3>1. engine[d] \in A!Engine
      BY DEF DeploymentTypeOK
    <3>2. o.engine \in A!Engine /\ (o.result = "OK" => o.data \in Versions)
      BY <3>1, FetchStores
    <3>. QED
      BY <2>2, <3>2, DeploymentAssumption DEF DeploymentTypeOK, Versions
  <2>. QED
    BY <2>1, <2>2 DEF LaunchDaemon, BootEngine, engines
<1>4. DeploymentTypeOK'
  BY <1>2, <1>3 DEF DeploymentTypeOK, DaemonInv, clients
<1>5. Shape'
  BY <1>2 DEF Shape, clients
<1>6. StartHasClient' /\ StartIsFresh'
  BY <1>1, <1>2 DEF StartHasClient, StartIsFresh, clients
<1>7. OwnIsKept'
  <2> SUFFICES ASSUME NEW c \in Clients, own[c] # None PROVE Kept(c)'
    BY <1>2 DEF OwnIsKept, clients
  <2>1. Kept(c)
    BY DEF OwnIsKept
  <2>2. own[c].by \in Daemons \ {d}
    BY <1>1, <2>1 DEF Kept
  <2>. QED
    BY <1>1, <1>2, <1>3, <2>1, <2>2 DEF Kept, clients, DeploymentTypeOK
<1>. QED
  BY <1>4, <1>5, <1>6, <1>7

\* A daemon that ends takes its start() and its engine along.
LEMMA EndsStep ==
  ASSUME Inductive, NEW d \in Daemons, DaemonEnds(d)
  PROVE  DeploymentInv'
<1> USE DEF Inductive, DeploymentInv
<1>1. phase'[d] \in Ended /\ \A x \in Daemons \ {d} : phase'[x] = phase[x]
  BY EndMoves DEF DaemonEnds, DaemonInv
<1>2. /\ engine' = [engine EXCEPT ![d] = Fresh]
      /\ serving' = [serving EXCEPT ![d] = None]
      /\ alive' \subseteq alive /\ UNCHANGED <<version, at, peer, own>>
  BY DEF DaemonEnds
<1>3. /\ \A c \in Clients : response'[c] \in {None, response[c]}
      /\ response' = [c \in Clients |-> response'[c]]
  BY DEF DaemonEnds
<1>4. Fresh \in A!Engine
  BY DEF Fresh, A!Engine
<1>5. DeploymentTypeOK'
  BY <1>2, <1>4 DEF DeploymentTypeOK, DaemonInv, Shape
<1>6. Shape'
  BY <1>2, <1>3 DEF Shape
<1>7. StartHasClient'
  <2> SUFFICES ASSUME NEW x \in Daemons, serving'[x] # None
               PROVE  /\ phase'[x] = "serve"
                      /\ at[serving'[x].client] = "CONNECT"
                      /\ peer[serving'[x].client] = x
                      /\ response'[serving'[x].client] = None
    BY <1>2 DEF StartHasClient
  <2>1. x # d /\ serving'[x] = serving[x]
    BY <1>2 DEF Shape
  <2>2. serving[x].client \in Clients
    BY <2>1 DEF DeploymentTypeOK
  <2>. QED
    BY <1>1, <1>3, <2>1, <2>2 DEF StartHasClient
<1>8. OwnIsKept'
  <2> SUFFICES ASSUME NEW c \in Clients, own[c] # None PROVE Kept(c)'
    BY <1>2 DEF OwnIsKept
  <2>1. Kept(c)
    BY DEF OwnIsKept
  <2>. QED
    BY <1>1, <1>2, <1>3, <2>1 DEF Kept, DeploymentTypeOK, Ended
<1>9. StartIsFresh'
  BY <1>2 DEF StartIsFresh, Shape
<1>. QED
  BY <1>5, <1>6, <1>7, <1>8, <1>9

\* sing-box goes without the daemon or a client noticing.
LEMMA ChildStep ==
  ASSUME Inductive, NEW d \in Daemons, ChildExits(d)
  PROVE  DeploymentInv'
<1> USE DEF Inductive, DeploymentInv
<1>1. alive' \subseteq Daemons /\ UNCHANGED <<dvars, engine, version, serving, clients>>
  BY DEF ChildExits, DeploymentTypeOK
<1>2. DeploymentTypeOK'
  BY <1>1 DEF DeploymentTypeOK, DaemonInv, clients
<1>3. Shape' /\ StartHasClient' /\ StartIsFresh' /\ OwnIsKept'
  BY <1>1 DEF Shape, StartHasClient, StartIsFresh, OwnIsKept, Kept, clients, dvars
<1>. QED
  BY <1>2, <1>3

LEMMA DeploymentInvStep == DeploymentInv /\ [Next]_vars => DeploymentInv'
<1> SUFFICES ASSUME DeploymentInv, [Next]_vars PROVE DeploymentInv'
  OBVIOUS
<1>1. Inductive
  BY StepDaemons, DaemonInvStep DEF Inductive, DeploymentInv
<1>2. CASE UNCHANGED vars
  BY <1>1, <1>2 DEF Inductive, vars, engines, clients, dvars, DeploymentInv, DeploymentTypeOK,
     DaemonInv, Shape, StartHasClient, StartIsFresh, OwnIsKept, Kept
<1>3. ASSUME NEW c \in Clients,
             (\E e \in Endpoints, cmd \in Cmds : Call(c, e, cmd)) \/ Receive(c) \/ Ends(c)
      PROVE  DeploymentInv'
  BY <1>1, <1>3, ClientStep
<1>4. ASSUME NEW d \in Daemons, NEW c \in Clients, Handles(d, c) PROVE DeploymentInv'
  BY <1>1, <1>4, HandlesStep
<1>5. ASSUME NEW d \in Daemons, Settle(d) PROVE DeploymentInv'
  BY <1>1, <1>5, SettleStep
<1>6. ASSUME NEW d \in Daemons, LaunchDaemon(d) \/ BootEngine(d) PROVE DeploymentInv'
  BY <1>1, <1>6, ComesUpStep
<1>7. ASSUME NEW d \in Daemons, DaemonEnds(d) PROVE DeploymentInv'
  BY <1>1, <1>7, EndsStep
<1>8. ASSUME NEW d \in Daemons, ChildExits(d) PROVE DeploymentInv'
  BY <1>1, <1>8, ChildStep
<1>. QED
  BY <1>2, <1>3, <1>4, <1>5, <1>6, <1>7, <1>8 DEF Next

LEMMA DeploymentInvariant == Spec => []DeploymentInv
BY DeploymentInvInit, DeploymentInvStep, PTL DEF Spec

-----------------------------------------------------------------------------
(* Theorems                                                                *)

\* Every reachable state of clients, daemons and processes is well typed.
THEOREM DeploymentTypeCorrect == Spec => []DeploymentTypeOK
<1>1. DeploymentInv => DeploymentTypeOK BY DEF DeploymentInv
<1>. QED BY <1>1, DeploymentInvariant, PTL

\* fetch() returns the profile of its own FETCH, or after a summary one at least
\* as new (client.rs), whoever else fetches and whichever daemons die.
THEOREM OwnProfileReturned == Spec => FetchReturnsOwn
<1> DEFINE Own ==
      \A c \in Clients :
       (own[c] # None /\ at[c] \in Fetching /\ at'[c] = "idle"
          /\ response[c] # None /\ response[c].result = "OK" /\ ~Incomplete(c)) =>
         IF own[c].by \in SummaryOnly
           THEN peer[c] = own[c].by => response[c].data >= own[c].profile
           ELSE response[c].data = own[c].profile
<1>1. DeploymentInv => [Own]_vars
  BY DEF DeploymentInv, OwnIsKept, Kept, Incomplete, Fetching
<1>. QED
  BY <1>1, DeploymentInvariant, PTL DEF FetchReturnsOwn

\* CONNECT to the daemon that answered the client's last FETCH starts sing-box for
\* that profile or a newer one (connect in server.rs, apply_profile and start in
\* runtime.rs), whatever the backend held before.
THEOREM FetchedIsConnected == Spec => ConnectUsesFetched
<1> DEFINE Used(c) ==
      (/\ at[c] = "CONNECT" /\ response[c] = None
       /\ response'[c] # None /\ response'[c].result = "OK"
       /\ own[c] # None /\ own[c].by = peer[c])
        => engine'[peer[c]].config[1] >= own[c].profile
<1>1. ASSUME DeploymentInv, [Next]_vars PROVE [\A c \in Clients : Used(c)]_vars
  <2> SUFFICES ASSUME NEW c \in Clients, at[c] = "CONNECT", response[c] = None,
                      response'[c] # None, response'[c].result = "OK",
                      own[c] # None, own[c].by = peer[c]
               PROVE  engine'[peer[c]].config[1] >= own[c].profile
    OBVIOUS
  <2> USE <1>1 DEF DeploymentInv, Shape
  <2>1. ASSUME NEW x \in Clients,
               (\E e \in Endpoints, cmd \in Cmds : Call(x, e, cmd)) \/ Receive(x) \/ Ends(x)
        PROVE  FALSE
    BY <2>1 DEF Call, Receive, Ends, Sends, Returns
  <2>2. ASSUME NEW d \in Daemons,
               LaunchDaemon(d) \/ BootEngine(d) \/ DaemonEnds(d) \/ ChildExits(d)
        PROVE  FALSE
    BY <2>2 DEF LaunchDaemon, BootEngine, DaemonEnds, ChildExits, clients
  <2>3. ASSUME NEW d \in Daemons, NEW x \in Clients, Handles(d, x)
        PROVE  FALSE
    <3>1. CASE Fetch(d, x) \/ GetProfile(d, x) \/ Status(d, x) \/ Disconnect(d, x)
      BY <3>1 DEF Fetch, GetProfile, Status, Disconnect, Responds, Pending
    <3>2. CASE ConnectRefused(d, x)
      BY <3>2 DEF ConnectRefused, Responds, Pending, A!Err
    <3>3. CASE Spawn(d, x)
      BY <3>3 DEF Spawn, clients
    <3>. QED
      BY <2>3, <3>1, <3>2, <3>3 DEF Handles
  <2>4. ASSUME NEW d \in Daemons, Settle(d)
        PROVE  engine'[peer[c]].config[1] >= own[c].profile
    <3>1. c = serving[d].client /\ serving[d] # None
      BY <2>4 DEF Settle, Responds
    <3>2. peer[c] = d
      BY <3>1 DEF StartHasClient
    <3>3. engine'[d].config = <<serving[d].profile, Node>>
      BY <2>4 DEF Settle, Responds, DeploymentTypeOK
    <3>4. serving[d].profile >= own[c].profile
      BY <3>1, <3>2 DEF StartIsFresh
    <3>. QED
      BY <3>2, <3>3, <3>4
  <2>5. CASE UNCHANGED vars
    BY <2>5 DEF vars, clients
  <2>. QED
    BY <2>1, <2>2, <2>3, <2>4, <2>5 DEF Next
<1>. QED
  BY <1>1, DeploymentInvariant, PTL DEF Spec, ConnectUsesFetched
=============================================================================
