----------------------------- MODULE Deployment -----------------------------
(***************************************************************************)
(* Clients, daemons and sing-box processes on one machine.  The clients    *)
(* are those of crates/conflux-ipc/src/client.rs: each request has a       *)
(* connection of its own, and none has a timeout, an identity or a retry.  *)
(* The daemons are those of DaemonInstances; one that serves handles       *)
(* requests as EngineService says (IpcServer implements it), except that   *)
(* CONNECT is cut in two, where start() sleeps: the sing-box may exit, the *)
(* daemon die and other clients fetch before it answers.                   *)
(*                                                                         *)
(* A daemon that dies loses its engine.  Its sing-box lives on, and is no  *)
(* other daemon's: a daemon only ever asks whether its own process lives,  *)
(* not whether that has got the port it listens on, so that there are no   *)
(* orphans and no ports here.                                              *)
(***************************************************************************)
EXTENDS DaemonInstances, Naturals

CONSTANTS
  Clients,
  Cmds,         \* the requests the clients send
  SummaryOnly,  \* the daemons whose FETCH does not embed the profile, as
                \* docs/ipc-protocol.md has it ("summary only")
  Node,         \* the node that CONNECT selects
  MaxVersion    \* bound: the subscriptions fetched, each newer than the last

Versions == 1..MaxVersion

A == INSTANCE EngineApi WITH Profiles <- Versions, Usable <- Versions \X {Node}

ASSUME DeploymentAssumption ==
  /\ Cmds \subseteq {"FETCH", "GET_PROFILE", "STATUS", "CONNECT", "DISCONNECT"}
  /\ None \notin Clients
  /\ MaxVersion \in Nat

VARIABLES
  engine,   \* the engine in the memory of each daemon
  version,  \* the last subscription fetched by any daemon
  alive,    \* the daemons that have a sing-box which is alive
  serving,  \* the CONNECT each daemon is in start() with, [client, profile]
  at,       \* the request each client waits for the response to, or "idle"
  peer,     \* the daemon its connection leads to
  response, \* the response on its way to the client
  own       \* history: what its last FETCH was answered with, and by whom

engines == <<engine, version, alive, serving>>
clients == <<at, peer, response, own>>
vars    == <<dvars, engines, clients>>

Fresh == [profile |-> None, fetchError |-> FALSE, status |-> "idle", config |-> None]

DeploymentTypeOK ==
  /\ DaemonTypeOK
  /\ engine \in [Daemons -> A!Engine]
  /\ version \in 0..MaxVersion
  /\ alive \subseteq Daemons
  /\ \A d \in Daemons : serving[d] # None => serving[d].client \in Clients
  /\ at \in [Clients -> Cmds \cup {"idle", "GET_PROFILE"}]
  /\ peer \in [Clients -> Daemons \cup {None}]
  /\ \A c \in Clients : at[c] # "idle" => peer[c] # None

Init ==
  /\ DaemonInit
  /\ engine = [d \in Daemons |-> Fresh]
  /\ version = 0
  /\ alive = {}
  /\ serving = [d \in Daemons |-> None]
  /\ at = [c \in Clients |-> "idle"]
  /\ peer = [c \in Clients |-> None]
  /\ response = [c \in Clients |-> None]
  /\ own = [c \in Clients |-> None]

-----------------------------------------------------------------------------
(* Clients                                                                 *)

Reachable(e) == socket[e] # None /\ phase[socket[e]] \in Listening

\* The method returns to its caller.
Returns(c) ==
  /\ at' = [at EXCEPT ![c] = "idle"]
  /\ peer' = [peer EXCEPT ![c] = None]
  /\ response' = [response EXCEPT ![c] = None]

\* Mutant: the method waits although connect() has failed.
SendsAnyway(c, e, cmd) ==
  /\ at' = [at EXCEPT ![c] = cmd]
  /\ peer' = [peer EXCEPT ![c] = socket[e]]
  /\ response' = [response EXCEPT ![c] = None]

\* One connection and one request line; without a listener the method fails.
Sends(c, e, cmd) ==
  IF Reachable(e)
    THEN /\ at' = [at EXCEPT ![c] = cmd]
         /\ peer' = [peer EXCEPT ![c] = socket[e]]
         /\ response' = [response EXCEPT ![c] = None]
    ELSE Returns(c)

\* The requests of the two methods that return a profile.
Fetching == {"FETCH", "GET_PROFILE"}

Call(c, e, cmd) ==
  /\ at[c] = "idle"
  /\ Reachable(e)
  /\ Sends(c, e, cmd)
  /\ own' = [own EXCEPT ![c] = IF cmd \in Fetching THEN None ELSE @]
  /\ UNCHANGED <<dvars, engines>>

\* Mutant: the client always asks for the profile after a FETCH.
IncompleteAlways(c) ==
  /\ at[c] = "FETCH"
  /\ response[c].result = "OK"

\* The summary of a FETCH, which the client cannot use as a profile.
Incomplete(c) ==
  /\ at[c] = "FETCH"
  /\ response[c].result = "OK"
  /\ peer[c] \in SummaryOnly

Receive(c) ==
  /\ response[c] # None
  /\ IF Incomplete(c) THEN Sends(c, EndpointOf[peer[c]], "GET_PROFILE") ELSE Returns(c)
  /\ UNCHANGED <<own, dvars, engines>>

\* Mutant: a connection that ends looks like one that is still silent.
EndsNever(c) == FALSE /\ UNCHANGED vars

\* The connection ends without a response: "empty response".
Ends(c) ==
  /\ at[c] # "idle" /\ phase[peer[c]] \in Ended /\ response[c] = None
  /\ Returns(c)
  /\ UNCHANGED <<own, dvars, engines>>

-----------------------------------------------------------------------------
(* Daemons that serve                                                      *)

Pending(d, c, cmd) ==
  phase[d] = "serve" /\ peer[c] = d /\ at[c] = cmd /\ response[c] = None

\* Of a response that carries no profile only the backend state matters here.
Told(c, o) == IF at[c] \in Fetching THEN o.data ELSE o.engine.status

Responds(d, c, o) ==
  /\ engine' = [engine EXCEPT ![d] = o.engine]
  /\ response' = [response EXCEPT ![c] = [result |-> o.result, data |-> Told(c, o)]]
  /\ UNCHANGED <<dvars, at, peer>>

Fetch(d, c) ==
  /\ Pending(d, c, "FETCH")
  /\ \E o \in A!FetchOutcomes(engine[d]) :
       /\ version' = IF o.result = "OK" THEN version + 1 ELSE version
       /\ o.result = "OK" => o.data = version'
       /\ Responds(d, c, o)
       /\ own' = [own EXCEPT ![c] = IF o.result = "OK" THEN [by |-> d, profile |-> o.data]
                                    ELSE None]
  /\ UNCHANGED <<alive, serving>>

GetProfile(d, c) ==
  /\ Pending(d, c, "GET_PROFILE")
  /\ \E o \in A!GetProfileOutcomes(engine[d]) : Responds(d, c, o)
  /\ UNCHANGED <<own, version, alive, serving>>

\* refresh_running_state: what the backend says is what it has just observed.
Observed(d, o) == o.engine.status = "running" <=> d \in alive

Status(d, c) ==
  /\ Pending(d, c, "STATUS")
  /\ serving[d] = None
  /\ \E o \in A!StatusOutcomes(engine[d]) : Observed(d, o) /\ Responds(d, c, o)
  /\ UNCHANGED <<own, version, alive, serving>>

Disconnect(d, c) ==
  /\ Pending(d, c, "DISCONNECT")
  /\ serving[d] = None
  /\ \E o \in A!DisconnectOutcomes(engine[d]) : o.result = "OK" /\ Responds(d, c, o)
  /\ alive' = alive \ {d}
  /\ UNCHANGED <<own, version, serving>>

ConnectRefused(d, c) ==
  /\ Pending(d, c, "CONNECT")
  /\ serving[d] = None
  /\ engine[d].profile = None \/ d \in alive
  /\ Responds(d, c, A!Err(engine[d]))
  /\ UNCHANGED <<own, version, alive, serving>>

\* Mutant: a config applied before is started again.
SpawnApplied(d, c) ==
  /\ Pending(d, c, "CONNECT")
  /\ serving[d] = None
  /\ engine[d].profile # None /\ d \notin alive
  /\ alive' = alive \cup {d}
  /\ serving' = [serving EXCEPT ![d] =
                   [client |-> c, profile |-> IF engine[d].config = None THEN engine[d].profile
                                              ELSE engine[d].config[1]]]
  /\ UNCHANGED <<dvars, engine, version, clients>>

\* The start of start(), with the profile that CONNECT has cloned.
Spawn(d, c) ==
  /\ Pending(d, c, "CONNECT")
  /\ serving[d] = None
  /\ engine[d].profile # None /\ d \notin alive
  /\ alive' = alive \cup {d}
  /\ serving' = [serving EXCEPT ![d] = [client |-> c, profile |-> engine[d].profile]]
  /\ UNCHANGED <<dvars, engine, version, clients>>

\* The end of start(), after its 400 ms: whatever the process does by then, it is
\* running if it is alive.
Settle(d) ==
  /\ phase[d] = "serve" /\ serving[d] # None
  /\ LET s == serving[d] IN
     \E o \in A!ConnectOutcomes(engine[d], s.profile, Node) :
       /\ o.engine.config = <<s.profile, Node>>
       /\ Observed(d, o)
       /\ o.result = IF d \in alive THEN "OK" ELSE "ERR"
       /\ o.result = "ERR" => o.engine.status = "error"
       /\ Responds(d, s.client, o)
  /\ serving' = [serving EXCEPT ![d] = None]
  /\ UNCHANGED <<own, version, alive>>

Handles(d, c) ==
  \/ Fetch(d, c) \/ GetProfile(d, c) \/ Status(d, c)
  \/ Disconnect(d, c) \/ ConnectRefused(d, c) \/ Spawn(d, c)

-----------------------------------------------------------------------------
(* Launches, deaths and sing-box                                           *)

\* run_daemon stores the profile it fetched, or the error, before it locks.
BootEngine(d) ==
  /\ Boot(d)
  /\ IF phase[d] # "prefetch" THEN UNCHANGED <<engine, version>>
     ELSE \E o \in A!FetchOutcomes(engine[d]) :
            /\ version' = IF o.result = "OK" THEN version + 1 ELSE version
            /\ o.result = "OK" => o.data = version'
            /\ engine' = [engine EXCEPT ![d] = o.engine]
  /\ UNCHANGED <<alive, serving, clients>>

LaunchDaemon(d) == Launch(d) /\ UNCHANGED <<engines, clients>>

\* Responses not written yet are lost, whatever the requests have done.
DaemonEnds(d) ==
  /\ End(d)
  /\ engine' = [engine EXCEPT ![d] = Fresh]
  /\ serving' = [serving EXCEPT ![d] = None]
  /\ \E lost \in SUBSET {c \in Clients : peer[c] = d} :
       response' = [c \in Clients |-> IF c \in lost THEN None ELSE response[c]]
  /\ alive' = alive \ {d}
  /\ UNCHANGED <<version, at, peer, own>>

\* sing-box exits, for want of the port or for reasons of its own.
ChildExits(d) ==
  /\ d \in alive
  /\ alive' = alive \ {d}
  /\ UNCHANGED <<dvars, engine, version, serving, clients>>

Next ==
  \/ \E c \in Clients : \/ \E e \in Endpoints, cmd \in Cmds : Call(c, e, cmd)
                        \/ Receive(c)
                        \/ Ends(c)
  \/ \E d \in Daemons : \/ LaunchDaemon(d) \/ BootEngine(d) \/ DaemonEnds(d)
                        \/ Settle(d) \/ ChildExits(d)
                        \/ \E c \in Clients : Handles(d, c)

Spec == Init /\ [][Next]_vars

\* A daemon that serves answers each request (AllAnswered, shown of IpcServer:
\* its locks are fair, hence SF), the sleep of start() ends, a daemon boots as far
\* as it can, and clients read.  Nobody has to launch, to kill, to call or to exit.
Fairness ==
  /\ \A d \in Daemons : WF_vars(BootEngine(d)) /\ WF_vars(Settle(d))
  /\ \A d \in Daemons, c \in Clients : SF_vars(Handles(d, c))
  /\ \A c \in Clients : WF_vars(Receive(c)) /\ WF_vars(Ends(c))

FairSpec == Spec /\ Fairness

-----------------------------------------------------------------------------
(* Properties                                                              *)

\* fetch() gives its caller the profile of its own FETCH, whatever other clients
\* fetch and whichever daemons die and are replaced between the response and the
\* return.  A daemon that answers with a summary only is asked again on a second
\* connection: if that reaches the same daemon, the profile is at least as new.
FetchReturnsOwn ==
  [][\A c \in Clients :
       (own[c] # None /\ at[c] \in Fetching /\ at'[c] = "idle"
          /\ response[c] # None /\ response[c].result = "OK" /\ ~Incomplete(c)) =>
         IF own[c].by \in SummaryOnly
           THEN peer[c] = own[c].by => response[c].data >= own[c].profile
           ELSE response[c].data = own[c].profile]_vars

\* Whoever CONNECTs to the daemon that answered its last FETCH gets a sing-box for
\* that subscription or a newer one: not for an older one that the backend, applied
\* by others and stopped or crashed since, still holds, whatever clients fetch,
\* connect and disconnect in between or while start() sleeps.
ConnectUsesFetched ==
  [][\A c \in Clients :
       (/\ at[c] = "CONNECT" /\ response[c] = None
        /\ response'[c] # None /\ response'[c].result = "OK"
        /\ own[c] # None /\ own[c].by = peer[c])
         => engine'[peer[c]].config[1] >= own[c].profile]_vars

\* A method of the client returns, though it has no timeout: when the daemon it
\* talks to fails or is killed at any point, the connection ends with it.
CallsEnd == \A c \in Clients : (at[c] # "idle") ~> (at[c] = "idle")
=============================================================================
