--------------------------- MODULE EngineService ----------------------------
(***************************************************************************)
(* What the IPC server promises its clients: one engine, on which each     *)
(* request is one indivisible step that answers with what the step did,    *)
(* however many clients there are.  CONNECT alone has two: it settles on a *)
(* profile first, and another FETCH may be answered before it goes on.     *)
(***************************************************************************)
EXTENDS EngineApi

CONSTANTS Conns, Nodes

VARIABLES
  engine,  \* what clients see of the engine
  chosen,  \* the profile the CONNECT of a connection has settled on
  said     \* the response given in the last step; None: no response

service == <<engine, chosen, said>>

Init ==
  /\ engine \in Engine
  /\ engine.profile # None => ~engine.fetchError
  /\ engine.status = "idle" /\ engine.config = None
  /\ chosen = [c \in Conns |-> None]
  /\ said = None

Responds(c, cmd, outcomes) ==
  \E o \in outcomes :
    /\ engine' = o.engine
    /\ said' = [to |-> c, cmd |-> cmd, result |-> o.result, data |-> o.data]

Fetch(c)      == Responds(c, "FETCH", FetchOutcomes(engine)) /\ UNCHANGED chosen
GetProfile(c) == Responds(c, "GET_PROFILE", GetProfileOutcomes(engine)) /\ UNCHANGED chosen
Status(c)     == Responds(c, "STATUS", StatusOutcomes(engine)) /\ UNCHANGED chosen
Disconnect(c) == Responds(c, "DISCONNECT", DisconnectOutcomes(engine)) /\ UNCHANGED chosen

Choose(c) ==
  /\ chosen[c] = None
  /\ engine.profile # None
  /\ chosen' = [chosen EXCEPT ![c] = engine.profile]
  /\ said' = None
  /\ UNCHANGED engine

ConnectNothing(c) ==
  /\ engine.profile = None
  /\ Responds(c, "CONNECT", {Err(engine)})
  /\ UNCHANGED chosen

Connect(c, n) ==
  /\ chosen[c] # None
  /\ Responds(c, "CONNECT", ConnectOutcomes(engine, chosen[c], n))
  /\ chosen' = [chosen EXCEPT ![c] = None]

\* Time passes after a response.
Silence == said' = None /\ UNCHANGED <<engine, chosen>>

Next ==
  \/ \E c \in Conns :
       \/ Fetch(c) \/ GetProfile(c) \/ Status(c) \/ Disconnect(c)
       \/ Choose(c) \/ ConnectNothing(c)
       \/ \E n \in Nodes : Connect(c, n)
  \/ Silence

ServiceSpec == Init /\ [][Next]_service
=============================================================================
