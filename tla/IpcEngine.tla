----------------------------- MODULE IpcEngine ------------------------------
(***************************************************************************)
(* The refinement of EngineService by IpcServer.  Two history variables    *)
(* say what clients have seen so far: the response a handler has just      *)
(* returned, and the backend as it was when no handler was between         *)
(* apply_profile and the return of start(), or inside stop().              *)
(***************************************************************************)
EXTENDS IpcServer

VARIABLES committed, said

history == <<committed, said>>
evars   == <<svars, history>>

A == INSTANCE EngineApi

Seen(p, fe, s) == [profile |-> p, fetchError |-> fe, status |-> s[1], config |-> s[2]]

\* The Response a handler returns, from the state it leaves.
ResponseOf(c) ==
  LET left     == Seen(profile', fetchError', <<state', config'>>)
      ok(data) == [to |-> c, cmd |-> request[c].cmd, result |-> "OK", data |-> data]
      err      == [to |-> c, cmd |-> request[c].cmd, result |-> "ERR", data |-> None]
      returned == pc[c] = "call"
  IN CASE request[c].cmd = "FETCH" -> IF local[c] = None THEN err ELSE ok(local[c])
       [] request[c].cmd = "GET_PROFILE" -> IF profile = None THEN err ELSE ok(profile)
       [] request[c].cmd = "STATUS" -> ok(A!Shown(left))
       [] request[c].cmd = "CONNECT" ->
            IF returned /\ outcome = "Ok" THEN ok(A!Backend(left)) ELSE err
       [] request[c].cmd = "DISCONNECT" ->
            IF returned /\ outcome # "Ok" THEN err ELSE ok(A!Backend(left))

Answering(c) == pc[c] # "line" /\ pc'[c] = "line"

Record ==
  /\ said' = IF \E c \in Conns : Answering(c)
             THEN ResponseOf(CHOOSE c \in Conns : Answering(c)) ELSE None
  /\ committed' = IF \A c \in Conns : pc'[c] \notin {"start", "call"}
                  THEN <<state', config'>> ELSE committed

EngineInit == Init /\ said = None /\ committed = <<state, config>>

EngineNext == Next /\ Record

EngineSpec == EngineInit /\ [][EngineNext]_evars

\* The engine its clients have seen, and the profiles CONNECTs have cloned.
Served == Seen(profile, fetchError, committed)
Chosen == [c \in Conns |-> IF /\ pc[c] \in {"backend", "start", "call"}
                             /\ request[c].cmd = "CONNECT"
                          THEN local[c] ELSE None]

Service == INSTANCE EngineService WITH
  Nodes <- NodeIds, engine <- Served, chosen <- Chosen

\* Each client sees an engine that serves one request at a time: whatever other
\* handlers do between the awaits of its own, a request has one effect, at one
\* moment, and its response says what that effect was; no STATUS shows a backend
\* that is neither as it was before a CONNECT or DISCONNECT nor as that left it.
ImplementsEngine == Service!ServiceSpec
=============================================================================
