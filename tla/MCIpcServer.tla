---------------------------- MODULE MCIpcServer -----------------------------
(* Small instances of IpcServer for TLC.                                   *)
EXTENDS IpcServer, TLC

CONSTANTS p1, p2, n1, s1, s2, c1, c2, c3

MCProfiles == {p1, p2}
MCNodeIds  == {n1}
MCPids     == {s1, s2}
MCUsable   == {<<p1, n1>>, <<p2, n1>>}
OneUsable  == {<<p1, n1>>}

TwoConns   == {c1, c2}
ThreeConns == {c1, c2, c3}

Cmd(cmds) == {[cmd |-> c, node |-> None] : c \in cmds}
Connect   == {[cmd |-> "CONNECT", node |-> n] : n \in MCNodeIds}

AllRequests     == Connect \cup Cmd({"FETCH", "DISCONNECT", "STATUS", "GET_PROFILE"})
PollingRequests == Connect \cup Cmd({"FETCH", "STATUS"})

AllFaults  == FaultKinds
NoFaults   == {}
MildFaults == {"mkdir", "spawn", "exit"}
ExitFault  == {"exit"}

Symmetry == Permutations(MCPids) \cup Permutations(ThreeConns)
=============================================================================
