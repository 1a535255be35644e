--------------------------- MODULE MCSingboxTunnel --------------------------
(* A small instance of SingboxTunnel for TLC.                              *)
EXTENDS SingboxTunnel

CONSTANTS p1, p2, n1, n2, s1, s2

MCProfiles == {p1, p2}
MCNodeIds  == {n1, n2}
MCPids     == {s1, s2}
MCUsable   == {<<p1, n1>>, <<p1, n2>>, <<p1, None>>, <<p2, n1>>}

\* Every fault that loses no handle of a live process.
MCFaults == {"mkdir", "chmod", "spawn", "exit", "unlink"}
=============================================================================
