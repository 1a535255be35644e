-------------------------- MODULE MCSingboxBackend --------------------------
(* Small instances of SingboxBackend for TLC.                              *)
EXTENDS SingboxBackend, TLC

CONSTANTS p1, p2, n1, n2, s1, s2

MCProfiles == {p1, p2}
MCNodeIds  == {n1, n2}
MCPids     == {s1, s2}

\* p1 has both nodes; of p2, generate_config accepts only n1, and no default.
MCUsable == {<<p1, n1>>, <<p1, n2>>, <<p1, None>>, <<p2, n1>>}

AllFaults == FaultKinds

\* One fault at a time, for the two claims the documentation makes.
KillFault == {"kill"}
ExitFault == {"exit"}

Symmetry == Permutations(MCPids)
=============================================================================
