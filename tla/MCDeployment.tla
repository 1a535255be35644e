---------------------------- MODULE MCDeployment ----------------------------
(* A small instance of Deployment for TLC: two daemons on one endpoint,    *)
(* one after the other or at the same time.                                *)
EXTENDS Deployment, TLC

CONSTANTS d1, d2, e1, c1, c2, n1

MCDaemons    == {d1, d2}
MCEndpoints  == {e1}
MCEndpointOf == d1 :> e1 @@ d2 :> e1
MCClients    == {c1, c2}
MCCmds       == {"FETCH", "STATUS", "CONNECT", "DISCONNECT"}
AllEnds      == {"kill", "io"}
First        == {d1}
Second       == {d2}
=============================================================================
