--------------------------- MODULE SingboxTunnel ----------------------------
(***************************************************************************)
(* The refinement of Tunnel by SingboxBackend.  A start that has not       *)
(* spawned yet looks down, a stop that has not finished looks up.          *)
(***************************************************************************)
EXTENDS SingboxBackend

StatusOf ==
  CASE state \in {"idle", "starting"}    -> "down"
    [] state \in {"running", "stopping"} -> "up"
    [] state = "error"                   -> "failed"

Carrying == {<<p, proc[p]>> : p \in Live}

T == INSTANCE Tunnel WITH
       Configs <- Usable, status <- StatusOf, applied <- config,
       carrying <- Carrying

\* Unless kill or try_wait fails, each step of the backend is a step of the
\* tunnel or changes nothing its callers can see.
ImplementsTunnel == T!TunnelSpec

\* The promise of the tunnel, read in the backend's own state: STATUS says
\* running or stopping whenever a process is alive, and there is only one.
OneTunnel == T!OneTunnel
=============================================================================
