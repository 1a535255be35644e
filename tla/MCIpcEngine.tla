---------------------------- MODULE MCIpcEngine -----------------------------
(* The instances of MCIpcServer, with the history of IpcEngine.            *)
EXTENDS MCIpcServer, IpcEngine
=============================================================================
