------------------------------- MODULE Tunnel -------------------------------
(***************************************************************************)
(* What the backend promises its callers, without files, handles or steps: *)
(* at most one sing-box process at a time, started only with the           *)
(* configuration applied last, none while the status is down or failed,    *)
(* and a new configuration only when there is none.                        *)
(***************************************************************************)
CONSTANTS Configs, Pids, None

VARIABLES
  status,   \* "down", "up" or "failed"
  applied,  \* the configuration applied last
  carrying  \* the processes that are alive, each with its configuration

tvars == <<status, applied, carrying>>

Init == status = "down" /\ applied = None /\ carrying = {}

Apply(c) ==
  /\ carrying = {}
  /\ applied' = c
  /\ status' = "down"
  /\ UNCHANGED carrying

Launch(p) ==
  /\ carrying = {}
  /\ applied # None
  /\ carrying' = {<<p, applied>>}
  /\ status' = "up"
  /\ UNCHANGED applied

\* The process exits, by itself or because it was killed.
Die ==
  /\ carrying # {}
  /\ carrying' = {}
  /\ UNCHANGED <<status, applied>>

\* A start fails, or the death of the process is noticed.
Fail ==
  /\ carrying = {}
  /\ status' = "failed"
  /\ UNCHANGED <<applied, carrying>>

\* A stop completes, or a new start begins.
Clear ==
  /\ carrying = {}
  /\ status' = "down"
  /\ UNCHANGED <<applied, carrying>>

Next ==
  \/ \E c \in Configs : Apply(c)
  \/ \E p \in Pids : Launch(p)
  \/ Die
  \/ Fail
  \/ Clear

TunnelSpec == Init /\ [][Next]_tvars

\* The promise, as an invariant: whatever runs is the one process, with the
\* configuration applied last, and the status says so.
OneTunnel ==
  carrying # {} =>
    /\ status = "up"
    /\ \E p \in Pids : carrying = {<<p, applied>>}
=============================================================================
