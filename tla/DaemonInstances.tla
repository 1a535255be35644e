-------------------------- MODULE DaemonInstances ---------------------------
(***************************************************************************)
(* The daemon processes of one machine, from launch to death: run_daemon   *)
(* (crates/conflux-daemon/src/lib.rs) and, on Unix, run_unix with its      *)
(* DaemonLock (crates/conflux-ipc/src/server.rs).  Every launch is a       *)
(* daemon of its own; a daemon that died is replaced by launching the next *)
(* one for its endpoint.                                                   *)
(*                                                                         *)
(* The lock is a flock on "{endpoint}.lock", which is never removed; the   *)
(* kernel drops it when its owner dies, whatever the reason.  The socket   *)
(* file stays behind when the daemon that bound it dies, and bind() fails  *)
(* as long as there is a file.                                             *)
(***************************************************************************)
CONSTANTS
  Daemons,      \* the launches, by process id
  Endpoints,    \* socket paths
  EndpointOf,   \* the endpoint each daemon is configured with
  Prefetching,  \* the daemons with a subscription_url in their configuration
  DaemonFaults, \* kill: a daemon dies at any moment; io: a system call fails
                \* (remove_file where bind fails as well)
  None

ASSUME DaemonAssumption ==
  /\ EndpointOf \in [Daemons -> Endpoints]
  /\ None \notin Daemons

VARIABLES
  phase,   \* how far each daemon has got
  holder,  \* the daemon that holds the lock of each endpoint
  socket   \* the daemon that bound the socket file of each endpoint, dead or
           \* alive; None: no file

dvars == <<phase, holder, socket>>

Ended    == {"gone", "blocked"}
Owning   == {"claim", "unlink", "bind", "restrict", "serve"}
Fallible == {"lock", "claim", "bind", "restrict", "serve"}
Phases   == {"off", "prefetch", "lock"} \cup Owning \cup Ended

\* A listener takes connections from bind() on.
Listening == {"restrict", "serve"}

DaemonTypeOK ==
  /\ phase \in [Daemons -> Phases]
  /\ holder \in [Endpoints -> Daemons \cup {None}]
  /\ socket \in [Endpoints -> Daemons \cup {None}]

DaemonInit ==
  /\ phase = [d \in Daemons |-> "off"]
  /\ holder = [e \in Endpoints |-> None]
  /\ socket = [e \in Endpoints |-> None]

-----------------------------------------------------------------------------

Moves(d, from, to) == phase[d] = from /\ phase' = [phase EXCEPT ![d] = to]

\* The file descriptor of the lock is closed.
Released(d) == [holder EXCEPT ![EndpointOf[d]] = IF @ = d THEN None ELSE @]

Launch(d) ==
  /\ Moves(d, "off", IF d \in Prefetching THEN "prefetch" ELSE "lock")
  /\ UNCHANGED <<holder, socket>>

\* The fetch of the configured subscription ends, in a profile or an error.
Prefetched(d) ==
  /\ Moves(d, "prefetch", "lock")
  /\ UNCHANGED <<holder, socket>>

\* Mutant: a lock that several daemons may share.
AcquireShared(d) ==
  /\ Moves(d, "lock", "claim")
  /\ holder' = [holder EXCEPT ![EndpointOf[d]] = d]
  /\ UNCHANGED socket

Acquire(d) ==
  /\ Moves(d, "lock", "claim")
  /\ holder[EndpointOf[d]] = None
  /\ holder' = [holder EXCEPT ![EndpointOf[d]] = d]
  /\ UNCHANGED socket

\* Mutant: the stale socket is removed before the lock is asked for.
RefuseUnlinked(d) ==
  /\ Moves(d, "lock", "gone")
  /\ holder[EndpointOf[d]] # None
  /\ socket' = [socket EXCEPT ![EndpointOf[d]] = None]
  /\ UNCHANGED holder

\* "another conflux daemon is already running on this endpoint"
Refuse(d) ==
  /\ Moves(d, "lock", "gone")
  /\ holder[EndpointOf[d]] # None
  /\ UNCHANGED <<holder, socket>>

\* The lock file is truncated and gets the process id.
Claim(d) ==
  /\ Moves(d, "claim", "unlink")
  /\ UNCHANGED <<holder, socket>>

\* Mutant: a socket file that is there is kept.
UnlinkNothing(d) ==
  /\ Moves(d, "unlink", "bind")
  /\ UNCHANGED <<holder, socket>>

\* The result of remove_file is ignored.
Unlink(d) ==
  /\ Moves(d, "unlink", "bind")
  /\ socket' = [socket EXCEPT ![EndpointOf[d]] = None]
  /\ UNCHANGED holder

Bind(d) ==
  /\ Moves(d, "bind", "restrict")
  /\ socket[EndpointOf[d]] = None
  /\ socket' = [socket EXCEPT ![EndpointOf[d]] = d]
  /\ UNCHANGED holder

Restrict(d) ==
  /\ Moves(d, "restrict", "serve")
  /\ UNCHANGED <<holder, socket>>

\* bind: "address in use", also when nobody listens on the file any more.
Blocked(d) ==
  /\ Moves(d, "bind", "blocked")
  /\ socket[EndpointOf[d]] # None
  /\ holder' = Released(d)
  /\ UNCHANGED socket

\* run_unix returns an error and the process exits: the lock file cannot be
\* opened or written, bind, chmod or accept fails.
Fail(d) ==
  /\ "io" \in DaemonFaults
  /\ phase[d] \in Fallible
  /\ phase' = [phase EXCEPT ![d] = "gone"]
  /\ holder' = Released(d)
  /\ UNCHANGED socket

\* A signal or a panic of the main task; no handler runs and nothing is dropped.
Die(d) ==
  /\ "kill" \in DaemonFaults
  /\ phase[d] \notin Ended \cup {"off"}
  /\ phase' = [phase EXCEPT ![d] = "gone"]
  /\ holder' = Released(d)
  /\ UNCHANGED socket

\* What a daemon that runs does next by itself, and how it may end.
Boot(d) ==
  \/ Prefetched(d) \/ Acquire(d) \/ Refuse(d) \/ Claim(d)
  \/ Unlink(d) \/ Bind(d) \/ Blocked(d) \/ Restrict(d)

End(d) == Fail(d) \/ Die(d)

DaemonNext == \E d \in Daemons : Launch(d) \/ Boot(d) \/ End(d)

DaemonSpec == DaemonInit /\ [][DaemonNext]_dvars

-----------------------------------------------------------------------------
(* Properties                                                              *)

\* server.rs at DaemonLock: it prevents "multiple daemons on the same IPC
\* endpoint".  At most one daemon of an endpoint is past the lock, whatever is
\* launched, killed or fails in between.
OneServer ==
  \A d1, d2 \in Daemons :
    /\ phase[d1] \in Owning /\ phase[d2] \in Owning
    /\ EndpointOf[d1] = EndpointOf[d2]
    => d1 = d2

\* A daemon that listens is the one its socket file leads to: no daemon that is
\* launched beside it, refused or not, takes the file away (run_unix removes the
\* file of its endpoint unseen, and may do so only under the lock).
ServedSocketStays ==
  \A d \in Daemons : phase[d] \in Listening => socket[EndpointOf[d]] = d

\* A daemon that got the lock never finds the endpoint occupied: neither the
\* socket file of a daemon that was killed at any point, nor a daemon launched at
\* the same time, keeps the next one from serving.
NoneBlocked == \A d \in Daemons : phase[d] # "blocked"
=============================================================================
