--------------------------- MODULE SingboxBackend ---------------------------
(***************************************************************************)
(* The sing-box backend of crates/conflux-backend: the five-state          *)
(* lifecycle of runtime.rs and the child process handle of                 *)
(* singbox/process.rs, with the operating system around them (processes    *)
(* that exit by themselves, file operations and system calls that fail).   *)
(*                                                                         *)
(* start() and stop() block for a while (they write a file, spawn, sleep,  *)
(* kill and wait), and the child may exit between any two of these steps,  *)
(* so each of them is a sequence of actions; `call` says how far the one   *)
(* method call in progress has got.  The methods take &mut self: calls     *)
(* never overlap.                                                          *)
(***************************************************************************)

CONSTANTS
  Profiles,  \* normalized subscriptions
  NodeIds,   \* node ids a caller may select
  Usable,    \* pairs <<profile, selection>> generate_config accepts
  Pids,      \* process ids; bounds the processes alive at a time
  Faults,    \* the failures the operating system may produce
  None       \* Option::None

(***************************************************************************)
(* mkdir: the config directory or file cannot be created                   *)
(* chmod: the file is created but write_secret_file fails afterwards       *)
(* spawn: the log file or the process cannot be created                    *)
(* exit:  a sing-box process exits by itself                               *)
(* kill:  Child::kill returns an error                                     *)
(* query: Child::try_wait (or the final wait) returns an error             *)
(* unlink: fs::remove_file returns an error, which the code ignores        *)
(***************************************************************************)
FileFaults    == {"mkdir", "chmod", "unlink"}
ProcessFaults == {"spawn", "exit", "kill", "query"}
FaultKinds    == FileFaults \cup ProcessFaults

Selections == NodeIds \cup {None}

ASSUME BackendAssumption ==
  /\ Usable \subseteq Profiles \X Selections
  /\ Faults \subseteq FaultKinds
  /\ None \notin Usable
  /\ None \notin Pids

VARIABLES
  state,       \* BackendState
  config,      \* profile, selected_node_id and config, always set together
  configPath,  \* config_path is Some (the path is fixed for a daemon)
  child,       \* SingboxProcess::child
  lastError,   \* last_error, by its cause
  call,        \* the next step of the method in progress
  held,        \* the Child that SingboxProcess::stop took out of `child`
  outcome,     \* what the last method returned
  proc,        \* the config each live process runs with; None: not alive
  disk,        \* what the config file holds; None: no such file
  abandoned    \* history: processes whose handle was dropped while alive

engine == <<state, config, configPath, child, lastError, call, held, outcome>>
osvars == <<proc, disk, abandoned>>
bvars  == <<engine, osvars>>

BackendState == {"idle", "starting", "running", "stopping", "error"}
Causes       == {"none", "exited", "io", "spawn", "process"}
Steps        == {"none", "write", "spawn", "settle", "kill", "reap"}
Results      == {"Ok", "AlreadyRunning", "InvalidTransition", "NoProfile",
                 "Config", "Io", "Spawn", "Process"}

Live == {p \in Pids : proc[p] # None}
FreePids == Pids \ (Live \cup {child})

\* What a remove_file of the config file can leave.
Removed == {None} \cup (IF "unlink" \in Faults THEN {disk} ELSE {})

TypeOK ==
  /\ state \in BackendState
  /\ config \in Usable \cup {None}
  /\ configPath \in BOOLEAN
  /\ child \in Pids \cup {None}
  /\ lastError \in Causes
  /\ call \in Steps
  /\ held \in Pids \cup {None}
  /\ outcome \in Results
  /\ proc \in [Pids -> Usable \cup {None}]
  /\ disk \in Usable \cup {None}
  /\ abandoned \subseteq Pids

BackendInit ==
  /\ state = "idle"
  /\ config = None
  /\ configPath = FALSE
  /\ child = None
  /\ lastError = "none"
  /\ call = "none"
  /\ held = None
  /\ outcome = "Ok"
  /\ proc = [p \in Pids |-> None]
  /\ disk = None
  /\ abandoned = {}

-----------------------------------------------------------------------------
(* Refreshing: what try_wait can report, and what the state becomes        *)

Steady == [state |-> state, child |-> child, lastError |-> lastError,
           abandoned |-> abandoned]

\* Mutant: is_running() keeps the handle of an exited child.
ExitedKeepsChild == [state |-> "error", child |-> child, lastError |-> "exited",
                     abandoned |-> abandoned]

\* is_running() forgets the handle both when the child has exited and when
\* it cannot be queried.
Exited == [state |-> "error", child |-> None, lastError |-> "exited",
           abandoned |-> abandoned \cup ({child} \cap Live)]

\* The states refresh_running_state can leave.
Refreshed ==
  (IF state # "running" \/ child \in Live THEN {Steady} ELSE {})
  \cup
  (IF state = "running" /\ (child \notin Live \/ "query" \in Faults)
     THEN {Exited} ELSE {})

Adopt(r) ==
  /\ state' = r.state
  /\ child' = r.child
  /\ lastError' = r.lastError
  /\ abandoned' = r.abandoned

Refresh ==
  /\ call = "none"
  /\ \E r \in Refreshed : Adopt(r)
  /\ UNCHANGED <<config, configPath, call, held, outcome, proc, disk>>

-----------------------------------------------------------------------------
(* apply_profile                                                           *)

ApplyRejected ==
  /\ call = "none"
  /\ \E r \in Refreshed :
       /\ r.state \in {"running", "starting"}
       /\ Adopt(r)
  /\ outcome' = "AlreadyRunning"
  /\ UNCHANGED <<config, configPath, call, held, proc, disk>>

\* Mutant: the fields are assigned before generate_config has accepted them.
ApplyInvalidStored(p, n) ==
  /\ call = "none"
  /\ <<p, n>> \notin Usable
  /\ \E r \in Refreshed :
       /\ r.state \notin {"running", "starting"}
       /\ Adopt(r)
  /\ config' = <<p, n>>
  /\ outcome' = "Config"
  /\ UNCHANGED <<configPath, call, held, proc, disk>>

ApplyInvalid(p, n) ==
  /\ call = "none"
  /\ <<p, n>> \notin Usable
  /\ \E r \in Refreshed :
       /\ r.state \notin {"running", "starting"}
       /\ Adopt(r)
  /\ outcome' = "Config"
  /\ UNCHANGED <<config, configPath, call, held, proc, disk>>

\* Mutant: a profile is applied whatever the state, also over a running child.
ApplyAcceptedAlways(p, n) ==
  /\ call = "none"
  /\ <<p, n>> \in Usable
  /\ \E r \in Refreshed :
       Adopt([r EXCEPT !.lastError = "none",
                       !.state = IF @ = "error" THEN "idle" ELSE @])
  /\ config' = <<p, n>>
  /\ outcome' = "Ok"
  /\ UNCHANGED <<configPath, call, held, proc, disk>>

ApplyAccepted(p, n) ==
  /\ call = "none"
  /\ <<p, n>> \in Usable
  /\ \E r \in Refreshed :
       /\ r.state \notin {"running", "starting"}
       /\ Adopt([r EXCEPT !.lastError = "none",
                          !.state = IF @ = "error" THEN "idle" ELSE @])
  /\ config' = <<p, n>>
  /\ outcome' = "Ok"
  /\ UNCHANGED <<configPath, call, held, proc, disk>>

ApplyProfile(p, n) == ApplyRejected \/ ApplyInvalid(p, n) \/ ApplyAccepted(p, n)

-----------------------------------------------------------------------------
(* start                                                                   *)

StartRejected ==
  /\ call = "none"
  /\ \E r \in Refreshed :
       /\ r.state \in {"running", "starting", "stopping"} \/ config = None
       /\ Adopt(r)
       /\ outcome' = CASE r.state = "running" -> "AlreadyRunning"
                       [] r.state \in {"starting", "stopping"} -> "InvalidTransition"
                       [] OTHER -> "NoProfile"
  /\ UNCHANGED <<config, configPath, call, held, proc, disk>>

\* Mutant: a running backend may be started again.
StartBeginAlways ==
  /\ call = "none"
  /\ config # None
  /\ \E r \in Refreshed : Adopt([r EXCEPT !.state = "starting"])
  /\ call' = "write"
  /\ UNCHANGED <<config, configPath, held, outcome, proc, disk>>

StartBegin ==
  /\ call = "none"
  /\ config # None
  /\ \E r \in Refreshed :
       /\ r.state \in {"idle", "error"}
       /\ Adopt([r EXCEPT !.state = "starting"])
  /\ call' = "write"
  /\ UNCHANGED <<config, configPath, held, outcome, proc, disk>>

WriteConfig ==
  /\ call = "write"
  /\ disk' = config
  /\ call' = "spawn"
  /\ UNCHANGED <<state, config, configPath, child, lastError, held, outcome,
                 proc, abandoned>>

\* The error return of start(): state and last_error are assigned directly.
StartFails(cause, result) ==
  /\ state' = "error"
  /\ lastError' = cause
  /\ outcome' = result
  /\ call' = "none"
  /\ UNCHANGED <<config, configPath, child, held, proc, abandoned>>

\* A failure after fs::write leaves the file behind, with no path kept.
WriteFails ==
  /\ call = "write"
  /\ StartFails("io", "Io")
  /\ \/ "mkdir" \in Faults /\ disk' = disk
     \/ "chmod" \in Faults /\ disk' = config

\* Mutant: the path of the config file is not kept.
SpawnSucceedsUntracked ==
  /\ call = "spawn"
  /\ child \notin Live
  /\ \E p \in FreePids :
       /\ proc' = [proc EXCEPT ![p] = disk]
       /\ child' = p
  /\ state' = "running"
  /\ call' = "settle"
  /\ UNCHANGED <<config, configPath, lastError, held, outcome, disk, abandoned>>

SpawnSucceeds ==
  /\ call = "spawn"
  /\ child \notin Live
  /\ \E p \in FreePids :
       /\ proc' = [proc EXCEPT ![p] = disk]
       /\ child' = p
  /\ configPath' = TRUE
  /\ state' = "running"
  /\ call' = "settle"
  /\ UNCHANGED <<config, lastError, held, outcome, disk, abandoned>>

SpawnFails ==
  /\ call = "spawn"
  /\ "spawn" \in Faults \/ child \in Live \/ FreePids = {}
  /\ StartFails("spawn", "Spawn")
  /\ disk' \in Removed

\* Mutant: start() waits for the child to come up, however long it takes.
SettleWaits ==
  /\ call = "settle"
  /\ \E r \in Refreshed :
       /\ Adopt(r)
       /\ call' = IF r.state = "error" THEN "settle" ELSE "none"
  /\ outcome' = "Ok"
  /\ UNCHANGED <<config, configPath, held, proc, disk>>

\* Mutant: start() does not look at what the refresh found.
SettleBlindly ==
  /\ call = "settle"
  /\ \E r \in Refreshed : Adopt(r)
  /\ outcome' = "Ok"
  /\ call' = "none"
  /\ UNCHANGED <<config, configPath, held, proc, disk>>

\* After the 400 ms sleep.
Settle ==
  /\ call = "settle"
  /\ \E r \in Refreshed :
       IF r.state = "error"
         THEN Adopt(r) /\ outcome' = "Process"
         ELSE Adopt([r EXCEPT !.lastError = "none"]) /\ outcome' = "Ok"
  /\ call' = "none"
  /\ UNCHANGED <<config, configPath, held, proc, disk>>

Start == StartRejected \/ StartBegin

-----------------------------------------------------------------------------
(* stop                                                                    *)

\* Mutant: stop() has nothing to do in Error either.
StopIdleOnError ==
  /\ call = "none"
  /\ state \in {"idle", "error"}
  /\ state' = "idle"
  /\ lastError' = "none"
  /\ outcome' = "Ok"
  /\ UNCHANGED <<config, configPath, child, call, held, osvars>>

StopIdle ==
  /\ call = "none"
  /\ state = "idle"
  /\ outcome' = "Ok"
  /\ UNCHANGED <<state, config, configPath, child, lastError, call, held, osvars>>

\* From Error the process is stopped too, but its result is ignored.
StopBegin ==
  /\ call = "none"
  /\ \E r \in Refreshed :
       /\ r.state \in {"running", "error"}
       /\ Adopt([r EXCEPT !.state = IF @ = "running" THEN "stopping" ELSE @,
                          !.child = None])
       /\ held' = r.child
  /\ call' = "kill"
  /\ UNCHANGED <<config, configPath, outcome, proc, disk>>

\* Mutant: last_error is not reset.
StopFinishKeepsError ==
  /\ state' = "idle"
  /\ configPath' = FALSE
  /\ IF configPath THEN disk' \in Removed ELSE disk' = disk
  /\ call' = "none"
  /\ held' = None
  /\ outcome' = "Ok"
  /\ UNCHANGED <<config, child, lastError>>

\* cleanup_config, then Idle.
StopFinish ==
  /\ state' = "idle"
  /\ lastError' = "none"
  /\ configPath' = FALSE
  /\ IF configPath THEN disk' \in Removed ELSE disk' = disk
  /\ call' = "none"
  /\ held' = None
  /\ outcome' = "Ok"
  /\ UNCHANGED <<config, child>>

KillNothing ==
  /\ call = "kill"
  /\ held = None
  /\ StopFinish
  /\ UNCHANGED <<proc, abandoned>>

\* Mutant: stop() does not wait for the killed process.
KillSucceedsUnwaited ==
  /\ call = "kill"
  /\ held # None
  /\ StopFinish
  /\ UNCHANGED <<proc, abandoned>>

KillSucceeds ==
  /\ call = "kill"
  /\ held # None
  /\ call' = "reap"
  /\ UNCHANGED <<state, config, configPath, child, lastError, held, outcome, osvars>>

\* The wait loop ends when the process is gone, after the deadline too.
Reap ==
  /\ call = "reap"
  /\ held \notin Live
  /\ StopFinish
  /\ UNCHANGED <<proc, abandoned>>

\* An error of kill, try_wait or wait drops the handle; from Error the
\* method goes on as if it had succeeded.
StopFails ==
  /\ \/ call = "kill" /\ held # None /\ "kill" \in Faults
     \/ call = "reap" /\ "query" \in Faults
  /\ abandoned' = abandoned \cup ({held} \cap Live)
  /\ UNCHANGED proc
  /\ IF state = "error"
       THEN StopFinish
       ELSE /\ state' = "error"
            /\ lastError' = "process"
            /\ outcome' = "Process"
            /\ call' = "none"
            /\ held' = None
            /\ UNCHANGED <<config, configPath, child, disk>>

Stop == StopIdle \/ StopBegin

-----------------------------------------------------------------------------
(* The operating system, and the whole backend                             *)

\* A killed process exits; any other may exit when the faults include it.
ProcessExits(p) ==
  /\ p \in Live
  /\ "exit" \in Faults \/ p \in abandoned \/ (call = "reap" /\ p = held)
  /\ proc' = [proc EXCEPT ![p] = None]
  /\ abandoned' = abandoned \ {p}
  /\ UNCHANGED <<engine, disk>>

\* What the method in progress does next.
Proceed ==
  \/ WriteConfig \/ WriteFails
  \/ SpawnSucceeds \/ SpawnFails
  \/ Settle
  \/ KillNothing \/ KillSucceeds \/ Reap \/ StopFails

BackendNext ==
  \/ \E p \in Profiles, n \in Selections : ApplyProfile(p, n)
  \/ Start
  \/ Stop
  \/ Refresh
  \/ Proceed
  \/ \E p \in Pids : ProcessExits(p)

BackendSpec == BackendInit /\ [][BackendNext]_bvars

\* A method that runs is not preempted for ever, and a killed process dies.
BackendFairness ==
  /\ WF_bvars(Proceed)
  /\ \A p \in Pids : WF_bvars(p = held /\ ProcessExits(p))

FairBackendSpec == BackendSpec /\ BackendFairness

-----------------------------------------------------------------------------
(* Properties                                                              *)

\* A process the backend no longer holds a handle of is alive only when a
\* failed kill or try_wait dropped the handle: no sequence of calls and
\* crashes makes start() overwrite the handle of a live process.
NoProcessForgotten == Live \subseteq ({child, held} \cup abandoned)

\* What STATUS reports as selected is what the process carries the traffic
\* with: the profile and node applied last are those the process was started
\* with, whatever failed calls came in between, until it is reaped.
ServesApplied == \A p \in Live \cap {child, held} : proc[p] = config

\* Between two calls, last_error is set exactly in the Error state, so the
\* backend_error of STATUS explains an error and never outlives it.
ErrorExplained == call = "none" => (state = "error" <=> lastError # "none")

\* Between two calls the backend holds a handle exactly when it says it is
\* running, and is never seen halfway through a start or a stop.
HandleMeansRunning ==
  call = "none" =>
    /\ state \in {"idle", "running", "error"}
    /\ held = None
    /\ child # None <=> state = "running"

\* Between two calls a config file on disk, which holds the credentials of
\* a node, is known to cleanup_config, so that a later stop can delete it:
\* through crashes, failed spawns and profiles applied in the Error state.
SecretTracked == call = "none" /\ disk # None => configPath

\* Every call returns: stop() does not wait for a process that never dies.
CallsReturn == (call # "none") ~> (call = "none")

\* docs/backend-singbox.md on the Idle state: "No sing-box process".
IdleMeansNoProcess == call = "none" /\ state = "idle" => Live = {}

\* docs/backend-singbox.md: generated config files are "deleted on
\* shutdown"; traits.rs: stop() releases resources.  A stop() that returns
\* Ok leaves no config file.
StopReleases == [][StopIdle \/ KillNothing \/ Reap => disk' = None]_bvars
=============================================================================
