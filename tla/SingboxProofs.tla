--------------------------- MODULE SingboxProofs ----------------------------
(***************************************************************************)
(* Proofs about the backend, for every set of profiles, nodes, processes   *)
(* and faults: its safety invariants, and that it implements Tunnel when   *)
(* no handle of a live process is lost.                                    *)
(***************************************************************************)
EXTENDS SingboxTunnel, Naturals, TLAPS

\* What holds at each step of a method: the strengthening that makes the
\* properties between calls inductive.
CallInv ==
  /\ call = "none" => /\ state \in {"idle", "running", "error"}
                      /\ held = None
                      /\ child # None <=> state = "running"
                      /\ state = "error" <=> lastError # "none"
  /\ call \in {"write", "spawn"} => /\ state = "starting"
                                    /\ child = None
                                    /\ held = None
                                    /\ config # None
  /\ call = "spawn" => disk = config
  /\ call = "settle" => state = "running" /\ child # None /\ held = None
  /\ call \in {"kill", "reap"} => state \in {"stopping", "error"} /\ child = None
  /\ call \in {"kill", "reap"} /\ held # None => state = "stopping"
  /\ call = "reap" => held # None

IInv == TypeOK /\ NoProcessForgotten /\ ServesApplied /\ CallInv

-----------------------------------------------------------------------------

\* A refresh changes nothing, or forgets the child of a running backend.
LEMMA RefreshFacts ==
  ASSUME NEW r \in Refreshed
  PROVE  \/ r = Steady /\ (state # "running" \/ child \in Live)
         \/ r = Exited /\ state = "running"
  BY DEF Refreshed

\* The invariant holds initially.
LEMMA InitIInv == BackendInit => IInv
  BY BackendAssumption
  DEF BackendInit, IInv, TypeOK, NoProcessForgotten, ServesApplied, CallInv,
      Live, BackendState, Causes, Steps, Results

\* apply_profile preserves the invariant: a configuration is replaced only
\* when there is no handle.
LEMMA ApplyIInv ==
  ASSUME IInv, NEW p \in Profiles, NEW n \in Selections, ApplyProfile(p, n)
  PROVE  IInv'
  <1> USE BackendAssumption DEF IInv, TypeOK, NoProcessForgotten, ServesApplied, CallInv,
          Live, BackendState, Causes, Steps, Results, Adopt
  <1>1. CASE ApplyRejected
    BY <1>1, RefreshFacts DEF ApplyRejected, Steady, Exited
  <1>2. CASE ApplyInvalid(p, n)
    BY <1>2, RefreshFacts DEF ApplyInvalid, Steady, Exited
  <1>3. CASE ApplyAccepted(p, n)
    BY <1>3, RefreshFacts DEF ApplyAccepted, Steady, Exited
  <1>4. QED
    BY <1>1, <1>2, <1>3 DEF ApplyProfile

\* So does start(): its first step, and the steps it goes on with.
LEMMA StartIInv ==
  ASSUME IInv,
         \/ Start \/ WriteConfig \/ WriteFails
         \/ SpawnSucceeds \/ SpawnFails \/ Settle
  PROVE  IInv'
  <1> USE BackendAssumption DEF IInv, TypeOK, NoProcessForgotten, ServesApplied, CallInv,
          Live, BackendState, Causes, Steps, Results, Adopt
  <1>1. CASE StartRejected
    BY <1>1, RefreshFacts DEF StartRejected, Steady, Exited
  <1>2. CASE StartBegin
    BY <1>2, RefreshFacts DEF StartBegin, Steady, Exited
  <1>3. CASE WriteConfig
    BY <1>3 DEF WriteConfig
  <1>4. CASE WriteFails
    BY <1>4 DEF WriteFails, StartFails
  <1>5. CASE SpawnSucceeds
    BY <1>5 DEF SpawnSucceeds, FreePids
  <1>6. CASE SpawnFails
    BY <1>6 DEF SpawnFails, StartFails, Removed
  <1>7. CASE Settle
    BY <1>7, RefreshFacts DEF Settle, Steady, Exited
  <1>8. QED
    BY <1>1, <1>2, <1>3, <1>4, <1>5, <1>6, <1>7 DEF Start

\* So does stop(): a handle leaves `child` for `held`, and `held` for
\* nothing only when the process is dead or is recorded as abandoned.
LEMMA StopIInv ==
  ASSUME IInv, Stop \/ KillNothing \/ KillSucceeds \/ Reap \/ StopFails
  PROVE  IInv'
  <1> USE BackendAssumption DEF IInv, TypeOK, NoProcessForgotten, ServesApplied, CallInv,
          Live, BackendState, Causes, Steps, Results, Adopt
  <1>1. CASE StopIdle
    BY <1>1 DEF StopIdle, osvars
  <1>2. CASE StopBegin
    BY <1>2, RefreshFacts DEF StopBegin, Steady, Exited
  <1>3. CASE KillNothing
    BY <1>3 DEF KillNothing, StopFinish, Removed
  <1>4. CASE KillSucceeds
    BY <1>4 DEF KillSucceeds, osvars
  <1>5. CASE Reap
    BY <1>5 DEF Reap, StopFinish, Removed
  <1>6. CASE StopFails
    BY <1>6 DEF StopFails, StopFinish, Removed
  <1>7. QED
    BY <1>1, <1>2, <1>3, <1>4, <1>5, <1>6 DEF Stop

\* Every step of the backend preserves the invariant.
LEMMA StepIInv == IInv /\ [BackendNext]_bvars => IInv'
  <1> SUFFICES ASSUME IInv, [BackendNext]_bvars
               PROVE  IInv'
    OBVIOUS
  <1>1. ASSUME NEW p \in Profiles, NEW n \in Selections, ApplyProfile(p, n)
        PROVE  IInv'
    BY <1>1, ApplyIInv
  <1>2. CASE Refresh
    BY <1>2, RefreshFacts, BackendAssumption
    DEF IInv, TypeOK, NoProcessForgotten, ServesApplied, CallInv, Live,
        BackendState, Causes, Steps, Results, Adopt, Refresh, Steady, Exited
  <1>3. ASSUME NEW p \in Pids, ProcessExits(p)
        PROVE  IInv'
    BY <1>3
    DEF IInv, TypeOK, NoProcessForgotten, ServesApplied, CallInv, Live,
        ProcessExits, engine
  <1>4. CASE UNCHANGED bvars
    BY <1>4
    DEF IInv, TypeOK, NoProcessForgotten, ServesApplied, CallInv, Live,
        bvars, engine, osvars
  <1>5. QED
    BY <1>1, <1>2, <1>3, <1>4, StartIInv, StopIInv DEF BackendNext, Proceed

\* The inductive invariant holds in every reachable state.
THEOREM BackendInvariant == BackendSpec => []IInv
  <1>1. QED
    BY InitIInv, StepIInv, PTL DEF BackendSpec

\* Type correctness of the backend.
THEOREM BackendTypeCorrect == BackendSpec => []TypeOK
  <1>1. IInv => TypeOK
    BY DEF IInv
  <1>2. QED
    BY <1>1, BackendInvariant, PTL

\* A live process the backend has no handle of was lost to a failed kill or
\* try_wait: no sequence of calls and crashes forgets one.
THEOREM NoneForgotten == BackendSpec => []NoProcessForgotten
  <1>1. IInv => NoProcessForgotten
    BY DEF IInv
  <1>2. QED
    BY <1>1, BackendInvariant, PTL

\* The process of the backend runs with the configuration applied last.
THEOREM ChildServesApplied == BackendSpec => []ServesApplied
  <1>1. IInv => ServesApplied
    BY DEF IInv
  <1>2. QED
    BY <1>1, BackendInvariant, PTL

\* Between calls an error is reported exactly when the state says so.
THEOREM ErrorsExplained == BackendSpec => []ErrorExplained
  <1>1. IInv => ErrorExplained
    BY DEF IInv, CallInv, ErrorExplained
  <1>2. QED
    BY <1>1, BackendInvariant, PTL

\* Between calls a handle is held exactly when the state says running, and no
\* call leaves the state halfway.
THEOREM HandlesMeanRunning == BackendSpec => []HandleMeansRunning
  <1>1. IInv => HandleMeansRunning
    BY DEF IInv, CallInv, HandleMeansRunning
  <1>2. QED
    BY <1>1, BackendInvariant, PTL

-----------------------------------------------------------------------------
(* The config file                                                         *)

\* No failure hides a file from the backend: fs::write is all or nothing,
\* and remove_file works.
FilesKept == Faults \cap {"chmod", "unlink"} = {}

\* While a file is being written and used to spawn, its path is a local
\* variable of start(); at every other step it is in config_path.
SecretInv == call # "spawn" /\ disk # None => configPath

\* No step loses track of the file.
LEMMA StepSecretInv ==
  ASSUME FilesKept
  PROVE  IInv /\ SecretInv /\ [BackendNext]_bvars => SecretInv'
  <1> SUFFICES ASSUME IInv, SecretInv, [BackendNext]_bvars
               PROVE  SecretInv'
    OBVIOUS
  <1> USE FilesKept DEF FilesKept, IInv, CallInv, SecretInv, Removed
  <1>1. ASSUME NEW p \in Profiles, NEW n \in Selections, ApplyProfile(p, n)
        PROVE  SecretInv'
    BY <1>1 DEF ApplyProfile, ApplyRejected, ApplyInvalid, ApplyAccepted
  <1>2. CASE Start \/ Refresh
    BY <1>2 DEF Start, StartRejected, StartBegin, Refresh
  <1>3. CASE WriteConfig \/ WriteFails \/ SpawnSucceeds \/ SpawnFails \/ Settle
    BY <1>3 DEF WriteConfig, WriteFails, SpawnSucceeds, SpawnFails, Settle, StartFails
  <1>4. CASE Stop
    BY <1>4 DEF Stop, StopIdle, StopBegin, osvars
  <1>5. CASE KillNothing \/ KillSucceeds \/ Reap \/ StopFails
    BY <1>5 DEF KillNothing, KillSucceeds, Reap, StopFails, StopFinish, osvars
  <1>6. CASE (\E p \in Pids : ProcessExits(p)) \/ UNCHANGED bvars
    BY <1>6 DEF ProcessExits, bvars, engine, osvars
  <1>7. QED
    BY <1>1, <1>2, <1>3, <1>4, <1>5, <1>6 DEF BackendNext, Proceed

\* Between calls cleanup_config knows of the credentials on disk.
THEOREM SecretsTracked ==
  ASSUME FilesKept
  PROVE  BackendSpec => []SecretTracked
  <1>1. BackendInit => SecretInv
    BY DEF BackendInit, SecretInv
  <1>2. IInv /\ SecretInv /\ [BackendNext]_bvars => SecretInv'
    BY StepSecretInv
  <1>3. SecretInv => SecretTracked
    BY DEF SecretInv, SecretTracked
  <1>4. QED
    BY <1>1, <1>2, <1>3, BackendInvariant, PTL DEF BackendSpec

-----------------------------------------------------------------------------
(* The tunnel                                                              *)

\* kill and try_wait work.
HandlesKept == Faults \cap {"kill", "query"} = {}

\* Then no process is ever abandoned.
NoneAbandoned == abandoned = {}

\* No step abandons one.
LEMMA StepKept ==
  ASSUME HandlesKept
  PROVE  IInv /\ NoneAbandoned /\ [BackendNext]_bvars => NoneAbandoned'
  <1> SUFFICES ASSUME IInv, NoneAbandoned, [BackendNext]_bvars
               PROVE  NoneAbandoned'
    OBVIOUS
  <1> USE HandlesKept DEF HandlesKept, NoneAbandoned
  <1>1. \A r \in Refreshed : r.abandoned = {}
    BY DEF Refreshed, Steady, Exited
  <1>2. ASSUME NEW p \in Profiles, NEW n \in Selections, ApplyProfile(p, n)
        PROVE  NoneAbandoned'
    BY <1>1, <1>2, RefreshFacts
    DEF ApplyProfile, ApplyRejected, ApplyInvalid, ApplyAccepted, Adopt, Steady, Exited
  <1>3. CASE Start \/ Refresh \/ Settle \/ Stop
    BY <1>1, <1>3, RefreshFacts
    DEF Start, StartRejected, StartBegin, Refresh, Settle, Stop, StopIdle, StopBegin,
        Adopt, Steady, Exited, osvars
  <1>4. CASE WriteConfig \/ WriteFails \/ SpawnSucceeds \/ SpawnFails
    BY <1>4 DEF WriteConfig, WriteFails, SpawnSucceeds, SpawnFails, StartFails
  <1>5. CASE KillNothing \/ KillSucceeds \/ Reap \/ StopFails
    BY <1>5 DEF KillNothing, KillSucceeds, Reap, StopFails, osvars
  <1>6. CASE (\E p \in Pids : ProcessExits(p)) \/ UNCHANGED bvars
    BY <1>6 DEF ProcessExits, bvars, osvars
  <1>7. QED
    BY <1>2, <1>3, <1>4, <1>5, <1>6 DEF BackendNext, Proceed

\* At most one process is alive, and none between calls unless the state is
\* Running.
LEMMA OneAlive ==
  ASSUME IInv, NoneAbandoned
  PROVE  /\ Live \subseteq {child, held}
         /\ \/ child = None
            \/ held = None
  BY DEF IInv, TypeOK, Steps, NoProcessForgotten, CallInv, NoneAbandoned

\* The steps of the backend that leave the tunnel as it is.
LEMMA Stutters ==
  ASSUME UNCHANGED <<config, proc>>, StatusOf' = StatusOf
  PROVE  UNCHANGED T!tvars
  BY DEF T!tvars, Carrying, Live

\* The steps that change its status only, when no process is alive.
LEMMA StatusSteps ==
  ASSUME Live = {}, UNCHANGED <<config, proc>>, StatusOf' \in {"down", "failed"}
  PROVE  T!Next
  <1>1. Carrying = {} /\ Carrying' = Carrying
    BY DEF Carrying, Live
  <1>2. T!Clear \/ T!Fail
    BY <1>1 DEF T!Clear, T!Fail
  <1>3. QED
    BY <1>2 DEF T!Next

\* What a refresh leaves, when handles are kept: everything as it was, or an
\* error that no process survives.
LEMMA RefreshKept ==
  ASSUME IInv, NoneAbandoned, HandlesKept, call = "none", NEW r \in Refreshed
  PROVE  /\ \/ r = Steady
            \/ r = Exited /\ Live = {}
         /\ r.state # "running" => Live = {}
  BY OneAlive, RefreshFacts, BackendAssumption
  DEF Refreshed, HandlesKept, IInv, CallInv, Steady, Exited, Live

\* Each step of the backend is a step of the tunnel.
LEMMA StepTunnel ==
  ASSUME HandlesKept
  PROVE  IInv /\ NoneAbandoned /\ [BackendNext]_bvars => [T!Next]_(T!tvars)
  <1> SUFFICES ASSUME IInv, NoneAbandoned, [BackendNext]_bvars
               PROVE  [T!Next]_(T!tvars)
    OBVIOUS
  <1>a. Live \subseteq {child, held} /\ (child = None \/ held = None)
    BY OneAlive
  <1>b. None \notin Live
    BY BackendAssumption DEF Live
  <1> USE HandlesKept
  <1>1. CASE ApplyRejected \/ StartRejected \/ Refresh
    <2>1. PICK r \in Refreshed : call = "none" /\ Adopt(r)
      BY <1>1 DEF ApplyRejected, StartRejected, Refresh
    <2>2. UNCHANGED <<config, proc>>
      BY <1>1 DEF ApplyRejected, StartRejected, Refresh
    <2>3. CASE r = Steady
      BY <2>1, <2>2, <2>3, Stutters DEF Adopt, Steady, StatusOf
    <2>4. CASE r = Exited /\ Live = {}
      BY <2>1, <2>2, <2>4, StatusSteps DEF Adopt, Exited, StatusOf
    <2>5. QED
      BY <2>1, <2>3, <2>4, RefreshKept
  <1>2. ASSUME NEW p \in Profiles, NEW n \in Selections, ApplyInvalid(p, n)
        PROVE  [T!Next]_(T!tvars)
    <2>1. PICK r \in Refreshed : call = "none" /\ Adopt(r)
      BY <1>2 DEF ApplyInvalid
    <2>2. UNCHANGED <<config, proc>>
      BY <1>2 DEF ApplyInvalid
    <2>3. CASE r = Steady
      BY <2>1, <2>2, <2>3, Stutters DEF Adopt, Steady, StatusOf
    <2>4. CASE r = Exited /\ Live = {}
      BY <2>1, <2>2, <2>4, StatusSteps DEF Adopt, Exited, StatusOf
    <2>5. QED
      BY <2>1, <2>3, <2>4, RefreshKept
  <1>3. ASSUME NEW p \in Profiles, NEW n \in Selections, ApplyAccepted(p, n)
        PROVE  [T!Next]_(T!tvars)
    <2>1. Live = {}
      BY <1>3, RefreshKept DEF ApplyAccepted
    <2>2. state' = "idle"
      BY <1>3, RefreshFacts
      DEF ApplyAccepted, Adopt, Steady, Exited, IInv, CallInv
    <2>3. Carrying = {} /\ Carrying' = Carrying
      BY <1>3, <2>1 DEF ApplyAccepted, Carrying, Live
    <2>4. T!Apply(<<p, n>>)
      BY <1>3, <2>2, <2>3 DEF ApplyAccepted, T!Apply, StatusOf
    <2>5. <<p, n>> \in Usable
      BY <1>3 DEF ApplyAccepted
    <2>6. QED
      BY <2>4, <2>5 DEF T!Next
  <1>4. CASE StartBegin
    <2>1. Live = {}
      BY <1>4, RefreshKept DEF StartBegin
    <2>2. state' = "starting"
      BY <1>4, RefreshFacts DEF StartBegin, Adopt, Steady, Exited
    <2>3. QED
      BY <1>4, <2>1, <2>2, StatusSteps DEF StartBegin, StatusOf
  <1>5. CASE WriteConfig \/ KillSucceeds \/ StopIdle
    BY <1>5, Stutters DEF WriteConfig, KillSucceeds, StopIdle, StatusOf, osvars
  <1>6. CASE WriteFails \/ SpawnFails
    <2>1. Live = {}
      BY <1>6, <1>a, <1>b DEF WriteFails, SpawnFails, IInv, CallInv
    <2>2. QED
      BY <1>6, <2>1, StatusSteps DEF WriteFails, SpawnFails, StartFails, StatusOf
  <1>7. CASE SpawnSucceeds
    <2>1. Live = {} /\ disk = config /\ config # None
      BY <1>7, <1>a, <1>b DEF SpawnSucceeds, IInv, CallInv
    <2>2. PICK p \in Pids : proc' = [proc EXCEPT ![p] = disk]
      BY <1>7 DEF SpawnSucceeds, FreePids
    <2>3. Live' = {p} /\ proc'[p] = config
      BY <2>1, <2>2 DEF Live, IInv, TypeOK
    <2>4. Carrying = {} /\ Carrying' = {<<p, config>>}
      BY <2>1, <2>3 DEF Carrying
    <2>5. T!Launch(p)
      BY <1>7, <2>1, <2>4 DEF SpawnSucceeds, T!Launch, StatusOf
    <2>6. QED
      BY <2>5 DEF T!Next
  <1>8. CASE Settle
    <2>1. PICK r \in Refreshed :
            IF r.state = "error" THEN Adopt(r)
                                 ELSE Adopt([r EXCEPT !.lastError = "none"])
      BY <1>8 DEF Settle
    <2>2. call = "settle" /\ UNCHANGED <<config, proc>>
      BY <1>8 DEF Settle
    <2>3. CASE r = Steady
      BY <2>1, <2>2, <2>3, Stutters DEF Adopt, Steady, StatusOf, IInv, CallInv
    <2>4. CASE r = Exited /\ child \notin Live
      <3>1. Live = {}
        BY <1>a, <1>b, <2>2, <2>4 DEF IInv, CallInv
      <3>2. QED
        BY <2>1, <2>2, <2>4, <3>1, StatusSteps DEF Adopt, Exited, StatusOf
    <2>5. QED
      BY <2>3, <2>4 DEF Refreshed, HandlesKept
  <1>9. CASE StopBegin
    <2>1. PICK r \in Refreshed :
            /\ call = "none"
            /\ r.state \in {"running", "error"}
            /\ Adopt([r EXCEPT !.state = IF @ = "running" THEN "stopping" ELSE @,
                               !.child = None])
      BY <1>9 DEF StopBegin
    <2>2. UNCHANGED <<config, proc>>
      BY <1>9 DEF StopBegin
    <2>3. CASE r = Steady
      BY <2>1, <2>2, <2>3, Stutters DEF Adopt, Steady, StatusOf
    <2>4. CASE r = Exited /\ Live = {}
      BY <2>1, <2>2, <2>4, StatusSteps DEF Adopt, Exited, StatusOf
    <2>5. QED
      BY <2>1, <2>3, <2>4, RefreshKept
  <1>10. CASE KillNothing \/ Reap
    <2>1. Live = {}
      BY <1>10, <1>a, <1>b DEF KillNothing, Reap, IInv, CallInv
    <2>2. QED
      BY <1>10, <2>1, StatusSteps DEF KillNothing, Reap, StopFinish, StatusOf
  <1>11. CASE StopFails
    BY <1>11 DEF StopFails, HandlesKept
  <1>12. ASSUME NEW p \in Pids, ProcessExits(p)
         PROVE  [T!Next]_(T!tvars)
    <2>1. Live = {p}
      BY <1>12, <1>a, <1>b DEF ProcessExits
    <2>2. Live' = {}
      BY <1>12, <2>1 DEF ProcessExits, Live, IInv, TypeOK
    <2>3. Carrying # {} /\ Carrying' = {}
      BY <2>1, <2>2 DEF Carrying
    <2>4. T!Die
      BY <1>12, <2>3 DEF T!Die, ProcessExits, engine, StatusOf
    <2>5. QED
      BY <2>4 DEF T!Next
  <1>13. CASE UNCHANGED bvars
    BY <1>13, Stutters DEF bvars, engine, osvars, StatusOf
  <1>14. QED
    BY <1>1, <1>2, <1>3, <1>4, <1>5, <1>6, <1>7, <1>8, <1>9, <1>10, <1>11, <1>12, <1>13
    DEF BackendNext, ApplyProfile, Start, Stop, Proceed

\* Unless kill or try_wait fails, the backend implements the tunnel: its
\* callers see one process at a time, with the configuration applied last.
THEOREM BackendImplementsTunnel ==
  ASSUME HandlesKept
  PROVE  BackendSpec => ImplementsTunnel
  <1>1. BackendInit => NoneAbandoned /\ T!Init
    BY DEF BackendInit, NoneAbandoned, T!Init, StatusOf, Carrying, Live
  <1>2. IInv /\ NoneAbandoned /\ [BackendNext]_bvars => NoneAbandoned'
    BY StepKept
  <1>3. IInv /\ NoneAbandoned /\ [BackendNext]_bvars => [T!Next]_(T!tvars)
    BY StepTunnel
  <1>4. QED
    BY <1>1, <1>2, <1>3, BackendInvariant, PTL
    DEF BackendSpec, ImplementsTunnel, T!TunnelSpec

\* The promise of the tunnel, in the backend's own state: a live process is
\* the only one, it runs the configuration applied last, and STATUS says so.
THEOREM BackendOneTunnel ==
  ASSUME HandlesKept
  PROVE  BackendSpec => []OneTunnel
  <1>1. BackendInit => NoneAbandoned
    BY DEF BackendInit, NoneAbandoned
  <1>2. IInv /\ NoneAbandoned /\ [BackendNext]_bvars => NoneAbandoned'
    BY StepKept
  <1>3. IInv /\ NoneAbandoned => OneTunnel
    <2> SUFFICES ASSUME IInv, NoneAbandoned, Carrying # {}
                 PROVE  OneTunnel
      BY DEF OneTunnel, T!OneTunnel
    <2>1. PICK p \in Pids : p \in Live
      BY DEF Carrying, Live
    <2>2. Live = {p} /\ p \in {child, held}
      <3>1. None \notin Live
        BY BackendAssumption DEF Live
      <3>2. QED
        BY <2>1, <3>1, OneAlive
    <2>3. proc[p] = config
      BY <2>1, <2>2 DEF IInv, ServesApplied
    <2>4. Carrying = {<<p, config>>}
      BY <2>2, <2>3 DEF Carrying
    <2>5. StatusOf = "up"
      BY <2>1, <2>2, BackendAssumption DEF IInv, TypeOK, Steps, CallInv, Live, StatusOf
    <2>6. QED
      BY <2>1, <2>4, <2>5 DEF OneTunnel, T!OneTunnel, Live
  <1>4. QED
    BY <1>1, <1>2, <1>3, BackendInvariant, PTL DEF BackendSpec

\* The steps the method in progress may still take, a wait for the killed
\* process counted as one.
StepsLeft ==
  CASE call = "write"  -> 3
    [] call = "spawn"  -> 2
    [] call = "settle" -> 1
    [] call = "kill"   -> 2
    [] call = "reap"   -> 1
    [] OTHER           -> 0

\* A step while a method is in progress brings its end nearer, or is the exit
\* of a process, which can happen only as often as there are live ones.
CallDescends ==
  call # "none" =>
    \/ StepsLeft' < StepsLeft
    \/ UNCHANGED engine /\ Live' \subseteq Live /\ Live' # Live

\* start() and stop() take at most three steps, each at most once, whatever
\* fails and whatever dies meanwhile.
THEOREM CallsDescend == BackendSpec => [][CallDescends]_bvars
  <1>1. ASSUME TypeOK, BackendNext, call # "none"
        PROVE  CallDescends
    <2>1. CASE Proceed
      <3>1. \/ call = "write" /\ call' \in {"spawn", "none"}
            \/ call = "spawn" /\ call' \in {"settle", "none"}
            \/ call = "settle" /\ call' = "none"
            \/ call = "kill" /\ call' \in {"reap", "none"}
            \/ call = "reap" /\ call' = "none"
        BY <2>1
        DEF Proceed, WriteConfig, WriteFails, SpawnSucceeds, SpawnFails, StartFails, Settle,
            KillNothing, KillSucceeds, Reap, StopFails, StopFinish
      <3>2. StepsLeft' < StepsLeft
        BY <3>1 DEF StepsLeft
      <3>3. QED
        BY <3>2 DEF CallDescends
    <2>2. ASSUME NEW p \in Pids, ProcessExits(p)
          PROVE  CallDescends
      <3>1. UNCHANGED engine /\ p \in Live
        BY <2>2 DEF ProcessExits
      <3>2. Live' = Live \ {p}
        BY <1>1, <2>2 DEF ProcessExits, Live, TypeOK
      <3>3. QED
        BY <3>1, <3>2 DEF CallDescends
    <2>3. QED
      BY <1>1, <2>1, <2>2
      DEF BackendNext, ApplyProfile, ApplyRejected, ApplyInvalid, ApplyAccepted, Start,
          StartRejected, StartBegin, Stop, StopIdle, StopBegin, Refresh
  <1>2. TypeOK /\ [BackendNext]_bvars => [CallDescends]_bvars
    BY <1>1 DEF CallDescends
  <1>3. QED
    BY <1>2, BackendTypeCorrect, PTL DEF BackendSpec
=============================================================================
