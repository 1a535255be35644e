---------------------------- MODULE DaemonProofs ----------------------------
(***************************************************************************)
(* Theorems on DaemonInstances, for any number of launches, endpoints and  *)
(* faults.  The argument is the lock: its owner alone is past "lock", so   *)
(* between the removal of the socket file and bind() nobody else touches   *)
(* the file, and nobody removes it while its owner listens.                *)
(***************************************************************************)
EXTENDS DaemonInstances, TLAPS

OwnersHoldLock == \A d \in Daemons : phase[d] \in Owning => holder[EndpointOf[d]] = d

BindFindsNoFile == \A d \in Daemons : phase[d] = "bind" => socket[EndpointOf[d]] = None

DaemonInv ==
  /\ DaemonTypeOK
  /\ OwnersHoldLock
  /\ BindFindsNoFile
  /\ ServedSocketStays
  /\ NoneBlocked

\* What the lock of an endpoint means: one owner at most.
LEMMA LockExcludes ==
  ASSUME OwnersHoldLock
  PROVE  OneServer
BY DEF OwnersHoldLock, OneServer

\* DaemonInv holds when no daemon has been launched.
LEMMA DaemonInvInit == DaemonInit => DaemonInv
BY DaemonAssumption
   DEF DaemonInit, DaemonInv, DaemonTypeOK, OwnersHoldLock, BindFindsNoFile,
       ServedSocketStays, NoneBlocked, Phases, Owning, Ended, Listening

\* Every step of a daemon preserves DaemonInv.
LEMMA DaemonInvStep == DaemonInv /\ [DaemonNext]_dvars => DaemonInv'
<1> SUFFICES ASSUME DaemonInv, [DaemonNext]_dvars PROVE DaemonInv'
  OBVIOUS
<1> USE DaemonAssumption
    DEF DaemonInv, DaemonTypeOK, OwnersHoldLock, BindFindsNoFile, ServedSocketStays,
        NoneBlocked, Phases, Owning, Ended, Listening, Moves, Released
<1>1. CASE UNCHANGED dvars
  BY <1>1 DEF dvars
<1>2. ASSUME NEW d \in Daemons, Launch(d) PROVE DaemonInv'
  BY <1>2 DEF Launch
<1>3. ASSUME NEW d \in Daemons, Prefetched(d) PROVE DaemonInv'
  BY <1>3 DEF Prefetched
<1>4. ASSUME NEW d \in Daemons, Acquire(d) PROVE DaemonInv'
  BY <1>4 DEF Acquire
<1>5. ASSUME NEW d \in Daemons, Refuse(d) PROVE DaemonInv'
  BY <1>5 DEF Refuse
<1>6. ASSUME NEW d \in Daemons, Claim(d) PROVE DaemonInv'
  BY <1>6 DEF Claim
<1>7. ASSUME NEW d \in Daemons, Unlink(d) PROVE DaemonInv'
  BY <1>7 DEF Unlink
<1>8. ASSUME NEW d \in Daemons, Bind(d) PROVE DaemonInv'
  BY <1>8 DEF Bind
<1>9. ASSUME NEW d \in Daemons, Blocked(d) PROVE DaemonInv'
  BY <1>9 DEF Blocked
<1>10. ASSUME NEW d \in Daemons, Restrict(d) PROVE DaemonInv'
  BY <1>10 DEF Restrict
<1>11. ASSUME NEW d \in Daemons, Fail(d) PROVE DaemonInv'
  BY <1>11 DEF Fail, Fallible
<1>12. ASSUME NEW d \in Daemons, Die(d) PROVE DaemonInv'
  BY <1>12 DEF Die
<1>. QED
  BY <1>1, <1>2, <1>3, <1>4, <1>5, <1>6, <1>7, <1>8, <1>9, <1>10, <1>11, <1>12
     DEF DaemonNext, Boot, End

LEMMA DaemonInvariant == DaemonSpec => []DaemonInv
BY DaemonInvInit, DaemonInvStep, PTL DEF DaemonSpec

\* DaemonTypeOK, whatever is launched, fails and dies.
THEOREM DaemonTypeCorrect == DaemonSpec => []DaemonTypeOK
<1>1. DaemonInv => DaemonTypeOK BY DEF DaemonInv
<1>. QED BY <1>1, DaemonInvariant, PTL

\* "multiple daemons on the same IPC endpoint" are prevented (DaemonLock).
THEOREM SingleServer == DaemonSpec => []OneServer
<1>1. DaemonInv => OneServer BY LockExcludes DEF DaemonInv
<1>. QED BY <1>1, DaemonInvariant, PTL

\* The file of a daemon that listens stays its own (run_unix removes unseen).
THEOREM SocketStays == DaemonSpec => []ServedSocketStays
<1>1. DaemonInv => ServedSocketStays BY DEF DaemonInv
<1>. QED BY <1>1, DaemonInvariant, PTL

\* The daemon with the lock finds no file to stop it, killed predecessors or not.
THEOREM SuccessorBinds == DaemonSpec => []NoneBlocked
<1>1. DaemonInv => NoneBlocked BY DEF DaemonInv
<1>. QED BY <1>1, DaemonInvariant, PTL
=============================================================================
