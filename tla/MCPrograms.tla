------------------------------ MODULE MCPrograms ------------------------------
(***************************************************************************)
(* The launches of the example programs that are model-checked: every main   *)
(* with the smallest capacity its program finishes with, two or three        *)
(* instances, and launches the mains refuse.                                 *)
(***************************************************************************)
EXTENDS GlobalSlots, ServicePrograms

MCLaunches ==
  {FixedSpscMpi(2, TRUE, 2), FixedSpscLpf(2, TRUE, 2), FixedSpscPthreads(TRUE, 2),
    VariableSpscMpi(2, TRUE, 1), VariableSpscLpf(2, TRUE, 1), VariableSpscPthreads(TRUE, 1),
    FixedLockingMpi(3, TRUE, 1), FixedLockingLpf(3, TRUE, 1), FixedLockingPthreads(3, TRUE, 1),
    FixedNonlockingMpi(3, TRUE, 1), FixedNonlockingLpf(3, TRUE, 1), FixedNonlockingPthreads(3, TRUE, 1),
    VariableLockingMpi(3, TRUE, 5), VariableLockingLpf(3, TRUE, 5), VariableLockingPthreads(3, TRUE, 5),
    VariableNonlockingMpi(3, TRUE, 5), VariableNonlockingLpf(3, TRUE, 5), VariableNonlockingPthreads(3, TRUE, 5),
    FixedSpscLpf(2, TRUE, 0), FixedSpscMpi(3, TRUE, 2), FixedLockingPthreads(1, TRUE, 1),
    PingPongMpi(2, TRUE, 1, 2), PingPongLpf(2, TRUE, 1, 2),
    RemoteMemcpyMpi(2), RemoteMemcpyLpf(2), RemoteMemcpyMpi(3),
    PublishReadLpf, ObjectStorePthreads,
    RPCEngineMpi(3), DistributedTopologyMpi(3), DetectInstancesPthreads(3)}

\* The launches are used correctly; the object store's reader knows only from a
\* message that an object is published.
ASSUME LaunchesInStep ==
  \A l \in MCLaunches : SameCollectives(l) /\ ExchangesApart(l) /\ DestructionsFenced(l) /\ EndsMatch(l)
ASSUME LaunchesOrdered == \A l \in MCLaunches \ {PublishReadLpf, ObjectStorePthreads} : LifetimesOrdered(l)

MCReadable(json) == WellFormed(json)
MCShown(json) == Summary(DeserializeTopology(json))
=============================================================================
