-------------------------------- MODULE Worker --------------------------------
(***************************************************************************)
(* A worker of the tasking frontend (frontends/tasking/worker.hpp) and the  *)
(* processing units it drives through the compute manager                   *)
(* (core/computeManager.hpp, backends/pthreads/processingUnit.hpp).  Three  *)
(* kinds of threads share the worker's atomic state: its owner, which calls *)
(* initialize, start and await; any others, which call suspend, resume and  *)
(* terminate; and the main loop, on the lead processing unit's thread.      *)
(*                                                                          *)
(* A call that throws before it has changed anything is not a step.  An     *)
(* exception inside the main loop ends the process ("crashed").             *)
(***************************************************************************)
EXTENDS Integers

CONSTANTS
  Tasks,        \* the tasks the pull function hands out
  NPU           \* processing units of the worker; unit 0 is the lead

ASSUME WorkerAssumption == NPU \in Nat \ {0}

PUs == 0 .. NPU - 1
Others == 1 .. NPU - 1

VARIABLES
  state,       \* the worker's atomic state
  pu,          \* state of each processing unit
  loop,        \* where the main loop is; "none" while the thread does not exist
  task,        \* execution state of each task
  owner,       \* the owner's call: where it is and the unit it waits for
  accepted     \* history: the state in which the pending terminate was accepted

workerVars == <<state, pu, loop, task, owner, accepted>>

IdleOwner == [pc |-> "idle", i |-> 0]

WorkerInit ==
  /\ state = "uninitialized"
  /\ pu = [i \in PUs |-> "uninitialized"]
  /\ loop = "none"
  /\ task = [t \in Tasks |-> "uninitialized"]
  /\ owner = IdleOwner
  /\ accepted = "none"

-----------------------------------------------------------------------------
(* The owner: initialize, start, await                                      *)

\* Worker::initialize checks its state and initializes every unit ...
WorkerInitialize ==
  /\ owner.pc = "idle"
  /\ state \in {"uninitialized", "terminated"}
  /\ \A i \in PUs : pu[i] \in {"uninitialized", "terminated"}
  /\ pu' = [i \in PUs |-> "ready"]
  /\ owner' = [owner EXCEPT !.pc = "initializing"]
  /\ UNCHANGED <<state, loop, task, accepted>>

\* ... and then stores its own state.
InitializeStore ==
  /\ owner.pc = "initializing"
  /\ state' = "ready"
  /\ owner' = IdleOwner
  /\ UNCHANGED <<pu, loop, task, accepted>>

WorkerStart ==
  /\ owner.pc = "idle"
  /\ state = "ready"
  /\ owner' = [owner EXCEPT !.pc = "starting"]
  /\ UNCHANGED <<state, pu, loop, task, accepted>>

\* The state is stored before the thread exists.
StartStore ==
  /\ owner.pc = "starting"
  /\ state' = "running"
  /\ accepted' = "none"
  /\ owner' = [owner EXCEPT !.pc = "launching"]
  /\ UNCHANGED <<pu, loop, task>>

\* ComputeManager::start and, up to the barrier, the launch of the thread.
StartLaunch ==
  /\ owner.pc = "launching"
  /\ pu[0] = "ready"
  /\ pu' = [pu EXCEPT ![0] = "running"]
  /\ loop' = "pull"
  /\ owner' = IdleOwner
  /\ UNCHANGED <<state, task, accepted>>

WorkerAwait ==
  /\ owner.pc = "idle"
  /\ state \in {"terminating", "running", "suspended", "suspending", "resuming"}
  /\ owner' = [pc |-> "awaiting", i |-> 0]
  /\ UNCHANGED <<state, pu, loop, task, accepted>>

\* Mutant: await does not join the thread.
AwaitUnitNoJoin ==
  /\ owner.pc = "awaiting"
  /\ owner.i \in PUs
  /\ pu' = [pu EXCEPT ![owner.i] = "terminated"]
  /\ owner' = [owner EXCEPT !.i = @ + 1]
  /\ UNCHANGED <<state, loop, task, accepted>>

\* ComputeManager::await of one unit: joins its thread, unless it never ran.
\* The lead unit's thread ends with the main loop; other units have none.
AwaitUnit ==
  /\ owner.pc = "awaiting"
  /\ owner.i \in PUs
  /\ owner' = [owner EXCEPT !.i = @ + 1]
  /\ IF pu[owner.i] \in {"terminating", "running", "suspended"}
       THEN /\ owner.i = 0 => loop = "exited"
            /\ loop' = IF owner.i = 0 THEN "none" ELSE "crashed"
            /\ pu' = [pu EXCEPT ![owner.i] = "terminated"]
       ELSE UNCHANGED <<pu, loop>>
  /\ UNCHANGED <<state, task, accepted>>

AwaitStore ==
  /\ owner.pc = "awaiting"
  /\ owner.i = NPU
  /\ state' = "terminated"
  /\ accepted' = "none"
  /\ owner' = IdleOwner
  /\ UNCHANGED <<pu, loop, task>>

-----------------------------------------------------------------------------
(* Any thread: suspend, resume, terminate                                   *)

\* Mutant: suspend stores the final state itself.
SuspendAtOnce ==
  /\ state = "running"
  /\ state' = "suspended"
  /\ UNCHANGED <<pu, loop, task, owner, accepted>>

\* compare_exchange_weak(running, suspending); its failures change nothing.
WorkerSuspend ==
  /\ state = "running"
  /\ state' = "suspending"
  /\ UNCHANGED <<pu, loop, task, owner, accepted>>

\* compare_exchange_weak(suspended, resuming).
WorkerResume ==
  /\ state = "suspended"
  /\ state' = "resuming"
  /\ UNCHANGED <<pu, loop, task, owner, accepted>>

\* The exchange is unconditional: terminate throws afterwards, with the state
\* already changed, when it was neither running nor suspending.
WorkerTerminate ==
  /\ state' = "terminating"
  /\ accepted' = IF state \in {"running", "suspending"} THEN state ELSE accepted
  /\ UNCHANGED <<pu, loop, task, owner>>

-----------------------------------------------------------------------------
(* The main loop                                                            *)

\* The pull function returns no task, or one that has not finished, and
\* Task::run starts or resumes it.
LoopPull ==
  /\ loop = "pull"
  /\ \/ loop' = "check" /\ UNCHANGED task
     \/ \E t \in Tasks :
          /\ task[t] \in {"uninitialized", "suspended"}
          /\ task' = [task EXCEPT ![t] = "running"]
          /\ loop' = "task"
  /\ UNCHANGED <<state, pu, owner, accepted>>

\* The task suspends itself or ends, and Task::run returns to the loop.
LoopTaskEnds ==
  /\ loop = "task"
  /\ \E t \in Tasks, after \in {"suspended", "finished"} :
       /\ task[t] = "running"
       /\ task' = [task EXCEPT ![t] = after]
  /\ loop' = "check"
  /\ UNCHANGED <<state, pu, owner, accepted>>

\* Mutant: the loop goes on pulling tasks after a suspension was requested.
LoopCheckSuspendNever ==
  /\ loop = "check"
  /\ loop' = "checkTerminate"
  /\ UNCHANGED <<state, pu, task, owner, accepted>>

LoopCheckSuspend ==
  /\ loop = "check"
  /\ loop' = IF state = "suspending" THEN "suspending" ELSE "checkTerminate"
  /\ UNCHANGED <<state, pu, task, owner, accepted>>

\* A plain store, after the state was read in LoopCheckSuspend.
LoopStoreSuspended ==
  /\ loop = "suspending"
  /\ state' = "suspended"
  /\ loop' = "suspendOthers"
  /\ UNCHANGED <<pu, task, owner, accepted>>

\* ComputeManager::suspend throws for a unit that is not running.
LoopSuspendOthers ==
  /\ loop = "suspendOthers"
  /\ IF \A i \in Others : pu[i] = "running"
       THEN /\ pu' = [i \in PUs |-> IF i \in Others THEN "suspended" ELSE pu[i]]
            /\ loop' = "sleep"
       ELSE loop' = "crashed" /\ UNCHANGED pu
  /\ UNCHANGED <<state, task, owner, accepted>>

\* checkResumeConditions, once per suspend interval.
LoopSleep ==
  /\ loop = "sleep"
  /\ state = "resuming"
  /\ loop' = "resumeOthers"
  /\ UNCHANGED <<state, pu, task, owner, accepted>>

LoopResumeOthers ==
  /\ loop = "resumeOthers"
  /\ IF \A i \in Others : pu[i] = "suspended"
       THEN /\ pu' = [i \in PUs |-> IF i \in Others THEN "running" ELSE pu[i]]
            /\ loop' = "running"
       ELSE loop' = "crashed" /\ UNCHANGED pu
  /\ UNCHANGED <<state, task, owner, accepted>>

\* A plain store as well.
LoopStoreRunning ==
  /\ loop = "running"
  /\ state' = "running"
  /\ loop' = "checkTerminate"
  /\ UNCHANGED <<pu, task, owner, accepted>>

\* Mutant: the loop looks for the state that await stores.
LoopCheckTerminateLate ==
  /\ loop = "checkTerminate"
  /\ loop' = IF state = "terminated" THEN "terminate" ELSE "pull"
  /\ UNCHANGED <<state, pu, task, owner, accepted>>

LoopCheckTerminate ==
  /\ loop = "checkTerminate"
  /\ loop' = IF state = "terminating" THEN "terminate" ELSE "pull"
  /\ UNCHANGED <<state, pu, task, owner, accepted>>

\* ComputeManager::terminate of every unit, then the loop returns.
LoopTerminate ==
  /\ loop = "terminate"
  /\ pu' = [i \in PUs |-> "terminating"]
  /\ loop' = "exited"
  /\ UNCHANGED <<state, task, owner, accepted>>

-----------------------------------------------------------------------------
OwnerProceeds ==
  InitializeStore \/ StartStore \/ StartLaunch \/ AwaitUnit \/ AwaitStore

MainLoop ==
  \/ LoopPull \/ LoopTaskEnds
  \/ LoopCheckSuspend \/ LoopStoreSuspended \/ LoopSuspendOthers
  \/ LoopSleep \/ LoopResumeOthers \/ LoopStoreRunning
  \/ LoopCheckTerminate \/ LoopTerminate

WorkerNext ==
  /\ loop # "crashed"
  /\ \/ WorkerInitialize \/ WorkerStart \/ WorkerAwait \/ OwnerProceeds
     \/ WorkerSuspend \/ WorkerResume \/ WorkerTerminate
     \/ MainLoop

WorkerSpec == WorkerInit /\ [][WorkerNext]_workerVars

\* The operating system runs both threads; tasks end or yield; the owner's
\* calls proceed.  Nobody has to suspend, resume or terminate.
WorkerFairSpec ==
  /\ WorkerSpec
  /\ WF_workerVars(loop # "crashed" /\ MainLoop)
  /\ WF_workerVars(loop # "crashed" /\ OwnerProceeds)

-----------------------------------------------------------------------------
(* Properties                                                               *)

\* The type invariant.
WorkerTypeOK ==
  /\ state \in {"uninitialized", "ready", "running", "suspending", "suspended", "resuming",
                "terminating", "terminated"}
  /\ pu \in [PUs -> {"uninitialized", "ready", "running", "suspended", "terminating", "terminated"}]
  /\ loop \in {"none", "pull", "task", "check", "suspending", "suspendOthers", "sleep",
               "resumeOthers", "running", "checkTerminate", "terminate", "exited", "crashed"}
  /\ task \in [Tasks -> {"uninitialized", "running", "suspended", "finished"}]
  /\ owner \in [pc : {"idle", "initializing", "starting", "launching", "awaiting"}, i : 0 .. NPU]
  /\ accepted \in {"none", "running", "suspending"}

\* A worker that is not started, or that await reports as terminated, has no
\* main loop: a restarted worker never runs two of them, whatever is called.
StoppedWorkerHasNoLoop ==
  state \in {"uninitialized", "ready", "terminated"} => loop = "none"

\* A worker whose state says suspended is not inside a task.
SuspendedWorkerRunsNoTask == state = "suspended" => \A t \in Tasks : task[t] # "running"

\* A request to suspend or to resume does not stay pending: the main loop takes
\* it up, also when it came before the main loop's thread existed.
RequestsTakenUp ==
  /\ state = "suspending" ~> state # "suspending"
  /\ state = "resuming" ~> state # "resuming"

Stopped == loop = "exited" \/ state = "terminated"

\* A terminate that found the worker running ends the main loop, whatever is
\* called after it, so that an owner that awaits the worker comes back.
AwaitReturns == (owner.pc = "awaiting" /\ accepted = "running") ~> owner.pc = "idle"

\* Every terminate that does not throw ends the main loop, also one that found
\* the worker suspending.
TerminationHonoured == accepted # "none" ~> Stopped
=============================================================================
