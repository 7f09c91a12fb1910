-------------------------------- MODULE Compute --------------------------------
(***************************************************************************)
(* Processing units and the execution states they run, in the pthreads,      *)
(* nOS-V, ACL and OpenCL backends, with the local memory the kernels work    *)
(* on.  One thread, the program, calls the memory, communication and compute *)
(* managers; the engine behind its processing unit (a POSIX thread, a nOS-V  *)
(* task, a device stream or command queue) works at its own pace.            *)
(*                                                                          *)
(* A program is a sequence of calls (ComputePrograms.tla).  A value is a     *)
(* term in prefix notation, a sequence of symbols; a kernel is               *)
(*   copy: [op, out, args]   the value of its only argument goes to out;     *)
(*   compute: [op, out, args, fn]   fn of the arguments' values goes to out; *)
(*   wait: [op, out, args]   a host function that spins on a flag.           *)
(***************************************************************************)
EXTENDS Integers, Sequences, FiniteSets, Functions

CONSTANT ComputeLaunches    \* the programs checked: [backend, script]

Catalogue == ComputeLaunches

VARIABLES
  program,     \* the program that runs
  pc,          \* its next call
  slot,        \* the local memory slots: [live, mapped, value]
  unit,        \* the processing unit's state, or "none"
  stage,       \* how far startImpl has come; "idle" outside it
  todo,        \* the kernels of the execution unit not handed over yet
  engine,      \* the thread or task
  stream,      \* the kernels the engine has still to run
  active,      \* _isStreamActive
  pending,     \* the signals sent to the thread and not delivered
  flag,        \* what the host function spins on
  exc          \* an uncaught exception

engineVars == <<unit, stage, todo, engine, stream, active, pending>>
vars == <<program, pc, slot, engineVars, flag, exc>>

Backend == program.backend
OnDevice == Backend \in {"acl", "opencl"}
Running == exc = "none" /\ pc <= Len(program.script)
Statement == program.script[pc]
At(op) == Running /\ stage = "idle" /\ Statement.op = op
Advance == pc' = pc + 1

SlotsOf(script) == {s.slot : s \in {t \in Range(script) : t.op \in {"allocate", "register"}}}

Init ==
  /\ program \in Catalogue
  /\ pc = 1
  /\ slot = [s \in SlotsOf(program.script) |-> [live |-> FALSE, mapped |-> FALSE, value |-> <<"none">>]]
  /\ unit = "none" /\ stage = "idle" /\ todo = <<>> /\ engine = "none" /\ stream = <<>>
  /\ active = FALSE /\ pending = {} /\ flag = FALSE /\ exc = "none"

Throw(kind) == exc' = kind /\ UNCHANGED <<program, pc, slot, engineVars, flag>>

-----------------------------------------------------------------------------
(* Memory and communication managers                                        *)

Allocated(mapped) ==
  /\ slot' = [slot EXCEPT ![Statement.slot] = [live |-> TRUE, mapped |-> mapped, value |-> <<"none">>]]
  /\ Advance /\ UNCHANGED <<program, engineVars, flag, exc>>

AllocateHwloc == Backend \in {"pthreads", "nosv"} /\ At("allocate") /\ Allocated(FALSE)
AllocateAcl == Backend = "acl" /\ At("allocate") /\ Allocated(FALSE)

\* An OpenCL buffer is mapped as soon as it is allocated.
AllocateOpencl == Backend = "opencl" /\ At("allocate") /\ Allocated(TRUE)

Registered(mapped) ==
  /\ slot' = [slot EXCEPT ![Statement.slot] = [live |-> TRUE, mapped |-> mapped, value |-> Statement.value]]
  /\ Advance /\ UNCHANGED <<program, engineVars, flag, exc>>

\* A slot over memory the program already has.
RegisterHwloc == Backend = "pthreads" /\ At("register") /\ Registered(FALSE)
RegisterAcl == Backend = "acl" /\ At("register") /\ Registered(FALSE)
RegisterOpencl == Backend = "opencl" /\ At("register") /\ Registered(TRUE)

Freed ==
  /\ slot' = [slot EXCEPT ![Statement.slot].live = FALSE, ![Statement.slot].mapped = FALSE]
  /\ Advance /\ UNCHANGED <<program, engineVars, flag, exc>>

FreeHwloc == Backend \in {"pthreads", "nosv"} /\ At("free") /\ Freed
FreeAcl == Backend = "acl" /\ At("free") /\ Freed
FreeOpencl == Backend = "opencl" /\ At("free") /\ Freed

\* The memory stays; an OpenCL buffer over it stays mapped.
DeregisterLocalMemorySlot ==
  /\ At("deregister")
  /\ slot' = [slot EXCEPT ![Statement.slot].live = FALSE]
  /\ Advance /\ UNCHANGED <<program, engineVars, flag, exc>>

\* The program writes through the slot's pointer.
WriteSlot ==
  /\ At("write")
  /\ slot' = [slot EXCEPT ![Statement.slot].value = Statement.value]
  /\ Advance /\ UNCHANGED <<program, engineVars, flag, exc>>

Memset ==
  /\ At("memset") /\ Backend # "opencl"
  /\ slot' = [slot EXCEPT ![Statement.slot].value = <<"zero">>]
  /\ Advance /\ UNCHANGED <<program, engineVars, flag, exc>>

\* OpenCL fills a buffer that is mapped for writing: what the mapping holds when
\* it is undone may be the new or the old content.
MemsetOpencl ==
  /\ At("memset") /\ Backend = "opencl"
  /\ \E v \in {<<"zero">>, slot[Statement.slot].value} : slot' = [slot EXCEPT ![Statement.slot].value = v]
  /\ Advance /\ UNCHANGED <<program, engineVars, flag, exc>>

\* The synchronous memcpy returns when the copy is done.
Copied ==
  /\ slot' = [slot EXCEPT ![Statement.slot].value = slot[Statement.from].value]
  /\ Advance /\ UNCHANGED <<program, engineVars, flag, exc>>

MemcpyPthreads == Backend = "pthreads" /\ At("memcpy") /\ Copied
MemcpyAcl == Backend = "acl" /\ At("memcpy") /\ Copied

\* Both buffers are unmapped for the copy and mapped again before it returns.
MemcpyOpencl == Backend = "opencl" /\ At("memcpy") /\ Copied

\* The program prints what the slot's pointer shows.
ShowSlot == At("show") /\ Advance /\ UNCHANGED <<program, slot, engineVars, flag, exc>>

-----------------------------------------------------------------------------
(* The compute manager                                                      *)

Created ==
  /\ At("create")
  /\ unit' = "uninitialized"
  /\ Advance /\ UNCHANGED <<program, slot, stage, todo, engine, stream, active, pending, flag, exc>>

\* The constructors prepare a thread, look up an affinity, or create a stream or
\* a queue: nothing runs yet.
CreatePthreads == Backend = "pthreads" /\ Created
CreateNosv == Backend = "nosv" /\ Created
CreateAcl == Backend = "acl" /\ Created
CreateOpencl == Backend = "opencl" /\ Created

Initialize ==
  /\ At("initialize")
  /\ IF unit \notin {"uninitialized", "terminated"} THEN Throw("RUNTIME")
     ELSE /\ unit' = "ready"
          /\ Advance /\ UNCHANGED <<program, slot, stage, todo, engine, stream, active, pending, flag, exc>>

\* ComputeManager::start: the unit has to be ready, and is running when its
\* backend's start is called.
Start(startImpl) ==
  IF unit # "ready" THEN Throw("RUNTIME")
  ELSE unit' = "running" /\ startImpl /\ UNCHANGED <<program, pc, slot, pending, flag, exc>>

\* A host unit has one engine, and waits at a barrier for it ...
Launch == stage' = "barrier" /\ engine' = "created" /\ stream' = Statement.kernels /\ UNCHANGED <<todo, active>>

\* ... a thread, or a task.
StartPthreads == At("start") /\ Backend = "pthreads" /\ Start(Launch)
StartNosv == At("start") /\ Backend = "nosv" /\ Start(Launch)

\* On a device the execution state hands over the kernels one by one.
EnqueueKernels(marked) ==
  stage' = "enqueue" /\ active' = marked /\ todo' = Statement.kernels /\ UNCHANGED <<engine, stream>>

\* Mutant: the execution state does not note that its stream is in use.
StartAclInactive == At("start") /\ Backend = "acl" /\ Start(EnqueueKernels(FALSE))

StartAcl == At("start") /\ Backend = "acl" /\ Start(EnqueueKernels(TRUE))
StartOpencl == At("start") /\ Backend = "opencl" /\ Start(EnqueueKernels(TRUE))

\* Mutant: start does not wait for the thread.
PassBarrierEarly ==
  /\ Running /\ stage = "barrier"
  /\ stage' = "idle" /\ engine' = IF engine = "barrier" THEN "running" ELSE engine
  /\ Advance /\ UNCHANGED <<program, slot, unit, todo, stream, active, pending, flag, exc>>

\* Both have reached the initialization barrier.
PassBarrier ==
  /\ Running /\ stage = "barrier" /\ engine = "barrier"
  /\ stage' = "idle" /\ engine' = "running"
  /\ Advance /\ UNCHANGED <<program, slot, unit, todo, stream, active, pending, flag, exc>>

\* Kernel::start on an ACL stream: the operation is only enqueued.
Enqueue ==
  /\ stream' = Append(stream, Head(todo)) /\ todo' = Tail(todo)
  /\ UNCHANGED <<program, pc, slot, unit, stage, engine, active, pending, flag, exc>>

NextKernel(kind) == Running /\ stage = "enqueue" /\ todo # <<>> /\ Head(todo).op = kind

StartMemoryKernelAcl == Backend = "acl" /\ NextKernel("copy") /\ Enqueue
StartComputationKernelAcl == Backend = "acl" /\ NextKernel("compute") /\ Enqueue

Touched(k) == {k.out} \cup Range(k.args)

\* Kernel::start on an OpenCL queue: every buffer is unmapped before the
\* operation is enqueued ...
UnmapAndEnqueue ==
  /\ slot' = [s \in DOMAIN slot |-> [slot[s] EXCEPT !.mapped = @ /\ s \notin Touched(Head(todo))]]
  /\ stream' = Append(stream, Head(todo))
  /\ stage' = "map"
  /\ UNCHANGED <<program, pc, unit, todo, engine, active, pending, flag, exc>>

StartMemoryKernelOpencl == Backend = "opencl" /\ NextKernel("copy") /\ UnmapAndEnqueue
StartComputationKernelOpencl == Backend = "opencl" /\ NextKernel("compute") /\ UnmapAndEnqueue

\* ... and mapped again by a call that waits for the queue.
MapArguments ==
  /\ Running /\ stage = "map" /\ stream = <<>>
  /\ slot' = [s \in DOMAIN slot |-> [slot[s] EXCEPT !.mapped = @ \/ s \in Touched(Head(todo))]]
  /\ todo' = Tail(todo) /\ stage' = "enqueue"
  /\ UNCHANGED <<program, pc, unit, engine, stream, active, pending, flag, exc>>

\* The event behind the kernels is recorded, and resume returns.
Recorded ==
  /\ Running /\ stage = "enqueue" /\ todo = <<>>
  /\ stage' = "idle"
  /\ Advance /\ UNCHANGED <<program, slot, unit, todo, engine, stream, active, pending, flag, exc>>

ResumeAcl == Backend = "acl" /\ Recorded
ResumeOpencl == Backend = "opencl" /\ Recorded

\* pthread_kill: a thread that has ended takes no signal.
Signal(sig) == pending' = IF engine = "ended" THEN pending ELSE pending \cup {sig}

\* pthreads only: the other backends throw.
Suspend ==
  /\ At("suspend")
  /\ IF unit # "running" \/ Backend # "pthreads" THEN Throw("RUNTIME")
     ELSE /\ unit' = "suspended" /\ Signal("SIGUSR1")
          /\ Advance /\ UNCHANGED <<program, slot, stage, todo, engine, stream, active, flag, exc>>

Resume ==
  /\ At("resume")
  /\ IF unit # "suspended" \/ Backend # "pthreads" THEN Throw("RUNTIME")
     ELSE /\ unit' = "running" /\ Signal("SIGUSR2")
          /\ Advance /\ UNCHANGED <<program, slot, stage, todo, engine, stream, active, flag, exc>>

Terminate ==
  /\ At("terminate")
  /\ unit' = "terminating"
  /\ Advance /\ UNCHANGED <<program, slot, stage, todo, engine, stream, active, pending, flag, exc>>

\* A unit that is not at work need not be awaited; otherwise awaitImpl waits, and
\* the unit is terminated.
Awaited(done) ==
  /\ At("await")
  /\ IF unit \notin {"terminating", "running", "suspended"} THEN UNCHANGED <<unit, active>>
     ELSE done /\ unit' = "terminated" /\ active' = FALSE
  /\ Advance /\ UNCHANGED <<program, slot, stage, todo, engine, stream, pending, flag, exc>>

\* finalizeStream waits only for a stream that is active.
FinalizeStreamAcl == active => stream = <<>>
FinalizeStreamOpencl == active => stream = <<>>

\* pthread_join; the loop on checkFinalization; the stream's end.
AwaitPthreads == Backend = "pthreads" /\ Awaited(engine = "ended")
AwaitNosv == Backend = "nosv" /\ Awaited(engine = "ended")
AwaitAcl == Backend = "acl" /\ Awaited(FinalizeStreamAcl)
AwaitOpencl == Backend = "opencl" /\ Awaited(FinalizeStreamOpencl)

\* The unit goes out of scope, with its execution state and stream.
DestroyProcessingUnit ==
  /\ At("destroy")
  /\ unit' = "none" /\ engine' = "none"
  /\ Advance /\ UNCHANGED <<program, slot, stage, todo, stream, active, pending, flag, exc>>

\* The program lets the host function go on.
SetFlag == At("flag") /\ flag' = TRUE /\ Advance /\ UNCHANGED <<program, slot, engineVars, exc>>

-----------------------------------------------------------------------------
(* The engine                                                               *)

\* launchWrapper has set up the thread, or run_callback has been called.
AtBarrier ==
  /\ exc = "none" /\ engine = "created"
  /\ engine' = "barrier"
  /\ UNCHANGED <<program, pc, slot, unit, stage, todo, stream, active, pending, flag, exc>>

LaunchWrapper == Backend = "pthreads" /\ AtBarrier
RunCallback == Backend = "nosv" /\ AtBarrier

\* The values of the arguments, one after the other.
Terms(args) ==
  LET first[n \in 0 .. Len(args)] == IF n = 0 THEN <<>> ELSE first[n - 1] \o slot[args[n]].value
  IN first[Len(args)]

Result(k) == IF k.op = "copy" THEN slot[k.args[1]].value ELSE <<k.fn>> \o Terms(k.args)

\* The next kernel, or the next part of the host function.
RunKernel ==
  LET k == Head(stream) IN
  /\ exc = "none" /\ stream # <<>>
  /\ OnDevice \/ engine = "running"
  /\ IF k.op = "wait" THEN flag /\ UNCHANGED slot ELSE slot' = [slot EXCEPT ![k.out].value = Result(k)]
  /\ stream' = Tail(stream)
  /\ UNCHANGED <<program, pc, unit, stage, todo, engine, active, pending, flag, exc>>

FunctionReturns ==
  /\ exc = "none" /\ engine = "running" /\ stream = <<>>
  /\ engine' = "ended" /\ pending' = {}
  /\ UNCHANGED <<program, pc, slot, unit, stage, todo, stream, active, flag, exc>>

\* The function has returned, and the thread ends, with the signals it has not
\* taken ...
ThreadEnds == Backend = "pthreads" /\ FunctionReturns

\* Mutant: the task is not marked as completed.
CompletedCallbackUnmarked == Backend = "nosv" /\ engine = "running" /\ stream = <<>> /\ UNCHANGED vars

\* ... or completed_callback marks the task.
CompletedCallback == Backend = "nosv" /\ FunctionReturns

\* catchSuspendSignal is entered ...
CatchSuspendSignal ==
  /\ exc = "none" /\ engine = "running" /\ "SIGUSR1" \in pending
  /\ engine' = "handler" /\ pending' = pending \ {"SIGUSR1"}
  /\ UNCHANGED <<program, pc, slot, unit, stage, todo, stream, active, flag, exc>>

\* ... and reaches sigwait.
Sigwait ==
  /\ exc = "none" /\ engine = "handler"
  /\ engine' = "parked"
  /\ UNCHANGED <<program, pc, slot, unit, stage, todo, stream, active, pending, flag, exc>>

\* sigwait returns.
SigwaitReturns ==
  /\ exc = "none" /\ engine = "parked" /\ "SIGUSR2" \in pending
  /\ engine' = "running" /\ pending' = pending \ {"SIGUSR2"}
  /\ UNCHANGED <<program, pc, slot, unit, stage, todo, stream, active, flag, exc>>

\* Anywhere else the resume signal goes to its empty handler: nothing blocks it.
CatchResumeSignal ==
  /\ exc = "none" /\ engine \in {"running", "handler"} /\ "SIGUSR2" \in pending
  /\ pending' = pending \ {"SIGUSR2"}
  /\ UNCHANGED <<program, pc, slot, unit, stage, todo, engine, stream, active, flag, exc>>

-----------------------------------------------------------------------------
Main ==
  \/ AllocateHwloc \/ AllocateAcl \/ AllocateOpencl \/ FreeHwloc \/ FreeAcl \/ FreeOpencl
  \/ RegisterHwloc \/ RegisterAcl \/ RegisterOpencl \/ DeregisterLocalMemorySlot
  \/ WriteSlot \/ Memset \/ MemsetOpencl \/ MemcpyPthreads \/ MemcpyAcl \/ MemcpyOpencl \/ ShowSlot
  \/ CreatePthreads \/ CreateNosv \/ CreateAcl \/ CreateOpencl \/ Initialize \/ StartPthreads \/ StartNosv \/ StartAcl \/ StartOpencl \/ PassBarrier
  \/ StartMemoryKernelAcl \/ StartComputationKernelAcl \/ ResumeAcl
  \/ StartMemoryKernelOpencl \/ StartComputationKernelOpencl \/ MapArguments \/ ResumeOpencl
  \/ Suspend \/ Resume \/ Terminate \/ AwaitPthreads \/ AwaitNosv \/ AwaitAcl \/ AwaitOpencl
  \/ DestroyProcessingUnit \/ SetFlag

Engine ==
  \/ LaunchWrapper \/ RunCallback \/ RunKernel \/ ThreadEnds \/ CompletedCallback
  \/ CatchSuspendSignal \/ Sigwait \/ SigwaitReturns \/ CatchResumeSignal

Ended == pc > Len(program.script) /\ exc = "none"

\* The program has returned, or an exception has ended it.
Over == ~Running /\ UNCHANGED vars

Next == Main \/ Engine \/ Over

Spec == Init /\ [][Next]_vars

\* The operating system runs the program's thread and the engine's.
FairSpec == Spec /\ WF_vars(Main) /\ WF_vars(Engine)

-----------------------------------------------------------------------------
(* Properties                                                               *)

\* The type invariant.
TypeOK ==
  /\ unit \in {"none", "uninitialized", "ready", "running", "suspended", "terminating", "terminated"}
  /\ stage \in {"idle", "barrier", "enqueue", "map"}
  /\ engine \in {"none", "created", "barrier", "running", "handler", "parked", "ended"}
  /\ active \in BOOLEAN /\ pending \subseteq {"SIGUSR1", "SIGUSR2"} /\ exc \in {"none", "RUNTIME"}

\* What a program prints is what its kernels compute: nothing is printed before
\* the stream has run, and no kernel runs before its inputs are in place.
PrintsTheResult == At("show") => slot[Statement.slot].value = Statement.value

\* The program reads and writes an OpenCL buffer only while it is mapped, and
\* the queue works on it only while it is not.
MappedForOneSide ==
  Backend = "opencl" =>
    /\ At("write") \/ At("show") => slot[Statement.slot].mapped
    /\ \A i \in DOMAIN stream : \A s \in Touched(stream[i]) : ~slot[s].mapped

\* The engine's work is over before the memory it uses is freed and before its
\* unit is destroyed; the program itself uses and frees only slots it still has,
\* and each side an OpenCL buffer only in its turn; no signal is sent before the
\* thread has set its handlers, which would end the process; and nobody throws.
UnitOutlivesItsWork ==
  /\ exc = "none"
  /\ pending # {} => engine # "created"
  /\ \A i \in DOMAIN stream : stream[i].op # "wait" => \A s \in Touched(stream[i]) : slot[s].live
  /\ unit = "none" => stream = <<>> /\ engine = "none"
  /\ \A op \in {"write", "show", "memset", "memcpy", "free", "deregister"} : At(op) => slot[Statement.slot].live
  /\ At("memcpy") => slot[Statement.from].live
  /\ MappedForOneSide

-----------------------------------------------------------------------------
(* Correct use: what the calls of a program may be, read off its text.       *)

UnitCalls == {"create", "initialize", "start", "suspend", "resume", "terminate", "await", "destroy"}

\* The last call on the unit before call i is one of ops.
Follows(script, i, ops) ==
  \E j \in 1 .. i - 1 :
    script[j].op \in ops /\ \A k \in j + 1 .. i - 1 : script[k].op \notin UnitCalls

\* There is no unit yet, or no more.
NoUnit(script, i) ==
  (\A k \in 1 .. i - 1 : script[k].op \notin UnitCalls) \/ Follows(script, i, {"destroy"})

\* Slot s was allocated or registered before call i, and not given up since.
Held(script, i, s) ==
  \E j \in 1 .. i - 1 :
    /\ script[j].op \in {"allocate", "register"} /\ script[j].slot = s
    /\ \A k \in j + 1 .. i - 1 : script[k].op \in {"free", "deregister"} => script[k].slot # s

WorksOn(kernels) == UNION {Touched(k) : k \in {k \in Range(kernels) : k.op # "wait"}}

\* Nobody awaits, before call i, the kernels that call j starts.
MayRun(script, j, i) == script[j].op = "start" /\ \A k \in j + 1 .. i - 1 : script[k].op # "await"

\* A unit is initialized, started, suspended and resumed, awaited and destroyed
\* in that order; a slot is used while it is held, by the program and by the
\* kernels; and it is not given up while kernels that use it are not awaited.
CallAllowed(backend, script, i) ==
  LET call == script[i] IN
  /\ call.op = "create" => NoUnit(script, i)
  /\ call.op = "initialize" => Follows(script, i, {"create", "await"})
  /\ call.op = "start" => /\ Follows(script, i, {"initialize"})
                         /\ call.kernels \in Seq(Range(call.kernels))
                         /\ \A s \in WorksOn(call.kernels) : Held(script, i, s)
  /\ call.op = "suspend" => backend = "pthreads" /\ Follows(script, i, {"start", "resume"})
  /\ call.op = "resume" => backend = "pthreads" /\ Follows(script, i, {"suspend"})
  /\ call.op = "terminate" => Follows(script, i, {"start", "suspend", "resume"})
  /\ call.op = "await" => Follows(script, i, {"start", "suspend", "resume", "terminate"})
  /\ call.op = "destroy" => Follows(script, i, {"create", "initialize", "await"})
  /\ call.op \in {"write", "show", "memset", "memcpy", "free", "deregister"} => Held(script, i, call.slot)
  /\ call.op = "memcpy" => Held(script, i, call.from)
  /\ call.op \in {"free", "deregister"} =>
       \A j \in 1 .. i - 1 : MayRun(script, j, i) => call.slot \notin WorksOn(script[j].kernels)

WellUsed(launch) ==
  /\ launch.script \in Seq(Range(launch.script))
  /\ \A i \in DOMAIN launch.script : CallAllowed(launch.backend, launch.script, i)

\* Every program that suspends nothing ends.
UnsuspendedProgramsEnd == (\E t \in Range(program.script) : t.op = "suspend") \/ <>Ended

\* A unit that was suspended and resumed runs on, so that await returns.
ResumedUnitRuns == <>Ended
=============================================================================
