# A TLA+ model of HiCR

HiCR is a C++ runtime-support layer: a header-only *core* of abstract managers
(communication, memory, compute, topology, instances), *backends* that implement
them (pthreads, MPI, LPF, hwloc, nOS-V, Boost, ACL, OpenCL) and *frontends*
built on the core only (channels, tasking, RPC engine, object store), with
example programs for each. This directory holds TLA+ modules for the parts in
which order, concurrency and boundaries decide correctness, TLC configurations
that check them on small instances, and TLAPS proofs for every instance. Paths
below are relative to `src/include/hicr/` unless they begin with `examples/`,
which is under `src/`.

## 1. Inventory

| Part | State | Operations | What makes it hard |
|---|---|---|---|
| Circular buffer (`frontends/channel/circularBuffer.hpp`) | head and tail counters in a coordination buffer | advanceHead, advanceTail, getDepth, positions | unsigned difference of two counters that two processes update |
| Fixed-size SPSC channel (`channel/fixedSize/spsc`) | a copy of both counters on either side, the token buffer at the consumer | push(n), peek(pos), pop(n) | each side decides on a stale counter; copies land between memcpy and fence |
| Variable-size SPSC channel (`channel/variableSize/spsc`) | two rings (counts, payload bytes), four counters per side | push, peek, pop(n) | two rings whose counters travel in different messages; a message may run past the end of the ring |
| Locking MPSC channels (`channel/*/mpsc/locking`) | one ring (or two) at the consumer, a lock on its coordination buffer | push, peek, pop under the lock | the producer writes the consumer's counters back; early returns and exceptions with the lock held |
| Nonlocking MPSC channels (`channel/*/mpsc/nonlocking`) | one SPSC channel per producer, recorded depths, helper FIFO | constructor, peek, pop(n), updateDepth | depths are read one at a time while producers push |
| Worker (`frontends/tasking/worker.hpp`) | atomic state, processing units, current task | initialize, start, suspend, resume, terminate, await, main loop | owner, other callers and main loop write one atomic; some writes are plain stores after an earlier read |
| Task, execution state, coroutine (`tasking/task.hpp`, `core/executionState.hpp`, `backends/boost`) | state of the execution, running context | initialize, run, suspend, checkFinalization | a suspended task is handed to another worker before the first has finished with it |
| Example runtime (`examples/tasking/runtime.hpp`) | lock-free queue, task count, finished labels | addTask, callbacks, pull function, run | count and labels change in separate steps |
| Compute manager, processing units (`core/computeManager.hpp`, `backends/{pthreads,nosv,acl,opencl}`) | state of the unit; thread, task, stream or queue behind it | initialize, start, suspend, resume, terminate, await | start-up barrier, suspension by signals, asynchronous kernels, mapped buffers |
| Communication manager (`core/communicationManager.hpp`, `backends/{pthreads,mpi,lpf}`) | registered slots by tag and key, slots to destroy; shared registry, windows, registrations | exchange, getGlobalMemorySlot, memcpy, fence, lock, deregister, destroy | collective calls; fences that complete what others started; a map copied after its mutex was released |
| RPC engine (`frontends/RPCEngine`) | request channels, return channels, target table | initialize, requestRPC, listen, submitReturnValue, getReturnValue | keys computed from pairs of instances; a push whose failure is ignored |
| Object store (`frontends/objectStore`) | published objects, slots | publish, get, destroy, fence | use before the fence, destruction while another reads |
| Topology (`core/topology.hpp`, `backends/{hwloc,acl}/topologyManager.hpp`) | devices, resources, memory spaces | query, serialize, deserialize, isSubset | what a conversion loses; greedy matching |

The parts interact in layers: channels call memcpy, fence and the lock of the
communication manager; the RPC engine is built from one fixed-size SPSC channel
per pair of instances and one variable-size locking MPSC channel per instance;
the nonlocking MPSC channel is built from SPSC channels; workers drive processing
units through the compute manager and run tasks, which are execution states.

## 2. Modules

| Module | Models |
|---|---|
| `CircularBuffer` | positions, depth, and when the advances of `circularBuffer.hpp` are fatal |
| `BoundedFifo`, `SharedFifo` | what the channels promise: a bounded queue of one producer; one of several producers, in order per producer |
| `FixedSpsc`, `VariableSpsc` | the SPSC channels; each refines `BoundedFifo` |
| `FixedMpscLocking`, `VariableMpscLocking` | the locking MPSC channels; each refines `SharedFifo` |
| `MpscNonlocking` | consumer of the nonlocking MPSC channels over abstract SPSC channels |
| `Worker` | worker, its main loop and the processing units it drives |
| `Tasking` | tasks, execution states, coroutines and the example runtime, with its programs |
| `Compute` | processing units and kernels on pthreads, nOS-V, ACL and OpenCL, with the local memory they work on |
| `ComputePrograms` | the kernel, memcpy and neural-network examples, and a unit that is suspended and resumed, as calls on `Compute` |
| `GlobalSlots` | global memory slots: core communication manager, its pthreads, MPI and LPF backends, memory managers; channels as queues |
| `Calls` | one constructor per HiCR call: the vocabulary of the programs on `GlobalSlots` |
| `ChannelPrograms` | the eighteen channel examples: six kinds of channel on three backends |
| `ServicePrograms` | RPC engine and object store as calls of the layers below, and the programs that use them; ping-pong, remote memcpy, detection of instances |
| `Topology` | detection, serialization and comparison of topologies |
| `...Proofs` | theorems about the module of that name; `FixedSpscProofs` also has those about `MpscNonlocking`, `ComputeProofs` those about `Worker` (section 4) |
| `MC...` | instances for TLC |

### How the code is represented

*Calls.* In the modules of single components a call is a record with a program
counter (`pushing`, `popping`, `owner`, `call`, `loop`, `worker`) and is split
where another actor can interfere: where a copy is issued, where a fence returns,
where the lock changes hands, where an atomic is read or written. Everything
between two such points is one action. A call that throws or returns early before
changing anything is not a step there. An exception of class FATAL sets the program
counter to `"fatal"` (inside the action that throws), so that its absence is a
property and not an assumption. In `Worker` an exception inside the main loop,
which ends the process, is `"crashed"`; in `Tasking`, `Compute` and `GlobalSlots`
an exception is the variable `exc`.

*Programs.* `GlobalSlots` and `Compute` are interpreters. The state of an instance
(or of the one thread of a compute program) is the position in its sequence of
calls, and there is one action per call, per backend where the backends differ.
The sequences are definitions of the program modules: `FixedSpscProducer` is
`producerFc` with its calls in the order of the source, `FixedSpscMpi` is the
`main` that assigns it to a rank. A frontend that only makes calls of the layer
below (object store, RPC engine) is a definition that expands to them. A call
that spins until a condition holds is enabled when it does. Loops over instances
and messages are unrolled.

*Collectives.* An exchange or fence of MPI or LPF is one joint step of all
instances that wait in it, and cannot be taken while one of them is elsewhere. The
pthreads fence is a barrier followed by two steps of each thread: looking up the
shared map under the mutex, and copying what was found after the mutex was
released.

*Communication.* `memcpy` starts a copy that lands at any moment before the fence
that waits for it returns; copies between the same two fences land in any order.
This is the weakest contract the backends offer, so the channel modules cover
pthreads (immediate), MPI and LPF. In `GlobalSlots` each backend has its own
`memcpy`. Channels are queues there: that their operations behave so is what the
channel modules show.

*Data.* Tokens are numbers (the k-th token pushed is k; with several producers a
token is a producer and a number), bytes are tagged with the token they belong
to. Counters are natural numbers: with 64-bit counters a wrap-around is out of
reach of any execution. In `MpscNonlocking` the recorded depths are machine
words modulo `Word`, because the code decrements them. A matrix in `Compute` is
the term that says how it was computed. A topology travels as the record that its
JSON text denotes.

*External parts.* hwloc and ACL show `Topology` an abstract machine. MPI, LPF,
nOS-V, ACL, OpenCL and POSIX signals are modelled from the way the code uses them;
their calls succeed.

*History.* `bound` in the variable-size modules records where each message
begins and ends in the stream of bytes; `accepted` in `Worker` in which state the
pending terminate was accepted; `asked` in `GlobalSlots` which slots somebody
asked to destroy. No guard reads them.

*Names.* Definitions have the names of the source. In `Worker` and `MpscNonlocking`,
whose proofs share a module with those of another component, the names that both would
define carry a prefix (`WorkerStart` is `Worker::start`, `mpscGetDepth` the consumer's
`getDepth`).

Definitions whose comment starts with "Mutant" are single plausible mistakes in
the definition that follows them. No specification uses them; each shows that
the property it is meant for can fail.

*Correct use.* `Compute` and `GlobalSlots` end with predicates on the text of a
program: `WellUsed`, `SameCollectives`, `ExchangesApart`, `DestructionsFenced`,
`EndsMatch`, `LifetimesOrdered`. They model no code. They say what the calls ask of
their callers, and are the hypotheses of the theorems about these modules. `MCCompute`
and `MCPrograms` assume them of the programs of the repository, and TLC evaluates the
assumptions. `GlobalSlots` takes the reading of a topology as the constants `Readable`
and `Shown`, which `MCPrograms` defines with the operators of `Topology`.

Each module of a component also defines `TypeOK`; the runs spend their properties on behaviour.
The proofs establish the types that their invariants rest on.

## 3. Runs

Passing runs:

| Run | Instance | What it shows |
|---|---|---|
| fixed_spsc_batches | capacity 3, batches of up to 3, 8 tokens | stale views are safe, no fatal exception, visible tokens are never overwritten |
| fixed_spsc_single | capacity 3, one token per push, 7 tokens, fair consumer | implements `BoundedFifo`; every token is delivered and a full channel drains |
| variable_spsc | 2 messages, 5 bytes, sizes 1, 2, 3, 5, pops of up to 2, 5 tokens, fair consumer | payload regions of live messages are disjoint and peek finds the oldest message (`PayloadsIntact`), implements `BoundedFifo`; a producer without room gets room |
| fixed_mpsc_locking | 2 producers, capacity 3, batches of 2, 3 tokens each, fair calls | implements `SharedFifo`, so no producer undoes a pop; a peeked token is stable; tokens are delivered, so the lock is always released |
| variable_mpsc_locking | 2 producers, 2 messages, 4 bytes, sizes 1, 2, 4, 2 tokens each, fair calls | rings stay in step, the lock-free peek is correct, implements `SharedFifo`; the lock is always released |
| mpsc_nonlocking | 3 producers, capacity 2, fair consumer | the helper FIFO misses nothing and counts nothing twice, from the constructor on; pop takes what was peeked; no producer is starved |
| worker | 1 unit, 2 tasks, callers that do not coordinate | no main loop outlives await; no task runs in a suspended worker; requests are taken up; a running worker can always be terminated and await then returns |
| tasking | 2 workers; fibonacci of 1 and 3, abcTasks of 2 rounds, 3 independent tasks | a task put back while its worker still leaves `Task::run` is never resumed twice or used after deletion; dependencies come first, fibonacci comes out right, and `run` returns |
| compute | 11 programs on the four compute backends | what a program prints is what its kernels compute; nothing is freed, destroyed, mapped or signalled too early; programs end unless they suspend a unit |
| programs | 31 launches of 2 or 3 instances on pthreads, MPI and LPF | collective calls match, no call throws, no instance uses what another has destroyed or freed, both ends of every channel are built from each other's slots, destructions are complete, what is printed was sent, and all programs end |

Runs that show a disagreement between the code and what it says of itself:

| Run | Disagreement |
|---|---|
| worker_terminate_race | an accepted terminate is overwritten by the main loop's store (`tasking/worker.hpp:415`) |
| compute_lost_resume | a resume that arrives before the suspended thread waits for it is lost (`backends/pthreads/processingUnit.hpp:197`); the test leaves 150 ms between the two calls |

Each violation run checks one property on the smallest instance that shows it.

`programs` composes the frontends with the communication managers: the RPC engine
and the object store run on the slots that `GlobalSlots` registers, and the
distributed topology example sends the topologies of `Topology` through them.
`Topology` also checks a pure algorithm: the assumption `SubsetIsContained`, which
TLC evaluates in this run, compares `isSubset` with a reference (an assignment of
distinct elements exists) for all pairs of small topologies. `isSubset` is sound
and reflexive. It is not complete: it takes the first element that fits, so two
memories of sizes 2 and 1 do not provide a request for 1 and 2 in that order.

### Disagreements without a run

These were met while modelling. The first four are each a change of one constant
away from a run above and were checked that way; the fifth replaces an invariant.

| Where | What happens | How to see it |
|---|---|---|
| `channel/fixedSize/spsc/producer.hpp:130` | `push` of n tokens ("Puts new token(s) unto the channel.", `:86`) writes all of them to the slot of the first | `FixedSpscSingle.cfg` with `MaxPush = 2`: `TokensInOrder` fails |
| `channel/variableSize/mpsc/locking/consumer.hpp:230` | `pop` of too many messages throws with the lock held | `VariableMpscLocking.cfg` with `ChecksDepth = FALSE`: `ReturnedPopHoldsNoLock` fails |
| the same, `:235` | `pop(n)` frees the bytes of one message only | `Pops = {1, 2}`: `CountersInStep` fails |
| `channel/fixedSize/mpsc/nonlocking/consumer.hpp:157` | `pop(n)` takes all tokens from the first recorded channel | `MpscNonlocking.cfg` with `Pops = {1, 2}`: `PopsInRecordedOrder` fails |
| `backends/pthreads/communicationManager.hpp:127` | a fence leaves the slots marked for destruction in the shared registry | `Programs.cfg` with `DestructionsFinish` in place of `DestructionsFinishCollectively` |

Others that were only read:

* `Worker::suspend` returns as soon as the request is stored, while a task may
  still be running, although its comment says "The resources are guaranteed to be
  suspended after this function is called" (`tasking/worker.hpp:245`). Only the lead
  unit is started, so the compute manager throws when the main loop suspends or
  resumes the other units of a worker with two or more (`:421`). The run of `Worker`
  therefore uses one unit.
* A detected Huawei device has no type (`backends/acl/device.hpp:54`), so
  `deserializeTopology`, which recognizes devices by type, drops it. `Topology`
  models this, and `PrintsWhatWasSent` states what is left. Deserialized hwloc
  devices hold resources of the base class, without processor ids and caches.
* The distributed topology example labels each result with the instance of its
  loop, while `getReturnValue` returns whichever came first
  (`examples/topology/distributed/source/include/coordinator.hpp:68`).
* A NUMA domain without processing units makes the examples that print a topology
  dereference the begin of an empty list (`coordinator.hpp:72`); such machines are
  left out.
* `catchSuspendSignal` waits with a signal set it does not initialize
  (`backends/pthreads/processingUnit.hpp:197`).
* `isSubset` increments an iterator it has erased (`core/topology.hpp:205`), which
  is undefined though harmless for the vectors in use.
* The OpenCL `Device` declares a second `_type`, and its `deserializeImpl` requires a
  number where a string was written.
* The OpenCL kernel example never frees two of its slots.

**Bounds.** Capacities of 2 or 3 with more tokens than capacity make every
counter pass the end of its ring at least once with the ring empty, partly full
and full; batches reach across the end. Sizes 1, 2 and 4 in a ring of 4 bytes
(1, 2, 3 and 5 in one of 5) give messages that end exactly at, before and past
the end of the ring, and one that fills it. `MaxTokens` bounds the tokens pushed
in a behaviour (by one producer, where there are several); the nonlocking channel
and the worker need no such bound, their state space is finite, so their liveness
results speak of unbounded behaviours. Two producers are enough for every pairwise
interleaving under a lock; the nonlocking consumer gets three, so that pushes
happen before, at and behind the channel being read. Two workers are enough for a
task to be handed over while the first is still leaving it; fibonacci(3) makes five
tasks, three of which wait for others. The programs are finite and need no bound;
they are launched with the smallest capacity they finish with, so that producers
find their channels full, with three instances where the program takes more than
two, and with arguments that `main` refuses. Runs that can reach the bound with
nothing left to do have an explicit final step, so deadlock is checked. The two
runs of `Compute` are the exception: a program whose resume was lost really stops
there, which `UnsuspendedProgramsEnd` and `ResumedUnitRuns` tell apart from the end.

**Fairness.** A call that was entered is continued (weak fairness of its steps):
its thread is scheduled and the communication library completes copies. The
consumer's application keeps calling `pop`; where pop needs the lock, or must
find a moment between other calls, this is strong fairness of the call that
succeeds, an assumption on the application. Nothing is assumed of producers. In
`Worker` the main loop and the owner's calls are weakly fair (tasks end or
yield); nobody has to suspend, resume or terminate the worker. In `Tasking` each
worker's thread is scheduled, in `Compute` the program's thread and the engine
behind its unit, in `GlobalSlots` some instance that can move and the collective
step. Producers are not reduced by symmetry, because every run with several of them
also checks liveness.

## 4. Proofs

Eight modules hold theorems. Each is about every value of the constants: any
capacity, any set of producers or workers, any mix of sizes, any program, any length
of the behaviour. Lemmas are mostly about values (counters, rings, records), so that the
lemma about an action only has to say which values it changes.

| Module | Theorems |
|---|---|
| `CircularBufferProofs` | lemmas for the channels: two counters less than a capacity apart have the same position only if they are equal; what a write, an advance of the head and one of the tail do to the tokens a ring shows |
| `FixedSpscProofs` | `TypeCorrect`, `ViewsAreSafe`, `NeverFatal`, `PeekedStable` (an action property); with one token per push, `SingleTokensInOrder`, and the channel implements `BoundedFifo` (`SingleTokensRefineFifo`). Of the nonlocking MPSC channel: `PopTakesPeeked` (an action property); for pops of one token, `SnapshotStaysInStep` |
| `VariableSpscProofs` | `ViewsAreSafe` for both rings; `PayloadsStayIntact`: live messages share no byte and peek finds the oldest; if no message is empty, the channel implements `BoundedFifo` (`TokensRefineFifo`) |
| `FixedMpscLockingProofs` | `CountersStayConsistent`, `PeekedStable` (an action property), and the channel implements `SharedFifo` (`ChannelRefinesSharedFifo`) |
| `VariableMpscLockingProofs` | for pops of one message, `CountersStayInStep`, `PeekIsRight`; if no message is empty, the channel implements `SharedFifo` (`TokensRefineSharedFifo`); if callers ask `getDepth` first, `PopGivesTheLockBack` |
| `ComputeProofs` | `WellUsedUnitsAreSafe`. Of the worker: `StoppedHasNoLoop`, `SuspendedRunsNoTask` |
| `GlobalSlotsProofs` | `SameCallsMatch`, `ExchangesApartNotRaced`, `FencedDestructionsFinish`, `MatchingEndsAgree`, `OrderedLifetimesAreLive` |
| `TaskingProofs` | `TaskHasOneWorker`, `DeletedTaskIsUnused`, `DependenciesFinishFirst`, `RunFinishesAllTasks` |

**Assumptions.** Each component states what it needs of its constants next to their
declaration: capacities of at least one, which the constructors enforce; counts that
are numbers; a consumer that is not one of the producers. A machine word
(`MpscNonlocking`) can count all the tokens that fit into the channels. A runtime
(`Tasking`) has a worker and runs one of the three example programs, of any size.
`GlobalSlots` and `Compute` assume nothing of their programs.

**Hypotheses.** They are part of the theorem, because the code does not enforce them:

* `MaxPush = 1` and `Pops \subseteq {1}` are where section 3 shows a disagreement:
  a push of several tokens, or a pop of several messages or tokens, breaks the
  property. Every other theorem about batches has no such hypothesis.
* `ChecksDepth`: without it pop throws with the lock held (section 3).
* `0 \notin Sizes`: the refinement mappings read a message off its first byte,
  and an empty message has none. Counters, regions and peek are proved with
  empty messages as well.
* The theorems about `GlobalSlots` and `Compute` speak of every program whose text uses
  the calls correctly. These predicates read only the text; they mention no state and
  no interleaving:

  | Predicate | What the text must say | TLC confirms it of |
  |---|---|---|
  | `WellUsed` | a unit is created, initialized, started, awaited and destroyed in that order, suspended and resumed only between; a slot is used while it is held, and not given up while a kernel that uses it is not awaited | all 11 compute programs |
  | `SameCollectives` | all roles make the same collective calls in the same order | all 31 launches |
  | `ExchangesApart` | with pthreads, no role publishes slots of a tag right after a fence of that tag | all 31 |
  | `DestructionsFenced` | with MPI and LPF, a role fences what it asks to destroy, and nobody publishes it again | all 31 |
  | `EndsMatch` | the two sides of a channel are opened on the same data slots, each with coordination slots that the other alone publishes | all 31 |
  | `LifetimesOrdered` | a use of a slot or buffer comes after its publication and allocation, and before its destruction and freeing, by program order or by a fence in between | all but the two object-store launches |

  That these are enough is what needs proof: a fence orders what two instances do only
  because collective calls match, and on pthreads an instance that left the barrier early
  is ahead of one still copying the map.

### The inductive invariants

*Fixed-size SPSC.* Between the check at the start of a call and the advance that
relies on it, the other side moves. The invariant says what each program counter
remembers: a push under way has room for its n tokens with respect to the
*consumer's own* tail, a pop under way has n tokens with respect to the *producer's
own* head, the copies still in flight are within the batch, and a head is published
only after all of them have landed.

*Variable-size SPSC.* The history `bound` ties the rings together: each byte counter
is the bound of the message counter it belongs to, or one message ahead of it while
the producer is between its two advances (`HeadsInStep`, `TailsInStep`), the ring of
counts holds the differences of neighbouring bounds (`SizesWritten`), and the loop in
pop has added up the sizes of the messages it has passed (`PopFits`). That regions are
disjoint then follows from the ring of bytes never being over capacity. For peek and
the refinement, `PayloadsWritten` says that the bytes between two bounds show
the message, the newest included as soon as its copy has landed.

*Locking MPSC.* Whoever is in a call holds the lock (`LockHeld`), so what a producer
has fetched is current until its own heads land (`FetchedCurrent`). This is the
argument against the lost update: the producer writes back a tail it read earlier, and
that tail is still the consumer's. In the variable-size channel `Ledger` says how far
the two rings may be apart, depending on where the holder of the lock is; the lock-free
peek is right because it depends on the tails, and on a head only through the count,
which lands after the payload. `BatchLanded` and `ChunksLanded` follow what a producer
has written, for the refinements.

*Nonlocking MPSC.* `PeekedIsOldest`: what peek returned is still the oldest entry,
since a later updateDepth only appends. `InStep` follows updateDepth through its two
loops: channels already read have a new depth that is not below the recorded one and
not above what is there; channels already recorded have as many entries as that.

*Worker.* What the owner's call has done so far says whether there can be a main loop
(`OwnerAgrees`), and the main loop has a lead unit that await joins (`LoopHasUnit`).
Only the main loop stores *suspended*, outside any task (`SuspendedAgrees`), although
anybody may overwrite it.

*Compute.* The text up to the program counter says what state the program is in: which
slots are held (`SlotsAgree`), and, by the last call on the unit, what state the unit is
in (`UnitAgrees`). The state of the unit bounds what the thread, task or stream behind it
can be doing (`EngineAgrees`): nothing when it is not started, and past its barrier, with
its handlers set, once start has returned. What is left on the stream comes from a start
that no call has awaited, so its slots are held (`WorkAgrees`), and an OpenCL queue has a
kernel only between the unmapping and the mapping of its buffers (`QueueAgrees`).

*Global slots.* Some forty actions of three backends are first grouped by what they
change (`Kinds`, lemma `NextKinds`); the invariants are then proved once per kind.
`InStep`: all instances have entered the same number of collective calls, where one that
is past the barrier of a pthreads fence counts that fence. Hence `Before` on the texts
is a real order in every behaviour, and the program counters can be compared across
instances. `FromCalls`: every end of a channel was opened, and every slot published or
promoted, by a call already made, and by that instance. `DoomedAgrees`: a slot that
somebody asked to destroy is gone, or on the list of an instance that has yet to fence
its tag, and nobody will publish it. `LifeInv` follows the lifetimes: a published slot
exists until a fence after its destruction (`SlotsKept`), a buffer until it is freed, or
with MPI until its window is (`MemKept`); lists of slots to destroy hold only what was
asked for (`ListsFromCalls`); with MPI every instance's maps of slots agree with the
windows (`MapsAgree`); an LPF copy is pending only up to the next fence of its
instance (`CopiesAgree`).

*Tasking.* `Sound` describes who may touch a task. A task is new, queued, held by one
worker, pending (constructed by a function that has not queued it yet) or recorded. What
a worker's program counter promises about its task (`Fits`) is what keeps
`Task::run` from throwing, also when the task was put back and popped by somebody
else before this worker has left it. A child knows its parent and a parent its children
(`HasParent`, `HasChildren`), so that a result is never written to a deleted task. For
the end of a run, `Tally` adds that `_taskCount` is the number of *open* tasks: neither
waiting to be counted, nor taken off the counter by `onTaskFinish`. A task in the middle
of its function is open itself, so the counter cannot reach zero while it still has
children to count; when a worker has seen zero, nothing is open and nothing will be.

### What is only model-checked

* All liveness properties: fairness and ENABLED are outside the prover.
* That updateDepth never finds the helper FIFO out of sync (the first conjunct of
  `HelperInStep`): it compares the sum of the depths with the length of the FIFO, and
  a sum over all channels needs induction over data. The other conjunct,
  `SnapshotInStep`, is proved.
* That the first fibonacci task computes the number (the last conjunct of
  `RunComputesResult`): the same, for a recursive function. The other two are proved
  (`DependenciesFinishFirst`, `RunFinishesAllTasks`).
* What the programs print (`PrintsWhatWasSent`, `PrintsTheResult`) and that none of their
  calls throws (`NoException`): this follows the values through a whole program, call by
  call, and holds of the given texts. Of `Compute`, that no call throws is part of
  `WellUsedUnitsAreSafe`.
* `AccessesLiveSlots` of the two object-store launches: their reader knows from a message,
  not from a fence, that an object is published, so `LifetimesOrdered` does not hold of
  them.
* `Topology` is a pure algorithm over sequences, which needs induction over data.

## 5. Not modelled

* The OpenCL topology manager: the same queries as for ACL, and no program of the
  repository sends such a topology.
* Instance managers other than that of pthreads: a fixed list of ranks; creating
  instances throws in every backend.
* The message counters of the communication managers, which channels only poll, and
  the error codes of MPI, LPF, ACL and OpenCL, whose calls are taken to succeed.
* Sizes of allocations, NUMA binding, cache sizes, topology metadata, the text of
  JSON and of exceptions: data no property here depends on.
* The neural network's arithmetic and its ground-truth programs: layers are
  uninterpreted functions.
* Tasks that suspend themselves on nOS-V: when such a task runs again is decided by
  the nOS-V scheduler, which is external.
* Crashes and restarts: nothing is persisted, and no code handles the loss of an
  instance.
* Constructors' size checks appear as assumptions on constants.
