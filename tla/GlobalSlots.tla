------------------------------ MODULE GlobalSlots ------------------------------
(***************************************************************************)
(* Global memory slots: how the instances of a program publish buffers,      *)
(* look them up, build channels on them, and deregister and destroy them.    *)
(* The module models the bookkeeping of core/communicationManager.hpp and    *)
(* its pthreads, MPI and LPF backends, with the memory managers' allocate    *)
(* and free, and runs on it the programs of ChannelPrograms.tla and          *)
(* ServicePrograms.tla: every instance executes the calls its role makes.    *)
(*                                                                          *)
(* A slot is <<manager, tag, key>>; the buffer behind it has its name.       *)
(* Manager 1 is the coordination manager and 2 the payload manager, which    *)
(* the MPI and LPF programs make one object.  Channels are queues of message *)
(* sizes: that their operations behave so is what the channel modules show.  *)
(* A statement that spins until its condition holds is enabled when it does. *)
(***************************************************************************)
EXTENDS Integers, Sequences, FiniteSets, Functions

CONSTANTS
  Launches,       \* the launches that are checked: programs with their arguments
  Readable(_),    \* whether the topology managers can read a JSON document
  Shown(_)        \* what is printed of the topology they read from it

VARIABLES
  launch,      \* the program that runs, with its arguments
  pc,          \* the next statement of each instance
  phase,       \* of each instance: "run", or where it is after a barrier
  mem,         \* the allocated buffers: pairs <<instance, slot>>
  slots,       \* the existing global slots, with the instance and buffer behind each:
               \* entries of the shared Core, MPI windows, LPF registrations
  reg,         \* _globalMemorySlotTagKeyMap of each instance
  tags,        \* the <<manager, tag>> that map has an entry for
  gone,        \* the MPI backend's map of deregistered slots
  doomed,      \* _globalMemorySlotsToDestroyPerTag: pairs <<manager, slot>>
  asked,       \* history: the slots some instance asked to destroy
  queue,       \* the messages in each channel
  ends,        \* the channel ends constructed so far
  copies,      \* memcpy operations that have not taken effect
  data,        \* contents of the buffers that are the subject of a memcpy
  threads,     \* the shared Core's instances, in the order they were added
  detected,    \* how many instances each instance manager has listed
  exc          \* "none", or the exception that ended the program

vars == <<launch, pc, phase, mem, slots, reg, tags, gone, doomed, asked, queue, ends,
          copies, data, threads, detected, exc>>

registry == <<mem, slots, reg, tags, gone, doomed, asked>>
traffic == <<queue, ends, copies, data, threads, detected>>

\* (A definition, so that TLC evaluates the launches once.)
Catalogue == Launches
Program == launch
Instances == DOMAIN Program.roles
Backend == Program.backend

Init ==
  /\ launch \in Catalogue
  /\ pc = [p \in Instances |-> 1]
  /\ phase = [p \in Instances |-> "run"]
  /\ mem = {} /\ slots = <<>> /\ asked = {}
  /\ reg = [p \in Instances |-> {}]
  /\ tags = [p \in Instances |-> {}]
  /\ gone = [p \in Instances |-> {}]
  /\ doomed = [p \in Instances |-> {}]
  /\ queue = [c \in DOMAIN Program.channels |-> <<>>]
  /\ ends = {} /\ copies = {} /\ data = <<>>
  /\ threads = <<>> /\ detected = [p \in Instances |-> 0]
  /\ exc = "none"

-----------------------------------------------------------------------------
(* Statements                                                               *)

\* A map after entries were inserted or replaced.
With(f, new) == [x \in DOMAIN f \cup DOMAIN new |-> IF x \in DOMAIN new THEN new[x] ELSE f[x]]

Finished(p) == pc[p] > Len(Program.roles[p])
Statement(p) == Program.roles[p][pc[p]]

\* Instance p is about to execute a statement op.
At(p, op) ==
  /\ exc = "none" /\ phase[p] = "run"
  /\ ~Finished(p) /\ Statement(p).op = op

Advance(p) == pc' = [pc EXCEPT ![p] = @ + 1] /\ UNCHANGED <<launch, phase, exc>>

\* An exception nobody catches ends the program.
Throw(kind) ==
  /\ exc' = kind
  /\ UNCHANGED <<launch, pc, phase, registry, traffic>>

\* The manager object behind a coordination or payload manager.  Promoted slots
\* are in no manager's map and have manager 0.
ManagerIn(l, m) == IF m = 0 \/ l.separate THEN m ELSE 1
RealIn(l, s) == <<ManagerIn(l, s[1]), s[2], s[3]>>
RealAllIn(l, S) == {RealIn(l, s) : s \in S}
Manager(m) == ManagerIn(Program, m)
Real(s) == RealIn(Program, s)
RealAll(S) == RealAllIn(Program, S)

\* The slots of a tag, as the instance p publishes or fences it.
TagOf(p) == <<Manager(Statement(p).m), Statement(p).tag>>
SlotsOfTag(t) == {s \in DOMAIN slots : <<s[1], s[2]>> = t}
Published(p) == {<<TagOf(p)[1], TagOf(p)[2], k>> : k \in Statement(p).keys}

-----------------------------------------------------------------------------
(* Memory managers                                                          *)

Allocated(p) ==
  /\ At(p, "allocate")
  /\ mem' = mem \cup ({p} \X RealAll(Statement(p).slots))
  /\ Advance(p)
  /\ UNCHANGED <<slots, reg, tags, gone, doomed, asked, traffic>>

\* hwloc binds the memory, MPI takes it from its own allocator, LPF registers it.
AllocateHwloc(p) == Backend = "pthreads" /\ Allocated(p)
AllocateMpi(p) == Backend = "mpi" /\ Allocated(p)
AllocateLpf(p) == Backend = "lpf" /\ Allocated(p)

Freed(p) ==
  /\ At(p, "free")
  /\ mem' = mem \ ({p} \X RealAll(Statement(p).slots))
  /\ Advance(p)
  /\ UNCHANGED <<slots, reg, tags, gone, doomed, asked, traffic>>

FreeHwloc(p) == Backend = "pthreads" /\ Freed(p)
FreeLpf(p) == Backend = "lpf" /\ Freed(p)

\* The MPI backend's free does nothing: the exchange moved the data into the
\* window's memory, which goes with the window.
FreeMpi(p) ==
  /\ Backend = "mpi" /\ At(p, "free")
  /\ Advance(p)
  /\ UNCHANGED <<registry, traffic>>

-----------------------------------------------------------------------------
(* exchangeGlobalMemorySlots, fence                                          *)

\* The Core's map is replaced where the slot is in it.
InsertSlots(p, S) == slots' = With(slots, [s \in S |-> <<p, s>>])

\* pthreads: the instance inserts its slots into the shared Core and goes on.
ExchangeInsert(p) ==
  /\ Backend = "pthreads" /\ At(p, "exchange")
  /\ InsertSlots(p, Published(p))
  /\ Advance(p)
  /\ UNCHANGED <<mem, reg, tags, gone, doomed, asked, traffic>>

\* Mutant: the gathered slots are all taken for one instance's.
PublisherAny(s) == CHOOSE p \in Instances : TRUE

\* The instance whose part of the gathered slots has the slot.
Publisher(s) == CHOOSE p \in Instances : s \in Published(p)

\* MPI and LPF: collective; every instance gathers what all instances publish and
\* registers every slot.
ExchangeAll ==
  LET new == UNION {Published(p) : p \in Instances} IN
  /\ Instances # {} /\ \A p \in Instances : At(p, "exchange")
  /\ slots' = With(slots, [s \in new |-> <<Publisher(s), s>>])
  /\ reg' = [p \in Instances |-> reg[p] \cup new]
  /\ tags' = [p \in Instances |-> tags[p] \cup {<<s[1], s[2]>> : s \in new}]
  /\ pc' = [p \in Instances |-> pc[p] + 1]
  /\ UNCHANGED <<launch, phase, mem, gone, doomed, asked, traffic, exc>>

ExchangeMpi == Backend = "mpi" /\ ExchangeAll
ExchangeLpf == Backend = "lpf" /\ ExchangeAll

\* Mutant: the fence waits for nobody.
FenceBarrierFirst ==
  /\ Backend = "pthreads"
  /\ \E p \in Instances : At(p, "fence") /\ phase' = [phase EXCEPT ![p] = "leaving"]
  /\ UNCHANGED <<launch, pc, registry, traffic, exc>>

\* pthreads: the barrier of one Core; its fence knows no tag.
FenceBarrier ==
  /\ Backend = "pthreads" /\ Instances # {}
  /\ \A p \in Instances : At(p, "fence")
  /\ \A p, q \in Instances : TagOf(p)[1] = TagOf(q)[1]
  /\ phase' = [p \in Instances |-> "leaving"]
  /\ UNCHANGED <<launch, pc, registry, traffic, exc>>

\* fenceImpl registers the slots found, and fence empties the tag's list of slots
\* to destroy, of which it destroys none.
LeaveFence(p, found) ==
  LET t == TagOf(p) IN
  /\ reg' = [reg EXCEPT ![p] = @ \cup found]
  /\ tags' = [tags EXCEPT ![p] = IF found = {} THEN @ ELSE @ \cup {t}]
  /\ doomed' = [doomed EXCEPT ![p] = {d \in @ : <<d[1], d[2][2]>> # t}]
  /\ phase' = [phase EXCEPT ![p] = "run"]
  /\ pc' = [pc EXCEPT ![p] = @ + 1]
  /\ UNCHANGED <<launch, mem, slots, gone, asked, traffic, exc>>

\* Core::getKeyMemorySlots looks for the tag under the mutex ...
FenceLookUp(p) ==
  /\ exc = "none" /\ phase[p] = "leaving"
  /\ IF SlotsOfTag(TagOf(p)) = {}
       THEN LeaveFence(p, {})
       ELSE phase' = [phase EXCEPT ![p] = "copying"] /\ UNCHANGED <<launch, pc, registry, traffic, exc>>

\* ... and copies the tag's slots after unlocking it.
FenceRegister(p) ==
  /\ exc = "none" /\ phase[p] = "copying"
  /\ LeaveFence(p, SlotsOfTag(TagOf(p)))

\* Mutant: only the first instance's list is gathered.
ToDestroyFirst == {d[2] : d \in {d \in doomed[1] : <<d[1], d[2][2]>> = TagOf(1)}}

\* What the instances together want destroyed at this fence.
ToDestroy ==
  {d[2] : d \in UNION {{d \in doomed[p] : <<d[1], d[2][2]>> = TagOf(p)} : p \in Instances}}

\* Mutant: the barrier does not wait for the pending copies.
FenceAllEarly == Instances # {} /\ \A p \in Instances : At(p, "fence")

\* MPI and LPF: a barrier that completes the pending copies, after which the
\* instances destroy together the slots any of them put on the tag's list.
FenceAll ==
  /\ Instances # {} /\ \A p \in Instances : At(p, "fence")
  /\ copies = {}

\* Windows are freed with their memory; LPF deregisters its slots.
WindowMemory(S) == {slots[s] : s \in S}
SlotsWithout(S) == [s \in DOMAIN slots \ S |-> slots[s]]

LeaveFenceAll ==
  /\ doomed' = [p \in Instances |-> {d \in doomed[p] : <<d[1], d[2][2]>> # TagOf(p)}]
  /\ slots' = SlotsWithout(ToDestroy)
  /\ pc' = [p \in Instances |-> pc[p] + 1]
  /\ UNCHANGED <<launch, phase, asked, traffic, exc>>

\* MPI looks each slot up in both of its maps and takes it out, which leaves the
\* tag with an entry; a window goes with its memory.
FenceMpi ==
  LET dead == ToDestroy IN
  /\ Backend = "mpi" /\ FenceAll
  /\ IF \E p \in Instances : ~(dead \subseteq reg[p] \cup gone[p])
       THEN Throw("FATAL")
       ELSE /\ reg' = [p \in Instances |-> reg[p] \ dead]
            /\ gone' = [p \in Instances |-> gone[p] \ (dead \ reg[p])]
            /\ tags' = [p \in Instances |-> IF dead = {} THEN tags[p] ELSE tags[p] \cup {TagOf(p)}]
            /\ mem' = mem \ WindowMemory(dead)
            /\ LeaveFenceAll

\* LPF exchanges its own identifiers of the slots, and looks none of them up.
FenceLpf ==
  /\ Backend = "lpf" /\ FenceAll
  /\ LeaveFenceAll
  /\ UNCHANGED <<mem, reg, gone, tags>>

-----------------------------------------------------------------------------
(* Lookup, deregistration, destruction                                      *)

\* The pthreads backend asks the shared Core first ...
InCore == IF Backend = "pthreads" THEN DOMAIN slots ELSE {}

\* ... and every manager then its own map.
GetGlobalMemorySlot(p) ==
  /\ At(p, "get")
  /\ IF RealAll(Statement(p).slots) \subseteq InCore \cup reg[p] THEN Advance(p) /\ UNCHANGED <<registry, traffic>> ELSE Throw("LOGIC")

\* Mutant: a deregistered slot is forgotten at once.
RememberedNot(S) == {}

\* MPI keeps a deregistered slot, whose windows are still to be freed by all.
Remembered(S) == IF Backend = "mpi" THEN S ELSE {}

\* A key that is not there is ignored, a tag that is not there is not.
DeregisterGlobalMemorySlot(p) ==
  LET S == RealAll(Statement(p).slots)
      here == {<<Manager(Statement(p).m), s[2], s[3]>> : s \in S} IN
  /\ At(p, "deregister")
  /\ IF \E s \in here : <<s[1], s[2]>> \notin tags[p]
       THEN Throw("LOGIC")
       ELSE /\ reg' = [reg EXCEPT ![p] = @ \ here]
            /\ gone' = [gone EXCEPT ![p] = @ \cup Remembered(S)]
            /\ Advance(p)
            /\ UNCHANGED <<mem, slots, tags, doomed, asked, traffic>>

DestroyGlobalMemorySlot(p) ==
  LET S == RealAll(Statement(p).slots) IN
  /\ At(p, "destroy")
  /\ doomed' = [doomed EXCEPT ![p] = @ \cup ({Manager(Statement(p).m)} \X S)]
  /\ asked' = asked \cup S
  /\ Advance(p)
  /\ UNCHANGED <<mem, slots, reg, tags, gone, traffic>>

-----------------------------------------------------------------------------
(* Channels                                                                 *)

\* A channel end with its data slots (tokens, sizes, payloads), the buffers of
\* its own it keeps counters in, the coordination slots of the other side, and
\* the slot whose lock it takes, if any.
OpenChannel(p) ==
  LET s == Statement(p) IN
  /\ At(p, "open")
  /\ IF Program.channels[s.channel].tokens = 0
       THEN Throw("LOGIC")
       ELSE /\ ends' = ends \cup {[channel |-> s.channel, side |-> s.side, by |-> p, data |-> RealAll(s.data),
                                   own |-> RealAll(s.own), peer |-> RealAll(s.peer), lock |-> RealAll(s.lock)]}
            /\ Advance(p)
            /\ UNCHANGED <<registry, queue, copies, data, threads, detected>>

EndsOf(p, c) == {e \in ends : e.by = p /\ e.channel = c}

Bytes(q) == SumFunction([i \in DOMAIN q |-> q[i].bytes])

\* Mutant: the last token is left unused.
FitsStrict(c, n) ==
  /\ Len(queue[c]) + 1 < Program.channels[c].tokens
  /\ Bytes(queue[c]) + n <= Program.channels[c].bytes

Fits(c, n) ==
  /\ Len(queue[c]) < Program.channels[c].tokens
  /\ Bytes(queue[c]) + n <= Program.channels[c].bytes

\* acquireGlobalLock throws for a slot that is not registered.
LockUnknown(p, c) == \E e \in EndsOf(p, c) : ~(e.lock \subseteq reg[p])

\* wait = "room": spin until there is room.  "none": push at once; SPSC push
\* throws when full.  "ignore": the caller ignores that push returned false.
Push(p) ==
  LET s == Statement(p) IN
  /\ At(p, "push")
  /\ IF LockUnknown(p, s.channel) THEN Throw("LOGIC")
     ELSE /\ s.wait = "room" => Fits(s.channel, s.bytes)
          /\ IF s.wait = "none" /\ ~Fits(s.channel, s.bytes)
               THEN Throw("RUNTIME")
               ELSE /\ queue' = IF Fits(s.channel, s.bytes)
                                  THEN [queue EXCEPT ![s.channel] = Append(@, [bytes |-> s.bytes, by |-> p, what |-> s.what, value |-> s.value])] ELSE queue
                    /\ Advance(p)
                    /\ UNCHANGED <<registry, ends, copies, data, threads, detected>>

\* Wait until one of the channels has s.count messages and pop them.  An RPC that
\* no target was added for throws.
Pop(p) ==
  LET s == Statement(p) IN
  /\ At(p, "pop")
  /\ \E c \in s.channels :
       IF LockUnknown(p, c) THEN Throw("LOGIC")
       ELSE /\ Len(queue[c]) >= s.count
            /\ IF \E i \in 1 .. s.count : queue[c][i].what \notin s.targets
                 THEN Throw("RUNTIME")
                 ELSE /\ queue' = [queue EXCEPT ![c] = SubSeq(@, s.count + 1, Len(@))]
                      /\ Advance(p)
                      /\ UNCHANGED <<registry, ends, copies, data, threads, detected>>

\* Wait for a message and copy it.
Peek(p) ==
  LET s == Statement(p) IN
  /\ At(p, "peek")
  /\ queue[s.channel] # <<>>
  /\ data' = With(data, [b \in {<<p, Real(s.slot)>>} |-> Head(queue[s.channel]).value])
  /\ Advance(p)
  /\ UNCHANGED <<registry, queue, ends, copies, threads, detected>>

\* Spin until the depth of the channel is the given one.
AwaitDepth(p) ==
  /\ At(p, "await")
  /\ Len(queue[Statement(p).channel]) = Statement(p).depth
  /\ Advance(p)
  /\ UNCHANGED <<registry, traffic>>

-----------------------------------------------------------------------------
(* memcpy between a buffer and a global slot, promoted slots                 *)

Content(b) == IF b \in DOMAIN data THEN data[b] ELSE "undefined"

Write(p) ==
  /\ At(p, "write")
  /\ data' = With(data, [b \in {<<p, Real(Statement(p).slot)>>} |-> Statement(p).value])
  /\ Advance(p)
  /\ UNCHANGED <<registry, queue, ends, copies, threads, detected>>

\* The copy the statement asks for: to or from the buffer behind the global slot.
CopyOfStatement(p) ==
  LET s == Statement(p)
      far == slots[Real(s.global)]
      near == <<p, Real(s.local)>> IN
  [by |-> p, from |-> IF s.put THEN near ELSE far, to |-> IF s.put THEN far ELSE near]

\* MPI flushes the window, and pthreads copies in place: done on return.
MemcpyNow(p) ==
  LET c == CopyOfStatement(p) IN
  /\ data' = With(data, [b \in {c.to} |-> Content(c.from)])
  /\ Advance(p)
  /\ UNCHANGED <<registry, queue, ends, copies, threads, detected>>

MemcpyPthreads(p) == Backend = "pthreads" /\ At(p, "memcpy") /\ MemcpyNow(p)
GetMpi(p) == Backend = "mpi" /\ At(p, "memcpy") /\ ~Statement(p).put /\ MemcpyNow(p)
PutMpi(p) == Backend = "mpi" /\ At(p, "memcpy") /\ Statement(p).put /\ MemcpyNow(p)

\* LPF only queues the copy.
QueueCopy(p) ==
  /\ copies' = copies \cup {CopyOfStatement(p)}
  /\ Advance(p)
  /\ UNCHANGED <<registry, queue, ends, data, threads, detected>>

GetLpf(p) == Backend = "lpf" /\ At(p, "memcpy") /\ ~Statement(p).put /\ QueueCopy(p)
PutLpf(p) == Backend = "lpf" /\ At(p, "memcpy") /\ Statement(p).put /\ QueueCopy(p)

CopyLands ==
  /\ exc = "none"
  /\ \E c \in copies :
       /\ data' = With(data, [b \in {c.to} |-> Content(c.from)])
       /\ copies' = copies \ {c}
  /\ UNCHANGED <<launch, pc, phase, registry, queue, ends, threads, detected, exc>>

\* The copies into the buffer are counted off.
Delivered(b) == \A c \in copies : c.to # b

\* fence(slot, sent, received): waits for the copies into the instance's buffer.
FenceSlot(p) ==
  /\ At(p, "fenceSlot")
  /\ Delivered(<<p, Real(Statement(p).slot)>>)
  /\ Advance(p)
  /\ UNCHANGED <<registry, traffic>>

\* The program prints the buffer: nothing changes.
PrintBuffer(p) ==
  /\ At(p, "print")
  /\ Advance(p)
  /\ UNCHANGED <<registry, traffic>>

\* The program prints the topology in the buffer, as the managers read it.
PrintTopology(p) ==
  /\ At(p, "showTopology")
  /\ IF Readable(Content(<<p, Real(Statement(p).slot)>>)) THEN Advance(p) /\ UNCHANGED <<registry, traffic>> ELSE Throw("LOGIC")

PromoteSlot(p) ==
  LET s == Statement(p) IN
  /\ At(p, "promote")
  /\ slots' = With(slots, [t \in {Real(s.slot)} |-> <<p, Real(s.buffer)>>])
  /\ Advance(p)
  /\ UNCHANGED <<mem, reg, tags, gone, doomed, asked, traffic>>

\* The slot is a reference to the buffer, or a registration with LPF.
PromotePthreads(p) == Backend = "pthreads" /\ PromoteSlot(p)
PromoteLpf(p) == Backend = "lpf" /\ PromoteSlot(p)

\* pthreads has no registration to undo.
DestroyPromotedPthreads(p) ==
  /\ Backend = "pthreads" /\ At(p, "destroyPromoted")
  /\ Advance(p)
  /\ UNCHANGED <<registry, traffic>>

\* Only the owner's registration carries the slot.
DestroyPromotedLpf(p) ==
  LET s == Real(Statement(p).slot) IN
  /\ Backend = "lpf" /\ At(p, "destroyPromoted")
  /\ slots' = IF s \in DOMAIN slots /\ slots[s][1] = p THEN SlotsWithout({s}) ELSE slots
  /\ Advance(p)
  /\ UNCHANGED <<mem, reg, tags, gone, doomed, asked, traffic>>

-----------------------------------------------------------------------------
(* The pthreads instance manager                                             *)

AddInstance(p) ==
  /\ At(p, "addInstance")
  /\ threads' = Append(threads, p)
  /\ Advance(p)
  /\ UNCHANGED <<registry, queue, ends, copies, data, detected>>

GetInstances(p) ==
  /\ At(p, "getInstances")
  /\ detected' = [detected EXCEPT ![p] = Len(threads)]
  /\ Advance(p)
  /\ UNCHANGED <<registry, queue, ends, copies, data, threads>>

-----------------------------------------------------------------------------
Collective == ExchangeMpi \/ ExchangeLpf \/ FenceBarrier \/ FenceMpi \/ FenceLpf \/ CopyLands

Step(p) ==
  \/ AllocateHwloc(p) \/ AllocateMpi(p) \/ AllocateLpf(p) \/ FreeHwloc(p) \/ FreeLpf(p) \/ FreeMpi(p)
  \/ ExchangeInsert(p) \/ FenceLookUp(p) \/ FenceRegister(p)
  \/ GetGlobalMemorySlot(p) \/ DeregisterGlobalMemorySlot(p) \/ DestroyGlobalMemorySlot(p)
  \/ OpenChannel(p) \/ Push(p) \/ Pop(p) \/ Peek(p) \/ AwaitDepth(p)
  \/ Write(p) \/ MemcpyPthreads(p) \/ GetMpi(p) \/ PutMpi(p) \/ GetLpf(p) \/ PutLpf(p)
  \/ FenceSlot(p) \/ PrintBuffer(p) \/ PrintTopology(p)
  \/ PromotePthreads(p) \/ PromoteLpf(p) \/ DestroyPromotedPthreads(p) \/ DestroyPromotedLpf(p)
  \/ AddInstance(p) \/ GetInstances(p)

Ended == exc # "none" \/ \A p \in Instances : Finished(p)

\* The program has ended.
Exited == Ended /\ UNCHANGED vars

Next == Collective \/ (\E p \in Instances : Step(p)) \/ Exited

Spec == Init /\ [][Next]_vars

\* Every instance is run, and a message or copy on its way arrives.
FairSpec == Spec /\ WF_vars(Collective) /\ WF_vars(\E p \in Instances : Step(p))

-----------------------------------------------------------------------------
(* Correct use: what the texts of a launch must say for its instances to     *)
(* stay in step and to leave alone what others use.  The collective calls     *)
(* divide a role into rounds.                                                *)

AreRoles(l) == \A p \in DOMAIN l.roles : l.roles[p] \in Seq(Range(l.roles[p]))

CallsOf(l, p, op) == {i \in DOMAIN l.roles[p] : l.roles[p][i].op = op}
Collectives(l, p) ==
  CallsOf(l, p, "fence") \cup (IF l.backend = "pthreads" THEN {} ELSE CallsOf(l, p, "exchange"))
Round(l, p, i) == Cardinality({j \in Collectives(l, p) : j < i})

TagIn(l, p, i) == <<ManagerIn(l, l.roles[p][i].m), l.roles[p][i].tag>>
NamedIn(l, p, i) == RealAllIn(l, l.roles[p][i].slots)
PublishedIn(l, p, i) == {<<TagIn(l, p, i)[1], TagIn(l, p, i)[2], k>> : k \in l.roles[p][i].keys}

\* Call i of p is over when q makes its call j.
Before(l, p, i, q, j) == Round(l, p, i) < Round(l, q, j) \/ (p = q /\ i < j)

\* All roles make the same collective calls, in the same order.
SameCollectives(l) ==
  /\ AreRoles(l)
  /\ \A p, q \in DOMAIN l.roles : \A i \in Collectives(l, p), j \in Collectives(l, q) :
       Round(l, p, i) = Round(l, q, j) =>
         l.roles[p][i].op = l.roles[q][j].op /\ TagIn(l, p, i) = TagIn(l, q, j)

\* No role publishes slots of a tag right after a fence of that tag.
ExchangesApart(l) ==
  /\ AreRoles(l)
  /\ l.backend = "pthreads" =>
       \A p, q \in DOMAIN l.roles : \A i \in CallsOf(l, p, "fence"), j \in CallsOf(l, q, "exchange") :
         l.roles[q][j].keys # {} /\ Round(l, q, j) = Round(l, p, i) + 1 => TagIn(l, q, j) # TagIn(l, p, i)

\* A role fences what it asked to destroy, which nobody publishes any more.
DestructionsFenced(l) ==
  /\ AreRoles(l)
  /\ l.backend # "pthreads" =>
       \A p \in DOMAIN l.roles : \A i \in CallsOf(l, p, "destroy") : \A s \in NamedIn(l, p, i) :
         /\ \E k \in CallsOf(l, p, "fence") : i < k /\ TagIn(l, p, k) = <<ManagerIn(l, l.roles[p][i].m), s[2]>>
         /\ \A q \in DOMAIN l.roles :
              /\ \A j \in CallsOf(l, q, "exchange") : s \in PublishedIn(l, q, j) => Round(l, q, j) < Round(l, p, i)
              /\ \A j \in CallsOf(l, q, "promote") : s # RealIn(l, l.roles[q][j].slot)

\* The two sides of a channel are opened on the same data slots, and each with
\* the slots behind which the other, which alone publishes them, keeps its counters.
EndsMatch(l) ==
  /\ AreRoles(l)
  /\ \A p, q \in DOMAIN l.roles : \A i \in CallsOf(l, p, "open"), j \in CallsOf(l, q, "open") :
       LET e == l.roles[p][i]
           f == l.roles[q][j] IN
       e.channel = f.channel /\ e.side # f.side =>
         /\ RealAllIn(l, e.data) = RealAllIn(l, f.data)
         /\ \A s \in RealAllIn(l, e.peer) :
              /\ s \in RealAllIn(l, f.own)
              /\ \A r \in DOMAIN l.roles :
                   /\ \A k \in CallsOf(l, r, "exchange") : s \in PublishedIn(l, r, k) => r = q
                   /\ \A k \in CallsOf(l, r, "promote") : s # RealIn(l, l.roles[r][k].slot)

\* When p makes its call i, no destruction of the slot has been fenced ...
Undestroyed(l, s, p, i) ==
  \A q \in DOMAIN l.roles : \A d \in CallsOf(l, q, "destroy") :
    s \in NamedIn(l, q, d) => Round(l, p, i) <= Round(l, q, d)

\* ... q has allocated the buffer and not freed it (MPI's free does nothing) ...
Holds(l, q, b, p, i) ==
  /\ \E a \in CallsOf(l, q, "allocate") : b \in NamedIn(l, q, a) /\ Before(l, q, a, p, i)
  /\ \A f \in CallsOf(l, q, "free") : b \in NamedIn(l, q, f) => l.backend = "mpi" \/ Before(l, p, i, q, f)
  /\ Undestroyed(l, b, p, i)

\* ... and the slot was published on the buffer of that name.
Reaches(l, p, i, s) ==
  \E q \in DOMAIN l.roles :
    /\ \E j \in CallsOf(l, q, "exchange") : s \in PublishedIn(l, q, j) /\ Before(l, q, j, p, i)
    /\ Holds(l, q, s, p, i)

UsedIn(l, p, i) ==
  LET s == l.roles[p][i] IN
  IF s.op \in {"push", "peek", "await"} THEN {s.channel} ELSE IF s.op = "pop" THEN s.channels ELSE {}

\* Every slot has one publisher, and is not an object's ...
OnePublisher(l) ==
  \A q \in DOMAIN l.roles : \A j \in CallsOf(l, q, "exchange") : \A s \in PublishedIn(l, q, j) :
    \A r \in DOMAIN l.roles :
      /\ \A k \in CallsOf(l, r, "exchange") : s \in PublishedIn(l, r, k) => r = q
      /\ \A k \in CallsOf(l, r, "promote") \cup CallsOf(l, r, "destroyPromoted") :
           s # RealIn(l, l.roles[r][k].slot)

\* ... MPI programs deregister only slots that exist, with the manager they are in ...
DeregistersExisting(l) ==
  l.backend = "mpi" =>
    \A p \in DOMAIN l.roles : \A i \in CallsOf(l, p, "deregister") : \A s \in NamedIn(l, p, i) :
      /\ s[1] = ManagerIn(l, l.roles[p][i].m) /\ Undestroyed(l, s, p, i)
      /\ \E q \in DOMAIN l.roles : \E j \in CallsOf(l, q, "exchange") : s \in PublishedIn(l, q, j)
      /\ \A q \in DOMAIN l.roles : \A j \in CallsOf(l, q, "exchange") :
           s \in PublishedIn(l, q, j) => Round(l, q, j) < Round(l, p, i)

\* ... a copy LPF has queued is fenced before either buffer is freed ...
CopyFenced(l, p, i) ==
  \A q \in DOMAIN l.roles : \A f \in CallsOf(l, q, "free") :
    {RealIn(l, l.roles[p][i].local), RealIn(l, l.roles[p][i].global)} \cap NamedIn(l, q, f) # {} =>
      \E k \in CallsOf(l, p, "fence") : i < k /\ Before(l, p, k, q, f)

\* ... and program order and fences keep every use of a slot or buffer within its
\* lifetime.
LifetimesOrdered(l) ==
  /\ AreRoles(l) /\ OnePublisher(l) /\ DeregistersExisting(l)
  /\ \A p \in DOMAIN l.roles : \A o \in CallsOf(l, p, "open"), i \in DOMAIN l.roles[p] :
       LET e == l.roles[p][o] IN
       o < i /\ e.channel \in UsedIn(l, p, i) =>
         /\ \A s \in RealAllIn(l, e.data \cup e.peer \cup e.lock) : Reaches(l, p, i, s)
         /\ \A b \in RealAllIn(l, e.own) : Holds(l, p, b, p, i)
  /\ \A p \in DOMAIN l.roles : \A i \in CallsOf(l, p, "memcpy") :
       /\ Reaches(l, p, i, RealIn(l, l.roles[p][i].global))
       /\ l.backend = "lpf" => Holds(l, p, RealIn(l, l.roles[p][i].local), p, i) /\ CopyFenced(l, p, i)

-----------------------------------------------------------------------------
(* Properties                                                               *)

\* The type invariant.
TypeOK ==
  /\ pc \in [Instances -> Nat]
  /\ phase \in [Instances -> {"run", "leaving", "copying"}]
  /\ \A s \in DOMAIN slots : slots[s][1] \in Instances
  /\ \A p \in Instances : reg[p] \cap gone[p] = {} \/ Backend = "pthreads"
  /\ exc \in {"none", "LOGIC", "RUNTIME", "FATAL"}

\* No call of the examples throws: no lookup misses its slot, no deregistration
\* its tag, no lock its registration, no push its room, and the collective
\* destruction finds every slot in one of its two maps.  (LPF's programs do not
\* stop at a zero capacity, and the channel's constructor throws.)
NoException == exc = "none" \/ Program.capacity = 0

AtCollective(p) == At(p, "fence") \/ (Backend # "pthreads" /\ At(p, "exchange"))

\* Instances that wait for each other wait in the same call: no instance is in a
\* fence or an exchange of one tag while another is in that of a different one.
CollectivesMatch ==
  \A p, q \in Instances :
    AtCollective(p) /\ AtCollective(q) => Statement(p).op = Statement(q).op /\ TagOf(p) = TagOf(q)

\* The slots and own buffers behind a channel end.
Reachable(s) == s \in DOMAIN slots /\ slots[s] \in mem

Usable(e) ==
  /\ \A s \in e.data \cup e.peer \cup e.lock : Reachable(s)
  /\ \A b \in e.own : <<e.by, b>> \in mem

ChannelsUsed(p) ==
  IF At(p, "push") \/ At(p, "peek") \/ At(p, "await") THEN {Statement(p).channel} ELSE IF At(p, "pop") THEN Statement(p).channels ELSE {}

\* A channel is used, and a memcpy under way, only while every slot behind it
\* exists and every buffer behind those slots is allocated, on either side: no
\* instance destroys or frees what another one still reads or writes.
AccessesLiveSlots ==
  /\ \A p \in Instances : \A c \in ChannelsUsed(p) : \A e \in EndsOf(p, c) : Usable(e)
  /\ \A p \in Instances : At(p, "memcpy") => Reachable(Real(Statement(p).global))
  /\ \A c \in copies : c.from \in mem /\ c.to \in mem

\* The two ends of a channel were built from the same data slots, and each side
\* writes the other's counters: the coordination slots it was given are those
\* behind which the other side keeps its own.
EndsAgree ==
  \A e, f \in ends :
    e.channel = f.channel /\ e.side # f.side /\ e.peer \subseteq DOMAIN slots =>
      /\ e.data = f.data
      /\ \A s \in e.peer : slots[s][1] = f.by => slots[s][2] \in f.own
      /\ \A s \in e.peer : slots[s][1] \in {g.by : g \in {g \in ends : g.channel = e.channel /\ g.side # e.side}}

\* Core::getKeyMemorySlots unlocks before it copies the slots of its tag, so
\* nobody may insert a slot of that tag meanwhile: the fences of the programs
\* keep every exchange of a tag apart from the copies of it.
CopyNotRaced ==
  \A p, q \in Instances :
    phase[p] = "copying" /\ Backend = "pthreads" /\ At(q, "exchange") /\ Statement(q).keys # {} =>
      TagOf(q) # TagOf(p)

\* A fence finishes the destructions asked for before it: when the program has
\* ended, no slot that an instance asked to destroy is left.
DestructionsFinish ==
  exc = "none" /\ (\A p \in Instances : Finished(p)) => asked \cap DOMAIN slots = {}

\* ... which the MPI and LPF fences do, whoever asked and through whichever list.
DestructionsFinishCollectively == Backend # "pthreads" => DestructionsFinish

\* What an instance prints as received is what the other side wrote, a topology
\* with the NUMA domains of one of the workers (whose Huawei devices, which have
\* no type, get lost), and the instances it lists are all of them, whoever was
\* first.
PrintsWhatWasSent ==
  \A p \in Instances :
    /\ At(p, "print") => Content(<<p, Real(Statement(p).slot)>>) \in Statement(p).values
    /\ At(p, "showTopology") => Shown(Content(<<p, Real(Statement(p).slot)>>)) \in Statement(p).values
    /\ detected[p] \in {0, Cardinality(Instances)}

\* Every program comes to its end.
ProgramsFinish == <>Ended
=============================================================================
