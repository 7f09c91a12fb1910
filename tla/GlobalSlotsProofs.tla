--------------------------- MODULE GlobalSlotsProofs ---------------------------
(***************************************************************************)
(* Proofs about the programs on global slots, for every catalogue of        *)
(* launches that use them correctly.                                         *)
(***************************************************************************)
EXTENDS GlobalSlots, TLAPS

\* The collective calls of a role number its calls.
Numbered(l) ==
  \A p \in DOMAIN l.roles : \A i \in Nat \ {0} :
    /\ Round(l, p, i) \in Nat
    /\ Round(l, p, 1) = 0
    /\ Round(l, p, i + 1) = IF i \in Collectives(l, p) THEN Round(l, p, i) + 1 ELSE Round(l, p, i)
    /\ \A j \in Nat \ {0} : i <= j => Round(l, p, i) <= Round(l, p, j)

\* How many collective calls an instance has entered.
Entered(p) == IF phase[p] = "run" THEN Round(launch, p, pc[p]) ELSE Round(launch, p, pc[p]) + 1

\* All instances have entered as many.
InStep ==
  /\ AreRoles(launch) /\ Numbered(launch)
  /\ pc \in [Instances -> Nat \ {0}]
  /\ phase \in [Instances -> {"run", "leaving", "copying"}]
  /\ \A p \in Instances : phase[p] # "run" => Backend = "pthreads" /\ pc[p] \in CallsOf(launch, p, "fence")
  /\ \A p, q \in Instances : Entered(p) = Entered(q)

\* A leaf that names no prover goes to the SMT solver, for a minute at most.
USE SMTT(60)

-----------------------------------------------------------------------------
(* The steps, by what they change                                           *)

Bookkeeping == <<mem, slots, reg, gone, doomed, asked, ends, copies>>

\* Instance p makes a call nobody waits in, and goes on to the next.
GoesOn(p) ==
  /\ phase[p] = "run" /\ pc[p] \in DOMAIN launch.roles[p] /\ pc[p] \notin Collectives(launch, p)
  /\ pc' = [pc EXCEPT ![p] = @ + 1] /\ UNCHANGED <<launch, phase>>

\* ... of which no slot, buffer, channel end or pending copy can tell.
Quiet(p) == GoesOn(p) /\ Statement(p).op \notin {"allocate", "exchange"} /\ UNCHANGED Bookkeeping

\* Nothing happens, or an exception ends the program.
Still == UNCHANGED <<launch, pc, phase>> /\ UNCHANGED Bookkeeping

\* What deregistration does when it does not throw.
Deregisters(p) ==
  LET S == RealAll(Statement(p).slots)
      here == {<<Manager(Statement(p).m), s[2], s[3]>> : s \in S} IN
  /\ At(p, "deregister")
  /\ reg' = [reg EXCEPT ![p] = @ \ here]
  /\ gone' = [gone EXCEPT ![p] = @ \cup Remembered(S)]
  /\ GoesOn(p)
  /\ UNCHANGED <<mem, slots, doomed, asked, ends, copies>>

Opens(p) ==
  LET s == Statement(p) IN
  /\ At(p, "open")
  /\ ends' = ends \cup {[channel |-> s.channel, side |-> s.side, by |-> p, data |-> RealAll(s.data),
                         own |-> RealAll(s.own), peer |-> RealAll(s.peer), lock |-> RealAll(s.lock)]}
  /\ GoesOn(p)
  /\ UNCHANGED <<mem, slots, reg, gone, doomed, asked, copies>>

Allocates(p) == Allocated(p) /\ GoesOn(p) /\ UNCHANGED <<ends, copies>>
Frees(p) == Backend # "mpi" /\ Freed(p) /\ GoesOn(p) /\ UNCHANGED <<ends, copies>>
Inserts(p) == ExchangeInsert(p) /\ GoesOn(p) /\ UNCHANGED <<ends, copies>>
Destroys(p) == DestroyGlobalMemorySlot(p) /\ GoesOn(p) /\ UNCHANGED <<ends, copies>>
Queues(p) ==
  /\ Backend = "lpf" /\ At(p, "memcpy") /\ QueueCopy(p) /\ GoesOn(p)
  /\ UNCHANGED <<mem, slots, reg, gone, doomed, asked, ends>>
Promotes(p) == Backend # "mpi" /\ PromoteSlot(p) /\ GoesOn(p) /\ UNCHANGED <<ends, copies>>
Demotes(p) == DestroyPromotedLpf(p) /\ GoesOn(p) /\ UNCHANGED <<ends, copies>>

LooksUp(p) ==
  /\ phase[p] = "leaving" /\ phase' = [phase EXCEPT ![p] = "copying"]
  /\ UNCHANGED <<launch, pc>> /\ UNCHANGED Bookkeeping

Leaves(p) ==
  /\ phase[p] # "run" /\ phase' = [phase EXCEPT ![p] = "run"]
  /\ pc' = [pc EXCEPT ![p] = @ + 1] /\ launch' = launch
  /\ doomed' = [doomed EXCEPT ![p] = {d \in @ : <<d[1], d[2][2]>> # TagOf(p)}]
  /\ UNCHANGED <<mem, slots, gone, asked, ends, copies>>

StepOf(p) ==
  \/ Quiet(p) \/ Deregisters(p) \/ Opens(p) \/ Allocates(p) \/ Frees(p) \/ Inserts(p) \/ Destroys(p)
  \/ Queues(p) \/ Promotes(p) \/ Demotes(p) \/ LooksUp(p) \/ Leaves(p)

Lands == UNCHANGED <<launch, pc, phase, mem, slots, reg, gone, doomed, asked, ends>> /\ copies' \subseteq copies

\* All instances enter or pass a collective call together.
Enters ==
  /\ \A p \in Instances : At(p, "fence") /\ Backend = "pthreads"
  /\ phase' = [p \in Instances |-> "leaving"] /\ UNCHANGED <<launch, pc>> /\ UNCHANGED Bookkeeping

Pass(op) ==
  /\ Backend # "pthreads" /\ \A p \in Instances : At(p, op)
  /\ pc' = [p \in Instances |-> pc[p] + 1]
  /\ UNCHANGED <<launch, phase, ends, copies>>

ExchangesAll == ExchangeAll /\ Pass("exchange")

FencesAll ==
  /\ Pass("fence") /\ LeaveFenceAll /\ copies = {}
  /\ IF Backend = "mpi"
       THEN /\ \A p \in Instances : ToDestroy \subseteq reg[p] \cup gone[p]
            /\ reg' = [p \in Instances |-> reg[p] \ ToDestroy]
            /\ gone' = [p \in Instances |-> gone[p] \ (ToDestroy \ reg[p])]
            /\ mem' = mem \ WindowMemory(ToDestroy)
       ELSE UNCHANGED <<mem, reg, gone>>

Kinds == Still \/ (\E p \in Instances : StepOf(p)) \/ Lands \/ Enters \/ ExchangesAll \/ FencesAll

\* An instance that is at a call is at no collective one unless its name says so.
LEMMA NotCollective ==
  ASSUME NEW p \in Instances, InStep, NEW op, At(p, op), op # "fence", op # "exchange" \/ Backend = "pthreads",
         Advance(p)
  PROVE  GoesOn(p)
<1>1. pc[p] \in Nat \ {0} /\ launch.roles[p] \in Seq(Range(launch.roles[p]))
  BY DEF InStep, AreRoles, Instances, Program
<1>2. pc[p] \in DOMAIN launch.roles[p]
  BY <1>1 DEF At, Finished, Program
<1>3. launch.roles[p][pc[p]].op = op
  BY Zenon DEF At, Statement, Program
<1>4. pc[p] \notin Collectives(launch, p)
  BY <1>3, Zenon DEF Collectives, CallsOf, Backend, Program
<1> QED BY <1>2, <1>4, Zenon DEF GoesOn, Advance, At

\* An exception changes nothing else.
LEMMA ThrowStill == ASSUME NEW kind, Throw(kind) PROVE Still
  BY Zenon DEF Throw, Still, Bookkeeping, registry, traffic

\* A call that changes none of the registry and no channel end or copy.
LEMMA QuietCall ==
  ASSUME NEW p \in Instances, InStep, NEW op, At(p, op), op \notin {"fence", "exchange", "allocate"},
         Advance(p), UNCHANGED registry, UNCHANGED <<ends, copies>>
  PROVE  StepOf(p)
<1>1. GoesOn(p)
  BY NotCollective, Zenon
<1> QED BY <1>1, Zenon DEF StepOf, Quiet, Bookkeeping, registry, At

\* Every step of an instance is of one of the kinds.
LEMMA StepKinds == ASSUME NEW p \in Instances, InStep, Step(p) PROVE StepOf(p) \/ Still
<1>1. CASE AllocateHwloc(p) \/ AllocateMpi(p) \/ AllocateLpf(p)
  <2>1. Allocated(p)
    BY <1>1, Zenon DEF AllocateHwloc, AllocateMpi, AllocateLpf
  <2>2. At(p, "allocate") /\ Advance(p) /\ UNCHANGED traffic
    BY <2>1, Zenon DEF Allocated
  <2>3. GoesOn(p)
    BY <2>2, NotCollective, Zenon
  <2> QED BY <2>1, <2>2, <2>3, Zenon DEF StepOf, Allocates, traffic
<1>2. CASE FreeHwloc(p) \/ FreeLpf(p)
  <2>1. Freed(p) /\ Backend # "mpi"
    BY <1>2, Zenon DEF FreeHwloc, FreeLpf
  <2>2. At(p, "free") /\ Advance(p) /\ UNCHANGED traffic
    BY <2>1, Zenon DEF Freed
  <2>3. GoesOn(p)
    BY <2>2, NotCollective, Zenon
  <2> QED BY <2>1, <2>2, <2>3, Zenon DEF StepOf, Frees, traffic
<1>3. CASE FreeMpi(p)
  <2>1. At(p, "free") /\ Advance(p) /\ UNCHANGED registry /\ UNCHANGED <<ends, copies>>
    BY <1>3, Zenon DEF FreeMpi, traffic
  <2> QED BY <2>1, QuietCall, Zenon
<1>4. CASE ExchangeInsert(p)
  <2>1. At(p, "exchange") /\ Advance(p) /\ Backend = "pthreads" /\ UNCHANGED traffic
    BY <1>4, Zenon DEF ExchangeInsert
  <2>2. GoesOn(p)
    BY <2>1, NotCollective, Zenon
  <2> QED BY <1>4, <2>1, <2>2, Zenon DEF StepOf, Inserts, traffic
<1>5. CASE FenceLookUp(p)
  <2>1. CASE SlotsOfTag(TagOf(p)) = {}
    BY <1>5, <2>1, Zenon DEF FenceLookUp, LeaveFence, StepOf, Leaves, traffic
  <2>2. CASE SlotsOfTag(TagOf(p)) # {}
    BY <1>5, <2>2, Zenon DEF FenceLookUp, StepOf, LooksUp, Bookkeeping, traffic, registry
  <2> QED BY <2>1, <2>2, Zenon
<1>6. CASE FenceRegister(p)
  BY <1>6, Zenon DEF FenceRegister, LeaveFence, StepOf, Leaves, traffic
<1>7. CASE GetGlobalMemorySlot(p)
  <2>1. CASE RealAll(Statement(p).slots) \subseteq InCore \cup reg[p]
    <3>1. At(p, "get") /\ Advance(p) /\ UNCHANGED registry /\ UNCHANGED <<ends, copies>>
      BY <1>7, <2>1, Zenon DEF GetGlobalMemorySlot, traffic
    <3> QED BY <3>1, QuietCall, Zenon
  <2>2. CASE ~(RealAll(Statement(p).slots) \subseteq InCore \cup reg[p])
    BY <1>7, <2>2, ThrowStill, Zenon DEF GetGlobalMemorySlot
  <2> QED BY <2>1, <2>2, Zenon
<1>8. CASE DeregisterGlobalMemorySlot(p)
  <2> DEFINE here == {<<Manager(Statement(p).m), s[2], s[3]>> : s \in RealAll(Statement(p).slots)}
  <2>1. CASE \E s \in here : <<s[1], s[2]>> \notin tags[p]
    BY <1>8, <2>1, ThrowStill, Zenon DEF DeregisterGlobalMemorySlot
  <2>2. CASE ~\E s \in here : <<s[1], s[2]>> \notin tags[p]
    <3>1. /\ At(p, "deregister") /\ Advance(p) /\ reg' = [reg EXCEPT ![p] = @ \ here]
          /\ gone' = [gone EXCEPT ![p] = @ \cup Remembered(RealAll(Statement(p).slots))]
          /\ UNCHANGED <<mem, slots, tags, doomed, asked, traffic>>
      BY <1>8, <2>2, Zenon DEF DeregisterGlobalMemorySlot
    <3>2. GoesOn(p)
      BY <3>1, NotCollective, Zenon
    <3> QED BY <3>1, <3>2, Zenon DEF StepOf, Deregisters, traffic
  <2> QED BY <2>1, <2>2, Zenon
<1>9. CASE DestroyGlobalMemorySlot(p)
  <2>1. At(p, "destroy") /\ Advance(p) /\ UNCHANGED traffic
    BY <1>9, Zenon DEF DestroyGlobalMemorySlot
  <2>2. GoesOn(p)
    BY <2>1, NotCollective, Zenon
  <2> QED BY <1>9, <2>1, <2>2, Zenon DEF StepOf, Destroys, traffic
<1>10. CASE OpenChannel(p)
  <2>1. CASE Program.channels[Statement(p).channel].tokens = 0
    BY <1>10, <2>1, ThrowStill, Zenon DEF OpenChannel
  <2>2. CASE Program.channels[Statement(p).channel].tokens # 0
    <3>1. /\ At(p, "open") /\ Advance(p) /\ UNCHANGED registry /\ UNCHANGED copies
          /\ ends' = ends \cup {[channel |-> Statement(p).channel, side |-> Statement(p).side, by |-> p,
                                 data |-> RealAll(Statement(p).data), own |-> RealAll(Statement(p).own),
                                 peer |-> RealAll(Statement(p).peer), lock |-> RealAll(Statement(p).lock)]}
      BY <1>10, <2>2, Zenon DEF OpenChannel
    <3>2. GoesOn(p)
      BY <3>1, NotCollective, Zenon
    <3> QED BY <3>1, <3>2, Zenon DEF StepOf, Opens, registry
  <2> QED BY <2>1, <2>2, Zenon
<1>11. CASE Push(p)
  <2>1. CASE \E kind : Throw(kind)
    BY <2>1, ThrowStill, Zenon
  <2>2. CASE At(p, "push") /\ Advance(p) /\ UNCHANGED registry /\ UNCHANGED <<ends, copies>>
    BY <2>2, QuietCall, Zenon
  <2> QED BY <1>11, <2>1, <2>2, Zenon DEF Push
<1>12. CASE Pop(p)
  <2>1. CASE \E kind : Throw(kind)
    BY <2>1, ThrowStill, Zenon
  <2>2. CASE At(p, "pop") /\ Advance(p) /\ UNCHANGED registry /\ UNCHANGED <<ends, copies>>
    BY <2>2, QuietCall, Zenon
  <2> QED BY <1>12, <2>1, <2>2, Zenon DEF Pop
<1>13. CASE Peek(p) \/ AwaitDepth(p) \/ Write(p)
  <2>1. \E op \in {"peek", "await", "write"} :
          At(p, op) /\ Advance(p) /\ UNCHANGED registry /\ UNCHANGED <<ends, copies>>
    BY <1>13, Zenon DEF Peek, AwaitDepth, Write, traffic
  <2> QED BY <2>1, QuietCall, Zenon
<1>14. CASE MemcpyPthreads(p) \/ GetMpi(p) \/ PutMpi(p)
  <2>1. At(p, "memcpy") /\ Advance(p) /\ UNCHANGED registry /\ UNCHANGED <<ends, copies>>
    BY <1>14, Zenon DEF MemcpyPthreads, GetMpi, PutMpi, MemcpyNow
  <2> QED BY <2>1, QuietCall, Zenon
<1>15. CASE GetLpf(p) \/ PutLpf(p)
  <2>1. Backend = "lpf" /\ At(p, "memcpy") /\ QueueCopy(p)
    BY <1>15, Zenon DEF GetLpf, PutLpf
  <2>2. Advance(p) /\ UNCHANGED registry /\ UNCHANGED ends
    BY <2>1, Zenon DEF QueueCopy
  <2>3. GoesOn(p)
    BY <2>1, <2>2, NotCollective, Zenon
  <2> QED BY <2>1, <2>2, <2>3, Zenon DEF StepOf, Queues, registry
<1>16. CASE FenceSlot(p) \/ PrintBuffer(p) \/ DestroyPromotedPthreads(p)
  <2>1. \E op \in {"fenceSlot", "print", "destroyPromoted"} :
          At(p, op) /\ Advance(p) /\ UNCHANGED registry /\ UNCHANGED <<ends, copies>>
    BY <1>16, Zenon DEF FenceSlot, PrintBuffer, DestroyPromotedPthreads, traffic
  <2> QED BY <2>1, QuietCall, Zenon
<1>17. CASE PrintTopology(p)
  <2>1. CASE \E kind : Throw(kind)
    BY <2>1, ThrowStill, Zenon
  <2>2. CASE At(p, "showTopology") /\ Advance(p) /\ UNCHANGED registry /\ UNCHANGED traffic
    BY <2>2, QuietCall, Zenon DEF traffic
  <2> QED BY <1>17, <2>1, <2>2, Zenon DEF PrintTopology
<1>18. CASE PromotePthreads(p) \/ PromoteLpf(p)
  <2>1. PromoteSlot(p) /\ Backend # "mpi"
    BY <1>18 DEF PromotePthreads, PromoteLpf
  <2>2. At(p, "promote") /\ Advance(p) /\ UNCHANGED traffic
    BY <2>1, Zenon DEF PromoteSlot
  <2>3. GoesOn(p)
    BY <2>2, NotCollective, Zenon
  <2> QED BY <2>1, <2>2, <2>3, Zenon DEF StepOf, Promotes, traffic
<1>19. CASE DestroyPromotedLpf(p)
  <2>1. At(p, "destroyPromoted") /\ Advance(p) /\ UNCHANGED traffic
    BY <1>19, Zenon DEF DestroyPromotedLpf
  <2>2. GoesOn(p)
    BY <2>1, NotCollective, Zenon
  <2> QED BY <1>19, <2>1, <2>2, Zenon DEF StepOf, Demotes, traffic
<1>20. CASE AddInstance(p) \/ GetInstances(p)
  <2>1. \E op \in {"addInstance", "getInstances"} :
          At(p, op) /\ Advance(p) /\ UNCHANGED registry /\ UNCHANGED <<ends, copies>>
    BY <1>20, Zenon DEF AddInstance, GetInstances
  <2> QED BY <2>1, QuietCall, Zenon
<1> QED BY <1>1, <1>2, <1>3, <1>4, <1>5, <1>6, <1>7, <1>8, <1>9, <1>10, <1>11, <1>12, <1>13, <1>14, <1>15,
           <1>16, <1>17, <1>18, <1>19, <1>20, Zenon DEF Step

\* And so is every step.
LEMMA NextKinds == InStep /\ [Next]_vars => Kinds
<1> SUFFICES ASSUME InStep, [Next]_vars PROVE Kinds
  BY Zenon
<1>1. CASE \E p \in Instances : Step(p)
  BY <1>1, StepKinds, Zenon DEF Kinds
<1>2. CASE ExchangeMpi \/ ExchangeLpf
  <2>1. ExchangeAll /\ Backend # "pthreads"
    BY <1>2, Zenon DEF ExchangeMpi, ExchangeLpf
  <2> QED BY <2>1, Zenon DEF ExchangeAll, ExchangesAll, Pass, Kinds, traffic
<1>3. CASE FenceBarrier
  BY <1>3, Zenon DEF FenceBarrier, Enters, Kinds, Bookkeeping, traffic, registry
<1>4. CASE FenceMpi
  <2>1. CASE \E kind : Throw(kind)
    BY <2>1, ThrowStill, Zenon DEF Kinds
  <2>2. CASE ~\E kind : Throw(kind)
    <3>1. /\ Backend = "mpi" /\ FenceAll /\ LeaveFenceAll
          /\ \A p \in Instances : ToDestroy \subseteq reg[p] \cup gone[p]
          /\ reg' = [p \in Instances |-> reg[p] \ ToDestroy]
          /\ gone' = [p \in Instances |-> gone[p] \ (ToDestroy \ reg[p])]
          /\ mem' = mem \ WindowMemory(ToDestroy)
      BY <1>4, <2>2, Zenon DEF FenceMpi
    <3> QED BY <3>1, Zenon DEF FenceAll, LeaveFenceAll, FencesAll, Pass, Kinds, traffic
  <2> QED BY <2>1, <2>2, Zenon
<1>5. CASE FenceLpf
  BY <1>5, Zenon DEF FenceLpf, FenceAll, LeaveFenceAll, FencesAll, Pass, Kinds, traffic
<1>6. CASE CopyLands
  BY <1>6, Zenon DEF CopyLands, Lands, Kinds, registry
<1>7. CASE Exited \/ UNCHANGED vars
  BY <1>7, Zenon DEF Exited, vars, Still, Bookkeeping, Kinds
<1> QED BY <1>1, <1>2, <1>3, <1>4, <1>5, <1>6, <1>7, Zenon DEF Next, Collective

-----------------------------------------------------------------------------
(* The instances are in step.                                               *)

\* No step undoes a collective call.
RoundsAdvance == \A q \in Instances : Entered(q)' = Entered(q) \/ Entered(q)' = Entered(q) + 1

\* An instance that goes on stays in its round.
LEMMA GoesOnInStep == ASSUME InStep, NEW p \in Instances, GoesOn(p) PROVE InStep' /\ RoundsAdvance
<1>1. /\ launch' = launch /\ phase' = phase /\ phase[p] = "run"
      /\ pc' = [pc EXCEPT ![p] = pc[p] + 1] /\ pc \in [Instances -> Nat \ {0}]
      /\ pc[p] \notin Collectives(launch, p)
  BY Zenon DEF InStep, GoesOn
<1>2. pc[p] \in Nat \ {0} /\ pc[p] + 1 \in Nat \ {0}
  BY <1>1
<1>3. pc' \in [Instances -> Nat \ {0}] /\ pc'[p] = pc[p] + 1 /\ \A q \in Instances : q # p => pc'[q] = pc[q]
  BY <1>1, <1>2
<1>4. Round(launch, p, pc[p] + 1) = Round(launch, p, pc[p])
  BY <1>1, <1>2, Zenon DEF InStep, Numbered, Instances, Program
<1>5. \A q \in Instances : Entered(q)' = Entered(q)
  BY <1>1, <1>3, <1>4, Zenon DEF Entered
<1>6. RoundsAdvance
  BY <1>5, Zenon DEF RoundsAdvance
<1> QED BY <1>1, <1>3, <1>5, <1>6, Zenon DEF InStep, Instances, Program, Backend

\* An instance that leaves the fence has passed it, which it had entered.
LEMMA LeavesInStep == ASSUME InStep, NEW p \in Instances, Leaves(p) PROVE InStep' /\ RoundsAdvance
<1>1. /\ launch' = launch /\ phase' = [phase EXCEPT ![p] = "run"] /\ phase[p] # "run"
      /\ pc' = [pc EXCEPT ![p] = pc[p] + 1] /\ pc \in [Instances -> Nat \ {0}]
      /\ phase \in [Instances -> {"run", "leaving", "copying"}]
      /\ pc[p] \in Collectives(launch, p)
  BY Zenon DEF InStep, Leaves, Collectives
<1>2. pc[p] \in Nat \ {0} /\ pc[p] + 1 \in Nat \ {0}
  BY <1>1
<1>3. /\ pc' \in [Instances -> Nat \ {0}] /\ pc'[p] = pc[p] + 1 /\ \A q \in Instances : q # p => pc'[q] = pc[q]
      /\ phase' \in [Instances -> {"run", "leaving", "copying"}]
      /\ phase'[p] = "run" /\ \A q \in Instances : q # p => phase'[q] = phase[q]
  BY <1>1, <1>2
<1>4. Round(launch, p, pc[p] + 1) = Round(launch, p, pc[p]) + 1
  BY <1>1, <1>2, Zenon DEF InStep, Numbered, Instances, Program
<1>5. \A q \in Instances : Entered(q)' = Entered(q)
  BY <1>1, <1>3, <1>4, Zenon DEF Entered
<1>6. \A q \in Instances : phase'[q] # "run" => Backend = "pthreads" /\ pc'[q] \in CallsOf(launch, q, "fence")
  BY <1>3, Zenon DEF InStep
<1>7. \A q, r \in Instances : Entered(q)' = Entered(r)'
  BY <1>5, Zenon DEF InStep
<1>8. RoundsAdvance
  BY <1>5, Zenon DEF RoundsAdvance
<1> QED BY <1>1, <1>3, <1>6, <1>7, <1>8, Zenon DEF InStep, Instances, Program, Backend

\* So it is for every step.
LEMMA KindsInStep == InStep /\ Kinds => InStep' /\ RoundsAdvance
<1> SUFFICES ASSUME InStep, Kinds PROVE InStep' /\ RoundsAdvance
  BY Zenon
<1>1. CASE Still \/ Lands
  <2>1. launch' = launch /\ pc' = pc /\ phase' = phase
    BY <1>1, Zenon DEF Still, Lands
  <2>2. \A q \in Instances : Entered(q)' = Entered(q)
    BY <2>1, Zenon DEF Entered
  <2>3. RoundsAdvance
    BY <2>2, Zenon DEF RoundsAdvance
  <2> QED BY <2>1, <2>2, <2>3, Zenon DEF InStep, Instances, Program, Backend
<1>2. ASSUME NEW p \in Instances, StepOf(p) PROVE InStep' /\ RoundsAdvance
  <2>1. CASE GoesOn(p)
    BY <2>1, GoesOnInStep, Zenon
  <2>2. CASE LooksUp(p)
    <3>1. /\ launch' = launch /\ pc' = pc /\ phase[p] = "leaving" /\ phase' = [phase EXCEPT ![p] = "copying"]
          /\ phase \in [Instances -> {"run", "leaving", "copying"}]
      BY <2>2, Zenon DEF LooksUp, InStep
    <3>2. /\ phase' \in [Instances -> {"run", "leaving", "copying"}]
          /\ phase'[p] = "copying" /\ \A q \in Instances : q # p => phase'[q] = phase[q]
      BY <3>1
    <3>3. \A q \in Instances : Entered(q)' = Entered(q)
      BY <3>1, <3>2, Zenon DEF Entered
    <3>4. \A q \in Instances : phase'[q] # "run" => Backend = "pthreads" /\ pc'[q] \in CallsOf(launch, q, "fence")
      BY <3>1, <3>2, Zenon DEF InStep
    <3>5. \A q, r \in Instances : Entered(q)' = Entered(r)'
      BY <3>3, Zenon DEF InStep
    <3>6. RoundsAdvance
      BY <3>3, Zenon DEF RoundsAdvance
    <3> QED BY <3>1, <3>2, <3>4, <3>5, <3>6, Zenon DEF InStep, Instances, Program, Backend
  <2>3. CASE Leaves(p)
    BY <2>3, LeavesInStep, Zenon
  <2> QED BY <1>2, <2>1, <2>2, <2>3, Zenon
          DEF StepOf, Quiet, Deregisters, Opens, Allocates, Frees, Inserts, Destroys, Queues, Promotes, Demotes
<1>3. CASE Enters
  <2>1. /\ launch' = launch /\ pc' = pc /\ phase' = [p \in Instances |-> "leaving"]
        /\ \A p \in Instances : At(p, "fence") /\ Backend = "pthreads"
    BY <1>3, Zenon DEF Enters
  <2>2. /\ phase' \in [Instances -> {"run", "leaving", "copying"}]
        /\ \A p \in Instances : phase'[p] = "leaving" /\ phase[p] = "run"
    BY <2>1, Zenon DEF At
  <2>3. \A p \in Instances : Entered(p)' = Entered(p) + 1
    BY <2>1, <2>2, Zenon DEF Entered
  <2>4. \A p \in Instances : pc[p] \in CallsOf(launch, p, "fence")
    <3> TAKE p \in Instances
    <3>1. pc[p] \in Nat \ {0} /\ launch.roles[p] \in Seq(Range(launch.roles[p]))
      BY DEF InStep, AreRoles, Instances, Program
    <3> QED BY <2>1, <3>1 DEF At, Finished, Program, CallsOf, Statement
  <2>5. \A p, q \in Instances : Entered(p)' = Entered(q)'
    BY <2>3, Zenon DEF InStep
  <2>6. RoundsAdvance
    BY <2>3, Zenon DEF RoundsAdvance
  <2> QED BY <2>1, <2>2, <2>4, <2>5, <2>6, Zenon DEF InStep, Instances, Program, Backend
<1>4. ASSUME NEW op \in {"fence", "exchange"}, Pass(op) PROVE InStep' /\ RoundsAdvance
  <2>1. /\ launch' = launch /\ phase' = phase /\ pc' = [p \in Instances |-> pc[p] + 1]
        /\ \A p \in Instances : At(p, op) /\ Backend # "pthreads"
    BY <1>4, Zenon DEF Pass
  <2>2. pc' \in [Instances -> Nat \ {0}] /\ \A p \in Instances : pc'[p] = pc[p] + 1 /\ pc[p] \in Nat \ {0}
    BY <2>1 DEF InStep
  <2>3. \A p \in Instances : pc[p] \in Collectives(launch, p)
    <3> TAKE p \in Instances
    <3>1. pc[p] \in Nat \ {0} /\ launch.roles[p] \in Seq(Range(launch.roles[p]))
      BY DEF InStep, AreRoles, Instances, Program
    <3> QED BY <2>1, <3>1, <1>4 DEF At, Finished, Program, CallsOf, Statement, Collectives, Backend
  <2>4. \A p \in Instances : Entered(p)' = Entered(p) + 1
    <3> TAKE p \in Instances
    <3>1. Round(launch, p, pc[p] + 1) = Round(launch, p, pc[p]) + 1
      BY <2>2, <2>3, Zenon DEF InStep, Numbered, Instances, Program
    <3> QED BY <2>1, <2>2, <3>1, Zenon DEF Entered, At
  <2>5. \A p, q \in Instances : Entered(p)' = Entered(q)'
    BY <2>4, Zenon DEF InStep
  <2>6. RoundsAdvance
    BY <2>4, Zenon DEF RoundsAdvance
  <2> QED BY <2>1, <2>2, <2>5, <2>6, Zenon DEF InStep, Instances, Program, Backend
<1> QED BY <1>1, <1>2, <1>3, <1>4, Zenon DEF Kinds, ExchangesAll, FencesAll

-----------------------------------------------------------------------------
(* Channel ends and slots come from the calls that were made.                 *)

EndIn(l, p, i) ==
  LET s == l.roles[p][i] IN
  [channel |-> s.channel, side |-> s.side, by |-> p, data |-> RealAllIn(l, s.data), own |-> RealAllIn(l, s.own),
   peer |-> RealAllIn(l, s.peer), lock |-> RealAllIn(l, s.lock)]

\* With the counters c, the instances have made the end, published the slot on
\* the buffer, or can promote it.
MadeBy(l, c, e) == \E p \in DOMAIN l.roles : \E i \in CallsOf(l, p, "open") : i < c[p] /\ e = EndIn(l, p, i)

PublishedBy(l, c, s, b) ==
  \E q \in DOMAIN l.roles : \E j \in CallsOf(l, q, "exchange") : j < c[q] /\ s \in PublishedIn(l, q, j) /\ b = <<q, s>>

PromotedBy(l, s) ==
  \E q \in DOMAIN l.roles : \E k \in CallsOf(l, q, "promote") : s = RealIn(l, l.roles[q][k].slot)

FromCalls ==
  /\ \A e \in ends : MadeBy(launch, pc, e)
  /\ \A s \in DOMAIN slots : PublishedBy(launch, pc, s, slots[s]) \/ PromotedBy(launch, s)

\* What an end is made of.
LEMMA EndText ==
  \A l, p, i :
    /\ EndIn(l, p, i).channel = l.roles[p][i].channel /\ EndIn(l, p, i).side = l.roles[p][i].side
    /\ EndIn(l, p, i).by = p /\ EndIn(l, p, i).data = RealAllIn(l, l.roles[p][i].data)
    /\ EndIn(l, p, i).own = RealAllIn(l, l.roles[p][i].own) /\ EndIn(l, p, i).peer = RealAllIn(l, l.roles[p][i].peer)
    /\ EndIn(l, p, i).lock = RealAllIn(l, l.roles[p][i].lock)
  BY DEF EndIn

\* The places of calls are positive numbers.
LEMMA CallsAreNumbers ==
  ASSUME InStep, NEW q \in Instances, NEW op
  PROVE  CallsOf(launch, q, op) \subseteq Nat \ {0}
<1>1. launch.roles[q] \in Seq(Range(launch.roles[q]))
  BY Zenon DEF InStep, AreRoles, Instances, Program
<1> QED BY <1>1 DEF CallsOf

\* The counters only grow.
LEMMA CountersGrow ==
  ASSUME InStep, Kinds
  PROVE  /\ launch' = launch /\ Instances' = Instances
         /\ \A q \in Instances : pc[q] \in Nat \ {0} /\ pc'[q] \in Nat /\ pc[q] <= pc'[q]
<1>1. /\ launch' = launch
      /\ pc' = pc \/ (\E p \in Instances : pc' = [pc EXCEPT ![p] = @ + 1]) \/ pc' = [p \in Instances |-> pc[p] + 1]
  BY Zenon DEF Kinds, Still, StepOf, Quiet, Deregisters, Opens, Allocates, Frees, Inserts, Destroys, Queues,
               Promotes, Demotes, LooksUp, Leaves, GoesOn, Lands, Enters, ExchangesAll, FencesAll, Pass
<1>2. pc \in [Instances -> Nat \ {0}]
  BY Zenon DEF InStep
<1> QED BY <1>1, <1>2 DEF Instances, Program

\* What was made or published stays so.
LEMMA MadeStays ==
  ASSUME InStep, Kinds
  PROVE  /\ \A e : MadeBy(launch, pc, e) => MadeBy(launch, pc', e)
         /\ \A s, b : PublishedBy(launch, pc, s, b) => PublishedBy(launch, pc', s, b)
<1>2. \A q \in Instances, i \in Nat \ {0} : i < pc[q] => i < pc'[q]
  BY CountersGrow
<1>3. \A q \in Instances : \A op : CallsOf(launch, q, op) \subseteq Nat \ {0}
  BY CallsAreNumbers, Zenon
<1> QED BY <1>2, <1>3, Zenon DEF MadeBy, PublishedBy, Instances, Program

\* The call an instance is at.
LEMMA AtCall ==
  ASSUME InStep, NEW p \in Instances, NEW op, At(p, op)
  PROVE  /\ pc[p] \in CallsOf(launch, p, op) /\ pc[p] \in Nat \ {0} /\ phase[p] = "run"
         /\ Statement(p) = launch.roles[p][pc[p]]
         /\ Entered(p) = Round(launch, p, pc[p])
<1>1. pc[p] \in Nat \ {0} /\ launch.roles[p] \in Seq(Range(launch.roles[p]))
  BY DEF InStep, AreRoles, Instances, Program
<1>2. pc[p] \in DOMAIN launch.roles[p]
  BY <1>1 DEF At, Finished, Program
<1> QED BY <1>1, <1>2, Zenon DEF At, CallsOf, Statement, Program, Entered

\* An instance that goes on has made its call.
LEMMA WentOn == ASSUME InStep, NEW p \in Instances, GoesOn(p) PROVE pc[p] < pc'[p]
  BY DEF InStep, GoesOn

\* What an instance publishes, in the words of the texts.
LEMMA PublishedText ==
  ASSUME NEW p \in Instances
  PROVE  /\ TagOf(p) = TagIn(launch, p, pc[p])
         /\ Published(p) = PublishedIn(launch, p, pc[p])
         /\ RealAll(Statement(p).slots) = NamedIn(launch, p, pc[p])
<1>1. TagOf(p) = TagIn(launch, p, pc[p])
  BY Zenon DEF TagOf, TagIn, Statement, Program, Manager
<1> QED BY <1>1, Zenon DEF Published, PublishedIn, RealAll, NamedIn, Statement, Program

\* Every step adds only ends and slots of the call it makes.
LEMMA KindsFromCalls == InStep /\ FromCalls /\ Kinds => FromCalls'
<1> SUFFICES ASSUME InStep, FromCalls, Kinds PROVE FromCalls'
  BY Zenon
<1>1. launch' = launch /\ Instances = DOMAIN launch.roles
  BY CountersGrow, Zenon DEF Instances, Program
<1>2. (\A e \in ends : MadeBy(launch, pc', e)) /\ \A s \in DOMAIN slots : PublishedBy(launch, pc', s, slots[s]) \/ PromotedBy(launch, s)
  BY MadeStays, Zenon DEF FromCalls
<1>3. ASSUME \A e \in ends' : e \in ends \/ MadeBy(launch, pc', e),
             \A s \in DOMAIN slots' : \/ s \in DOMAIN slots /\ slots'[s] = slots[s]
                                      \/ PublishedBy(launch, pc', s, slots'[s]) \/ PromotedBy(launch, s)
      PROVE  FromCalls'
  BY <1>1, <1>2, <1>3, Zenon DEF FromCalls
<1>4. CASE ends' = ends /\ slots' = slots
  BY <1>3, <1>4, Zenon
<1>5. ASSUME NEW p \in Instances, StepOf(p) PROVE FromCalls'
  <2>1. CASE Opens(p)
    <3>1. At(p, "open") /\ GoesOn(p) /\ slots' = slots
      BY <2>1, Zenon DEF Opens
    <3>2. ends' = ends \cup {EndIn(launch, p, pc[p])}
      BY <2>1, Zenon DEF Opens, EndIn, Statement, RealAll, Program
    <3>3. MadeBy(launch, pc', EndIn(launch, p, pc[p]))
      BY <1>1, <3>1, AtCall, WentOn, Zenon DEF MadeBy
    <3> QED BY <1>3, <3>1, <3>2, <3>3, Zenon
  <2>2. CASE Inserts(p)
    <3>1. At(p, "exchange") /\ GoesOn(p) /\ ends' = ends /\ slots' = With(slots, [s \in Published(p) |-> <<p, s>>])
      BY <2>2, Zenon DEF Inserts, ExchangeInsert, InsertSlots
    <3>2. /\ DOMAIN slots' = DOMAIN slots \cup Published(p)
          /\ \A s \in Published(p) : slots'[s] = <<p, s>>
          /\ \A s \in DOMAIN slots : s \notin Published(p) => slots'[s] = slots[s]
      BY <3>1 DEF With
    <3>3. \A s \in Published(p) : PublishedBy(launch, pc', s, <<p, s>>)
      BY <1>1, <3>1, AtCall, WentOn, PublishedText, Zenon DEF PublishedBy
    <3> QED BY <1>3, <3>1, <3>2, <3>3, Zenon
  <2>3. CASE Promotes(p)
    <3> DEFINE t == Real(Statement(p).slot)
    <3>1. At(p, "promote") /\ ends' = ends /\ slots' = With(slots, [s \in {t} |-> <<p, Real(Statement(p).buffer)>>])
      BY <2>3, Zenon DEF Promotes, PromoteSlot
    <3>2. DOMAIN slots' = DOMAIN slots \cup {t} /\ \A s \in DOMAIN slots : s # t => slots'[s] = slots[s]
      BY <3>1 DEF With
    <3>3. PromotedBy(launch, t)
      BY <1>1, <3>1, AtCall, Zenon DEF PromotedBy, Real, Program
    <3> HIDE DEF t
    <3> QED BY <1>3, <3>1, <3>2, <3>3, Zenon
  <2>4. CASE Demotes(p)
    <3>1. ends' = ends /\ (slots' = slots \/ \E s : slots' = SlotsWithout({s}))
      BY <2>4, Zenon DEF Demotes, DestroyPromotedLpf
    <3>2. \A s \in DOMAIN slots' : s \in DOMAIN slots /\ slots'[s] = slots[s]
      <4>1. ASSUME NEW t, slots' = SlotsWithout({t})
            PROVE  \A s \in DOMAIN slots' : s \in DOMAIN slots /\ slots'[s] = slots[s]
        BY <4>1 DEF SlotsWithout
      <4> QED BY <3>1, <4>1, Zenon
    <3> QED BY <1>3, <3>1, <3>2, Zenon
  <2>5. CASE ends' = ends /\ slots' = slots
    BY <1>4, <2>5, Zenon
  <2> QED BY <1>5, <2>1, <2>2, <2>3, <2>4, <2>5, Zenon
          DEF StepOf, Quiet, Deregisters, Allocates, Allocated, Frees, Freed, Destroys, DestroyGlobalMemorySlot, Queues,
              LooksUp, Leaves, Bookkeeping
<1>6. CASE ExchangesAll
  <2> DEFINE new == UNION {Published(p) : p \in Instances}
  <2>1. /\ ends' = ends /\ slots' = With(slots, [s \in new |-> <<Publisher(s), s>>])
        /\ \A p \in Instances : At(p, "exchange")
        /\ pc' = [p \in Instances |-> pc[p] + 1]
    BY <1>6, Zenon DEF ExchangesAll, ExchangeAll, Pass
  <2>2. /\ DOMAIN slots' = DOMAIN slots \cup new
        /\ \A s \in new : slots'[s] = <<Publisher(s), s>>
        /\ \A s \in DOMAIN slots : s \notin new => slots'[s] = slots[s]
    <3> HIDE DEF new
    <3> QED BY <2>1 DEF With
  <2>3. \A s \in new : Publisher(s) \in Instances /\ s \in Published(Publisher(s))
    BY Zenon DEF Publisher
  <2>4. \A p \in Instances : pc[p] < pc'[p]
    BY <2>1 DEF InStep
  <2>5. \A p \in Instances : \A s \in Published(p) : PublishedBy(launch, pc', s, <<p, s>>)
    BY <1>1, <2>1, <2>4, AtCall, PublishedText, Zenon DEF PublishedBy
  <2> HIDE DEF new
  <2> QED BY <1>3, <2>1, <2>2, <2>3, <2>5, Zenon
<1>7. CASE FencesAll
  <2>1. ends' = ends /\ slots' = SlotsWithout(ToDestroy)
    BY <1>7, Zenon DEF FencesAll, LeaveFenceAll, Pass
  <2>2. \A s \in DOMAIN slots' : s \in DOMAIN slots /\ slots'[s] = slots[s]
    BY <2>1 DEF SlotsWithout
  <2> QED BY <1>3, <2>1, <2>2, Zenon
<1> QED BY <1>4, <1>5, <1>6, <1>7, Zenon DEF Kinds, Still, Lands, Enters, Bookkeeping

-----------------------------------------------------------------------------
(* Destructions                                                             *)

\* A later fence of instance p finds the slot on its list, which is d.
OnListIn(l, c, d, s) ==
  \E p \in DOMAIN l.roles : \E e \in d[p] :
    e[2] = s /\ \E k \in CallsOf(l, p, "fence") : c[p] <= k /\ TagIn(l, p, k) = <<e[1], s[2]>>

\* Nobody publishes the slot any more.
PublishedOut(l, c, s) ==
  /\ ~PromotedBy(l, s)
  /\ \A q \in DOMAIN l.roles : \A j \in CallsOf(l, q, "exchange") : s \in PublishedIn(l, q, j) => j < c[q]

DoomedAgrees ==
  /\ DOMAIN doomed = Instances
  /\ Backend # "pthreads" =>
       /\ DestructionsFenced(launch)
       /\ \A s \in asked : (s \in DOMAIN slots => OnListIn(launch, pc, doomed, s)) /\ PublishedOut(launch, pc, s)

\* What is published out stays so.
LEMMA OutStays ==
  ASSUME InStep, Kinds, NEW s, PublishedOut(launch, pc, s)
  PROVE  PublishedOut(launch, pc', s)
<1>1. \A q \in Instances, j \in Nat \ {0} : j < pc[q] => j < pc'[q]
  BY CountersGrow
<1>2. \A q \in Instances : CallsOf(launch, q, "exchange") \subseteq Nat \ {0}
  BY CallsAreNumbers, Zenon
<1> QED BY <1>1, <1>2, Zenon DEF PublishedOut, Instances, Program

\* A call that is no fence leaves the later fences to come.
LEMMA ListStays ==
  ASSUME InStep, NEW p \in Instances, GoesOn(p), NEW s, NEW d, OnListIn(launch, pc, doomed, s),
         \A q \in Instances : doomed[q] \subseteq d[q]
  PROVE  OnListIn(launch, pc', d, s)
<1>a. PICK q \in Instances : \E e \in doomed[q] :
        e[2] = s /\ \E k \in CallsOf(launch, q, "fence") : pc[q] <= k /\ TagIn(launch, q, k) = <<e[1], s[2]>>
  BY Zenon DEF OnListIn, Instances, Program
<1>b. PICK e \in doomed[q] :
        e[2] = s /\ \E k \in CallsOf(launch, q, "fence") : pc[q] <= k /\ TagIn(launch, q, k) = <<e[1], s[2]>>
  BY <1>a, Zenon
<1>1. PICK k \in CallsOf(launch, q, "fence") : pc[q] <= k /\ TagIn(launch, q, k) = <<e[1], s[2]>>
  BY <1>b, Zenon
<1>2. pc \in [Instances -> Nat \ {0}] /\ pc' = [pc EXCEPT ![p] = pc[p] + 1] /\ pc[p] \notin CallsOf(launch, p, "fence")
  BY Zenon DEF GoesOn, Collectives, InStep
<1>3. k \in Nat \ {0}
  BY CallsAreNumbers, Zenon
<1>4. pc'[q] <= k
  BY <1>1, <1>2, <1>3
<1> QED BY <1>b, <1>1, <1>4, Zenon DEF OnListIn, Instances, Program

\* A destruction is put on the list, and a fence of the instance is to come.
LEMMA DestroysListed ==
  ASSUME InStep, DoomedAgrees, Kinds, NEW p \in Instances, Destroys(p)
  PROVE  DoomedAgrees'
<1> DEFINE S == NamedIn(launch, p, pc[p])
           m == ManagerIn(launch, launch.roles[p][pc[p]].m)
<1>1. /\ At(p, "destroy") /\ GoesOn(p) /\ asked' = asked \cup S /\ slots' = slots /\ launch' = launch
      /\ doomed' = [doomed EXCEPT ![p] = doomed[p] \cup ({m} \X S)]
  BY PublishedText, AtCall, Zenon DEF Destroys, DestroyGlobalMemorySlot, GoesOn, Manager, Program
<1>2. pc[p] \in CallsOf(launch, p, "destroy") /\ pc[p] \in Nat \ {0} /\ Entered(p) = Round(launch, p, pc[p])
  BY <1>1, AtCall, Zenon
<1>3. /\ DOMAIN doomed' = Instances
      /\ doomed'[p] = doomed[p] \cup ({m} \X S)
      /\ \A q \in Instances : doomed[q] \subseteq doomed'[q]
  BY <1>1 DEF DoomedAgrees
<1>4. CASE Backend = "pthreads"
  BY <1>1, <1>3, <1>4, Zenon DEF DoomedAgrees, Instances, Program, Backend
<1>5. CASE Backend # "pthreads"
  <2>1. ASSUME NEW s \in S PROVE OnListIn(launch, pc', doomed', s)
    <3>1. PICK k \in CallsOf(launch, p, "fence") : pc[p] < k /\ TagIn(launch, p, k) = <<m, s[2]>>
      BY <1>2, <1>5, <2>1, Zenon DEF DoomedAgrees, DestructionsFenced, Instances, Program, Backend
    <3>2. k \in Nat \ {0}
      BY CallsAreNumbers, Zenon
    <3>3. pc'[p] <= k
      BY <1>1, <1>2, <3>1, <3>2 DEF GoesOn, InStep
    <3>4. <<m, s>> \in doomed'[p] /\ <<m, s>>[1] = m /\ <<m, s>>[2] = s
      BY <1>3, <2>1
    <3> HIDE DEF S, m
    <3> QED BY <3>1, <3>3, <3>4, Zenon DEF OnListIn, Instances, Program
  <2>2. ASSUME NEW s \in S PROVE PublishedOut(launch, pc, s)
    <3>1. /\ ~PromotedBy(launch, s)
          /\ \A q \in Instances : \A j \in CallsOf(launch, q, "exchange") :
               s \in PublishedIn(launch, q, j) => Round(launch, q, j) < Round(launch, p, pc[p])
      BY <1>2, <1>5, <2>2, Zenon DEF DoomedAgrees, DestructionsFenced, PromotedBy, Instances, Program, Backend
    <3>2. ASSUME NEW q \in Instances, NEW j \in CallsOf(launch, q, "exchange"), s \in PublishedIn(launch, q, j)
          PROVE  j < pc[q]
      <4>1. j \in Nat \ {0} /\ pc[q] \in Nat \ {0}
        BY CallsAreNumbers, CountersGrow, Zenon
      <4>2. /\ pc[q] <= j => Round(launch, q, pc[q]) <= Round(launch, q, j)
            /\ Round(launch, q, j) \in Nat /\ Round(launch, q, pc[q]) \in Nat
        BY <4>1, Zenon DEF InStep, Numbered, Instances, Program
      <4>3. Round(launch, q, pc[q]) = Round(launch, p, pc[p])
        BY <1>2, <1>5, Zenon DEF InStep, Entered
      <4>4. Round(launch, q, j) < Round(launch, q, pc[q])
        BY <3>1, <3>2, <4>3, Zenon
      <4> QED BY <4>1, <4>2, <4>4
    <3> QED BY <3>1, <3>2, Zenon DEF PublishedOut, Instances, Program
  <2>3. \A s \in asked : (s \in DOMAIN slots => OnListIn(launch, pc', doomed', s)) /\ PublishedOut(launch, pc, s)
    BY <1>1, <1>3, <1>5, ListStays, Zenon DEF DoomedAgrees
  <2>4. \A s \in asked \cup S : PublishedOut(launch, pc', s) /\ (s \in DOMAIN slots => OnListIn(launch, pc', doomed', s))
    <3> HIDE DEF S
    <3> QED BY <2>1, <2>2, <2>3, OutStays, Zenon
  <2> HIDE DEF S, m
  <2> QED BY <1>1, <1>3, <1>5, <2>4, Zenon DEF DoomedAgrees, Instances, Program, Backend
<1> QED BY <1>4, <1>5, Zenon

\* A collective fence destroys what is on the lists of its tag, and leaves the
\* rest to later fences.
LEMMA FencesListed ==
  ASSUME InStep, DoomedAgrees, Kinds, FencesAll
  PROVE  DoomedAgrees'
<1>1. /\ asked' = asked /\ slots' = SlotsWithout(ToDestroy) /\ launch' = launch /\ Instances' = Instances
      /\ doomed' = [p \in Instances |-> {d \in doomed[p] : <<d[1], d[2][2]>> # TagOf(p)}]
      /\ pc' = [p \in Instances |-> pc[p] + 1] /\ Backend # "pthreads"
  BY Zenon DEF FencesAll, LeaveFenceAll, Pass, Instances, Program
<1>2. DOMAIN slots' = DOMAIN slots \ ToDestroy
  BY <1>1 DEF SlotsWithout
<1>3. ASSUME NEW s, OnListIn(launch, pc, doomed, s), s \notin ToDestroy
      PROVE  OnListIn(launch, pc', doomed', s)
  <2>1. PICK p \in Instances : \E e \in doomed[p] :
          e[2] = s /\ \E k \in CallsOf(launch, p, "fence") : pc[p] <= k /\ TagIn(launch, p, k) = <<e[1], s[2]>>
    BY <1>3, Zenon DEF OnListIn, Instances, Program
  <2>2. PICK e \in doomed[p] :
          e[2] = s /\ \E k \in CallsOf(launch, p, "fence") : pc[p] <= k /\ TagIn(launch, p, k) = <<e[1], s[2]>>
    BY <2>1, Zenon
  <2>3. PICK k \in CallsOf(launch, p, "fence") : pc[p] <= k /\ TagIn(launch, p, k) = <<e[1], s[2]>>
    BY <2>2, Zenon
  <2>4. <<e[1], e[2][2]>> # TagOf(p)
    <3>1. SUFFICES ASSUME <<e[1], e[2][2]>> = TagOf(p) PROVE e[2] \in ToDestroy
      BY <1>3, <2>2, Zenon
    <3>2. e \in UNION {{d \in doomed[q] : <<d[1], d[2][2]>> = TagOf(q)} : q \in Instances}
      <4>1. e \in {d \in doomed[p] : <<d[1], d[2][2]>> = TagOf(p)}
        BY <3>1, Zenon
      <4> QED BY <4>1, Zenon
    <3> QED BY <3>2, Zenon DEF ToDestroy
  <2>5. e \in doomed'[p]
    BY <1>1, <2>4, Zenon
  <2>6. k # pc[p]
    BY <2>2, <2>3, <2>4, PublishedText, Zenon
  <2>7. k \in Nat \ {0} /\ pc[p] \in Nat \ {0} /\ pc'[p] = pc[p] + 1
    BY <1>1, CallsAreNumbers, CountersGrow, Zenon
  <2>8. pc'[p] <= k
    BY <2>3, <2>6, <2>7
  <2> QED BY <2>2, <2>3, <2>5, <2>8, Zenon DEF OnListIn, Instances, Program
<1>4. \A s \in asked : PublishedOut(launch, pc', s) /\ (s \in DOMAIN slots' => OnListIn(launch, pc', doomed', s))
  BY <1>1, <1>2, <1>3, OutStays, Zenon DEF DoomedAgrees
<1>5. DOMAIN doomed' = Instances
  BY <1>1, Zenon
<1> QED BY <1>1, <1>4, <1>5, Zenon DEF DoomedAgrees, Program, Backend

\* So it is for every step.
LEMMA KindsDoomed == InStep /\ DoomedAgrees /\ Kinds => DoomedAgrees'
<1> SUFFICES ASSUME InStep, DoomedAgrees, Kinds PROVE DoomedAgrees'
  BY Zenon
<1>1. launch' = launch /\ Instances' = Instances /\ Backend' = Backend
  BY CountersGrow, Zenon DEF Backend, Program
\* It is enough to look at the slots asked for before, when no list shrinks.
<1>2. ASSUME asked' = asked, DOMAIN doomed' = Instances,
             Backend # "pthreads" =>
               \A s \in asked : s \in DOMAIN slots' => s \in DOMAIN slots /\ OnListIn(launch, pc', doomed', s)
      PROVE  DoomedAgrees'
  BY <1>1, <1>2, OutStays, Zenon DEF DoomedAgrees
<1>3. CASE UNCHANGED <<pc, asked, doomed, slots>>
  <2>1. pc' = pc /\ asked' = asked /\ doomed' = doomed /\ slots' = slots
    BY <1>3, Zenon
  <2> QED BY <1>1, <2>1, Zenon DEF DoomedAgrees
<1>4. ASSUME NEW p \in Instances, GoesOn(p), UNCHANGED <<asked, doomed>>,
             Backend # "pthreads" => \A s \in asked : s \in DOMAIN slots' => s \in DOMAIN slots
      PROVE  DoomedAgrees'
  <2>1. asked' = asked /\ doomed' = doomed
    BY <1>4, Zenon
  <2>2. \A s : OnListIn(launch, pc, doomed, s) => OnListIn(launch, pc', doomed, s)
    BY <1>4, ListStays, Zenon
  <2>3. \A s \in asked : Backend # "pthreads" /\ s \in DOMAIN slots' => s \in DOMAIN slots /\ OnListIn(launch, pc', doomed', s)
    BY <1>4, <2>1, <2>2, Zenon DEF DoomedAgrees
  <2>4. DOMAIN doomed' = Instances
    BY <2>1, Zenon DEF DoomedAgrees
  <2> QED BY <1>2, <2>1, <2>3, <2>4, Zenon
<1>5. ASSUME NEW p \in Instances, StepOf(p) PROVE DoomedAgrees'
  <2>1. CASE Destroys(p)
    BY <2>1, DestroysListed, Zenon
  <2>2. CASE GoesOn(p) /\ UNCHANGED <<asked, doomed, slots>>
    BY <1>4, <2>2, Zenon
  <2>3. CASE Inserts(p)
    BY <1>4, <2>3, Zenon DEF Inserts, ExchangeInsert
  <2>4. CASE Promotes(p)
    <3> DEFINE t == Real(Statement(p).slot)
    <3>1. At(p, "promote") /\ GoesOn(p) /\ slots' = With(slots, [s \in {t} |-> <<p, Real(Statement(p).buffer)>>])
      BY <2>4, Zenon DEF Promotes, PromoteSlot
    <3>2. DOMAIN slots' = DOMAIN slots \cup {t}
      BY <3>1 DEF With
    <3>3. PromotedBy(launch, t)
      BY <3>1, AtCall, Zenon DEF PromotedBy, Real, Program, Instances
    <3>4. Backend # "pthreads" => t \notin asked
      BY <3>3, Zenon DEF DoomedAgrees, PublishedOut
    <3>5. UNCHANGED <<asked, doomed>>
      BY <2>4, Zenon DEF Promotes, PromoteSlot
    <3> HIDE DEF t
    <3> QED BY <1>4, <3>1, <3>2, <3>4, <3>5, Zenon
  <2>5. CASE Demotes(p)
    <3>1. GoesOn(p) /\ UNCHANGED <<asked, doomed>> /\ (slots' = slots \/ \E s : slots' = SlotsWithout({s}))
      BY <2>5, Zenon DEF Demotes, DestroyPromotedLpf
    <3>2. DOMAIN slots' \subseteq DOMAIN slots
      <4>1. ASSUME NEW t, slots' = SlotsWithout({t}) PROVE DOMAIN slots' \subseteq DOMAIN slots
        BY <4>1 DEF SlotsWithout
      <4> QED BY <3>1, <4>1, Zenon
    <3> QED BY <1>4, <3>1, <3>2, Zenon
  <2>6. CASE LooksUp(p)
    BY <1>3, <2>6, Zenon DEF LooksUp, Bookkeeping
  <2>7. CASE Leaves(p)
    <3>1. Backend = "pthreads" /\ asked' = asked /\ DOMAIN doomed' = DOMAIN doomed
      BY <2>7 DEF InStep, Leaves
    <3> QED BY <1>2, <3>1, Zenon DEF DoomedAgrees
  <2> QED BY <1>5, <2>1, <2>2, <2>3, <2>4, <2>5, <2>6, <2>7, Zenon
          DEF StepOf, Quiet, Deregisters, Opens, Allocates, Allocated, Frees, Freed, Queues, Bookkeeping
<1>6. CASE ExchangesAll
  <2> DEFINE new == UNION {Published(p) : p \in Instances}
  <2>1. /\ asked' = asked /\ doomed' = doomed /\ slots' = With(slots, [s \in new |-> <<Publisher(s), s>>])
        /\ \A p \in Instances : At(p, "exchange")
        /\ pc' = [p \in Instances |-> pc[p] + 1]
    BY <1>6, Zenon DEF ExchangesAll, ExchangeAll, Pass
  <2>2. DOMAIN slots' = DOMAIN slots \cup new
    <3> HIDE DEF new
    <3> QED BY <2>1 DEF With
  <2>3. Backend # "pthreads" => \A s \in asked : s \notin new
    <3> SUFFICES ASSUME Backend # "pthreads", NEW s \in asked, NEW p \in Instances, s \in Published(p) PROVE FALSE
      BY Zenon
    <3>1. s \in PublishedIn(launch, p, pc[p]) /\ pc[p] \in CallsOf(launch, p, "exchange") /\ pc[p] \in Nat
      BY <2>1, AtCall, PublishedText, Zenon
    <3>2. pc[p] < pc[p]
      BY <3>1, Zenon DEF DoomedAgrees, PublishedOut, Instances, Program
    <3> QED BY <3>1, <3>2
  <2>4. ASSUME NEW s, OnListIn(launch, pc, doomed, s) PROVE OnListIn(launch, pc', doomed, s)
    <3>1. \A p \in Instances : \A k \in CallsOf(launch, p, "fence") : pc[p] <= k => pc'[p] <= k
      <4> SUFFICES ASSUME NEW p \in Instances, NEW k \in CallsOf(launch, p, "fence"), pc[p] <= k PROVE pc'[p] <= k
        BY Zenon
      <4>1. k # pc[p]
        BY <2>1, AtCall, Zenon DEF CallsOf
      <4>2. k \in Nat \ {0} /\ pc[p] \in Nat \ {0} /\ pc'[p] = pc[p] + 1
        BY <2>1, CallsAreNumbers, CountersGrow, Zenon
      <4> QED BY <4>1, <4>2
    <3> QED BY <2>4, <3>1, Zenon DEF OnListIn, Instances, Program
  <2> HIDE DEF new
  <2>5. Backend # "pthreads" =>
          \A s \in asked : s \in DOMAIN slots' => s \in DOMAIN slots /\ OnListIn(launch, pc', doomed', s)
    BY <2>1, <2>2, <2>3, <2>4, Zenon DEF DoomedAgrees
  <2>6. DOMAIN doomed' = Instances
    BY <2>1, Zenon DEF DoomedAgrees
  <2> QED BY <1>2, <2>1, <2>5, <2>6, Zenon
<1>7. CASE FencesAll
  BY <1>7, FencesListed, Zenon
<1> QED BY <1>3, <1>5, <1>6, <1>7, Zenon DEF Kinds, Still, Lands, Enters, Bookkeeping

-----------------------------------------------------------------------------
(* Lifetimes                                                                *)

\* The rounds the instances are in.
Rounds == [q \in Instances |-> Entered(q)]

\* A destruction of the slot was asked for in a round that is over.
FencedIn(l, n, s) ==
  \E q \in DOMAIN l.roles : \E d \in CallsOf(l, q, "destroy") : s \in NamedIn(l, q, d) /\ Round(l, q, d) < n[q]

\* A published slot exists until then.
SlotsKept ==
  \A q \in Instances : \A j \in CallsOf(launch, q, "exchange") : \A s \in PublishedIn(launch, q, j) :
    j < pc[q] => s \in DOMAIN slots \/ (Backend # "pthreads" /\ FencedIn(launch, Rounds, s))

\* A buffer is allocated until it is freed, or its window is.
ReleasedIn(l, c, n, q, b) ==
  IF l.backend = "mpi" THEN FencedIn(l, n, b)
                       ELSE \E f \in CallsOf(l, q, "free") : f < c[q] /\ b \in NamedIn(l, q, f)

MemKept ==
  \A q \in Instances : \A a \in CallsOf(launch, q, "allocate") : \A b \in NamedIn(launch, q, a) :
    a < pc[q] => <<q, b>> \in mem \/ ReleasedIn(launch, pc, Rounds, q, b)

\* The lists of slots to destroy come from the calls that were made.
ListsFromCalls ==
  /\ DOMAIN doomed = Instances
  /\ \A p \in Instances : \A e \in doomed[p] :
       \E i \in CallsOf(launch, p, "destroy") : i < pc[p] /\ e[2] \in NamedIn(launch, p, i)

\* With MPI a slot has the name of its buffer, the two maps hold existing slots, a slot is in one of them, and a
\* deregistered one is published by nobody any more.
MapsAgree ==
  Backend = "mpi" =>
    /\ DOMAIN reg = Instances /\ DOMAIN gone = Instances
    /\ \A s \in DOMAIN slots : slots[s][2] = s
    /\ \A p \in Instances :
         /\ reg[p] \subseteq DOMAIN slots /\ gone[p] \subseteq DOMAIN slots /\ reg[p] \cap gone[p] = {}
         /\ \A s \in gone[p] : \A q \in Instances : \A j \in CallsOf(launch, q, "exchange") :
              s \in PublishedIn(launch, q, j) => j < pc[q]

\* A copy is pending between two allocated buffers only with LPF, and until the
\* next fence of the instance that asked for it.
AskedFor(l, c, e) ==
  \E p \in DOMAIN l.roles : \E i \in CallsOf(l, p, "memcpy") :
    /\ i < c[p] /\ \A k \in CallsOf(l, p, "fence") : i < k => c[p] <= k
    /\ {e.from[2], e.to[2]} \subseteq {RealIn(l, l.roles[p][i].local), RealIn(l, l.roles[p][i].global)}

CopiesAgree ==
  \A e \in copies : Backend = "lpf" /\ e.from \in mem /\ e.to \in mem /\ AskedFor(launch, pc, e)

LifeInv ==
  /\ InStep /\ FromCalls /\ LifetimesOrdered(launch)
  /\ SlotsKept /\ MemKept /\ ListsFromCalls /\ MapsAgree /\ CopiesAgree

\* A fenced destruction stays so.
LEMMA FencedStays ==
  ASSUME InStep, Kinds, NEW s, FencedIn(launch, Rounds, s)
  PROVE  FencedIn(launch, Rounds', s)
<1>1. PICK q \in Instances : \E d \in CallsOf(launch, q, "destroy") : s \in NamedIn(launch, q, d) /\ Round(launch, q, d) < Rounds[q]
  BY Zenon DEF FencedIn, Instances, Program
<1>2. PICK d \in CallsOf(launch, q, "destroy") : s \in NamedIn(launch, q, d) /\ Round(launch, q, d) < Rounds[q]
  BY <1>1, Zenon
<1>3. Rounds[q] = Entered(q) /\ Rounds'[q] = Entered(q)' /\ (Entered(q)' = Entered(q) \/ Entered(q)' = Entered(q) + 1)
  BY KindsInStep, CountersGrow, Zenon DEF Rounds, RoundsAdvance
<1>4. d \in Nat \ {0} /\ pc[q] \in Nat \ {0}
  BY CallsAreNumbers, CountersGrow, Zenon
<1>5. Round(launch, q, d) \in Nat /\ Round(launch, q, pc[q]) \in Nat
  BY <1>4, Zenon DEF InStep, Numbered, Instances, Program
<1>6. Round(launch, q, d) < Rounds'[q]
  BY <1>2, <1>3, <1>5 DEF Entered
<1> QED BY <1>2, <1>6, Zenon DEF FencedIn, Instances, Program

\* The calls of a kind that no instance makes in a step were made before.
LEMMA MadeBefore ==
  ASSUME InStep, Kinds, NEW op,
         \A q \in Instances : pc'[q] = pc[q] \/ (pc'[q] = pc[q] + 1 /\ pc[q] \notin CallsOf(launch, q, op))
  PROVE  \A q \in Instances : \A j \in CallsOf(launch, q, op) : j < pc'[q] => j < pc[q]
<1> SUFFICES ASSUME NEW q \in Instances, NEW j \in CallsOf(launch, q, op), j < pc'[q] PROVE j < pc[q]
  BY Zenon
<1>1. j \in Nat \ {0} /\ pc[q] \in Nat \ {0}
  BY CallsAreNumbers, CountersGrow, Zenon
<1>2. CASE pc'[q] = pc[q]
  BY <1>2, Zenon
<1>3. CASE pc'[q] = pc[q] + 1 /\ j # pc[q]
  BY <1>1, <1>3
<1> QED BY <1>2, <1>3, Zenon

\* An instance makes one call at a time.
LEMMA OneCall ==
  ASSUME InStep, Kinds, NEW p \in Instances, pc' = [pc EXCEPT ![p] = @ + 1], NEW op, pc[p] \notin CallsOf(launch, p, op)
  PROVE  \A q \in Instances : \A j \in CallsOf(launch, q, op) : j < pc'[q] => j < pc[q]
<1>1. \A q \in Instances : pc'[q] = pc[q] \/ (pc'[q] = pc[q] + 1 /\ pc[q] \notin CallsOf(launch, q, op))
  BY DEF InStep
<1> QED BY <1>1, MadeBefore, Zenon

\* What an instance at a call does not call.
LEMMA OtherCall ==
  ASSUME NEW p \in Instances, NEW op, Statement(p).op # op
  PROVE  pc[p] \notin CallsOf(launch, p, op)
  BY Zenon DEF CallsOf, Statement, Program

\* A call that is ordered before the one an instance is at has been made,
LEMMA BeforeMade ==
  ASSUME InStep, NEW p \in Instances, Entered(p) = Round(launch, p, pc[p]), NEW op, op # "fence",
         NEW q \in Instances, NEW j \in CallsOf(launch, q, op), Before(launch, q, j, p, pc[p])
  PROVE  j < pc[q]
<1>1. pc[p] \in Nat \ {0} /\ pc[q] \in Nat \ {0}
  BY DEF InStep
<1>2. j \in Nat \ {0}
  BY CallsAreNumbers, Zenon
<1>3. CASE p = q /\ j < pc[p]
  BY <1>3, Zenon
<1>4. CASE Round(launch, q, j) < Round(launch, p, pc[p])
  <2>1. CASE phase[q] = "run"
    <3>1. Entered(q) = Round(launch, q, pc[q]) /\ Entered(p) = Entered(q)
      BY <2>1, Zenon DEF InStep, Entered
    <3>2. /\ pc[q] <= j => Round(launch, q, pc[q]) <= Round(launch, q, j)
          /\ Round(launch, q, j) \in Nat /\ Round(launch, q, pc[q]) \in Nat
      BY <1>1, <1>2, Zenon DEF InStep, Numbered, Instances, Program
    <3> QED BY <1>1, <1>2, <1>4, <3>1, <3>2
  <2>2. CASE phase[q] # "run"
    <3>1. /\ Entered(q) = Round(launch, q, pc[q]) + 1 /\ Entered(p) = Entered(q)
          /\ pc[q] \in CallsOf(launch, q, "fence") /\ pc[q] \in Collectives(launch, q)
      BY <2>2, Zenon DEF InStep, Entered, Collectives
    <3>2. pc[q] + 1 \in Nat \ {0}
      BY <1>1
    <3>3. /\ pc[q] + 1 <= j => Round(launch, q, pc[q] + 1) <= Round(launch, q, j)
          /\ Round(launch, q, j) \in Nat /\ Round(launch, q, pc[q]) \in Nat
          /\ Round(launch, q, pc[q] + 1) = Round(launch, q, pc[q]) + 1
      BY <1>1, <1>2, <3>1, <3>2, Zenon DEF InStep, Numbered, Instances, Program
    <3>4. j # pc[q]
      BY <3>1, Zenon DEF CallsOf
    <3> QED BY <1>1, <1>2, <1>4, <3>1, <3>3, <3>4
  <2> QED BY <2>1, <2>2, Zenon
<1> QED BY <1>3, <1>4, Zenon DEF Before

\* and one that is ordered after it has not.
LEMMA AfterNotMade ==
  ASSUME InStep, NEW p \in Instances, Entered(p) = Round(launch, p, pc[p]),
         NEW q \in Instances, NEW f \in Nat \ {0}, Before(launch, p, pc[p], q, f)
  PROVE  ~(f < pc[q])
<1>1. pc[p] \in Nat \ {0} /\ pc[q] \in Nat \ {0}
  BY DEF InStep
<1>2. CASE p = q /\ pc[p] < f
  BY <1>1, <1>2
<1>3. CASE Round(launch, p, pc[p]) < Round(launch, q, f)
  <2>1. Entered(p) = Entered(q) /\ Entered(q) \in {Round(launch, q, pc[q]), Round(launch, q, pc[q]) + 1}
    BY Zenon DEF InStep, Entered
  <2>2. /\ f <= pc[q] => Round(launch, q, f) <= Round(launch, q, pc[q])
        /\ Round(launch, q, f) \in Nat /\ Round(launch, q, pc[q]) \in Nat
    BY <1>1, Zenon DEF InStep, Numbered, Instances, Program
  <2> QED BY <1>1, <1>3, <2>1, <2>2
<1> QED BY <1>2, <1>3, Zenon DEF Before

\* No destruction that is ordered after a call is over when it is made.
LEMMA NotFenced ==
  ASSUME InStep, NEW p \in Instances, Entered(p) = Round(launch, p, pc[p]), NEW s, Undestroyed(launch, s, p, pc[p])
  PROVE  ~FencedIn(launch, Rounds, s)
<1> SUFFICES ASSUME NEW q \in Instances, NEW d \in CallsOf(launch, q, "destroy"), s \in NamedIn(launch, q, d),
                    Round(launch, q, d) < Rounds[q]
             PROVE  FALSE
  BY Zenon DEF FencedIn, Instances, Program
<1>1. Rounds[q] = Round(launch, p, pc[p])
  BY Zenon DEF Rounds, InStep
<1>2. Round(launch, p, pc[p]) <= Round(launch, q, d)
  BY Zenon DEF Undestroyed, Instances, Program
<1>3. d \in Nat \ {0} /\ pc[p] \in Nat \ {0}
  BY CallsAreNumbers, Zenon DEF InStep
<1>4. Round(launch, p, pc[p]) \in Nat /\ Round(launch, q, d) \in Nat
  BY <1>3, Zenon DEF InStep, Numbered, Instances, Program
<1> QED BY <1>1, <1>2, <1>4

\* So what the text says is held is in memory,
LEMMA HeldInMemory ==
  ASSUME LifeInv, NEW p \in Instances, Entered(p) = Round(launch, p, pc[p]), NEW q \in Instances, NEW b,
         Holds(launch, q, b, p, pc[p])
  PROVE  <<q, b>> \in mem
<1>0. InStep /\ MemKept
  BY Zenon DEF LifeInv
<1>1. PICK a \in CallsOf(launch, q, "allocate") : b \in NamedIn(launch, q, a) /\ Before(launch, q, a, p, pc[p])
  BY Zenon DEF Holds
<1>2. a < pc[q]
  BY <1>0, <1>1, BeforeMade, Zenon
<1>3. ~FencedIn(launch, Rounds, b)
  BY <1>0, NotFenced, Zenon DEF Holds
<1>4. Backend # "mpi" => ~\E f \in CallsOf(launch, q, "free") : f < pc[q] /\ b \in NamedIn(launch, q, f)
  BY <1>0, AfterNotMade, CallsAreNumbers, Zenon DEF Holds, Backend, Program
<1>5. <<q, b>> \in mem \/ ReleasedIn(launch, pc, Rounds, q, b)
  BY <1>0, <1>1, <1>2, Zenon DEF MemKept
<1> QED BY <1>3, <1>4, <1>5, Zenon DEF ReleasedIn, Backend, Program

\* and a slot it reaches exists, on a buffer in memory.
LEMMA ReachedLive ==
  ASSUME LifeInv, NEW p \in Instances, Entered(p) = Round(launch, p, pc[p]), NEW s, Reaches(launch, p, pc[p], s)
  PROVE  s \in DOMAIN slots /\ slots[s] \in mem /\ slots[s][2] = s
<1>1. InStep /\ FromCalls /\ OnePublisher(launch) /\ SlotsKept
  BY Zenon DEF LifeInv, LifetimesOrdered
<1>2. PICK q \in Instances :
        /\ \E j \in CallsOf(launch, q, "exchange") : s \in PublishedIn(launch, q, j) /\ Before(launch, q, j, p, pc[p])
        /\ Holds(launch, q, s, p, pc[p])
  BY Zenon DEF Reaches, Instances, Program
<1>3. PICK j \in CallsOf(launch, q, "exchange") : s \in PublishedIn(launch, q, j) /\ Before(launch, q, j, p, pc[p])
  BY <1>2, Zenon
<1>4. j < pc[q]
  BY <1>1, <1>3, BeforeMade, Zenon
<1>5. ~FencedIn(launch, Rounds, s)
  BY <1>1, <1>2, NotFenced, Zenon DEF Holds
<1>6. s \in DOMAIN slots
  BY <1>1, <1>3, <1>4, <1>5, Zenon DEF SlotsKept
<1>7. ~PromotedBy(launch, s)
  BY <1>1, <1>3, Zenon DEF OnePublisher, PromotedBy, Instances, Program
<1>8. PICK r \in Instances : \E k \in CallsOf(launch, r, "exchange") : s \in PublishedIn(launch, r, k) /\ slots[s] = <<r, s>>
  BY <1>1, <1>6, <1>7, Zenon DEF FromCalls, PublishedBy, Instances, Program
<1>9. r = q
  BY <1>1, <1>3, <1>8, Zenon DEF OnePublisher, Instances, Program
<1>10. <<q, s>> \in mem
  BY <1>2, HeldInMemory, Zenon
<1> QED BY <1>6, <1>8, <1>9, <1>10

\* The destroyed slots are ones whose destruction was asked for in this round.
LEMMA DestroyedFenced ==
  ASSUME LifeInv, Kinds, FencesAll, NEW s \in ToDestroy
  PROVE  FencedIn(launch, Rounds', s)
<1>1. PICK p \in Instances : \E e \in doomed[p] : e[2] = s
  BY Zenon DEF ToDestroy
<1>2. PICK i \in CallsOf(launch, p, "destroy") : i < pc[p] /\ s \in NamedIn(launch, p, i)
  BY <1>1, Zenon DEF LifeInv, ListsFromCalls
<1>3. InStep /\ At(p, "fence") /\ pc' = [q \in Instances |-> pc[q] + 1] /\ phase' = phase /\ launch' = launch
  BY Zenon DEF LifeInv, FencesAll, Pass
<1>4. pc[p] \in Collectives(launch, p) /\ pc[p] \in Nat \ {0} /\ phase[p] = "run" /\ i \in Nat \ {0}
  BY <1>3, AtCall, CallsAreNumbers, Zenon DEF Collectives
<1>5. /\ Rounds'[p] = Round(launch, p, pc[p] + 1)
      /\ Round(launch, p, pc[p] + 1) = Round(launch, p, pc[p]) + 1
      /\ i <= pc[p] => Round(launch, p, i) <= Round(launch, p, pc[p])
      /\ Round(launch, p, i) \in Nat /\ Round(launch, p, pc[p]) \in Nat
  <2>1. Rounds'[p] = Round(launch, p, pc[p] + 1)
    BY <1>3, <1>4, CountersGrow, Zenon DEF Rounds, Entered
  <2> QED BY <1>3, <1>4, <2>1, Zenon DEF InStep, Numbered, Instances, Program
<1>6. Round(launch, p, i) < Rounds'[p]
  BY <1>2, <1>4, <1>5
<1> QED BY <1>2, <1>6, Zenon DEF FencedIn, Instances, Program

\* Only an exchange publishes, and only an allocation allocates.
LEMMA NotPublishing ==
  ASSUME InStep, Kinds, NEW p \in Instances, StepOf(p), ~Inserts(p)
  PROVE  \A q \in Instances : \A j \in CallsOf(launch, q, "exchange") : j < pc'[q] => j < pc[q]
<1>1. CASE pc' = pc
  BY <1>1, Zenon
<1>2. ASSUME pc' = [pc EXCEPT ![p] = @ + 1], Statement(p).op # "exchange"
      PROVE  \A q \in Instances : \A j \in CallsOf(launch, q, "exchange") : j < pc'[q] => j < pc[q]
  BY <1>2, OtherCall, OneCall, Zenon
<1>3. CASE Quiet(p)
  BY <1>2, <1>3, Zenon DEF Quiet, GoesOn
<1>4. CASE Deregisters(p)
  BY <1>2, <1>4 DEF Deregisters, GoesOn, At
<1>5. CASE Opens(p)
  BY <1>2, <1>5 DEF Opens, GoesOn, At
<1>6. CASE Allocates(p)
  BY <1>2, <1>6 DEF Allocates, Allocated, GoesOn, At
<1>7. CASE Frees(p)
  BY <1>2, <1>7 DEF Frees, Freed, GoesOn, At
<1>8. CASE Destroys(p)
  BY <1>2, <1>8 DEF Destroys, DestroyGlobalMemorySlot, GoesOn, At
<1>9. CASE Queues(p)
  BY <1>2, <1>9 DEF Queues, GoesOn, At
<1>10. CASE Promotes(p)
  BY <1>2, <1>10 DEF Promotes, PromoteSlot, GoesOn, At
<1>11. CASE Demotes(p)
  BY <1>2, <1>11 DEF Demotes, DestroyPromotedLpf, GoesOn, At
<1>12. CASE LooksUp(p)
  BY <1>1, <1>12, Zenon DEF LooksUp
<1>13. CASE Leaves(p)
  <2>1. pc[p] \in CallsOf(launch, p, "fence") /\ pc' = [pc EXCEPT ![p] = @ + 1]
    BY <1>13, Zenon DEF Leaves, InStep
  <2>2. pc[p] \notin CallsOf(launch, p, "exchange")
    BY <2>1 DEF CallsOf
  <2> QED BY <2>1, <2>2, OneCall, Zenon
<1> QED BY <1>3, <1>4, <1>5, <1>6, <1>7, <1>8, <1>9, <1>10, <1>11, <1>12, <1>13, Zenon DEF StepOf

\* (The same of allocations.)
LEMMA NotAllocating ==
  ASSUME InStep, Kinds, NEW p \in Instances, StepOf(p), ~Allocates(p)
  PROVE  \A q \in Instances : \A j \in CallsOf(launch, q, "allocate") : j < pc'[q] => j < pc[q]
<1>1. CASE pc' = pc
  BY <1>1, Zenon
<1>2. ASSUME pc' = [pc EXCEPT ![p] = @ + 1], Statement(p).op # "allocate"
      PROVE  \A q \in Instances : \A j \in CallsOf(launch, q, "allocate") : j < pc'[q] => j < pc[q]
  BY <1>2, OtherCall, OneCall, Zenon
<1>3. CASE Quiet(p)
  BY <1>2, <1>3, Zenon DEF Quiet, GoesOn
<1>4. CASE Deregisters(p)
  BY <1>2, <1>4 DEF Deregisters, GoesOn, At
<1>5. CASE Opens(p)
  BY <1>2, <1>5 DEF Opens, GoesOn, At
<1>6. CASE Inserts(p)
  BY <1>2, <1>6 DEF Inserts, ExchangeInsert, GoesOn, At
<1>7. CASE Frees(p)
  BY <1>2, <1>7 DEF Frees, Freed, GoesOn, At
<1>8. CASE Destroys(p)
  BY <1>2, <1>8 DEF Destroys, DestroyGlobalMemorySlot, GoesOn, At
<1>9. CASE Queues(p)
  BY <1>2, <1>9 DEF Queues, GoesOn, At
<1>10. CASE Promotes(p)
  BY <1>2, <1>10 DEF Promotes, PromoteSlot, GoesOn, At
<1>11. CASE Demotes(p)
  BY <1>2, <1>11 DEF Demotes, DestroyPromotedLpf, GoesOn, At
<1>12. CASE LooksUp(p)
  BY <1>1, <1>12, Zenon DEF LooksUp
<1>13. CASE Leaves(p)
  <2>1. pc[p] \in CallsOf(launch, p, "fence") /\ pc' = [pc EXCEPT ![p] = @ + 1]
    BY <1>13, Zenon DEF Leaves, InStep
  <2>2. pc[p] \notin CallsOf(launch, p, "allocate")
    BY <2>1 DEF CallsOf
  <2> QED BY <2>1, <2>2, OneCall, Zenon
<1> QED BY <1>3, <1>4, <1>5, <1>6, <1>7, <1>8, <1>9, <1>10, <1>11, <1>12, <1>13, Zenon DEF StepOf

\* The instances that pass a collective call make no other.
LEMMA PassMakesOne ==
  ASSUME InStep, Kinds, NEW op, Pass(op), NEW other, other # op
  PROVE  \A q \in Instances : \A j \in CallsOf(launch, q, other) : j < pc'[q] => j < pc[q]
<1>1. ASSUME NEW q \in Instances PROVE pc'[q] = pc[q] + 1 /\ pc[q] \notin CallsOf(launch, q, other)
  <2>1. pc'[q] = pc[q] + 1 /\ Statement(q).op = op
    BY Zenon DEF Pass, At
  <2> QED BY <2>1, OtherCall, Zenon
<1> QED BY <1>1, MadeBefore, Zenon

\* Published slots are kept.
LEMMA KindsSlotsKept == LifeInv /\ Kinds => SlotsKept'
<1> SUFFICES ASSUME LifeInv, Kinds PROVE SlotsKept'
  BY Zenon
<1>1. InStep /\ SlotsKept /\ OnePublisher(launch)
  BY Zenon DEF LifeInv, LifetimesOrdered
<1>2. launch' = launch /\ Instances' = Instances /\ Backend' = Backend /\ Instances = DOMAIN launch.roles
  BY <1>1, CountersGrow, Zenon DEF Backend, Program, Instances
<1>3. ASSUME \A q \in Instances : \A j \in CallsOf(launch, q, "exchange") : \A s \in PublishedIn(launch, q, j) :
               /\ j < pc'[q] => j < pc[q] \/ s \in DOMAIN slots'
               /\ s \in DOMAIN slots => s \in DOMAIN slots' \/ (Backend # "pthreads" /\ FencedIn(launch, Rounds', s))
      PROVE  SlotsKept'
  BY <1>1, <1>2, <1>3, FencedStays, Zenon DEF SlotsKept
<1>4. CASE pc' = pc /\ slots' = slots
  BY <1>3, <1>4, Zenon
<1>5. ASSUME NEW p \in Instances, StepOf(p) PROVE SlotsKept'
  <2>1. CASE Inserts(p)
    <3>1. /\ At(p, "exchange") /\ slots' = With(slots, [s \in Published(p) |-> <<p, s>>])
          /\ pc' = [pc EXCEPT ![p] = pc[p] + 1]
      BY <2>1, Zenon DEF Inserts, ExchangeInsert, InsertSlots, GoesOn
    <3>2. DOMAIN slots' = DOMAIN slots \cup PublishedIn(launch, p, pc[p])
      <4>1. DOMAIN slots' = DOMAIN slots \cup Published(p)
        BY <3>1 DEF With
      <4> QED BY <4>1, PublishedText, Zenon
    <3>3. ASSUME NEW q \in Instances, NEW j \in CallsOf(launch, q, "exchange"), j < pc'[q] PROVE j < pc[q] \/ (q = p /\ j = pc[p])
      <4>1. j \in Nat \ {0} /\ pc \in [Instances -> Nat \ {0}]
        BY <1>1, CallsAreNumbers, Zenon DEF InStep
      <4> QED BY <3>1, <3>3, <4>1
    <3> QED BY <1>3, <3>2, <3>3, Zenon
  <2>2. CASE Promotes(p)
    <3>1. slots' = With(slots, [s \in {Real(Statement(p).slot)} |-> <<p, Real(Statement(p).buffer)>>])
      BY <2>2, Zenon DEF Promotes, PromoteSlot
    <3>2. DOMAIN slots \subseteq DOMAIN slots'
      BY <3>1 DEF With
    <3>3. ~Inserts(p)
      BY <2>2 DEF Promotes, PromoteSlot, Inserts, ExchangeInsert, At
    <3> QED BY <1>1, <1>3, <1>5, <3>2, <3>3, NotPublishing, Zenon
  <2>3. CASE Demotes(p)
    <3> DEFINE t == RealIn(launch, launch.roles[p][pc[p]].slot)
    <3>1. At(p, "destroyPromoted") /\ (slots' = slots \/ slots' = SlotsWithout({t}))
      BY <2>3, Zenon DEF Demotes, DestroyPromotedLpf, Real, Statement, Program
    <3>2. \A q \in Instances : \A j \in CallsOf(launch, q, "exchange") : t \notin PublishedIn(launch, q, j)
      <4>1. pc[p] \in CallsOf(launch, p, "promote") \cup CallsOf(launch, p, "destroyPromoted")
        BY <1>1, <3>1, AtCall, Zenon
      <4>2. \A q \in Instances : \A j \in CallsOf(launch, q, "exchange") : \A s \in PublishedIn(launch, q, j) :
              \A k \in CallsOf(launch, p, "promote") \cup CallsOf(launch, p, "destroyPromoted") :
                s # RealIn(launch, launch.roles[p][k].slot)
        BY <1>1, <1>2 DEF OnePublisher
      <4> SUFFICES ASSUME NEW q \in Instances, NEW j \in CallsOf(launch, q, "exchange"), t \in PublishedIn(launch, q, j)
                   PROVE  FALSE
        OBVIOUS
      <4>3. t # RealIn(launch, launch.roles[p][pc[p]].slot)
        BY <4>1, <4>2, Zenon
      <4> QED BY <4>3, Zenon
    <3>3. DOMAIN slots \ {t} \subseteq DOMAIN slots'
      <4> HIDE DEF t
      <4> QED BY <3>1 DEF SlotsWithout
    <3>4. ~Inserts(p)
      BY <3>1 DEF Inserts, ExchangeInsert, At
    <3> HIDE DEF t
    <3> QED BY <1>1, <1>3, <1>5, <3>2, <3>3, <3>4, NotPublishing, Zenon
  <2>4. CASE ~Inserts(p) /\ slots' = slots
    BY <1>1, <1>3, <1>5, <2>4, NotPublishing, Zenon
  <2> QED BY <1>5, <2>1, <2>2, <2>3, <2>4, Zenon
          DEF StepOf, Quiet, Deregisters, Opens, Allocates, Allocated, Frees, Freed, Destroys, DestroyGlobalMemorySlot, Queues,
              LooksUp, Leaves, Bookkeeping
<1>6. CASE ExchangesAll
  <2> DEFINE new == UNION {Published(p) : p \in Instances}
  <2>1. /\ slots' = With(slots, [s \in new |-> <<Publisher(s), s>>])
        /\ \A p \in Instances : At(p, "exchange")
        /\ pc' = [p \in Instances |-> pc[p] + 1]
    BY <1>6, Zenon DEF ExchangesAll, ExchangeAll, Pass
  <2>2. DOMAIN slots' = DOMAIN slots \cup new
    <3> HIDE DEF new
    <3> QED BY <2>1 DEF With
  <2>3. \A q \in Instances : PublishedIn(launch, q, pc[q]) \subseteq new
    BY PublishedText, Zenon
  <2>4. ASSUME NEW q \in Instances, NEW j \in CallsOf(launch, q, "exchange"), j < pc'[q] PROVE j < pc[q] \/ j = pc[q]
    <3>1. j \in Nat \ {0} /\ pc \in [Instances -> Nat \ {0}]
      BY <1>1, CallsAreNumbers, Zenon DEF InStep
    <3> QED BY <2>1, <2>4, <3>1
  <2> HIDE DEF new
  <2> QED BY <1>3, <2>2, <2>3, <2>4, Zenon
<1>7. CASE FencesAll
  <2>1. slots' = SlotsWithout(ToDestroy) /\ Backend # "pthreads" /\ Pass("fence")
    BY <1>7, Zenon DEF FencesAll, LeaveFenceAll, Pass
  <2>2. DOMAIN slots' = DOMAIN slots \ ToDestroy
    BY <2>1 DEF SlotsWithout
  <2>3. \A s \in ToDestroy : FencedIn(launch, Rounds', s)
    BY <1>7, DestroyedFenced, Zenon
  <2>4. \A q \in Instances : \A j \in CallsOf(launch, q, "exchange") : j < pc'[q] => j < pc[q]
    BY <1>1, <2>1, PassMakesOne
  <2> QED BY <1>3, <2>1, <2>2, <2>3, <2>4, Zenon
<1> QED BY <1>4, <1>5, <1>6, <1>7, Zenon DEF Kinds, Still, Lands, Enters, Bookkeeping

\* Allocated buffers are kept.
LEMMA KindsMemKept == LifeInv /\ Kinds => MemKept'
<1> SUFFICES ASSUME LifeInv, Kinds PROVE MemKept'
  BY Zenon
<1>1. InStep /\ MemKept
  BY Zenon DEF LifeInv
<1>2. launch' = launch /\ Instances' = Instances /\ Backend' = Backend /\ Instances = DOMAIN launch.roles
  BY <1>1, CountersGrow, Zenon DEF Backend, Program, Instances
<1>3. ASSUME NEW q \in Instances, NEW b, ReleasedIn(launch, pc, Rounds, q, b)
      PROVE  ReleasedIn(launch, pc', Rounds', q, b)
  <2>1. CASE launch.backend = "mpi"
    BY <1>1, <1>3, <2>1, FencedStays, Zenon DEF ReleasedIn
  <2>2. CASE launch.backend # "mpi"
    <3>1. PICK f \in CallsOf(launch, q, "free") : f < pc[q] /\ b \in NamedIn(launch, q, f)
      BY <1>3, <2>2, Zenon DEF ReleasedIn
    <3>2. f \in Nat /\ pc[q] \in Nat /\ pc'[q] \in Nat /\ pc[q] <= pc'[q]
      BY <1>1, CallsAreNumbers, CountersGrow
    <3>3. f < pc'[q]
      BY <3>1, <3>2
    <3> QED BY <2>2, <3>1, <3>3, Zenon DEF ReleasedIn
  <2> QED BY <2>1, <2>2, Zenon
<1>4. ASSUME \A q \in Instances : \A a \in CallsOf(launch, q, "allocate") : \A b \in NamedIn(launch, q, a) :
               /\ a < pc'[q] => a < pc[q] \/ <<q, b>> \in mem'
               /\ <<q, b>> \in mem => <<q, b>> \in mem' \/ ReleasedIn(launch, pc', Rounds', q, b)
      PROVE  MemKept'
  BY <1>1, <1>2, <1>3, <1>4, Zenon DEF MemKept
<1>5. CASE pc' = pc /\ mem' = mem
  BY <1>4, <1>5, Zenon
<1>6. ASSUME NEW p \in Instances, StepOf(p) PROVE MemKept'
  <2>1. CASE Allocates(p)
    <3>1. /\ At(p, "allocate") /\ mem' = mem \cup ({p} \X NamedIn(launch, p, pc[p]))
          /\ pc' = [pc EXCEPT ![p] = pc[p] + 1]
      BY <2>1, PublishedText, Zenon DEF Allocates, Allocated, GoesOn
    <3>2. ASSUME NEW q \in Instances, NEW j \in CallsOf(launch, q, "allocate"), j < pc'[q] PROVE j < pc[q] \/ (q = p /\ j = pc[p])
      <4>1. j \in Nat \ {0} /\ pc \in [Instances -> Nat \ {0}]
        BY <1>1, CallsAreNumbers, Zenon DEF InStep
      <4> QED BY <3>1, <3>2, <4>1
    <3> QED BY <1>4, <3>1, <3>2, Zenon
  <2>2. CASE Frees(p)
    <3>1. At(p, "free") /\ mem' = mem \ ({p} \X NamedIn(launch, p, pc[p])) /\ Backend # "mpi" /\ GoesOn(p)
      BY <2>2, PublishedText, Zenon DEF Frees, Freed
    <3>2. pc[p] \in CallsOf(launch, p, "free") /\ pc[p] < pc'[p]
      BY <1>1, <3>1, AtCall, WentOn, Zenon
    <3>3. \A b \in NamedIn(launch, p, pc[p]) : ReleasedIn(launch, pc', Rounds', p, b)
      BY <3>1, <3>2, Zenon DEF ReleasedIn, Backend, Program
    <3>4. \A q \in Instances : \A b : <<q, b>> \in mem => <<q, b>> \in mem' \/ (q = p /\ b \in NamedIn(launch, p, pc[p]))
      BY <3>1
    <3>5. ~Allocates(p)
      BY <3>1 DEF Allocates, Allocated, At
    <3> QED BY <1>1, <1>4, <1>6, <3>3, <3>4, <3>5, NotAllocating, Zenon
  <2>3. CASE ~Allocates(p) /\ mem' = mem
    BY <1>1, <1>4, <1>6, <2>3, NotAllocating, Zenon
  <2> QED BY <1>6, <2>1, <2>2, <2>3, Zenon
          DEF StepOf, Quiet, Deregisters, Opens, Inserts, ExchangeInsert, Destroys, DestroyGlobalMemorySlot, Queues,
              Promotes, PromoteSlot, Demotes, DestroyPromotedLpf, LooksUp, Leaves, Bookkeeping
<1>7. CASE ExchangesAll
  <2>1. Pass("exchange") /\ mem' = mem
    BY <1>7, Zenon DEF ExchangesAll, ExchangeAll
  <2>2. \A q \in Instances : \A j \in CallsOf(launch, q, "allocate") : j < pc'[q] => j < pc[q]
    BY <1>1, <2>1, PassMakesOne
  <2> QED BY <1>4, <2>1, <2>2, Zenon
<1>8. CASE FencesAll
  <2>1. Pass("fence")
    BY <1>8, Zenon DEF FencesAll
  <2>2. \A q \in Instances : \A j \in CallsOf(launch, q, "allocate") : j < pc'[q] => j < pc[q]
    BY <1>1, <2>1, PassMakesOne
  <2>3. CASE Backend # "mpi"
    BY <1>4, <1>8, <2>2, <2>3, Zenon DEF FencesAll
  <2>4. CASE Backend = "mpi"
    <3>1. mem' = mem \ WindowMemory(ToDestroy) /\ \A p \in Instances : ToDestroy \subseteq reg[p] \cup gone[p]
      BY <1>8, <2>4, Zenon DEF FencesAll
    <3>2. ASSUME NEW q \in Instances, NEW b, <<q, b>> \in WindowMemory(ToDestroy)
          PROVE  ReleasedIn(launch, pc', Rounds', q, b)
      <4>1. PICK s \in ToDestroy : slots[s] = <<q, b>>
        BY <3>2, Zenon DEF WindowMemory
      <4>2. s \in DOMAIN slots /\ slots[s][2] = s
        BY <2>4, <3>1, Zenon DEF LifeInv, MapsAgree
      <4>3. s = b
        BY <4>1, <4>2
      <4> QED BY <1>8, <2>4, <4>3, DestroyedFenced, Zenon DEF ReleasedIn, Backend, Program
    <3> QED BY <1>4, <2>2, <3>1, <3>2, Zenon
  <2> QED BY <2>3, <2>4, Zenon
<1> QED BY <1>5, <1>6, <1>7, <1>8, Zenon DEF Kinds, Still, Lands, Enters, Bookkeeping

\* The lists of slots to destroy come from calls.
LEMMA KindsLists == LifeInv /\ Kinds => ListsFromCalls'
<1> SUFFICES ASSUME LifeInv, Kinds PROVE ListsFromCalls'
  BY Zenon
<1>1. InStep /\ ListsFromCalls /\ DOMAIN doomed = Instances
  BY Zenon DEF LifeInv, ListsFromCalls
<1>2. launch' = launch /\ Instances' = Instances
  BY <1>1, CountersGrow, Zenon
<1>3. ASSUME NEW q \in Instances, NEW i \in CallsOf(launch, q, "destroy"), i < pc[q] PROVE i < pc'[q]
  <2>1. i \in Nat /\ pc[q] \in Nat /\ pc'[q] \in Nat /\ pc[q] <= pc'[q]
    BY <1>1, CallsAreNumbers, CountersGrow
  <2> QED BY <1>3, <2>1
<1>4. ASSUME DOMAIN doomed' = Instances,
             \A q \in Instances : \A e \in doomed'[q] : e \in doomed[q] \/
               \E i \in CallsOf(launch, q, "destroy") : i < pc'[q] /\ e[2] \in NamedIn(launch, q, i)
      PROVE  ListsFromCalls'
  BY <1>1, <1>2, <1>3, <1>4, Zenon DEF ListsFromCalls
<1>5. CASE doomed' = doomed
  BY <1>1, <1>4, <1>5, Zenon
<1>6. ASSUME NEW p \in Instances, StepOf(p) PROVE ListsFromCalls'
  <2>1. CASE Destroys(p)
    <3> DEFINE S == NamedIn(launch, p, pc[p])
    <3>1. /\ At(p, "destroy") /\ GoesOn(p)
          /\ doomed' = [doomed EXCEPT ![p] = doomed[p] \cup ({Manager(Statement(p).m)} \X S)]
      BY <2>1, PublishedText, Zenon DEF Destroys, DestroyGlobalMemorySlot
    <3>2. pc[p] \in CallsOf(launch, p, "destroy") /\ pc[p] < pc'[p]
      BY <1>1, <3>1, AtCall, WentOn, Zenon
    <3>3. DOMAIN doomed' = Instances /\ \A q \in Instances : \A e \in doomed'[q] : e \in doomed[q] \/ (q = p /\ e[2] \in S)
      <4> HIDE DEF S
      <4> QED BY <1>1, <3>1
    <3> QED BY <1>4, <3>2, <3>3, Zenon
  <2>2. CASE Leaves(p)
    <3>1. DOMAIN doomed' = Instances /\ \A q \in Instances : doomed'[q] \subseteq doomed[q]
      BY <1>1, <2>2 DEF Leaves
    <3> QED BY <1>4, <3>1, Zenon
  <2>3. CASE doomed' = doomed
    BY <1>5, <2>3, Zenon
  <2> QED BY <1>6, <2>1, <2>2, <2>3, Zenon
          DEF StepOf, Quiet, Deregisters, Opens, Allocates, Allocated, Frees, Freed, Inserts, ExchangeInsert, Queues,
              Promotes, PromoteSlot, Demotes, DestroyPromotedLpf, LooksUp, Bookkeeping
<1>7. CASE FencesAll
  <2>1. doomed' = [p \in Instances |-> {d \in doomed[p] : <<d[1], d[2][2]>> # TagOf(p)}]
    BY <1>7, Zenon DEF FencesAll, LeaveFenceAll
  <2>2. DOMAIN doomed' = Instances /\ \A q \in Instances : doomed'[q] \subseteq doomed[q]
    BY <2>1, Zenon
  <2> QED BY <1>4, <2>2, Zenon
<1>8. CASE ExchangesAll
  BY <1>5, <1>8, Zenon DEF ExchangesAll, ExchangeAll
<1> QED BY <1>5, <1>6, <1>7, <1>8, Zenon DEF Kinds, Still, Lands, Enters, Bookkeeping

\* MPI's maps agree with the slots.
LEMMA KindsMaps == LifeInv /\ Kinds => MapsAgree'
<1> SUFFICES ASSUME LifeInv, Kinds, Backend = "mpi" PROVE MapsAgree'
  <2>1. ASSUME LifeInv, Kinds PROVE Backend' = Backend
    BY <2>1, CountersGrow, Zenon DEF LifeInv, Backend, Program
  <2> QED BY <2>1, Zenon DEF MapsAgree
<1>1. /\ InStep /\ SlotsKept /\ DeregistersExisting(launch)
      /\ DOMAIN reg = Instances /\ DOMAIN gone = Instances /\ \A s \in DOMAIN slots : slots[s][2] = s
      /\ \A p \in Instances : reg[p] \subseteq DOMAIN slots /\ gone[p] \subseteq DOMAIN slots /\ reg[p] \cap gone[p] = {}
  BY Zenon DEF LifeInv, MapsAgree, LifetimesOrdered
<1>2. launch' = launch /\ Instances' = Instances /\ Instances = DOMAIN launch.roles
  BY <1>1, CountersGrow, Zenon DEF Instances, Program
\* No exchange of the slot is to come.
<1> DEFINE Over(s, c) == \A q \in Instances : \A j \in CallsOf(launch, q, "exchange") : s \in PublishedIn(launch, q, j) => j < c[q]
<1>3. \A p \in Instances : \A s \in gone[p] : Over(s, pc)
  BY Zenon DEF LifeInv, MapsAgree
<1>4. ASSUME NEW s, Over(s, pc) PROVE Over(s, pc')
  <2>1. ASSUME NEW q \in Instances, NEW j \in CallsOf(launch, q, "exchange"), j < pc[q] PROVE j < pc'[q]
    <3>1. j \in Nat /\ pc[q] \in Nat /\ pc'[q] \in Nat /\ pc[q] <= pc'[q]
      BY <1>1, CallsAreNumbers, CountersGrow
    <3> QED BY <2>1, <3>1
  <2> QED BY <1>4, <2>1, Zenon
<1>5. ASSUME DOMAIN reg' = Instances, DOMAIN gone' = Instances, \A s \in DOMAIN slots' : slots'[s][2] = s,
             \A p \in Instances :
               /\ reg'[p] \subseteq DOMAIN slots' /\ gone'[p] \subseteq DOMAIN slots' /\ reg'[p] \cap gone'[p] = {}
               /\ \A s \in gone'[p] : s \in gone[p] \/ Over(s, pc)
      PROVE  MapsAgree'
  <2>1. \A p \in Instances : \A s \in gone'[p] : Over(s, pc')
    BY <1>3, <1>4, <1>5, Zenon
  <2> QED BY <1>2, <1>5, <2>1, Zenon DEF MapsAgree
<1> HIDE DEF Over
<1>6. CASE reg' = reg /\ gone' = gone /\ slots' = slots
  BY <1>1, <1>5, <1>6, Zenon
<1>7. ASSUME NEW p \in Instances, StepOf(p) PROVE MapsAgree'
  <2>1. CASE Deregisters(p)
    <3> DEFINE S == NamedIn(launch, p, pc[p])
               here == {<<Manager(Statement(p).m), s[2], s[3]>> : s \in S}
    <3>1. /\ At(p, "deregister") /\ slots' = slots
          /\ reg' = [reg EXCEPT ![p] = reg[p] \ here] /\ gone' = [gone EXCEPT ![p] = gone[p] \cup S]
      <4>1. Remembered(S) = S
        BY Zenon DEF Remembered
      <4> QED BY <2>1, <4>1, PublishedText, Zenon DEF Deregisters
    <3>2. pc[p] \in CallsOf(launch, p, "deregister") /\ Entered(p) = Round(launch, p, pc[p])
      BY <1>1, <3>1, AtCall, Zenon
    <3>3. ASSUME NEW s \in S PROVE s \in here /\ s \in DOMAIN slots /\ Over(s, pc)
      <4>1. /\ s[1] = ManagerIn(launch, launch.roles[p][pc[p]].m) /\ Undestroyed(launch, s, p, pc[p])
            /\ \E q \in Instances : \E j \in CallsOf(launch, q, "exchange") : s \in PublishedIn(launch, q, j)
            /\ \A q \in Instances : \A j \in CallsOf(launch, q, "exchange") :
                 s \in PublishedIn(launch, q, j) => Round(launch, q, j) < Round(launch, p, pc[p])
        BY <1>1, <1>2, <3>2, Zenon DEF DeregistersExisting, Backend, Program
      <4>2. Over(s, pc)
        <5> SUFFICES ASSUME NEW q \in Instances, NEW j \in CallsOf(launch, q, "exchange"), s \in PublishedIn(launch, q, j)
                     PROVE  j < pc[q]
          BY Zenon DEF Over
        <5>1. Before(launch, q, j, p, pc[p])
          BY <4>1, Zenon DEF Before
        <5>2. "exchange" # "fence"
          OBVIOUS
        <5> QED BY <1>1, <3>2, <5>1, <5>2, BeforeMade, Zenon
      <4>3. ~FencedIn(launch, Rounds, s)
        BY <1>1, <3>2, <4>1, NotFenced, Zenon
      <4>4. s \in DOMAIN slots
        BY <1>1, <4>1, <4>2, <4>3, Zenon DEF SlotsKept, Over
      <4>5. s = <<s[1], s[2], s[3]>>
        BY DEF NamedIn, RealAllIn, RealIn
      <4>6. Manager(Statement(p).m) = s[1]
        BY <4>1, Zenon DEF Manager, Statement, Program
      <4> HIDE DEF S
      <4> QED BY <4>2, <4>4, <4>5, <4>6, Zenon
    <3> HIDE DEF S, here
    <3>4. /\ DOMAIN reg' = Instances /\ DOMAIN gone' = Instances
          /\ \A q \in Instances : q # p => reg'[q] = reg[q] /\ gone'[q] = gone[q]
          /\ reg'[p] = reg[p] \ here /\ gone'[p] = gone[p] \cup S
      BY <1>1, <3>1
    <3>5. \A q \in Instances :
            /\ reg'[q] \subseteq DOMAIN slots' /\ gone'[q] \subseteq DOMAIN slots' /\ reg'[q] \cap gone'[q] = {}
            /\ \A s \in gone'[q] : s \in gone[q] \/ Over(s, pc)
      <4> QED BY <1>1, <3>1, <3>3, <3>4
    <3> QED BY <1>1, <1>5, <3>1, <3>4, <3>5, Zenon
  <2>2. CASE reg' = reg /\ gone' = gone /\ slots' = slots
    BY <1>6, <2>2, Zenon
  <2>3. ~Inserts(p) /\ ~Promotes(p) /\ ~Demotes(p) /\ ~Leaves(p)
    <3>1. ~Leaves(p)
      BY <1>1 DEF Leaves, InStep
    <3> QED BY <3>1 DEF Inserts, ExchangeInsert, Promotes, Demotes, DestroyPromotedLpf
  <2> QED BY <1>7, <2>1, <2>2, <2>3, Zenon
          DEF StepOf, Quiet, Opens, Allocates, Allocated, Frees, Freed, Destroys, DestroyGlobalMemorySlot, Queues, LooksUp, Bookkeeping
<1>8. CASE ExchangesAll
  <2> DEFINE new == UNION {Published(p) : p \in Instances}
  <2>1. /\ slots' = With(slots, [s \in new |-> <<Publisher(s), s>>])
        /\ reg' = [p \in Instances |-> reg[p] \cup new] /\ gone' = gone
        /\ \A p \in Instances : At(p, "exchange")
    BY <1>8, Zenon DEF ExchangesAll, ExchangeAll
  <2>2. \A p \in Instances : gone[p] \cap new = {}
    <3> SUFFICES ASSUME NEW p \in Instances, NEW s \in gone[p], NEW q \in Instances, s \in Published(q) PROVE FALSE
      BY Zenon
    <3>1. s \in PublishedIn(launch, q, pc[q]) /\ pc[q] \in CallsOf(launch, q, "exchange") /\ pc[q] \in Nat
      BY <1>1, <2>1, AtCall, PublishedText, Zenon
    <3>2. pc[q] < pc[q]
      BY <1>3, <3>1, Zenon DEF Over
    <3> QED BY <3>1, <3>2
  <2> HIDE DEF new
  <2>3. DOMAIN slots' = DOMAIN slots \cup new /\ \A s \in DOMAIN slots' : slots'[s][2] = s
    BY <1>1, <2>1 DEF With
  <2>4. \A q \in Instances :
          /\ reg'[q] \subseteq DOMAIN slots' /\ gone'[q] \subseteq DOMAIN slots' /\ reg'[q] \cap gone'[q] = {}
          /\ \A s \in gone'[q] : s \in gone[q]
    BY <1>1, <2>1, <2>2, <2>3
  <2>5. DOMAIN reg' = Instances /\ DOMAIN gone' = Instances
    BY <1>1, <2>1
  <2> QED BY <1>5, <2>3, <2>4, <2>5, Zenon
<1>9. CASE FencesAll
  <2>1. /\ slots' = SlotsWithout(ToDestroy)
        /\ reg' = [p \in Instances |-> reg[p] \ ToDestroy]
        /\ gone' = [p \in Instances |-> gone[p] \ (ToDestroy \ reg[p])]
    BY <1>9, Zenon DEF FencesAll, LeaveFenceAll
  <2>2. DOMAIN slots' = DOMAIN slots \ ToDestroy /\ \A s \in DOMAIN slots' : slots'[s][2] = s
    BY <1>1, <2>1 DEF SlotsWithout
  <2>3. \A q \in Instances :
          /\ reg'[q] \subseteq DOMAIN slots' /\ gone'[q] \subseteq DOMAIN slots' /\ reg'[q] \cap gone'[q] = {}
          /\ \A s \in gone'[q] : s \in gone[q]
    BY <1>1, <2>1, <2>2
  <2>4. DOMAIN reg' = Instances /\ DOMAIN gone' = Instances
    BY <2>1
  <2> QED BY <1>5, <2>2, <2>3, <2>4, Zenon
<1> QED BY <1>6, <1>7, <1>8, <1>9, Zenon DEF Kinds, Still, Lands, Enters, Bookkeeping

\* A pending copy's request is still the last one fenced when no fence is passed.
LEMMA AskedStays ==
  ASSUME InStep, Kinds, \A q \in Instances : pc'[q] = pc[q] \/ (pc'[q] = pc[q] + 1 /\ pc[q] \notin CallsOf(launch, q, "fence")),
         NEW e, AskedFor(launch, pc, e)
  PROVE  AskedFor(launch, pc', e)
<1>1. PICK p \in Instances : \E i \in CallsOf(launch, p, "memcpy") :
        /\ i < pc[p] /\ \A k \in CallsOf(launch, p, "fence") : i < k => pc[p] <= k
        /\ {e.from[2], e.to[2]} \subseteq {RealIn(launch, launch.roles[p][i].local), RealIn(launch, launch.roles[p][i].global)}
  BY Zenon DEF AskedFor, Instances, Program
<1>2. PICK i \in CallsOf(launch, p, "memcpy") :
        /\ i < pc[p] /\ \A k \in CallsOf(launch, p, "fence") : i < k => pc[p] <= k
        /\ {e.from[2], e.to[2]} \subseteq {RealIn(launch, launch.roles[p][i].local), RealIn(launch, launch.roles[p][i].global)}
  BY <1>1, Zenon
<1>3. i \in Nat /\ pc[p] \in Nat /\ \A k \in CallsOf(launch, p, "fence") : k \in Nat
  BY CallsAreNumbers, CountersGrow
<1>4. i < pc'[p] /\ \A k \in CallsOf(launch, p, "fence") : i < k => pc'[p] <= k
  BY <1>2, <1>3
<1> QED BY <1>2, <1>4, Zenon DEF AskedFor, Instances, Program

\* Copies stay pending between allocated buffers.
LEMMA KindsCopies == LifeInv /\ Kinds => CopiesAgree'
<1> SUFFICES ASSUME LifeInv, Kinds PROVE CopiesAgree'
  BY Zenon
<1>1. InStep /\ CopiesAgree
  BY Zenon DEF LifeInv
<1>2. launch' = launch /\ Instances' = Instances /\ Backend' = Backend /\ Instances = DOMAIN launch.roles
  BY <1>1, CountersGrow, Zenon DEF Backend, Program, Instances
<1>3. ASSUME copies' \subseteq copies,
             \A e \in copies : (e.from \in mem => e.from \in mem') /\ (e.to \in mem => e.to \in mem'),
             \A q \in Instances : pc'[q] = pc[q] \/ (pc'[q] = pc[q] + 1 /\ pc[q] \notin CallsOf(launch, q, "fence"))
      PROVE  CopiesAgree'
  <2>1. \A e \in copies : AskedFor(launch, pc', e)
    BY <1>1, <1>3, AskedStays, Zenon DEF CopiesAgree
  <2> QED BY <1>1, <1>2, <1>3, <2>1, Zenon DEF CopiesAgree
<1>4. ASSUME copies' \subseteq copies, mem' = mem, pc' = pc PROVE CopiesAgree'
  BY <1>3, <1>4, Zenon
<1>5. ASSUME copies' = {} PROVE CopiesAgree'
  BY <1>5, Zenon DEF CopiesAgree
<1>6. ASSUME NEW p \in Instances, StepOf(p) PROVE CopiesAgree'
  <2>1. ASSUME GoesOn(p)
        PROVE  \A q \in Instances : pc'[q] = pc[q] \/ (pc'[q] = pc[q] + 1 /\ pc[q] \notin CallsOf(launch, q, "fence"))
    <3>1. pc \in [Instances -> Nat \ {0}] /\ pc' = [pc EXCEPT ![p] = pc[p] + 1] /\ pc[p] \notin CallsOf(launch, p, "fence")
      BY <1>1, <2>1, Zenon DEF InStep, GoesOn, Collectives
    <3> QED BY <3>1
  <2>2. ASSUME GoesOn(p), copies' = copies, mem \subseteq mem' PROVE CopiesAgree'
    BY <1>3, <2>1, <2>2, Zenon
  <2>3. CASE Queues(p)
    <3> DEFINE s == launch.roles[p][pc[p]]
               near == <<p, RealIn(launch, s.local)>>
               far == slots[RealIn(launch, s.global)]
               c == [by |-> p, from |-> IF s.put THEN near ELSE far, to |-> IF s.put THEN far ELSE near]
    <3>1. At(p, "memcpy") /\ GoesOn(p) /\ mem' = mem /\ Backend = "lpf" /\ copies' = copies \cup {c}
      BY <2>3, Zenon DEF Queues, QueueCopy, CopyOfStatement, Real, Statement, Program
    <3>2. pc[p] \in CallsOf(launch, p, "memcpy") /\ pc[p] \in Nat /\ Entered(p) = Round(launch, p, pc[p])
      BY <1>1, <3>1, AtCall, Zenon
    <3>3. /\ Reaches(launch, p, pc[p], RealIn(launch, s.global))
          /\ Holds(launch, p, RealIn(launch, s.local), p, pc[p])
      BY <1>2, <3>1, <3>2, Zenon DEF LifeInv, LifetimesOrdered, Backend, Program
    <3>4. near \in mem /\ far \in mem /\ far[2] = RealIn(launch, s.global)
      <4>1. near \in mem
        BY <3>2, <3>3, HeldInMemory, Zenon
      <4> QED BY <3>2, <3>3, <4>1, ReachedLive, Zenon
    <3>5. /\ {c.from, c.to} = {near, far} /\ near[2] = RealIn(launch, s.local)
          /\ {c.from[2], c.to[2]} \subseteq {near[2], far[2]}
      <4> HIDE DEF s, far
      <4> QED OBVIOUS
    <3>6. pc[p] < pc'[p] /\ \A k \in CallsOf(launch, p, "fence") : pc[p] < k => pc'[p] <= k
      <4>1. pc'[p] = pc[p] + 1
        BY <1>1, <3>1 DEF GoesOn, InStep
      <4>2. \A k \in CallsOf(launch, p, "fence") : k \in Nat
        BY <1>1, CallsAreNumbers
      <4> QED BY <3>2, <4>1, <4>2
    <3>7. AskedFor(launch, pc', c)
      <4>1. {c.from[2], c.to[2]} \subseteq {RealIn(launch, s.local), RealIn(launch, s.global)}
        BY <3>4, <3>5, Zenon
      <4> HIDE DEF c
      <4> QED BY <1>2, <3>2, <3>6, <4>1, Zenon DEF AskedFor
    <3>8. c.from \in mem /\ c.to \in mem
      <4> HIDE DEF c
      <4> QED BY <3>4, <3>5, Zenon
    <3>9. \A e \in copies : AskedFor(launch, pc', e)
      BY <1>1, <2>1, <3>1, AskedStays, Zenon DEF CopiesAgree
    <3> HIDE DEF c
    <3> QED BY <1>1, <1>2, <3>1, <3>7, <3>8, <3>9, Zenon DEF CopiesAgree
  <2>4. CASE Frees(p)
    <3>1. /\ At(p, "free") /\ mem' = mem \ ({p} \X NamedIn(launch, p, pc[p])) /\ GoesOn(p) /\ copies' = copies
      BY <2>4, PublishedText, Zenon DEF Frees, Freed
    <3>2. pc[p] \in CallsOf(launch, p, "free") /\ pc[p] \in Nat \ {0} /\ Entered(p) = Round(launch, p, pc[p])
      BY <1>1, <3>1, AtCall, Zenon
    <3>3. ASSUME NEW e \in copies, {e.from[2], e.to[2]} \cap NamedIn(launch, p, pc[p]) # {} PROVE FALSE
      <4>1. PICK q \in Instances : \E i \in CallsOf(launch, q, "memcpy") :
              /\ i < pc[q] /\ \A k \in CallsOf(launch, q, "fence") : i < k => pc[q] <= k
              /\ {e.from[2], e.to[2]} \subseteq {RealIn(launch, launch.roles[q][i].local), RealIn(launch, launch.roles[q][i].global)}
        BY <1>1, <1>2, Zenon DEF CopiesAgree, AskedFor
      <4>2. PICK i \in CallsOf(launch, q, "memcpy") :
              /\ i < pc[q] /\ \A k \in CallsOf(launch, q, "fence") : i < k => pc[q] <= k
              /\ {e.from[2], e.to[2]} \subseteq {RealIn(launch, launch.roles[q][i].local), RealIn(launch, launch.roles[q][i].global)}
        BY <4>1, Zenon
      <4>3. Backend = "lpf" /\ phase[q] = "run"
        <5>1. Backend = "lpf"
          BY <1>1, <3>3, Zenon DEF CopiesAgree
        <5> QED BY <1>1, <5>1 DEF InStep
      <4>4. CopyFenced(launch, q, i)
        BY <1>2, <4>3, Zenon DEF LifeInv, LifetimesOrdered, Backend, Program
      <4>5. {RealIn(launch, launch.roles[q][i].local), RealIn(launch, launch.roles[q][i].global)} \cap NamedIn(launch, p, pc[p]) # {}
        BY <3>3, <4>2, Zenon
      <4>6. PICK k \in CallsOf(launch, q, "fence") : i < k /\ Before(launch, q, k, p, pc[p])
        BY <1>2, <3>2, <4>4, <4>5, Zenon DEF CopyFenced
      <4>7. pc[q] <= k /\ k \in Nat \ {0} /\ pc[q] \in Nat \ {0}
        BY <1>1, <4>2, <4>6, CallsAreNumbers, CountersGrow, Zenon
      <4>8. /\ Round(launch, q, pc[q]) <= Round(launch, q, k)
            /\ Round(launch, q, pc[q]) \in Nat /\ Round(launch, q, k) \in Nat
        BY <1>1, <1>2, <4>7, Zenon DEF InStep, Numbered
      <4>9. Round(launch, q, pc[q]) = Round(launch, p, pc[p])
        BY <1>1, <3>2, <4>3, Zenon DEF InStep, Entered
      <4>10. CASE Round(launch, q, k) < Round(launch, p, pc[p])
        BY <4>8, <4>9, <4>10
      <4>11. CASE q = p /\ k < pc[p]
        BY <4>7, <4>11
      <4> QED BY <4>6, <4>10, <4>11, Zenon DEF Before
    <3>4. ASSUME NEW b \in mem, b \notin mem' PROVE b[2] \in NamedIn(launch, p, pc[p])
      BY <3>1, <3>4
    <3>5. \A e \in copies : (e.from \in mem => e.from \in mem') /\ (e.to \in mem => e.to \in mem')
      BY <3>3, <3>4, Zenon
    <3> QED BY <1>3, <2>1, <3>1, <3>5, Zenon
  <2>5. CASE LooksUp(p)
    <3>1. copies' = copies /\ mem' = mem /\ pc' = pc
      BY <2>5, Zenon DEF LooksUp, Bookkeeping
    <3> QED BY <1>4, <3>1, Zenon
  <2>6. CASE Leaves(p)
    <3>1. Backend = "pthreads" /\ copies' = copies
      BY <1>1, <2>6, Zenon DEF InStep, Leaves
    <3>2. copies = {}
      BY <1>1, <3>1 DEF CopiesAgree
    <3> QED BY <1>5, <3>1, <3>2, Zenon
  <2>7. CASE Allocates(p)
    BY <2>2, <2>7, Zenon DEF Allocates, Allocated
  <2>8. CASE GoesOn(p) /\ copies' = copies /\ mem' = mem
    BY <2>2, <2>8, Zenon
  <2> QED BY <1>6, <2>3, <2>4, <2>5, <2>6, <2>7, <2>8, Zenon
          DEF StepOf, Quiet, Deregisters, Opens, Inserts, ExchangeInsert, Destroys, DestroyGlobalMemorySlot,
              Promotes, PromoteSlot, Demotes, DestroyPromotedLpf, Bookkeeping
<1>7. CASE ExchangesAll
  <2>1. Pass("exchange") /\ mem' = mem /\ copies' = copies
    BY <1>7, Zenon DEF ExchangesAll, ExchangeAll, Pass
  <2>2. ASSUME NEW q \in Instances PROVE pc'[q] = pc[q] + 1 /\ pc[q] \notin CallsOf(launch, q, "fence")
    <3>1. pc'[q] = pc[q] + 1 /\ Statement(q).op = "exchange"
      BY <2>1, Zenon DEF Pass, At
    <3>2. Statement(q).op # "fence"
      BY <3>1
    <3> QED BY <3>1, <3>2, OtherCall, Zenon
  <2> QED BY <1>3, <2>1, <2>2, Zenon
<1>8. CASE FencesAll
  BY <1>5, <1>8, Zenon DEF FencesAll, Pass
<1> QED BY <1>4, <1>6, <1>7, <1>8, Zenon DEF Kinds, Still, Lands, Enters, Bookkeeping

\* So lifetimes are respected in every step.
LEMMA KindsLife == LifeInv /\ Kinds => LifeInv'
<1> SUFFICES ASSUME LifeInv, Kinds PROVE LifeInv'
  BY Zenon
<1>1. InStep /\ FromCalls /\ LifetimesOrdered(launch)
  BY Zenon DEF LifeInv
<1>2. InStep' /\ launch' = launch
  BY <1>1, KindsInStep, CountersGrow, Zenon
<1>3. FromCalls'
  BY <1>1, KindsFromCalls, Zenon
<1>4. SlotsKept' /\ MemKept' /\ ListsFromCalls' /\ MapsAgree' /\ CopiesAgree'
  BY KindsSlotsKept, KindsMemKept, KindsLists, KindsMaps, KindsCopies, Zenon
<1> QED BY <1>1, <1>2, <1>3, <1>4, Zenon DEF LifeInv

-----------------------------------------------------------------------------
(* The beginning                                                            *)

\* A program begins with all instances at their first call, and nothing made.
LEMMA InitInStep == ASSUME Init, AreRoles(launch), Numbered(launch) PROVE InStep
<1>1. Numbered(launch)
  OBVIOUS
<1>2. pc = [p \in Instances |-> 1] /\ phase = [p \in Instances |-> "run"]
  BY Zenon DEF Init
<1>3. \A p \in Instances : Round(launch, p, 1) = 0
  <2>1. 1 \in Nat \ {0}
    OBVIOUS
  <2> QED BY <1>1, <2>1, Zenon DEF Numbered, Instances, Program
<1>4. \A p \in Instances : Entered(p) = 0
  BY <1>2, <1>3, Zenon DEF Entered
<1>5. pc \in [Instances -> Nat \ {0}] /\ phase \in [Instances -> {"run", "leaving", "copying"}]
  BY <1>2
<1>6. \A p \in Instances : phase[p] = "run"
  BY <1>2, Zenon
<1> QED BY <1>1, <1>4, <1>5, <1>6, Zenon DEF InStep

\* At the start no channel is open and no slot exists.
LEMMA InitFromCalls == ASSUME Init PROVE FromCalls
<1>1. ends = {} /\ DOMAIN slots = {}
  BY DEF Init
<1> QED BY <1>1, Zenon DEF FromCalls

\* At the start nobody has asked for a destruction.
LEMMA InitDoomed == ASSUME Init, DestructionsFenced(launch) PROVE DoomedAgrees
<1>1. DOMAIN doomed = Instances /\ asked = {}
  BY Zenon DEF Init
<1> QED BY <1>1, Zenon DEF DoomedAgrees

\* At the start nothing is allocated, published or open.
LEMMA InitLife == ASSUME Init, LifetimesOrdered(launch), Numbered(launch) PROVE LifeInv
<1>1. AreRoles(launch)
  BY Zenon DEF LifetimesOrdered
<1>2. InStep /\ FromCalls
  BY <1>1, InitInStep, InitFromCalls, Zenon
<1>3. ASSUME NEW q \in Instances, NEW op, NEW i \in CallsOf(launch, q, op) PROVE ~(i < pc[q])
  <2>1. pc[q] = 1 /\ i \in Nat \ {0}
    BY <1>2, CallsAreNumbers, Zenon DEF Init
  <2> QED BY <2>1
<1>4. SlotsKept
  BY <1>3, Zenon DEF SlotsKept
<1>5. MemKept
  BY <1>3, Zenon DEF MemKept
<1>6. ListsFromCalls
  BY Zenon DEF ListsFromCalls, Init
<1>7. MapsAgree
  <2>1. DOMAIN slots = {} /\ DOMAIN reg = Instances /\ DOMAIN gone = Instances /\ \A p \in Instances : reg[p] = {} /\ gone[p] = {}
    BY DEF Init
  <2> QED BY <2>1 DEF MapsAgree
<1>8. CopiesAgree
  BY DEF CopiesAgree, Init
<1> QED BY <1>2, <1>4, <1>5, <1>6, <1>7, <1>8, Zenon DEF LifeInv

-----------------------------------------------------------------------------
(* What the invariants give                                                 *)

\* Instances that are in step are in the same collective call,
LEMMA SameInStep == ASSUME InStep, SameCollectives(launch) PROVE CollectivesMatch
<1> SUFFICES ASSUME NEW p \in Instances, NEW q \in Instances, AtCollective(p), AtCollective(q)
             PROVE  Statement(p).op = Statement(q).op /\ TagOf(p) = TagOf(q)
  BY Zenon DEF CollectivesMatch
<1>1. ASSUME NEW r \in Instances, AtCollective(r)
      PROVE  pc[r] \in Collectives(launch, r) /\ Entered(r) = Round(launch, r, pc[r]) /\ Statement(r) = launch.roles[r][pc[r]]
  <2>1. CASE At(r, "fence")
    BY <2>1, AtCall, Zenon DEF Collectives
  <2>2. CASE Backend # "pthreads" /\ At(r, "exchange")
    <3>1. Collectives(launch, r) = CallsOf(launch, r, "fence") \cup CallsOf(launch, r, "exchange")
      BY <2>2, Zenon DEF Collectives, Backend, Program
    <3> QED BY <2>2, <3>1, AtCall, Zenon
  <2> QED BY <1>1, <2>1, <2>2, Zenon DEF AtCollective
<1>2. Round(launch, p, pc[p]) = Round(launch, q, pc[q])
  BY <1>1, Zenon DEF InStep
<1>3. SameCollectives(launch)
  OBVIOUS
<1>4. /\ launch.roles[p][pc[p]].op = launch.roles[q][pc[q]].op
      /\ TagIn(launch, p, pc[p]) = TagIn(launch, q, pc[q])
  BY <1>1, <1>2, <1>3, Zenon DEF SameCollectives, Instances, Program
<1> QED BY <1>1, <1>4, PublishedText, Zenon

\* the fences keep exchanges apart from copies,
LEMMA ApartInStep == ASSUME InStep, ExchangesApart(launch) PROVE CopyNotRaced
<1> SUFFICES ASSUME NEW p \in Instances, NEW q \in Instances, phase[p] = "copying", Backend = "pthreads",
                    At(q, "exchange"), Statement(q).keys # {}
             PROVE  TagOf(q) # TagOf(p)
  BY Zenon DEF CopyNotRaced
<1>1. pc[p] \in CallsOf(launch, p, "fence") /\ Entered(p) = Round(launch, p, pc[p]) + 1
  BY DEF InStep, Entered
<1>2. /\ pc[q] \in CallsOf(launch, q, "exchange") /\ Entered(q) = Round(launch, q, pc[q])
      /\ Statement(q) = launch.roles[q][pc[q]]
  BY AtCall, Zenon
<1>3. Round(launch, q, pc[q]) = Round(launch, p, pc[p]) + 1
  BY <1>1, <1>2, Zenon DEF InStep
<1>4. ExchangesApart(launch)
  OBVIOUS
<1>5. TagIn(launch, q, pc[q]) # TagIn(launch, p, pc[p])
  BY <1>1, <1>2, <1>3, <1>4, Zenon DEF ExchangesApart, Instances, Program, Backend
<1> QED BY <1>5, PublishedText, Zenon

\* nothing asked for is left on a list at the end,
LEMMA ListedAtTheEnd == ASSUME InStep, DoomedAgrees PROVE DestructionsFinishCollectively
<1> SUFFICES ASSUME Backend # "pthreads", \A p \in Instances : Finished(p), NEW s \in asked, s \in DOMAIN slots PROVE FALSE
  BY Zenon DEF DestructionsFinishCollectively, DestructionsFinish
<1>1. PICK p \in Instances : \E e \in doomed[p] :
        e[2] = s /\ \E k \in CallsOf(launch, p, "fence") : pc[p] <= k /\ TagIn(launch, p, k) = <<e[1], s[2]>>
  BY Zenon DEF DoomedAgrees, OnListIn, Instances, Program
<1>2. PICK k \in CallsOf(launch, p, "fence") : pc[p] <= k
  BY <1>1, Zenon
<1>3. /\ launch.roles[p] \in Seq(Range(launch.roles[p])) /\ pc[p] \in Nat \ {0}
      /\ pc[p] > Len(launch.roles[p]) /\ k \in DOMAIN launch.roles[p]
  BY Zenon DEF InStep, AreRoles, Instances, Program, Finished, CallsOf
<1>4. k \in 1 .. Len(launch.roles[p]) /\ Len(launch.roles[p]) \in Nat
  BY <1>3
<1> QED BY <1>2, <1>3, <1>4

\* ends made by matching calls agree,
LEMMA EndsFromCalls == ASSUME InStep, FromCalls, EndsMatch(launch) PROVE EndsAgree
<1> SUFFICES ASSUME NEW e \in ends, NEW f \in ends, e.channel = f.channel, e.side # f.side, e.peer \subseteq DOMAIN slots
             PROVE  e.data = f.data /\ \A s \in e.peer : slots[s] = <<f.by, s>> /\ s \in f.own
  <2>1. ASSUME NEW e \in ends, NEW f \in ends, e.channel = f.channel, e.side # f.side,
               \A s \in e.peer : slots[s] = <<f.by, s>> /\ s \in f.own
        PROVE  /\ \A s \in e.peer : slots[s][1] = f.by => slots[s][2] \in f.own
               /\ \A s \in e.peer : slots[s][1] \in {g.by : g \in {g \in ends : g.channel = e.channel /\ g.side # e.side}}
    <3>1. \A s \in e.peer : slots[s][1] = f.by /\ slots[s][2] = s /\ s \in f.own
      BY <2>1
    <3>2. f \in {g \in ends : g.channel = e.channel /\ g.side # e.side}
      BY <2>1
    <3> QED BY <3>1, <3>2, Zenon
  <2> QED BY <2>1, Zenon DEF EndsAgree
<1>1. PICK p \in Instances : \E i \in CallsOf(launch, p, "open") : e = EndIn(launch, p, i)
  BY Zenon DEF FromCalls, MadeBy, Instances, Program
<1>2. PICK i \in CallsOf(launch, p, "open") : e = EndIn(launch, p, i)
  BY <1>1, Zenon
<1>3. PICK q \in Instances : \E j \in CallsOf(launch, q, "open") : f = EndIn(launch, q, j)
  BY Zenon DEF FromCalls, MadeBy, Instances, Program
<1>4. PICK j \in CallsOf(launch, q, "open") : f = EndIn(launch, q, j)
  BY <1>3, Zenon
<1> DEFINE a == launch.roles[p][i]
           b == launch.roles[q][j]
<1>5. /\ e.channel = a.channel /\ e.side = a.side /\ e.data = RealAllIn(launch, a.data) /\ e.peer = RealAllIn(launch, a.peer)
      /\ f.channel = b.channel /\ f.side = b.side /\ f.data = RealAllIn(launch, b.data) /\ f.own = RealAllIn(launch, b.own)
      /\ f.by = q
  BY <1>2, <1>4, EndText
<1>6. EndsMatch(launch) /\ a.channel = b.channel /\ a.side # b.side
  BY <1>5, Zenon
<1>7. /\ RealAllIn(launch, a.data) = RealAllIn(launch, b.data)
      /\ \A s \in RealAllIn(launch, a.peer) :
           /\ s \in RealAllIn(launch, b.own)
           /\ \A r \in Instances :
                /\ \A k \in CallsOf(launch, r, "exchange") : s \in PublishedIn(launch, r, k) => r = q
                /\ \A k \in CallsOf(launch, r, "promote") : s # RealIn(launch, launch.roles[r][k].slot)
  <2>1. p \in DOMAIN launch.roles /\ q \in DOMAIN launch.roles
    BY Zenon DEF Instances, Program
  <2>2. \A x \in CallsOf(launch, p, "open"), y \in CallsOf(launch, q, "open") :
          launch.roles[p][x].channel = launch.roles[q][y].channel /\ launch.roles[p][x].side # launch.roles[q][y].side =>
            /\ RealAllIn(launch, launch.roles[p][x].data) = RealAllIn(launch, launch.roles[q][y].data)
            /\ \A s \in RealAllIn(launch, launch.roles[p][x].peer) :
                 /\ s \in RealAllIn(launch, launch.roles[q][y].own)
                 /\ \A r \in DOMAIN launch.roles :
                      /\ \A k \in CallsOf(launch, r, "exchange") : s \in PublishedIn(launch, r, k) => r = q
                      /\ \A k \in CallsOf(launch, r, "promote") : s # RealIn(launch, launch.roles[r][k].slot)
    BY <1>6, <2>1, Zenon DEF EndsMatch
  <2>3. Instances = DOMAIN launch.roles
    BY Zenon DEF Instances, Program
  <2> QED BY <1>6, <2>2, <2>3, Zenon
<1> HIDE DEF a, b
<1>8. ASSUME NEW s \in e.peer PROVE slots[s] = <<f.by, s>> /\ s \in f.own
  <2>1. ~PromotedBy(launch, s)
    BY <1>5, <1>7, <1>8, Zenon DEF PromotedBy, Instances, Program
  <2>2. PublishedBy(launch, pc, s, slots[s])
    BY <1>8, <2>1, Zenon DEF FromCalls
  <2>3. slots[s] = <<q, s>>
    BY <1>5, <1>7, <1>8, <2>2, Zenon DEF PublishedBy, Instances, Program
  <2> QED BY <1>5, <1>7, <1>8, <2>3, Zenon
<1> QED BY <1>5, <1>7, <1>8, Zenon

\* and uses within the lifetimes find what they use.
LEMMA LiveInLifetimes == ASSUME LifeInv PROVE AccessesLiveSlots
<1>1. InStep /\ FromCalls /\ CopiesAgree
  BY Zenon DEF LifeInv
<1>2. ASSUME NEW p \in Instances, NEW c \in ChannelsUsed(p), NEW e \in EndsOf(p, c) PROVE Usable(e)
  <2>1. e \in ends /\ e.by = p /\ e.channel = c
    BY <1>2, Zenon DEF EndsOf
  <2>2. PICK q \in Instances : \E i \in CallsOf(launch, q, "open") : i < pc[q] /\ e = EndIn(launch, q, i)
    BY <1>1, <2>1, Zenon DEF FromCalls, MadeBy, Instances, Program
  <2>3. PICK o \in CallsOf(launch, q, "open") : o < pc[q] /\ e = EndIn(launch, q, o)
    BY <2>2, Zenon
  <2> DEFINE a == launch.roles[p][o]
  <2>4. q = p
    BY <2>1, <2>3, EndText
  <2>5. /\ e.channel = a.channel /\ e.data = RealAllIn(launch, a.data) /\ e.peer = RealAllIn(launch, a.peer)
        /\ e.lock = RealAllIn(launch, a.lock) /\ e.own = RealAllIn(launch, a.own)
    BY <2>3, <2>4, EndText
  <2>6. \/ At(p, "push") /\ c = Statement(p).channel
        \/ At(p, "peek") /\ c = Statement(p).channel
        \/ At(p, "await") /\ c = Statement(p).channel
        \/ At(p, "pop") /\ c \in Statement(p).channels
    BY <1>2 DEF ChannelsUsed
  <2>7. \E op : At(p, op)
    BY <2>6, Zenon
  <2>8. pc[p] \in DOMAIN launch.roles[p] /\ Entered(p) = Round(launch, p, pc[p]) /\ Statement(p) = launch.roles[p][pc[p]]
    BY <1>1, <2>7, AtCall, Zenon DEF CallsOf
  <2>9. a.channel \in UsedIn(launch, p, pc[p])
    <3>1. \/ Statement(p).op \in {"push", "peek", "await"} /\ c = Statement(p).channel
          \/ Statement(p).op = "pop" /\ c \in Statement(p).channels
      BY <2>6 DEF At
    <3>2. c \in UsedIn(launch, p, pc[p])
      BY <2>8, <3>1 DEF UsedIn
    <3> QED BY <2>1, <2>5, <3>2, Zenon
  <2>10. LifetimesOrdered(launch)
    BY Zenon DEF LifeInv
  <2>11. /\ \A s \in RealAllIn(launch, a.data \cup a.peer \cup a.lock) : Reaches(launch, p, pc[p], s)
         /\ \A b \in RealAllIn(launch, a.own) : Holds(launch, p, b, p, pc[p])
    BY <2>3, <2>4, <2>8, <2>9, <2>10, Zenon DEF LifetimesOrdered, Instances, Program
  <2>12. RealAllIn(launch, a.data \cup a.peer \cup a.lock) = e.data \cup e.peer \cup e.lock
    <3> HIDE DEF a
    <3> QED BY <2>5, Zenon DEF RealAllIn
  <2>13. \A s \in e.data \cup e.peer \cup e.lock : Reachable(s)
    BY <2>8, <2>11, <2>12, ReachedLive, Zenon DEF Reachable
  <2>14. \A b \in e.own : <<p, b>> \in mem
    BY <2>5, <2>8, <2>11, HeldInMemory, Zenon
  <2> QED BY <2>1, <2>13, <2>14, Zenon DEF Usable
<1>3. ASSUME NEW p \in Instances, At(p, "memcpy") PROVE Reachable(Real(Statement(p).global))
  <2>1. /\ pc[p] \in CallsOf(launch, p, "memcpy") /\ Entered(p) = Round(launch, p, pc[p])
        /\ Statement(p) = launch.roles[p][pc[p]]
    BY <1>1, <1>3, AtCall, Zenon
  <2>2. Reaches(launch, p, pc[p], Real(Statement(p).global))
    BY <2>1, Zenon DEF LifeInv, LifetimesOrdered, Instances, Program, Real
  <2> QED BY <2>1, <2>2, ReachedLive, Zenon DEF Reachable
<1> QED BY <1>1, <1>2, <1>3, Zenon DEF AccessesLiveSlots, CopiesAgree

-----------------------------------------------------------------------------
(* Theorems                                                                 *)

INSTANCE FiniteSetTheorems

Below(C, n) == {j \in C : j < n}

\* The numbers of a set below a given one are counted one by one.
LEMMA CountingBelow ==
  ASSUME NEW C, \A x \in C : x \in Nat \ {0}, NEW i \in Nat \ {0}
  PROVE  /\ Cardinality(Below(C, i)) \in Nat
         /\ Cardinality(Below(C, 1)) = 0
         /\ Cardinality(Below(C, i + 1)) =
              IF i \in C THEN Cardinality(Below(C, i)) + 1 ELSE Cardinality(Below(C, i))
         /\ \A k \in Nat \ {0} : i <= k => Cardinality(Below(C, i)) <= Cardinality(Below(C, k))
<1> DEFINE B(n) == Below(C, n)
<1> USE DEF Below
<1>1. ASSUME NEW n \in Nat PROVE IsFiniteSet(B(n)) /\ Cardinality(B(n)) \in Nat
  <2>1. IsFiniteSet(1 .. n)
    BY FS_Interval
  <2>2. B(n) \subseteq 1 .. n
    OBVIOUS
  <2> QED BY <2>1, <2>2, FS_Subset, FS_CardinalityType, Zenon
<1>2. Cardinality(B(1)) = 0
  <2>1. B(1) = {}
    OBVIOUS
  <2> QED BY <2>1, FS_EmptySet, Zenon
<1>3. Cardinality(B(i + 1)) = IF i \in C THEN Cardinality(B(i)) + 1 ELSE Cardinality(B(i))
  <2>1. CASE i \in C
    <3>1. B(i + 1) = B(i) \cup {i} /\ i \notin B(i)
      <4>1. \A j \in C : j < i + 1 <=> j < i \/ j = i
        OBVIOUS
      <4>2. ~(i < i)
        OBVIOUS
      <4> QED BY <2>1, <4>1, <4>2, Zenon
    <3>2. IsFiniteSet(B(i))
      BY <1>1
    <3> HIDE DEF B
    <3>3. Cardinality(B(i) \cup {i}) = Cardinality(B(i)) + 1
      BY <3>1, <3>2, FS_AddElement, Zenon
    <3> QED BY <2>1, <3>1, <3>3, Zenon
  <2>2. CASE i \notin C
    <3>1. B(i + 1) = B(i)
      BY <2>2
    <3> QED BY <2>2, <3>1, Zenon
  <2> QED BY <2>1, <2>2, Zenon
<1>4. ASSUME NEW k \in Nat \ {0}, i <= k PROVE Cardinality(B(i)) <= Cardinality(B(k))
  <2>1. B(i) \subseteq B(k)
    BY <1>4
  <2>2. IsFiniteSet(B(k))
    BY <1>1
  <2> QED BY <2>1, <2>2, FS_Subset, Zenon
<1>5. Cardinality(B(i)) \in Nat
  BY <1>1
<1> QED BY <1>2, <1>3, <1>4, <1>5, Zenon

\* Collective calls number the calls of a role.
LEMMA AreNumbered == ASSUME NEW l, AreRoles(l) PROVE Numbered(l)
<1>1. ASSUME NEW p \in DOMAIN l.roles PROVE \A x \in Collectives(l, p) : x \in Nat \ {0}
  <2>1. l.roles[p] \in Seq(Range(l.roles[p]))
    BY Zenon DEF AreRoles
  <2>2. DOMAIN l.roles[p] \subseteq Nat \ {0}
    BY <2>1
  <2>3. \A op : CallsOf(l, p, op) \subseteq DOMAIN l.roles[p]
    BY Zenon DEF CallsOf
  <2> QED BY <2>2, <2>3 DEF Collectives
<1>2. ASSUME NEW p \in DOMAIN l.roles, NEW i \in Nat \ {0}
      PROVE  /\ Round(l, p, i) \in Nat
             /\ Round(l, p, 1) = 0
             /\ Round(l, p, i + 1) = IF i \in Collectives(l, p) THEN Round(l, p, i) + 1 ELSE Round(l, p, i)
             /\ \A j \in Nat \ {0} : i <= j => Round(l, p, i) <= Round(l, p, j)
  <2> DEFINE C == Collectives(l, p)
  <2>1. \A x \in C : x \in Nat \ {0}
    BY <1>1, Zenon
  <2>2. \A n : Round(l, p, n) = Cardinality(Below(C, n))
    BY Zenon DEF Round, Below
  <2> HIDE DEF C
  <2>3. /\ Cardinality(Below(C, i)) \in Nat
        /\ Cardinality(Below(C, 1)) = 0
        /\ Cardinality(Below(C, i + 1)) =
             IF i \in C THEN Cardinality(Below(C, i)) + 1 ELSE Cardinality(Below(C, i))
        /\ \A k \in Nat \ {0} : i <= k => Cardinality(Below(C, i)) <= Cardinality(Below(C, k))
    BY <2>1, CountingBelow, Zenon
  <2> QED BY <2>2, <2>3, Zenon DEF C
<1> QED BY <1>2, Zenon DEF Numbered

\* The instances are in step, in a launch of the catalogue.
LEMMA InStepAlways == ASSUME \A l \in Catalogue : AreRoles(l) PROVE Spec => [](InStep /\ launch \in Catalogue)
<1>1. Init => InStep /\ launch \in Catalogue
  BY InitInStep, AreNumbered, Zenon DEF Init
<1>2. InStep /\ launch \in Catalogue /\ [Next]_vars => (InStep /\ launch \in Catalogue)'
  <2>1. InStep /\ [Next]_vars => InStep' /\ launch' = launch
    BY NextKinds, KindsInStep, CountersGrow, Zenon
  <2>2. Catalogue' = Catalogue
    BY Zenon DEF Catalogue
  <2> QED BY <2>1, <2>2, Zenon
<1> QED BY <1>1, <1>2, PTL DEF Spec

\* If the roles of every launch make the same collective calls in the same order,
\* instances never wait in different ones.
THEOREM SameCallsMatch == (\A l \in Catalogue : SameCollectives(l)) => (Spec => []CollectivesMatch)
<1> SUFFICES ASSUME \A l \in Catalogue : SameCollectives(l) PROVE Spec => []CollectivesMatch
  OBVIOUS
<1>1. \A l \in Catalogue : AreRoles(l)
  BY Zenon DEF SameCollectives
<1>2. InStep /\ launch \in Catalogue => CollectivesMatch
  BY SameInStep, Zenon
<1> QED BY <1>1, <1>2, InStepAlways, PTL

\* If no role publishes slots of a tag in the round after a fence of that tag,
\* pthreads' unlocked copies of the slots of a tag race with no insertion of one.
THEOREM ExchangesApartNotRaced == (\A l \in Catalogue : ExchangesApart(l)) => (Spec => []CopyNotRaced)
<1> SUFFICES ASSUME \A l \in Catalogue : ExchangesApart(l) PROVE Spec => []CopyNotRaced
  OBVIOUS
<1>1. \A l \in Catalogue : AreRoles(l)
  BY Zenon DEF ExchangesApart
<1>2. InStep /\ launch \in Catalogue => CopyNotRaced
  BY ApartInStep, Zenon
<1> QED BY <1>1, <1>2, InStepAlways, PTL

\* If every role that asks to destroy a slot fences it later, and the slot is
\* published by then for good, the fences of MPI and LPF leave none of the slots
\* asked for, whoever asked.
THEOREM FencedDestructionsFinish ==
  (\A l \in Catalogue : DestructionsFenced(l)) => (Spec => []DestructionsFinishCollectively)
<1> SUFFICES ASSUME \A l \in Catalogue : DestructionsFenced(l) PROVE Spec => []DestructionsFinishCollectively
  OBVIOUS
<1>1. Init => InStep /\ DoomedAgrees
  BY InitInStep, InitDoomed, AreNumbered, Zenon DEF Init, DestructionsFenced
<1>2. InStep /\ DoomedAgrees /\ [Next]_vars => (InStep /\ DoomedAgrees)'
  BY NextKinds, KindsInStep, KindsDoomed, Zenon
<1>3. InStep /\ DoomedAgrees => DestructionsFinishCollectively
  BY ListedAtTheEnd, Zenon
<1> QED BY <1>1, <1>2, <1>3, PTL DEF Spec

\* If the texts open the two sides of every channel on matching slots, of which
\* the other side is the only publisher, the ends agree whoever was first and
\* whatever else is published meanwhile.
THEOREM MatchingEndsAgree == (\A l \in Catalogue : EndsMatch(l)) => (Spec => []EndsAgree)
<1> SUFFICES ASSUME \A l \in Catalogue : EndsMatch(l) PROVE Spec => []EndsAgree
  OBVIOUS
<1>1. \A l \in Catalogue : AreRoles(l)
  BY Zenon DEF EndsMatch
<1>2. Init => FromCalls
  BY InitFromCalls, Zenon
<1>3. InStep /\ FromCalls /\ [Next]_vars => FromCalls'
  BY NextKinds, KindsFromCalls, Zenon
<1>4. InStep /\ launch \in Catalogue /\ FromCalls => EndsAgree
  BY EndsFromCalls, Zenon
<1> QED BY <1>1, <1>2, <1>3, <1>4, InStepAlways, PTL DEF Spec

\* If program order and fences put every use of a slot or buffer in the texts
\* within its lifetime, no instance uses what another has destroyed or freed.
THEOREM OrderedLifetimesAreLive == (\A l \in Catalogue : LifetimesOrdered(l)) => (Spec => []AccessesLiveSlots)
<1> SUFFICES ASSUME \A l \in Catalogue : LifetimesOrdered(l) PROVE Spec => []AccessesLiveSlots
  OBVIOUS
<1>1. Init => LifeInv
  BY InitLife, AreNumbered, Zenon DEF Init, LifetimesOrdered
<1>2. LifeInv /\ [Next]_vars => LifeInv'
  <2>1. LifeInv => InStep
    BY Zenon DEF LifeInv
  <2> QED BY <2>1, NextKinds, KindsLife, Zenon
<1>3. LifeInv => AccessesLiveSlots
  BY LiveInLifetimes, Zenon
<1> QED BY <1>1, <1>2, <1>3, PTL DEF Spec
=============================================================================
