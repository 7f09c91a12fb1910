----------------------------- MODULE ComputeProofs -----------------------------
(***************************************************************************)
(* Proofs about processing units, for every catalogue of programs that use   *)
(* them correctly, and about the worker, for every number of tasks and       *)
(* processing units.                                                        *)
(***************************************************************************)
EXTENDS Compute, Worker, TLAPS

AtWork == {"running", "suspended", "terminating"}

\* The unit's state after a call on it.
Reached(op) ==
  CASE op = "create" -> "uninitialized" [] op = "initialize" -> "ready"
    [] op = "start" -> "running" [] op = "suspend" -> "suspended" [] op = "resume" -> "running"
    [] op = "terminate" -> "terminating" [] op = "await" -> "terminated" [] op = "destroy" -> "none"

Script == program.script

Kernels == UNION {Range(call.kernels) : call \in {c \in Range(Script) : c.op = "start"}}

Typed ==
  /\ TypeOK /\ exc = "none" /\ WellUsed(program)
  /\ pc \in Nat \ {0} /\ pc <= Len(Script) + 1
  /\ stream \in Seq(Kernels) /\ todo \in Seq(Kernels)
  /\ stage # "idle" => pc \in DOMAIN Script /\ Statement.op = "start"
  /\ stage \in {"idle", "barrier"} => todo = <<>>

\* A slot the text says is held is live, and mapped unless a kernel has it.
SlotsAgree ==
  /\ DOMAIN slot = SlotsOf(Script)
  /\ \A s \in DOMAIN slot :
       /\ DOMAIN slot[s] = {"live", "mapped", "value"}
       /\ Held(Script, pc, s) => slot[s].live
       /\ Held(Script, pc, s) /\ Backend = "opencl" =>
            (slot[s].mapped <=> ~(stage = "map" /\ s \in Touched(Head(todo))))

\* The last call on the unit says what state it is in.
UnitAgrees ==
  /\ stage # "idle" => unit = "running"
  /\ stage = "idle" => /\ NoUnit(Script, pc) => unit = "none"
                       /\ \A op \in UnitCalls : Follows(Script, pc, {op}) => unit = Reached(op)

\* The unit's state bounds what its engine can be doing.
EngineAgrees ==
  /\ unit \notin AtWork => stream = <<>> /\ engine \in {"none", "ended"}
  /\ unit = "none" => engine = "none"
  /\ stage = "barrier" <=> engine \in {"created", "barrier"}
  /\ pending # {} => engine \in {"running", "handler", "parked"}
  /\ OnDevice => engine = "none" /\ (unit \in AtWork => active)
  /\ ~OnDevice => (engine = "ended" => stream = <<>>) /\ (unit \in AtWork => engine # "none")

\* The kernels left are of a start that is not awaited, and their slots are held.
WorkAgrees ==
  /\ \A s \in WorksOn(stream) \cup WorksOn(todo) : Held(Script, pc, s)
  /\ stream # <<>> \/ stage # "idle" =>
       \E j \in 1 .. pc : /\ MayRun(Script, j, pc) /\ (j = pc => stage # "idle")
                          /\ Range(stream) \cup Range(todo) \subseteq Range(Script[j].kernels)

\* An OpenCL queue holds a kernel only between its enqueuing and the mapping.
QueueAgrees ==
  /\ Backend = "opencl" /\ stage # "map" => stream = <<>>
  /\ stage = "map" => /\ Backend = "opencl" /\ todo # <<>> /\ Head(todo).op # "wait"
                      /\ stream \in {<<>>, <<Head(todo)>>}

IInv == Typed /\ SlotsAgree /\ UnitAgrees /\ EngineAgrees /\ WorkAgrees /\ QueueAgrees

\* A leaf that names no prover goes to the SMT solver, for a minute at most.
USE SMTT(60)

-----------------------------------------------------------------------------
(* What one more call changes in the reading of a script.                    *)

\* A held slot stays held unless the call gives it up.
LEMMA HeldKept ==
  ASSUME NEW sc, NEW i \in Nat \ {0}, NEW s, Held(sc, i, s),
         sc[i].op \in {"free", "deregister"} => sc[i].slot # s
  PROVE  Held(sc, i + 1, s)
  BY DEF Held

\* A slot held after a call was held before it, or the call is what got it.
LEMMA HeldBefore ==
  ASSUME NEW sc, NEW i \in Nat \ {0}, NEW s, Held(sc, i + 1, s)
  PROVE  \/ sc[i].op \in {"allocate", "register"} /\ sc[i].slot = s
         \/ Held(sc, i, s) /\ ~(sc[i].op \in {"free", "deregister"} /\ sc[i].slot = s)
<1>1. PICK j \in 1 .. i : /\ sc[j].op \in {"allocate", "register"} /\ sc[j].slot = s
                          /\ \A k \in j + 1 .. i : sc[k].op \in {"free", "deregister"} => sc[k].slot # s
  BY DEF Held
<1>2. CASE j = i
  BY <1>1, <1>2
<1>3. CASE j < i
  <2>1. j \in 1 .. i - 1 /\ i \in j + 1 .. i /\ \A k \in j + 1 .. i - 1 : k \in j + 1 .. i
    BY <1>3
  <2> QED
    BY <1>1, <2>1 DEF Held
<1> QED
  BY <1>2, <1>3

\* A slot that is held is one of the script's slots.
LEMMA HeldIsASlot ==
  ASSUME NEW sc, sc \in Seq(Range(sc)), NEW i \in 1 .. Len(sc) + 1, NEW s, Held(sc, i, s)
  PROVE  s \in SlotsOf(sc)
<1>1. PICK j \in 1 .. i - 1 : sc[j].op \in {"allocate", "register"} /\ sc[j].slot = s
  BY DEF Held
<1>2. j \in DOMAIN sc
  BY <1>1
<1> QED
  BY <1>1, <1>2 DEF SlotsOf, Range

\* The last call on the unit is this one, or the one it was if this is none.
LEMMA FollowsBefore ==
  ASSUME NEW sc, NEW i \in Nat \ {0}, NEW op, Follows(sc, i + 1, {op})
  PROVE  op = sc[i].op \/ (sc[i].op \notin UnitCalls /\ Follows(sc, i, {op}))
<1>1. PICK j \in 1 .. i : sc[j].op = op /\ \A k \in j + 1 .. i : sc[k].op \notin UnitCalls
  BY DEF Follows
<1>2. CASE j = i
  BY <1>1, <1>2
<1>3. CASE j < i
  <2>1. j \in 1 .. i - 1 /\ i \in j + 1 .. i /\ \A k \in j + 1 .. i - 1 : k \in j + 1 .. i
    BY <1>3
  <2> QED
    BY <1>1, <2>1 DEF Follows
<1> QED
  BY <1>2, <1>3

\* The same for a unit that does not exist.
LEMMA NoUnitBefore ==
  ASSUME NEW sc, NEW i \in Nat \ {0}, NoUnit(sc, i + 1)
  PROVE  sc[i].op = "destroy" \/ (sc[i].op \notin UnitCalls /\ NoUnit(sc, i))
<1>1. CASE Follows(sc, i + 1, {"destroy"})
  <2>1. "destroy" = sc[i].op \/ (sc[i].op \notin UnitCalls /\ Follows(sc, i, {"destroy"}))
    BY <1>1, FollowsBefore, Zenon
  <2> QED
    BY <2>1 DEF NoUnit
<1>2. CASE \A k \in 1 .. i : sc[k].op \notin UnitCalls
  BY <1>2 DEF NoUnit
<1> QED
  BY <1>1, <1>2 DEF NoUnit

\* Kernels that nobody awaits may still run after the next call.
LEMMA MayRunKept ==
  ASSUME NEW sc, NEW i \in Nat \ {0}, NEW j \in Nat, MayRun(sc, j, i), sc[i].op # "await"
  PROVE  MayRun(sc, j, i + 1)
  BY DEF MayRun

\* The last call on the unit is one call.
LEMMA FollowsOne ==
  ASSUME NEW sc, NEW i, NEW ops, Follows(sc, i, ops)
  PROVE  \E op \in ops : Follows(sc, i, {op})
  BY DEF Follows

-----------------------------------------------------------------------------
(* What the text of a program says of the state its calls find.              *)

\* The call a running program is at is one the rules allow.
LEMMA CallIsAllowed ==
  ASSUME Running, Typed
  PROVE  /\ Script \in Seq(Range(Script)) /\ pc \in DOMAIN Script /\ pc \in 1 .. Len(Script)
         /\ CallAllowed(Backend, Script, pc) /\ Statement = Script[pc]
  BY DEF Running, Typed, WellUsed, Script, Statement, Backend

\* The unit is in a state the call is made for.
LEMMA UnitIsReady ==
  ASSUME Running, Typed, UnitAgrees, stage = "idle"
  PROVE  /\ Statement.op = "create" => unit = "none"
         /\ Statement.op = "initialize" => unit \in {"uninitialized", "terminated"}
         /\ Statement.op = "start" => unit = "ready"
         /\ Statement.op = "suspend" => unit = "running" /\ Backend = "pthreads"
         /\ Statement.op = "resume" => unit = "suspended" /\ Backend = "pthreads"
         /\ Statement.op \in {"terminate", "await"} => unit \in AtWork
         /\ Statement.op = "destroy" => unit \in {"uninitialized", "ready", "terminated"}
<1>1. ASSUME NEW ops \in SUBSET UnitCalls, Follows(Script, pc, ops)
      PROVE  \E op \in ops : unit = Reached(op)
  <2>1. PICK op \in ops : Follows(Script, pc, {op})
    BY <1>1, FollowsOne, Zenon
  <2> QED
    BY <2>1, Zenon DEF UnitAgrees
<1>2. CallAllowed(Backend, Script, pc) /\ Statement = Script[pc]
  BY CallIsAllowed, Zenon
<1>3. /\ Reached("create") = "uninitialized" /\ Reached("initialize") = "ready"
      /\ Reached("start") = "running" /\ Reached("suspend") = "suspended"
      /\ Reached("resume") = "running" /\ Reached("terminate") = "terminating"
      /\ Reached("await") = "terminated"
  BY DEF Reached
<1>4. CASE Statement.op = "create"
  BY <1>2, <1>4 DEF CallAllowed, UnitAgrees
<1>5. CASE Statement.op = "initialize"
  <2>1. \E op \in {"create", "await"} : unit = Reached(op)
    BY <1>1, <1>2, <1>5 DEF CallAllowed, UnitCalls
  <2> QED
    BY <1>3, <1>5, <2>1
<1>6. CASE Statement.op = "start"
  <2>1. \E op \in {"initialize"} : unit = Reached(op)
    BY <1>1, <1>2, <1>6 DEF CallAllowed, UnitCalls
  <2> QED
    BY <1>3, <1>6, <2>1
<1>7. CASE Statement.op = "suspend"
  <2>1. Backend = "pthreads" /\ \E op \in {"start", "resume"} : unit = Reached(op)
    BY <1>1, <1>2, <1>7 DEF CallAllowed, UnitCalls
  <2> QED
    BY <1>3, <1>7, <2>1
<1>8. CASE Statement.op = "resume"
  <2>1. Backend = "pthreads" /\ \E op \in {"suspend"} : unit = Reached(op)
    BY <1>1, <1>2, <1>8 DEF CallAllowed, UnitCalls
  <2> QED
    BY <1>3, <1>8, <2>1
<1>9. CASE Statement.op \in {"terminate", "await"}
  <2>1. Follows(Script, pc, {"start", "suspend", "resume", "terminate"})
    BY <1>2, <1>9 DEF CallAllowed, Follows
  <2>2. \E op \in {"start", "suspend", "resume", "terminate"} : unit = Reached(op)
    BY <1>1, <2>1 DEF UnitCalls
  <2> QED
    BY <1>3, <1>9, <2>2 DEF AtWork
<1>10. CASE Statement.op = "destroy"
  <2>1. \E op \in {"create", "initialize", "await"} : unit = Reached(op)
    BY <1>1, <1>2, <1>10 DEF CallAllowed, UnitCalls
  <2> QED
    BY <1>3, <1>10, <2>1
<1> QED
  BY <1>4, <1>5, <1>6, <1>7, <1>8, <1>9, <1>10

-----------------------------------------------------------------------------
(* Calls that change slots.  What they do to live and mapped is all the       *)
(* invariant needs to know of them.                                          *)

Gets == {"allocate", "register"}
GivesUp == {"free", "deregister"}

MemoryStep ==
  /\ Running /\ stage = "idle" /\ Statement.op \notin UnitCalls
  /\ pc' = pc + 1 /\ program' = program /\ UNCHANGED engineVars /\ exc' = exc
  /\ DOMAIN slot' = DOMAIN slot
  /\ \A s \in DOMAIN slot :
       /\ DOMAIN slot'[s] = DOMAIN slot[s]
       /\ \/ /\ ~(Statement.op \in Gets /\ Statement.slot = s)
             /\ slot'[s].live = slot[s].live /\ slot'[s].mapped = slot[s].mapped
          \/ Statement.op \in Gets /\ slot'[s].live /\ (Backend = "opencl" => slot'[s].mapped)
          \/ Statement.op \in GivesUp /\ Statement.slot = s

\* allocateLocalMemorySlot and registerLocalMemorySlot.
LEMMA GetsIsMemoryStep ==
  ASSUME IInv, NEW op \in Gets, At(op), NEW m \in BOOLEAN, Allocated(m) \/ Registered(m),
         Backend = "opencl" => m
  PROVE  MemoryStep
<1> USE DEF IInv, SlotsAgree, Gets
<1>1. /\ Running /\ stage = "idle" /\ Statement.op = op /\ Statement.op \notin UnitCalls
      /\ pc' = pc + 1 /\ program' = program /\ UNCHANGED engineVars /\ exc' = exc
  BY DEF At, Allocated, Registered, Advance, UnitCalls
<1>2. PICK v : slot' = [slot EXCEPT ![Statement.slot] = [live |-> TRUE, mapped |-> m, value |-> v]]
  <2>1. CASE Allocated(m)
    BY <2>1, Zenon DEF Allocated
  <2>2. CASE Registered(m)
    BY <2>2, Zenon DEF Registered
  <2> QED
    BY <2>1, <2>2, Zenon
<1>3. DOMAIN slot' = DOMAIN slot
  BY <1>2
<1>4. ASSUME NEW s \in DOMAIN slot
      PROVE  /\ DOMAIN slot'[s] = DOMAIN slot[s]
             /\ \/ Statement.slot # s /\ slot'[s] = slot[s]
                \/ slot'[s].live /\ (Backend = "opencl" => slot'[s].mapped)
  <2>1. CASE s = Statement.slot
    <3>1. slot'[s] = [live |-> TRUE, mapped |-> m, value |-> v]
      BY <1>2, <2>1
    <3> QED
      BY <3>1
  <2>2. CASE s # Statement.slot
    BY <1>2, <2>2
  <2> QED
    BY <2>1, <2>2
<1> QED
  BY <1>1, <1>3, <1>4 DEF MemoryStep

\* freeLocalMemorySlot and deregisterLocalMemorySlot.
LEMMA GivesUpIsMemoryStep ==
  ASSUME IInv, NEW op \in GivesUp, At(op), Freed \/ DeregisterLocalMemorySlot
  PROVE  MemoryStep
<1> USE DEF IInv, SlotsAgree, GivesUp
<1>1. /\ Running /\ stage = "idle" /\ Statement.op = op /\ Statement.op \notin UnitCalls
      /\ Statement.op \notin Gets
      /\ pc' = pc + 1 /\ program' = program /\ UNCHANGED engineVars /\ exc' = exc
  BY DEF At, Freed, DeregisterLocalMemorySlot, Advance, UnitCalls, Gets
<1>2. DOMAIN slot' = DOMAIN slot
  BY DEF Freed, DeregisterLocalMemorySlot
<1>3. ASSUME NEW s \in DOMAIN slot
      PROVE  DOMAIN slot'[s] = DOMAIN slot[s] /\ (Statement.slot # s => slot'[s] = slot[s])
  BY DEF Freed, DeregisterLocalMemorySlot
<1> QED
  BY <1>1, <1>2, <1>3 DEF MemoryStep

\* What only writes a slot's memory, or reads it.
LEMMA WritesIsMemoryStep ==
  ASSUME IInv, WriteSlot \/ Memset \/ MemsetOpencl \/ (At("memcpy") /\ Copied) \/ ShowSlot \/ SetFlag
  PROVE  MemoryStep
<1> USE DEF IInv, SlotsAgree
<1>1. /\ Running /\ stage = "idle" /\ Statement.op \notin UnitCalls /\ Statement.op \notin Gets
      /\ pc' = pc + 1 /\ program' = program /\ UNCHANGED engineVars /\ exc' = exc
  BY DEF At, WriteSlot, Memset, MemsetOpencl, Copied, ShowSlot, SetFlag, Advance, UnitCalls, Gets
<1>2. CASE slot' = slot
  BY <1>1, <1>2 DEF MemoryStep
<1>3. ASSUME NEW v, slot' = [slot EXCEPT ![Statement.slot].value = v]
      PROVE  MemoryStep
  <2>1. DOMAIN slot' = DOMAIN slot
    BY <1>3
  <2>2. ASSUME NEW s \in DOMAIN slot
        PROVE  /\ DOMAIN slot'[s] = DOMAIN slot[s]
               /\ slot'[s].live = slot[s].live /\ slot'[s].mapped = slot[s].mapped
    <3>1. slot'[s] = IF s = Statement.slot THEN [slot[s] EXCEPT !.value = v] ELSE slot[s]
      BY <1>3
    <3>2. DOMAIN slot[s] = {"live", "mapped", "value"}
      OBVIOUS
    <3> QED
      BY <3>1, <3>2
  <2> QED
    BY <1>1, <2>1, <2>2 DEF MemoryStep
<1>4. CASE WriteSlot
  BY <1>3, <1>4, Zenon DEF WriteSlot
<1>5. CASE Memset
  BY <1>3, <1>5, Zenon DEF Memset
<1>6. CASE MemsetOpencl
  BY <1>3, <1>6, Zenon DEF MemsetOpencl
<1>7. CASE At("memcpy") /\ Copied
  BY <1>3, <1>7, Zenon DEF Copied
<1>8. CASE ShowSlot \/ SetFlag
  BY <1>2, <1>8, Zenon DEF ShowSlot, SetFlag
<1> QED
  BY <1>4, <1>5, <1>6, <1>7, <1>8, Zenon

\* Fewer kernels work on fewer slots.
LEMMA WorksOnMonotone ==
  ASSUME NEW a, NEW b, Range(a) \subseteq Range(b)
  PROVE  WorksOn(a) \subseteq WorksOn(b)
  BY Zenon DEF WorksOn

\* A stream without kernels works on no slot.
LEMMA WorksOnNone == WorksOn(<<>>) = {}
<1>1. Range(<<>>) = {}
  BY DEF Range
<1> QED
  BY <1>1 DEF WorksOn

\* A call on a slot keeps the typing ...
LEMMA MemoryTyped ==
  ASSUME IInv, MemoryStep
  PROVE  Typed'
<1>1. /\ program' = program /\ Script' = Script /\ Kernels' = Kernels /\ exc' = exc
      /\ UNCHANGED <<unit, stage, todo, engine, stream, active, pending>> /\ stage = "idle"
      /\ pc' = pc + 1 /\ Running /\ Typed
  BY Zenon DEF MemoryStep, Script, Kernels, engineVars, IInv
<1>2. pc \in 1 .. Len(Script) /\ Script \in Seq(Range(Script))
  BY <1>1, CallIsAllowed
<1>3. pc' \in Nat \ {0} /\ pc' <= Len(Script) + 1
  BY <1>1, <1>2
<1> QED
  BY <1>1, <1>3 DEF Typed, TypeOK

\* ... and what the text says of the slots ...
LEMMA MemorySlots ==
  ASSUME IInv, MemoryStep
  PROVE  SlotsAgree'
<1>1. /\ program' = program /\ Script' = Script /\ stage' = "idle" /\ stage = "idle" /\ pc' = pc + 1
      /\ Backend' = Backend /\ DOMAIN slot' = DOMAIN slot /\ pc \in Nat \ {0} /\ Statement = Script[pc]
  BY Zenon DEF MemoryStep, Script, engineVars, Backend, IInv, Typed, Statement
<1>2. ASSUME NEW s \in DOMAIN slot
      PROVE  /\ DOMAIN slot'[s] = {"live", "mapped", "value"}
             /\ Held(Script, pc + 1, s) => slot'[s].live /\ (Backend = "opencl" => slot'[s].mapped)
  <2>1. /\ DOMAIN slot'[s] = {"live", "mapped", "value"}
        /\ \/ /\ ~(Statement.op \in Gets /\ Statement.slot = s)
              /\ slot'[s].live = slot[s].live /\ slot'[s].mapped = slot[s].mapped
           \/ Statement.op \in Gets /\ slot'[s].live /\ (Backend = "opencl" => slot'[s].mapped)
           \/ Statement.op \in GivesUp /\ Statement.slot = s
    BY Zenon DEF MemoryStep, IInv, SlotsAgree
  <2>2. ASSUME Held(Script, pc + 1, s)
        PROVE  \/ Statement.op \in Gets /\ Statement.slot = s
               \/ Held(Script, pc, s) /\ ~(Statement.op \in GivesUp /\ Statement.slot = s)
    BY <1>1, <2>2, HeldBefore DEF Gets, GivesUp
  <2>3. ASSUME Held(Script, pc, s)
        PROVE  slot[s].live /\ (Backend = "opencl" => slot[s].mapped)
    BY <1>1, <2>3 DEF IInv, SlotsAgree
  <2>4. Statement.op \in Gets => Statement.op \notin GivesUp
    BY DEF Gets, GivesUp
  <2> QED
    BY <2>1, <2>2, <2>3, <2>4
<1>3. DOMAIN slot = SlotsOf(Script)
  BY Zenon DEF IInv, SlotsAgree
<1> QED
  BY <1>1, <1>2, <1>3 DEF SlotsAgree

\* ... and of the unit, which it does not touch ...
LEMMA MemoryUnit ==
  ASSUME IInv, MemoryStep
  PROVE  UnitAgrees'
<1>1. /\ program' = program /\ Script' = Script /\ unit' = unit /\ stage' = "idle" /\ stage = "idle"
      /\ pc' = pc + 1 /\ pc \in Nat \ {0} /\ Script[pc].op \notin UnitCalls
  BY Zenon DEF MemoryStep, Script, engineVars, IInv, Typed, Statement
<1>2. NoUnit(Script, pc + 1) => NoUnit(Script, pc)
  BY <1>1, NoUnitBefore DEF UnitCalls
<1>3. ASSUME NEW op \in UnitCalls, Follows(Script, pc + 1, {op})
      PROVE  Follows(Script, pc, {op})
  BY <1>1, <1>3, FollowsBefore, Zenon
<1> QED
  BY <1>1, <1>2, <1>3, Zenon DEF UnitAgrees, IInv

\* ... and what is said of the kernels, none of whose slots it gives up.
LEMMA MemoryWork ==
  ASSUME IInv, MemoryStep
  PROVE  WorkAgrees'
<1>1. /\ program' = program /\ Script' = Script /\ stage' = "idle" /\ stage = "idle" /\ pc' = pc + 1
      /\ pc \in Nat \ {0} /\ Statement = Script[pc] /\ stream' = stream /\ todo' = todo /\ Running
      /\ todo = <<>> /\ Typed /\ Script[pc].op \notin UnitCalls
  BY Zenon DEF MemoryStep, Script, engineVars, Backend, IInv, Typed, Statement
<1>2. WorksOn(todo) = {}
  BY <1>1, WorksOnNone
<1>3. CASE stream = <<>>
  BY <1>1, <1>2, <1>3, WorksOnNone DEF WorkAgrees
<1>4. CASE stream # <<>>
  <2>1. PICK j \in 1 .. pc : /\ MayRun(Script, j, pc) /\ j # pc
                            /\ Range(stream) \cup Range(todo) \subseteq Range(Script[j].kernels)
    BY <1>1, <1>4 DEF WorkAgrees, IInv
  <2>2. j \in 1 .. pc - 1 /\ j \in 1 .. pc' /\ j \in Nat /\ j # pc'
    BY <1>1, <2>1
  <2>3. MayRun(Script, j, pc + 1)
    BY <1>1, <2>1, <2>2, MayRunKept DEF UnitCalls
  <2>4. WorksOn(stream) \subseteq WorksOn(Script[j].kernels)
    BY <2>1, WorksOnMonotone
  <2>5. ASSUME NEW s \in WorksOn(stream)
        PROVE  Held(Script, pc + 1, s)
    <3>1. CallAllowed(Backend, Script, pc)
      BY <1>1, CallIsAllowed, Zenon
    <3>2. Script[pc].op \in {"free", "deregister"} => Script[pc].slot \notin WorksOn(Script[j].kernels)
      BY <2>1, <2>2, <3>1 DEF CallAllowed
    <3>3. Held(Script, pc, s)
      BY Zenon DEF IInv, WorkAgrees
    <3> QED
      BY <1>1, <2>4, <3>2, <3>3, HeldKept
  <2> QED
    BY <1>1, <1>2, <2>1, <2>2, <2>3, <2>5 DEF WorkAgrees
<1> QED
  BY <1>3, <1>4

\* So a call on a slot preserves the invariant.
LEMMA MemoryIInv ==
  ASSUME IInv, MemoryStep
  PROVE  IInv'
<1>1. EngineAgrees' /\ QueueAgrees'
  <2>1. program' = program /\ UNCHANGED <<unit, stage, todo, engine, stream, active, pending>>
    BY Zenon DEF MemoryStep, engineVars
  <2> QED
    BY <2>1 DEF IInv, EngineAgrees, QueueAgrees, OnDevice, Backend
<1> QED
  BY <1>1, MemoryTyped, MemorySlots, MemoryUnit, MemoryWork, Zenon DEF IInv

-----------------------------------------------------------------------------
(* Calls on the unit, and the steps of its engine                            *)

\* A call on the unit, other than start, that does not throw.
UnitStep ==
  /\ Running /\ stage = "idle" /\ Statement.op \in UnitCalls \ {"start"}
  /\ pc' = pc + 1 /\ UNCHANGED <<program, slot, stage, todo, stream, exc>>
  /\ unit' = Reached(Statement.op)
  /\ Statement.op = "await" => stream = <<>>

\* After a call that is not made for slots, or a start that returns, what the
\* text says of slots and kernels still holds.
LEMMA HeldUnchanged ==
  ASSUME NEW sc, NEW i \in Nat \ {0}, NEW s, sc[i].op \notin Gets \cup GivesUp
  PROVE  Held(sc, i + 1, s) <=> Held(sc, i, s)
  BY HeldKept, HeldBefore DEF Gets, GivesUp

\* Such a call preserves the invariant where it keeps the engine's part of it.
LEMMA UnitIInv ==
  ASSUME IInv, UnitStep, TypeOK', EngineAgrees'
  PROVE  IInv'
<1>1. /\ program' = program /\ Script' = Script /\ Kernels' = Kernels /\ exc' = exc /\ pc' = pc + 1
      /\ UNCHANGED <<slot, stage, todo, stream>> /\ stage = "idle" /\ Backend' = Backend
      /\ pc \in Nat \ {0} /\ Statement = Script[pc] /\ Typed /\ todo = <<>>
  BY Zenon DEF UnitStep, Script, Kernels, IInv, Typed, Statement, Backend
<1>2. Script[pc].op \in UnitCalls \ {"start"} /\ Script[pc].op \notin Gets \cup GivesUp
  BY <1>1 DEF UnitStep, UnitCalls, Gets, GivesUp
<1>3. \A s : Held(Script, pc + 1, s) <=> Held(Script, pc, s)
  BY <1>1, <1>2, HeldUnchanged
<1>4. Typed'
  <2>1. pc \in 1 .. Len(Script) /\ Script \in Seq(Range(Script))
    BY <1>1, CallIsAllowed DEF UnitStep
  <2>2. pc' \in Nat \ {0} /\ pc' <= Len(Script) + 1
    BY <1>1, <2>1
  <2> QED
    BY <1>1, <2>2 DEF Typed
<1>5. SlotsAgree'
  <2>1. ASSUME NEW s \in DOMAIN slot
        PROVE  /\ DOMAIN slot[s] = {"live", "mapped", "value"}
               /\ Held(Script, pc + 1, s) => slot[s].live
               /\ Held(Script, pc + 1, s) /\ Backend = "opencl" => slot[s].mapped
    BY <1>1, <1>3 DEF IInv, SlotsAgree
  <2>2. stage' = "idle" /\ slot' = slot /\ DOMAIN slot = SlotsOf(Script)
    BY <1>1, Zenon DEF IInv, SlotsAgree
  <2> QED
    BY <1>1, <2>1, <2>2 DEF SlotsAgree
<1>6. UnitAgrees'
  <2>1. unit' = Reached(Script[pc].op)
    BY <1>1 DEF UnitStep
  <2>2. NoUnit(Script, pc + 1) => unit' = "none"
    <3>1. ASSUME NoUnit(Script, pc + 1)
          PROVE  Script[pc].op = "destroy"
      <4>1. Script[pc].op \in UnitCalls
        BY <1>2
      <4> QED
        BY <1>1, <3>1, <4>1, NoUnitBefore, Zenon
    <3> QED
      BY <2>1, <3>1 DEF Reached
  <2>3. ASSUME NEW op \in UnitCalls, Follows(Script, pc + 1, {op})
        PROVE  unit' = Reached(op)
    <3>1. Script[pc].op \in UnitCalls
      BY <1>2
    <3>2. op = Script[pc].op
      BY <1>1, <2>3, <3>1, FollowsBefore, Zenon
    <3> QED
      BY <2>1, <3>2
  <2> QED
    BY <1>1, <2>2, <2>3 DEF UnitAgrees
<1>7. WorkAgrees'
  <2>1. \A s \in WorksOn(stream) \cup WorksOn(todo) : Held(Script, pc + 1, s)
    BY <1>3 DEF IInv, WorkAgrees
  <2>2. ASSUME stream # <<>>
        PROVE  \E j \in 1 .. pc + 1 : /\ MayRun(Script, j, pc + 1) /\ j # pc + 1
                                     /\ Range(stream) \cup Range(todo) \subseteq Range(Script[j].kernels)
    <3>1. PICK j \in 1 .. pc : /\ MayRun(Script, j, pc)
                              /\ Range(stream) \cup Range(todo) \subseteq Range(Script[j].kernels)
      BY <2>2 DEF IInv, WorkAgrees
    <3>2. MayRun(Script, j, pc + 1)
      BY <1>1, <2>2, <3>1, MayRunKept DEF UnitStep
    <3>3. j \in 1 .. pc + 1 /\ j # pc + 1
      BY <1>1
    <3> QED
      BY <3>1, <3>2, <3>3
  <2> QED
    BY <1>1, <2>1, <2>2 DEF WorkAgrees
<1>8. QueueAgrees'
  BY <1>1 DEF IInv, QueueAgrees
<1> QED
  BY <1>4, <1>5, <1>6, <1>7, <1>8, Zenon DEF IInv

\* A start returns: its kernels are all handed over, and run.
LEMMA StartReturns ==
  ASSUME IInv, Running, stage \in {"barrier", "enqueue"}, todo = <<>>, stage' = "idle", pc' = pc + 1,
         UNCHANGED <<program, slot, unit, todo, stream, exc>>, TypeOK', EngineAgrees'
  PROVE  IInv'
<1>1. /\ Script' = Script /\ Kernels' = Kernels /\ Backend' = Backend
      /\ pc \in Nat \ {0} /\ Script[pc].op = "start" /\ Typed /\ unit = "running"
  BY DEF Script, Kernels, IInv, Typed, Statement, Backend, UnitAgrees
<1>2. Script[pc].op \in UnitCalls /\ Script[pc].op \notin Gets \cup GivesUp
  BY <1>1 DEF UnitCalls, Gets, GivesUp
<1>3. \A s : Held(Script, pc + 1, s) <=> Held(Script, pc, s)
  BY <1>1, <1>2, HeldUnchanged
<1>4. Typed'
  <2>1. pc \in 1 .. Len(Script) /\ Script \in Seq(Range(Script))
    BY <1>1, CallIsAllowed DEF UnitStep
  <2>2. pc' \in Nat \ {0} /\ pc' <= Len(Script) + 1
    BY <1>1, <2>1
  <2> QED
    BY <1>1, <2>2 DEF Typed
<1>5. SlotsAgree'
  <2>1. ASSUME NEW s \in DOMAIN slot
        PROVE  /\ DOMAIN slot[s] = {"live", "mapped", "value"}
               /\ Held(Script, pc + 1, s) => slot[s].live
               /\ Held(Script, pc + 1, s) /\ Backend = "opencl" => slot[s].mapped
    BY <1>1, <1>3 DEF IInv, SlotsAgree
  <2>2. stage' = "idle" /\ slot' = slot /\ DOMAIN slot = SlotsOf(Script)
    BY <1>1, Zenon DEF IInv, SlotsAgree
  <2> QED
    BY <1>1, <2>1, <2>2 DEF SlotsAgree
<1>6. UnitAgrees'
  <2>1. ASSUME NoUnit(Script, pc + 1)
        PROVE  FALSE
    <3>1. Script[pc].op = "destroy"
      BY <1>1, <1>2, <2>1, NoUnitBefore, Zenon
    <3> QED
      BY <1>1, <3>1
  <2>2. ASSUME NEW op \in UnitCalls, Follows(Script, pc + 1, {op})
        PROVE  op = "start"
    BY <1>1, <1>2, <2>2, FollowsBefore, Zenon
  <2>3. Reached("start") = "running"
    BY DEF Reached
  <2> QED
    BY <1>1, <2>1, <2>2, <2>3 DEF UnitAgrees
<1>7. WorkAgrees'
  <2>1. \A s \in WorksOn(stream) \cup WorksOn(todo) : Held(Script, pc + 1, s)
    BY <1>3 DEF IInv, WorkAgrees
  <2>2. \E j \in 1 .. pc + 1 : /\ MayRun(Script, j, pc + 1) /\ j # pc + 1
                              /\ Range(stream) \cup Range(todo) \subseteq Range(Script[j].kernels)
    <3>1. PICK j \in 1 .. pc : /\ MayRun(Script, j, pc)
                              /\ Range(stream) \cup Range(todo) \subseteq Range(Script[j].kernels)
      BY DEF IInv, WorkAgrees
    <3>2. MayRun(Script, j, pc + 1)
      BY <1>1, <3>1, MayRunKept
    <3>3. j \in 1 .. pc + 1 /\ j # pc + 1
      BY <1>1
    <3> QED
      BY <3>1, <3>2, <3>3
  <2> QED
    BY <1>1, <2>1, <2>2 DEF WorkAgrees
<1>8. QueueAgrees'
  BY <1>1 DEF IInv, QueueAgrees
<1> QED
  BY <1>4, <1>5, <1>6, <1>7, <1>8, Zenon DEF IInv

\* A step of the engine that takes no kernel.
LEMMA EngineIInv ==
  ASSUME IInv, UNCHANGED <<program, pc, slot, unit, stage, todo, stream, exc>>, TypeOK', EngineAgrees'
  PROVE  IInv'
<1>1. Script' = Script /\ Kernels' = Kernels /\ Backend' = Backend /\ Statement' = Statement
  BY DEF Script, Kernels, Backend, Statement
<1>2. Typed'
  BY <1>1 DEF IInv, Typed
<1>3. SlotsAgree'
  BY <1>1 DEF IInv, SlotsAgree
<1>4. UnitAgrees'
  BY <1>1 DEF IInv, UnitAgrees
<1>5. WorkAgrees'
  BY <1>1 DEF IInv, WorkAgrees
<1>6. QueueAgrees'
  BY <1>1 DEF IInv, QueueAgrees
<1> QED
  BY <1>2, <1>3, <1>4, <1>5, <1>6, Zenon DEF IInv

\* The unit's constructors, initialize, terminate and destructors.
LEMMA PlainCallIInv ==
  ASSUME IInv, Created \/ Initialize \/ Terminate \/ DestroyProcessingUnit
  PROVE  IInv'
<1>1. Running /\ stage = "idle" /\ Typed /\ UnitAgrees
  BY DEF Created, Initialize, Terminate, DestroyProcessingUnit, At, IInv
<1>2. /\ Statement.op = "create" => unit = "none"
      /\ Statement.op = "initialize" => unit \in {"uninitialized", "terminated"}
      /\ Statement.op \in {"terminate", "await"} => unit \in AtWork
      /\ Statement.op = "destroy" => unit \in {"uninitialized", "ready", "terminated"}
  BY <1>1, UnitIsReady, Zenon
<1>3. UnitStep /\ program' = program
  BY <1>1, <1>2 DEF Created, Initialize, Terminate, DestroyProcessingUnit, At, Advance, UnitStep, UnitCalls,
                    Reached, Throw
<1>4. TypeOK'
  <2>1. active' = active /\ active \in BOOLEAN
    BY <1>1, <1>2 DEF Created, Initialize, Terminate, DestroyProcessingUnit, At, IInv, Typed, TypeOK, Throw
  <2>2. active' \in BOOLEAN
    BY <2>1, Zenon
  <2>3. /\ unit' \in {"none", "uninitialized", "ready", "terminating"} /\ engine' \in {engine, "none"}
        /\ stage' = stage /\ pending' = pending /\ exc' = exc
    BY <1>1, <1>2 DEF Created, Initialize, Terminate, DestroyProcessingUnit, At, Throw
  <2> QED
    BY <2>2, <2>3 DEF IInv, Typed, TypeOK
<1>5. EngineAgrees'
  BY <1>1, <1>2, <1>3 DEF Created, Initialize, Terminate, DestroyProcessingUnit, At, IInv, EngineAgrees, AtWork,
                          OnDevice, Backend, Throw
<1> QED
  BY <1>3, <1>4, <1>5, UnitIInv, Zenon

\* suspend and resume signal a thread that has set its handlers.
LEMMA SignalIInv ==
  ASSUME IInv, Suspend \/ Resume
  PROVE  IInv'
<1>1. Running /\ stage = "idle" /\ Typed /\ UnitAgrees
  BY DEF Suspend, Resume, At, IInv
<1>2. /\ Statement.op = "suspend" => unit = "running" /\ Backend = "pthreads"
      /\ Statement.op = "resume" => unit = "suspended" /\ Backend = "pthreads"
  BY <1>1, UnitIsReady, Zenon
<1>3. UnitStep /\ program' = program
  BY <1>1, <1>2 DEF Suspend, Resume, At, Advance, UnitStep, UnitCalls, Reached, Throw
<1>4. Backend = "pthreads" /\ unit \in AtWork /\ unit' \in AtWork
  BY <1>1, <1>2 DEF Suspend, Resume, At, AtWork, Throw
<1>5. /\ UNCHANGED <<engine, stage, stream, active, exc>> /\ unit' \in {"suspended", "running"}
      /\ \E sig \in {"SIGUSR1", "SIGUSR2"} : Signal(sig)
  BY <1>1, <1>2 DEF Suspend, Resume, At, Throw
<1>6. TypeOK'
  BY <1>5 DEF IInv, Typed, TypeOK, Signal
<1>7. EngineAgrees'
  <2>1. engine \in {"running", "handler", "parked", "ended"}
    BY <1>1, <1>4 DEF IInv, EngineAgrees, OnDevice, Typed, TypeOK
  <2>2. pending' # {} => engine' \in {"running", "handler", "parked"}
    BY <1>5, <2>1 DEF IInv, EngineAgrees, Signal
  <2> QED
    BY <1>1, <1>3, <1>4, <1>5, <2>2 DEF IInv, EngineAgrees, OnDevice, Backend, AtWork
<1> QED
  BY <1>3, <1>6, <1>7, UnitIInv, Zenon

\* await returns when the thread or task has ended, or the stream is empty.
LEMMA AwaitIInv ==
  ASSUME IInv, AwaitPthreads \/ AwaitNosv \/ AwaitAcl \/ AwaitOpencl
  PROVE  IInv'
<1>1. Running /\ stage = "idle" /\ Typed /\ UnitAgrees /\ Statement.op = "await"
  BY DEF AwaitPthreads, AwaitNosv, AwaitAcl, AwaitOpencl, Awaited, At, IInv
<1>2. unit \in AtWork
  BY <1>1, UnitIsReady
<1>3. /\ pc' = pc + 1 /\ UNCHANGED <<program, slot, stage, todo, engine, stream, pending, exc>>
      /\ unit' = "terminated" /\ active' = FALSE
      /\ \/ Backend \in {"pthreads", "nosv"} /\ engine = "ended"
         \/ Backend \in {"acl", "opencl"} /\ (active => stream = <<>>)
  BY <1>2 DEF AwaitPthreads, AwaitNosv, AwaitAcl, AwaitOpencl, Awaited, Advance, AtWork, FinalizeStreamAcl,
              FinalizeStreamOpencl
<1>4. stream = <<>> /\ engine \in {"none", "ended"}
  BY <1>2, <1>3 DEF IInv, EngineAgrees, OnDevice
<1>5. UnitStep
  BY <1>1, <1>3, <1>4 DEF UnitStep, UnitCalls, Reached
<1>6. TypeOK'
  <2>1. active' \in BOOLEAN
    BY <1>3, Zenon
  <2> QED
    BY <1>3, <2>1 DEF IInv, Typed, TypeOK
<1>7. EngineAgrees'
  BY <1>1, <1>3, <1>4 DEF IInv, EngineAgrees, OnDevice, Backend, AtWork
<1> QED
  BY <1>5, <1>6, <1>7, UnitIInv, Zenon

\* The kernels a start hands over are the ones the text gives it, on held slots.
LEMMA StartedKernels ==
  ASSUME IInv, Running, stage = "idle", Statement.op = "start"
  PROVE  /\ unit = "ready" /\ stream = <<>> /\ todo = <<>> /\ pending = {} /\ engine \in {"none", "ended"}
         /\ Statement.kernels \in Seq(Kernels) /\ pc \in DOMAIN Script
         /\ \A s \in WorksOn(Statement.kernels) : Held(Script, pc, s)
         /\ pc \in 1 .. pc /\ MayRun(Script, pc, pc) /\ Statement = Script[pc]
<1>1. Typed /\ UnitAgrees
  BY Zenon DEF IInv
<1>2. unit = "ready"
  BY <1>1, UnitIsReady
<1>3. stream = <<>> /\ todo = <<>> /\ pending = {} /\ engine \in {"none", "ended"}
  BY <1>2 DEF IInv, EngineAgrees, AtWork, Typed
<1>4. /\ pc \in DOMAIN Script /\ CallAllowed(Backend, Script, pc) /\ Statement = Script[pc] /\ pc \in Nat \ {0}
      /\ Script \in Seq(Range(Script))
  BY <1>1, CallIsAllowed DEF Typed
<1>5. Statement.kernels \in Seq(Range(Statement.kernels)) /\ \A s \in WorksOn(Statement.kernels) : Held(Script, pc, s)
  BY <1>4 DEF CallAllowed
<1>6. Range(Statement.kernels) \subseteq Kernels
  <2>1. Statement \in Range(Script)
    BY <1>4, Zenon DEF Range
  <2> QED
    BY <2>1, Zenon DEF Kernels
<1>7. Statement.kernels \in Seq(Kernels)
  BY <1>5, <1>6
<1>8. pc \in 1 .. pc /\ MayRun(Script, pc, pc)
  BY <1>4 DEF MayRun
<1> QED
  BY <1>2, <1>3, <1>4, <1>5, <1>7, <1>8, Zenon

\* start hands them to a thread or task, or takes them to hand them over.
LEMMA StartIInv ==
  ASSUME IInv, StartPthreads \/ StartNosv \/ StartAcl \/ StartOpencl
  PROVE  IInv'
<1>1. Running /\ stage = "idle" /\ Statement.op = "start"
  BY Zenon DEF StartPthreads, StartNosv, StartAcl, StartOpencl, At
<1>2. /\ unit = "ready" /\ stream = <<>> /\ todo = <<>> /\ pending = {} /\ engine \in {"none", "ended"}
      /\ Statement.kernels \in Seq(Kernels) /\ pc \in DOMAIN Script
      /\ \A s \in WorksOn(Statement.kernels) : Held(Script, pc, s)
      /\ pc \in 1 .. pc /\ MayRun(Script, pc, pc) /\ Statement = Script[pc]
  BY <1>1, StartedKernels
<1>3. /\ UNCHANGED <<program, pc, slot, pending, exc>> /\ unit' = "running"
      /\ \/ /\ Backend \in {"pthreads", "nosv"} /\ stage' = "barrier" /\ engine' = "created"
            /\ stream' = Statement.kernels /\ todo' = <<>> /\ active' = active
         \/ /\ Backend \in {"acl", "opencl"} /\ stage' = "enqueue" /\ engine' = engine
            /\ stream' = <<>> /\ todo' = Statement.kernels /\ active' = TRUE
  BY <1>2 DEF StartPthreads, StartNosv, StartAcl, StartOpencl, Start, Launch, EnqueueKernels
<1>4. Script' = Script /\ Kernels' = Kernels /\ Backend' = Backend /\ Statement' = Statement
  BY <1>3, Zenon DEF Script, Kernels, Backend, Statement
<1>5. stage' \in {"barrier", "enqueue"} /\ WorksOn(<<>>) = {} /\ Range(<<>>) = {}
  BY <1>3, WorksOnNone DEF Range
<1>6. Typed'
  <2>1. active \in BOOLEAN
    BY Zenon DEF IInv, Typed, TypeOK
  <2>2. active' \in BOOLEAN
    BY <1>3, <2>1, Zenon
  <2>3. TypeOK'
    BY <1>3, <2>2 DEF IInv, Typed, TypeOK
  <2>4. stream' \in Seq(Kernels) /\ todo' \in Seq(Kernels) /\ (stage' = "barrier" => todo' = <<>>)
    <3>1. <<>> \in Seq(Kernels)
      OBVIOUS
    <3>2. Statement.kernels \in Seq(Kernels)
      BY <1>2
    <3>3. stage' = "barrier" => todo' = <<>>
      BY <1>3
    <3> QED
      BY <1>3, <3>1, <3>2, <3>3, Zenon
  <2>5. exc' = "none" /\ WellUsed(program') /\ pc' \in Nat \ {0} /\ pc' <= Len(Script) + 1
    BY <1>3 DEF IInv, Typed
  <2> QED
    BY <1>1, <1>2, <1>3, <1>4, <1>5, <2>3, <2>4, <2>5 DEF Typed
<1>7. SlotsAgree'
  <2>1. slot' = slot /\ pc' = pc /\ stage # "map" /\ stage' # "map"
    BY <1>1, <1>3, <1>5
  <2>2. /\ DOMAIN slot = SlotsOf(Script)
        /\ \A s \in DOMAIN slot :
             /\ DOMAIN slot[s] = {"live", "mapped", "value"}
             /\ Held(Script, pc, s) => slot[s].live /\ (Backend = "opencl" => slot[s].mapped)
    BY <2>1 DEF IInv, SlotsAgree
  <2> QED
    BY <1>4, <2>1, <2>2 DEF SlotsAgree
<1>8. UnitAgrees'
  BY <1>3, <1>5 DEF UnitAgrees
<1>9. EngineAgrees'
  BY <1>1, <1>2, <1>3, <1>4 DEF IInv, EngineAgrees, OnDevice, AtWork
<1>10. WorkAgrees'
  BY <1>2, <1>3, <1>4, <1>5 DEF WorkAgrees
<1>11. QueueAgrees'
  BY <1>3, <1>4 DEF QueueAgrees
<1> QED
  BY <1>6, <1>7, <1>8, <1>9, <1>10, <1>11, Zenon DEF IInv

\* The barrier of a host unit, and the end of a device's start.
LEMMA StartReturnsIInv ==
  ASSUME IInv, PassBarrier \/ ResumeAcl \/ ResumeOpencl
  PROVE  IInv'
<1>1. /\ Running /\ stage' = "idle" /\ pc' = pc + 1 /\ UNCHANGED <<program, slot, unit, todo, stream, active, pending, exc>>
      /\ \/ stage = "barrier" /\ engine = "barrier" /\ engine' = "running"
         \/ stage = "enqueue" /\ todo = <<>> /\ engine' = engine
  BY DEF PassBarrier, ResumeAcl, ResumeOpencl, Recorded, Advance
<1>2. todo = <<>> /\ stage \in {"barrier", "enqueue"} /\ unit = "running"
  BY <1>1 DEF IInv, Typed, UnitAgrees
<1>3. active' \in BOOLEAN
  BY <1>1, Zenon DEF IInv, Typed, TypeOK
<1>4. TypeOK'
  BY <1>1, <1>3 DEF IInv, Typed, TypeOK
<1>5. EngineAgrees'
  BY <1>1, <1>2 DEF IInv, EngineAgrees, OnDevice, Backend, AtWork
<1>6. UNCHANGED <<program, slot, unit, todo, stream, exc>>
  BY <1>1
<1> QED
  BY <1>1, <1>2, <1>4, <1>5, <1>6, StartReturns, Zenon

\* What becomes of the kernels when one of them is handed over or run.
LEMMA QueueFacts ==
  ASSUME NEW K, NEW q \in Seq(K), q # <<>>
  PROVE  /\ Head(q) \in K /\ Head(q) \in Range(q) /\ Tail(q) \in Seq(K) /\ Range(Tail(q)) \subseteq Range(q)
         /\ \A r \in Seq(K) : /\ Append(r, Head(q)) \in Seq(K)
                              /\ Range(Append(r, Head(q))) \subseteq Range(r) \cup Range(q)
<1>1. Len(q) \in Nat \ {0} /\ DOMAIN q = 1 .. Len(q)
  OBVIOUS
<1>2. Head(q) \in K /\ Head(q) \in Range(q)
  BY <1>1 DEF Range
<1>3. Tail(q) \in Seq(K) /\ Range(Tail(q)) \subseteq Range(q)
  <2>1. Tail(q) \in Seq(K) /\ Len(Tail(q)) = Len(q) - 1 /\ \A i \in 1 .. Len(q) - 1 : Tail(q)[i] = q[i + 1]
    BY <1>1
  <2>2. \A i \in 1 .. Len(q) - 1 : i + 1 \in DOMAIN q
    BY <1>1
  <2>3. DOMAIN Tail(q) = 1 .. Len(q) - 1
    BY <1>1, <2>1
  <2> QED
    BY <2>1, <2>2, <2>3 DEF Range
<1>4. ASSUME NEW r \in Seq(K)
      PROVE  /\ Append(r, Head(q)) \in Seq(K)
             /\ Range(Append(r, Head(q))) \subseteq Range(r) \cup Range(q)
  <2>1. DOMAIN Append(r, Head(q)) = 1 .. Len(r) + 1 /\ DOMAIN r = 1 .. Len(r) /\ Len(r) \in Nat
    BY <1>2
  <2>2. \A i \in 1 .. Len(r) + 1 : Append(r, Head(q))[i] = IF i = Len(r) + 1 THEN Head(q) ELSE r[i]
    BY <1>2
  <2> QED
    BY <1>2, <2>1, <2>2 DEF Range
<1> QED
  BY <1>2, <1>3, <1>4

\* Kernels among others work on slots the others work on.
LEMMA WorksOnUnion ==
  ASSUME NEW a, NEW b, NEW c, Range(a) \subseteq Range(b) \cup Range(c)
  PROVE  WorksOn(a) \subseteq WorksOn(b) \cup WorksOn(c)
  BY Zenon DEF WorksOn

\* The kernels left after a step are among those left before it.
LEMMA FewerKernels ==
  ASSUME WorkAgrees, UNCHANGED <<program, pc>>, stream # <<>> \/ stage # "idle", stage # "idle" => stage' # "idle",
         Range(stream') \subseteq Range(stream) \cup Range(todo), Range(todo') \subseteq Range(todo)
  PROVE  WorkAgrees'
<1>1. Script' = Script
  BY DEF Script
<1>2. WorksOn(stream') \subseteq WorksOn(stream) \cup WorksOn(todo) /\ WorksOn(todo') \subseteq WorksOn(todo)
  BY WorksOnUnion, WorksOnMonotone
<1>3. \A s \in WorksOn(stream') \cup WorksOn(todo') : Held(Script', pc', s)
  BY <1>1, <1>2 DEF WorkAgrees
<1>4. PICK j \in 1 .. pc : /\ MayRun(Script, j, pc) /\ (j = pc => stage # "idle")
                          /\ Range(stream) \cup Range(todo) \subseteq Range(Script[j].kernels)
  BY DEF WorkAgrees
<1>5. Range(stream') \cup Range(todo') \subseteq Range(Script[j].kernels)
  BY <1>4
<1> QED
  BY <1>1, <1>3, <1>4, <1>5 DEF WorkAgrees

\* What mapping or unmapping changes in a slot.
LEMMA SetMapped ==
  ASSUME NEW r, DOMAIN r = {"live", "mapped", "value"}, NEW b
  PROVE  /\ DOMAIN [r EXCEPT !.mapped = b] = {"live", "mapped", "value"}
         /\ [r EXCEPT !.mapped = b].live = r.live /\ [r EXCEPT !.mapped = b].mapped = b
  OBVIOUS

\* Kernel::start on a stream, and on a queue whose buffers it unmaps first.
LEMMA EnqueueIInv ==
  ASSUME IInv, Running, stage = "enqueue", todo # <<>>, Head(todo).op # "wait",
         (Backend = "acl" /\ Enqueue) \/ (Backend = "opencl" /\ UnmapAndEnqueue)
  PROVE  IInv'
<1>1. /\ UNCHANGED <<program, pc, unit, engine, active, pending, exc>> /\ stream' = Append(stream, Head(todo))
      /\ \/ Backend = "acl" /\ todo' = Tail(todo) /\ stage' = "enqueue" /\ slot' = slot
         \/ /\ Backend = "opencl" /\ todo' = todo /\ stage' = "map"
            /\ slot' = [s \in DOMAIN slot |-> [slot[s] EXCEPT !.mapped = @ /\ s \notin Touched(Head(todo))]]
  BY DEF Enqueue, UnmapAndEnqueue
<1>2. Script' = Script /\ Kernels' = Kernels /\ Backend' = Backend /\ Statement' = Statement
  BY <1>1, Zenon DEF Script, Kernels, Backend, Statement
<1>3. /\ stream \in Seq(Kernels) /\ todo \in Seq(Kernels) /\ stage' # "idle" /\ stage' # "barrier"
      /\ pc \in DOMAIN Script /\ Statement.op = "start" /\ unit = "running"
  BY <1>1 DEF IInv, Typed, UnitAgrees
<1>4. /\ Tail(todo) \in Seq(Kernels) /\ Range(Tail(todo)) \subseteq Range(todo)
      /\ stream' \in Seq(Kernels) /\ Range(stream') \subseteq Range(stream) \cup Range(todo)
  BY <1>1, <1>3, QueueFacts
<1>5. todo' \in Seq(Kernels) /\ Range(todo') \subseteq Range(todo)
  <2>1. todo' = todo \/ todo' = Tail(todo)
    BY <1>1, Zenon
  <2>2. CASE todo' = todo
    BY <1>3, <2>2, Zenon
  <2>3. CASE todo' = Tail(todo)
    BY <1>4, <2>3, Zenon
  <2> QED
    BY <2>1, <2>2, <2>3, Zenon
<1>6. Typed'
  <2>1. active' \in BOOLEAN
    BY <1>1, Zenon DEF IInv, Typed, TypeOK
  <2>2. TypeOK'
    BY <1>1, <2>1 DEF IInv, Typed, TypeOK
  <2> QED
    BY <1>1, <1>2, <1>3, <1>4, <1>5, <2>2 DEF IInv, Typed
<1>7. SlotsAgree'
  <2>1. CASE Backend = "acl"
    <3>1. slot' = slot /\ pc' = pc
      BY <1>1, <2>1
    <3> QED
      BY <1>2, <2>1, <3>1 DEF IInv, SlotsAgree
  <2>2. CASE Backend = "opencl"
    <3>1. /\ slot' = [s \in DOMAIN slot |-> [slot[s] EXCEPT !.mapped = @ /\ s \notin Touched(Head(todo))]]
          /\ stage' = "map" /\ todo' = todo /\ DOMAIN slot = SlotsOf(Script)
      BY <1>1, <2>2 DEF IInv, SlotsAgree
    <3>2. ASSUME NEW s \in DOMAIN slot
          PROVE  /\ DOMAIN slot'[s] = {"live", "mapped", "value"}
                 /\ Held(Script, pc, s) => slot'[s].live
                 /\ Held(Script, pc, s) => (slot'[s].mapped <=> s \notin Touched(Head(todo)))
      <4>1. /\ DOMAIN slot[s] = {"live", "mapped", "value"}
            /\ Held(Script, pc, s) => slot[s].live /\ slot[s].mapped
        BY <2>2 DEF IInv, SlotsAgree
      <4>2. slot'[s] = [slot[s] EXCEPT !.mapped = slot[s].mapped /\ s \notin Touched(Head(todo))]
        BY <3>1
      <4>3. /\ DOMAIN slot'[s] = {"live", "mapped", "value"} /\ slot'[s].live = slot[s].live
            /\ slot'[s].mapped = (slot[s].mapped /\ s \notin Touched(Head(todo)))
        BY <4>1, <4>2, SetMapped, Zenon
      <4> QED
        BY <4>1, <4>3, Zenon
    <3>3. DOMAIN slot' = DOMAIN slot
      BY <3>1
    <3> QED
      BY <1>1, <1>2, <2>2, <3>1, <3>2, <3>3 DEF SlotsAgree
  <2> QED
    BY <1>1, <2>1, <2>2
<1>8. UnitAgrees'
  BY <1>1, <1>3 DEF UnitAgrees
<1>9. EngineAgrees'
  BY <1>1, <1>2, <1>3 DEF IInv, EngineAgrees, OnDevice, AtWork
<1>10. WorkAgrees'
  <2>1. WorkAgrees /\ UNCHANGED <<program, pc>>
    BY <1>1 DEF IInv
  <2> QED
    BY <1>3, <1>4, <1>5, <2>1, FewerKernels
<1>11. QueueAgrees'
  <2>1. CASE Backend = "opencl"
    <3>1. stream = <<>>
      BY <2>1 DEF IInv, QueueAgrees
    <3>2. stream' = <<Head(todo)>>
      BY <1>1, <1>3, <3>1
    <3>3. todo' = todo /\ stage' = "map"
      BY <1>1, <2>1
    <3> QED
      BY <1>2, <2>1, <3>2, <3>3 DEF QueueAgrees
  <2> QED
    BY <1>1, <1>2, <2>1 DEF QueueAgrees
<1> QED
  BY <1>6, <1>7, <1>8, <1>9, <1>10, <1>11, Zenon DEF IInv

\* The buffers are mapped again when the queue is empty.
LEMMA MapIInv ==
  ASSUME IInv, MapArguments
  PROVE  IInv'
<1>1. /\ UNCHANGED <<program, pc, unit, engine, stream, active, pending, exc>> /\ todo' = Tail(todo)
      /\ stage = "map" /\ stage' = "enqueue" /\ stream = <<>>
      /\ slot' = [s \in DOMAIN slot |-> [slot[s] EXCEPT !.mapped = @ \/ s \in Touched(Head(todo))]]
  BY DEF MapArguments
<1>2. Script' = Script /\ Kernels' = Kernels /\ Backend' = Backend /\ Statement' = Statement
  BY <1>1, Zenon DEF Script, Kernels, Backend, Statement
<1>3. /\ stream \in Seq(Kernels) /\ todo \in Seq(Kernels) /\ todo # <<>> /\ Backend = "opencl"
      /\ pc \in DOMAIN Script /\ Statement.op = "start" /\ unit = "running"
  BY <1>1 DEF IInv, Typed, UnitAgrees, QueueAgrees
<1>4. todo' \in Seq(Kernels) /\ Range(todo') \subseteq Range(todo)
  BY <1>1, <1>3, QueueFacts
<1>5. Typed'
  <2>1. active' \in BOOLEAN
    BY <1>1, Zenon DEF IInv, Typed, TypeOK
  <2>2. TypeOK'
    BY <1>1, <2>1 DEF IInv, Typed, TypeOK
  <2> QED
    BY <1>1, <1>2, <1>3, <1>4, <2>2 DEF IInv, Typed
<1>6. SlotsAgree'
  <2>1. ASSUME NEW s \in DOMAIN slot
        PROVE  /\ DOMAIN slot'[s] = {"live", "mapped", "value"}
               /\ Held(Script, pc, s) => slot'[s].live /\ slot'[s].mapped
    <3>1. /\ DOMAIN slot[s] = {"live", "mapped", "value"}
          /\ Held(Script, pc, s) => slot[s].live /\ (slot[s].mapped <=> s \notin Touched(Head(todo)))
      BY <1>1, <1>3 DEF IInv, SlotsAgree
    <3>2. slot'[s] = [slot[s] EXCEPT !.mapped = slot[s].mapped \/ s \in Touched(Head(todo))]
      BY <1>1
    <3>3. /\ DOMAIN slot'[s] = {"live", "mapped", "value"} /\ slot'[s].live = slot[s].live
          /\ slot'[s].mapped = (slot[s].mapped \/ s \in Touched(Head(todo)))
      BY <3>1, <3>2, SetMapped, Zenon
    <3> QED
      BY <3>1, <3>3, Zenon
  <2>2. DOMAIN slot' = DOMAIN slot /\ DOMAIN slot = SlotsOf(Script)
    BY <1>1 DEF IInv, SlotsAgree
  <2> QED
    BY <1>1, <1>2, <2>1, <2>2 DEF SlotsAgree
<1>7. UnitAgrees'
  BY <1>1, <1>3 DEF UnitAgrees
<1>8. EngineAgrees'
  BY <1>1, <1>2, <1>3 DEF IInv, EngineAgrees, OnDevice, AtWork
<1>9. WorkAgrees'
  <2>1. WorkAgrees /\ UNCHANGED <<program, pc>>
    BY <1>1 DEF IInv
  <2> QED
    BY <1>1, <1>4, <2>1, FewerKernels
<1>10. QueueAgrees'
  BY <1>1, <1>2 DEF QueueAgrees
<1> QED
  BY <1>5, <1>6, <1>7, <1>8, <1>9, <1>10, Zenon DEF IInv

\* One kernel is the last.
LEMMA TailOfOne == ASSUME NEW k PROVE Tail(<<k>>) = <<>>
<1>1. <<k>> \in Seq({k}) /\ Len(<<k>>) = 1
  OBVIOUS
<1>2. Tail(<<k>>) \in Seq({k}) /\ Len(Tail(<<k>>)) = 0
  BY <1>1
<1> QED
  BY <1>2

\* The engine runs a kernel: only the contents of its output change.
LEMMA RunKernelIInv ==
  ASSUME IInv, RunKernel
  PROVE  IInv'
<1>1. /\ UNCHANGED <<program, pc, unit, stage, todo, engine, active, pending, exc>>
      /\ stream # <<>> /\ stream' = Tail(stream) /\ (OnDevice \/ engine = "running")
      /\ slot' = slot \/ \E k, v : slot' = [slot EXCEPT ![k.out].value = v]
  BY Zenon DEF RunKernel
<1>2. Script' = Script /\ Kernels' = Kernels /\ Backend' = Backend /\ Statement' = Statement
  BY <1>1, Zenon DEF Script, Kernels, Backend, Statement
<1>3. stream \in Seq(Kernels) /\ unit \in AtWork
  BY <1>1 DEF IInv, Typed, EngineAgrees
<1>4. stream' \in Seq(Kernels) /\ Range(stream') \subseteq Range(stream)
  BY <1>1, <1>3, QueueFacts
<1>5. Typed'
  <2>1. active' \in BOOLEAN
    BY <1>1, Zenon DEF IInv, Typed, TypeOK
  <2>2. TypeOK'
    BY <1>1, <2>1 DEF IInv, Typed, TypeOK
  <2> QED
    BY <1>1, <1>2, <1>4, <2>2 DEF IInv, Typed
<1>6. SlotsAgree'
  <2>1. DOMAIN slot' = DOMAIN slot /\ DOMAIN slot = SlotsOf(Script)
    <3>1. DOMAIN slot = SlotsOf(Script)
      BY Zenon DEF IInv, SlotsAgree
    <3>2. CASE slot' = slot
      BY <3>1, <3>2
    <3>3. ASSUME NEW k, NEW v, slot' = [slot EXCEPT ![k.out].value = v]
          PROVE  DOMAIN slot' = DOMAIN slot
      BY <3>3
    <3> QED
      BY <1>1, <3>1, <3>2, <3>3, Zenon
  <2>2. ASSUME NEW s \in DOMAIN slot
        PROVE  /\ DOMAIN slot'[s] = {"live", "mapped", "value"}
               /\ slot'[s].live = slot[s].live /\ slot'[s].mapped = slot[s].mapped
    <3>1. DOMAIN slot[s] = {"live", "mapped", "value"}
      BY DEF IInv, SlotsAgree
    <3>2. CASE slot' = slot
      BY <3>1, <3>2
    <3>3. ASSUME NEW k, NEW v, slot' = [slot EXCEPT ![k.out].value = v]
          PROVE  /\ DOMAIN slot'[s] = {"live", "mapped", "value"}
                 /\ slot'[s].live = slot[s].live /\ slot'[s].mapped = slot[s].mapped
      <4>1. slot'[s] = IF s = k.out THEN [slot[s] EXCEPT !.value = v] ELSE slot[s]
        BY <3>3
      <4> QED
        BY <3>1, <4>1
    <3> QED
      BY <1>1, <3>2, <3>3, Zenon
  <2> QED
    BY <1>1, <1>2, <2>1, <2>2 DEF IInv, SlotsAgree
<1>7. UnitAgrees'
  BY <1>1, <1>2 DEF IInv, UnitAgrees
<1>8. EngineAgrees'
  BY <1>1, <1>2, <1>3 DEF IInv, EngineAgrees, OnDevice, AtWork
<1>9. WorkAgrees'
  <2>1. WorkAgrees /\ UNCHANGED <<program, pc>> /\ todo' = todo /\ stage' = stage
    BY <1>1 DEF IInv
  <2> QED
    BY <1>1, <1>4, <2>1, FewerKernels
<1>10. QueueAgrees'
  <2>1. stage = "map" => Backend = "opencl" /\ todo # <<>> /\ Head(todo).op # "wait" /\ stream = <<Head(todo)>>
    BY <1>1 DEF IInv, QueueAgrees
  <2>2. stage = "map" => stream' = <<>>
    <3>1. stream' = Tail(stream)
      BY <1>1, Zenon
    <3>2. Tail(<<Head(todo)>>) = <<>>
      BY TailOfOne, Zenon
    <3> QED
      BY <2>1, <3>1, <3>2, Zenon
  <2>3. stage = "map" \/ Backend # "opencl"
    BY <1>1 DEF IInv, QueueAgrees
  <2>4. stage' = stage /\ todo' = todo
    BY <1>1
  <2> QED
    BY <1>2, <2>1, <2>2, <2>3, <2>4 DEF QueueAgrees
<1> QED
  BY <1>5, <1>6, <1>7, <1>8, <1>9, <1>10, Zenon DEF IInv

\* The thread or task reaches the barrier, takes signals and ends.
LEMMA ThreadIInv ==
  ASSUME IInv, \/ AtBarrier /\ Backend \in {"pthreads", "nosv"} 
               \/ FunctionReturns \/ CatchSuspendSignal \/ Sigwait \/ SigwaitReturns \/ CatchResumeSignal
  PROVE  IInv'
<1>1. /\ UNCHANGED <<program, pc, slot, unit, stage, todo, stream, exc>> /\ active' = active
      /\ \/ engine = "created" /\ engine' = "barrier" /\ pending' = pending
         \/ engine = "running" /\ engine' = "ended" /\ pending' = {} /\ stream = <<>>
         \/ /\ engine \in {"running", "handler", "parked"} /\ engine' \in {"running", "handler", "parked"}
            /\ pending' \subseteq pending
  BY DEF AtBarrier, FunctionReturns, CatchSuspendSignal, Sigwait, SigwaitReturns, CatchResumeSignal
<1>2. active' \in BOOLEAN
  BY <1>1, Zenon DEF IInv, Typed, TypeOK
<1>3. TypeOK'
  <2>1. pending' \subseteq pending
    BY <1>1, Zenon
  <2>2. engine' \in {"barrier", "running", "handler", "parked", "ended"} /\ UNCHANGED <<unit, stage, exc>>
    BY <1>1
  <2> QED
    BY <1>2, <2>1, <2>2 DEF IInv, Typed, TypeOK
<1>4. EngineAgrees'
  <2>1. ~OnDevice /\ unit \in AtWork /\ OnDevice' = OnDevice
    BY <1>1 DEF IInv, EngineAgrees, OnDevice, Backend
  <2> QED
    BY <1>1, <2>1 DEF IInv, EngineAgrees
<1>5. UNCHANGED <<program, pc, slot, unit, stage, todo, stream, exc>>
  BY <1>1
<1> QED
  BY <1>3, <1>4, <1>5, EngineIInv, Zenon

-----------------------------------------------------------------------------
(* The theorem                                                              *)

\* A program that uses its unit and slots correctly starts with the invariant.
LEMMA InitIInv ==
  ASSUME \A launch \in Catalogue : WellUsed(launch), Init
  PROVE  IInv
<1>1. /\ WellUsed(program) /\ pc = 1 /\ unit = "none" /\ stage = "idle" /\ todo = <<>> /\ engine = "none"
      /\ stream = <<>> /\ active = FALSE /\ pending = {} /\ exc = "none"
      /\ slot = [s \in SlotsOf(Script) |-> [live |-> FALSE, mapped |-> FALSE, value |-> <<"none">>]]
  BY Zenon DEF Init, Script
<1>2. Typed
  <2>1. active \in BOOLEAN
    BY <1>1, Zenon
  <2>2. TypeOK
    BY <1>1, <2>1 DEF TypeOK
  <2>3. Len(Script) \in Nat
    BY <1>1 DEF WellUsed, Script
  <2> QED
    BY <1>1, <2>2, <2>3 DEF Typed
<1>3. \A s : ~Held(Script, pc, s)
  BY <1>1 DEF Held
<1>4. SlotsAgree
  BY <1>1, <1>3 DEF SlotsAgree
<1>5. UnitAgrees
  <2>1. \A op \in UnitCalls : ~Follows(Script, pc, {op})
    BY <1>1 DEF Follows
  <2> QED
    BY <1>1, <2>1 DEF UnitAgrees
<1>6. EngineAgrees
  BY <1>1 DEF EngineAgrees, AtWork
<1>7. WorkAgrees
  BY <1>1, WorksOnNone DEF WorkAgrees
<1>8. QueueAgrees
  BY <1>1 DEF QueueAgrees
<1> QED
  BY <1>2, <1>4, <1>5, <1>6, <1>7, <1>8, Zenon DEF IInv

\* Every call and every step of the engine preserves it.
LEMMA NextIInv == IInv /\ [Next]_vars => IInv'
<1> SUFFICES ASSUME IInv, [Next]_vars
             PROVE  IInv'
  OBVIOUS
<1>1. CASE AllocateHwloc \/ AllocateAcl \/ AllocateOpencl \/ RegisterHwloc \/ RegisterAcl \/ RegisterOpencl
  <2>1. MemoryStep
    <3>1. "allocate" \in Gets /\ "register" \in Gets /\ TRUE \in BOOLEAN /\ FALSE \in BOOLEAN
      BY Zenon DEF Gets
    <3>2. CASE AllocateHwloc
      BY <3>1, <3>2, GetsIsMemoryStep, Zenon DEF AllocateHwloc
    <3>3. CASE AllocateAcl
      BY <3>1, <3>3, GetsIsMemoryStep, Zenon DEF AllocateAcl
    <3>4. CASE AllocateOpencl
      BY <3>1, <3>4, GetsIsMemoryStep, Zenon DEF AllocateOpencl
    <3>5. CASE RegisterHwloc
      BY <3>1, <3>5, GetsIsMemoryStep, Zenon DEF RegisterHwloc
    <3>6. CASE RegisterAcl
      BY <3>1, <3>6, GetsIsMemoryStep, Zenon DEF RegisterAcl
    <3>7. CASE RegisterOpencl
      BY <3>1, <3>7, GetsIsMemoryStep, Zenon DEF RegisterOpencl
    <3> QED
      BY <1>1, <3>2, <3>3, <3>4, <3>5, <3>6, <3>7, Zenon
  <2> QED
    BY <2>1, MemoryIInv, Zenon
<1>2. CASE FreeHwloc \/ FreeAcl \/ FreeOpencl \/ DeregisterLocalMemorySlot
  <2>1. "free" \in GivesUp /\ "deregister" \in GivesUp
    BY Zenon DEF GivesUp
  <2>2. MemoryStep
    BY <1>2, <2>1, GivesUpIsMemoryStep, Zenon DEF FreeHwloc, FreeAcl, FreeOpencl, DeregisterLocalMemorySlot
  <2> QED
    BY <2>2, MemoryIInv, Zenon
<1>3. CASE \/ WriteSlot \/ Memset \/ MemsetOpencl \/ MemcpyPthreads \/ MemcpyAcl \/ MemcpyOpencl
           \/ ShowSlot \/ SetFlag
  <2>1. MemoryStep
    BY <1>3, WritesIsMemoryStep, Zenon DEF MemcpyPthreads, MemcpyAcl, MemcpyOpencl
  <2> QED
    BY <2>1, MemoryIInv, Zenon
<1>4. CASE CreatePthreads \/ CreateNosv \/ CreateAcl \/ CreateOpencl \/ Initialize \/ Terminate \/ DestroyProcessingUnit
  BY <1>4, PlainCallIInv, Zenon DEF CreatePthreads, CreateNosv, CreateAcl, CreateOpencl
<1>5. CASE StartPthreads \/ StartNosv \/ StartAcl \/ StartOpencl
  BY <1>5, StartIInv, Zenon
<1>6. CASE PassBarrier \/ ResumeAcl \/ ResumeOpencl
  BY <1>6, StartReturnsIInv, Zenon
<1>7. CASE \/ StartMemoryKernelAcl \/ StartComputationKernelAcl
           \/ StartMemoryKernelOpencl \/ StartComputationKernelOpencl
  <2>1. Running /\ stage = "enqueue" /\ todo # <<>> /\ Head(todo).op # "wait"
    BY <1>7 DEF StartMemoryKernelAcl, StartComputationKernelAcl, StartMemoryKernelOpencl,
                StartComputationKernelOpencl, NextKernel
  <2>2. (Backend = "acl" /\ Enqueue) \/ (Backend = "opencl" /\ UnmapAndEnqueue)
    BY <1>7, Zenon DEF StartMemoryKernelAcl, StartComputationKernelAcl, StartMemoryKernelOpencl,
                       StartComputationKernelOpencl
  <2> QED
    BY <2>1, <2>2, EnqueueIInv, Zenon
<1>8. CASE MapArguments
  BY <1>8, MapIInv, Zenon
<1>9. CASE Suspend \/ Resume
  BY <1>9, SignalIInv, Zenon
<1>10. CASE AwaitPthreads \/ AwaitNosv \/ AwaitAcl \/ AwaitOpencl
  BY <1>10, AwaitIInv, Zenon
<1>11. CASE RunKernel
  BY <1>11, RunKernelIInv, Zenon
<1>12. CASE \/ LaunchWrapper \/ RunCallback \/ ThreadEnds \/ CompletedCallback
            \/ CatchSuspendSignal \/ Sigwait \/ SigwaitReturns \/ CatchResumeSignal
  <2>1. \/ AtBarrier /\ Backend \in {"pthreads", "nosv"}
        \/ FunctionReturns \/ CatchSuspendSignal \/ Sigwait \/ SigwaitReturns \/ CatchResumeSignal
    BY <1>12, Zenon DEF LaunchWrapper, RunCallback, ThreadEnds, CompletedCallback
  <2> QED
    BY <2>1, ThreadIInv, Zenon
<1>13. CASE UNCHANGED vars
  <2>1. UNCHANGED <<program, pc, slot, unit, stage, todo, stream, exc, engine, active, pending>>
    BY <1>13 DEF vars, engineVars
  <2>2. TypeOK' /\ EngineAgrees'
    BY <2>1 DEF IInv, Typed, TypeOK, EngineAgrees, OnDevice, Backend
  <2>3. UNCHANGED <<program, pc, slot, unit, stage, todo, stream, exc>>
    BY <2>1
  <2> QED
    BY <2>2, <2>3, EngineIInv, Zenon
<1> QED
  BY <1>1, <1>2, <1>3, <1>4, <1>5, <1>6, <1>7, <1>8, <1>9, <1>10, <1>11, <1>12, <1>13, Zenon
     DEF Next, Main, Engine, Over

\* The invariant says that nothing is used after it is gone.
LEMMA IInvIsSafe == IInv => UnitOutlivesItsWork
<1> SUFFICES ASSUME IInv
             PROVE  UnitOutlivesItsWork
  OBVIOUS
<1>1. ASSUME NEW s, Held(Script, pc, s)
      PROVE  /\ slot[s].live
             /\ Backend = "opencl" => (slot[s].mapped <=> ~(stage = "map" /\ s \in Touched(Head(todo))))
  <2>1. Script \in Seq(Range(Script)) /\ DOMAIN slot = SlotsOf(Script) /\ pc \in 1 .. Len(Script) + 1
    BY DEF IInv, Typed, WellUsed, Script, SlotsAgree
  <2>2. s \in DOMAIN slot
    BY <1>1, <2>1, HeldIsASlot
  <2> QED
    BY <1>1, <2>2 DEF IInv, SlotsAgree
<1>2. ASSUME NEW op \in {"write", "show", "memset", "memcpy", "free", "deregister"}, At(op)
      PROVE  Held(Script, pc, Statement.slot) /\ stage = "idle" /\ (op = "memcpy" => Held(Script, pc, Statement.from))
  <2>1. Running /\ Typed /\ Statement.op = op /\ stage = "idle"
    BY <1>2, Zenon DEF At, IInv
  <2>2. CallAllowed(Backend, Script, pc) /\ Statement = Script[pc]
    BY <2>1, CallIsAllowed, Zenon
  <2> QED
    BY <2>1, <2>2 DEF CallAllowed
<1>3. ASSUME NEW i \in DOMAIN stream, stream[i].op # "wait", NEW s \in Touched(stream[i])
      PROVE  Held(Script, pc, s)
  <2>1. s \in WorksOn(stream)
    BY <1>3, Zenon DEF WorksOn, Range
  <2> QED
    BY <2>1, Zenon DEF IInv, WorkAgrees
<1>4. MappedForOneSide
  <2> SUFFICES ASSUME Backend = "opencl"
               PROVE  /\ At("write") \/ At("show") => slot[Statement.slot].mapped
                      /\ \A i \in DOMAIN stream : \A s \in Touched(stream[i]) : ~slot[s].mapped
    BY Zenon DEF MappedForOneSide
  <2>1. At("write") \/ At("show") => slot[Statement.slot].mapped
    BY <1>1, <1>2
  <2>2. ASSUME NEW i \in DOMAIN stream, NEW s \in Touched(stream[i])
        PROVE  ~slot[s].mapped
    <3>1. stage = "map" /\ stream = <<Head(todo)>> /\ Head(todo).op # "wait"
      BY <2>2 DEF IInv, QueueAgrees
    <3>2. stream[i] = Head(todo)
      BY <3>1
    <3>3. Held(Script, pc, s)
      BY <1>3, <2>2, <3>1, <3>2
    <3> QED
      BY <1>1, <2>2, <3>1, <3>2, <3>3
  <2> QED
    BY <2>1, <2>2
<1>5. \A i \in DOMAIN stream : stream[i].op # "wait" => \A s \in Touched(stream[i]) : slot[s].live
  BY <1>1, <1>3, Zenon
<1>6. \A op \in {"write", "show", "memset", "memcpy", "free", "deregister"} : At(op) => slot[Statement.slot].live
  BY <1>1, <1>2, Zenon
<1>7. At("memcpy") => slot[Statement.from].live
  BY <1>1, <1>2
<1>8. /\ exc = "none" /\ (pending # {} => engine # "created")
      /\ unit = "none" => stream = <<>> /\ engine = "none"
  BY DEF IInv, Typed, EngineAgrees, AtWork
<1> QED
  BY <1>4, <1>5, <1>6, <1>7, <1>8, Zenon DEF UnitOutlivesItsWork

\* Whatever the program, if its calls come in the order the library asks for and
\* it gives up no slot that unfinished kernels use, then under every interleaving
\* with the engine: no call throws; the engine never works on a slot that is
\* freed, or mapped for the program, and leaves nothing to do when the unit is
\* destroyed; and no thread is signalled before it has set its handlers.
THEOREM WellUsedUnitsAreSafe ==
  (\A launch \in Catalogue : WellUsed(launch)) => (Spec => []UnitOutlivesItsWork)
<1> SUFFICES ASSUME \A launch \in Catalogue : WellUsed(launch)
             PROVE  Spec => []UnitOutlivesItsWork
  OBVIOUS
<1>1. Init => IInv
  BY InitIInv, Zenon
<1>2. IInv /\ [Next]_vars => IInv'
  BY NextIInv
<1>3. IInv => UnitOutlivesItsWork
  BY IInvIsSafe
<1> QED
  BY <1>1, <1>2, <1>3, PTL DEF Spec

-----------------------------------------------------------------------------
(* The worker, which runs tasks on processing units                          *)

USE WorkerAssumption

(***************************************************************************)
(* The inductive invariant.  Nobody but await ends a main loop's thread, so  *)
(* what the owner's call has done so far says whether there can be one; and  *)
(* the worker's state says where the main loop can be, although any thread   *)
(* may overwrite it with terminating.                                        *)
(***************************************************************************)
NotStarted == {"uninitialized", "ready", "terminated"}

\* While a main loop exists, the lead unit is one that await joins.
LoopHasUnit == loop \notin {"none", "crashed"} => pu[0] \in {"running", "terminating"}

\* The owner starts a main loop only when there is none, and await stores its
\* state only after the lead unit's thread was joined.
OwnerAgrees ==
  /\ owner.pc \in {"initializing", "starting", "launching"} => loop = "none"
  /\ owner.pc \in {"launching", "awaiting"} => state \notin NotStarted
  /\ owner.pc = "awaiting" /\ owner.i > 0 => loop \in {"none", "crashed"}

\* Only the main loop stores suspended, and it then waits outside any task.
SuspendedAgrees == state = "suspended" => loop \in {"suspendOthers", "sleep", "crashed"}

\* At most one task runs, and only while the main loop is inside Task::run.
TaskAgrees ==
  /\ \A t \in Tasks : task[t] = "running" => loop = "task"
  /\ \A t, u \in Tasks : task[t] = "running" /\ task[u] = "running" => t = u

WorkerInv ==
  /\ WorkerTypeOK /\ StoppedWorkerHasNoLoop
  /\ LoopHasUnit /\ OwnerAgrees /\ SuspendedAgrees /\ TaskAgrees

\* A constructed worker satisfies the invariant.
LEMMA InitWorkerInv == WorkerInit => WorkerInv
  BY DEF WorkerInit, WorkerInv, WorkerTypeOK, StoppedWorkerHasNoLoop, LoopHasUnit, OwnerAgrees, SuspendedAgrees,
         TaskAgrees, PUs, IdleOwner

\* Every step of the owner, of the other threads and of the main loop preserves
\* it.
LEMMA NextWorkerInv == WorkerInv /\ [WorkerNext]_workerVars => WorkerInv'
<1> SUFFICES ASSUME WorkerInv, [WorkerNext]_workerVars PROVE WorkerInv'
  OBVIOUS
<1> USE DEF WorkerInv, WorkerTypeOK, StoppedWorkerHasNoLoop, LoopHasUnit, OwnerAgrees, SuspendedAgrees,
            TaskAgrees, NotStarted, PUs, Others, IdleOwner
<1>1. CASE loop # "crashed" /\ WorkerInitialize
  BY <1>1 DEF WorkerInitialize
<1>2. CASE loop # "crashed" /\ InitializeStore
  BY <1>2 DEF InitializeStore
<1>3. CASE loop # "crashed" /\ WorkerStart
  BY <1>3 DEF WorkerStart
<1>4. CASE loop # "crashed" /\ StartStore
  BY <1>4 DEF StartStore
<1>5. CASE loop # "crashed" /\ StartLaunch
  BY <1>5 DEF StartLaunch
<1>6. CASE loop # "crashed" /\ WorkerAwait
  BY <1>6 DEF WorkerAwait
<1>7. CASE loop # "crashed" /\ AwaitUnit
  BY <1>7 DEF AwaitUnit
<1>8. CASE loop # "crashed" /\ AwaitStore
  BY <1>8 DEF AwaitStore
<1>9. CASE loop # "crashed" /\ WorkerSuspend
  BY <1>9 DEF WorkerSuspend
<1>10. CASE loop # "crashed" /\ WorkerResume
  BY <1>10 DEF WorkerResume
<1>11. CASE loop # "crashed" /\ WorkerTerminate
  BY <1>11 DEF WorkerTerminate
<1>12. CASE loop # "crashed" /\ LoopPull
  BY <1>12 DEF LoopPull
<1>13. CASE loop # "crashed" /\ LoopTaskEnds
  BY <1>13 DEF LoopTaskEnds
<1>14. CASE loop # "crashed" /\ LoopCheckSuspend
  BY <1>14 DEF LoopCheckSuspend
<1>15. CASE loop # "crashed" /\ LoopStoreSuspended
  BY <1>15 DEF LoopStoreSuspended
<1>16. CASE loop # "crashed" /\ LoopSuspendOthers
  BY <1>16 DEF LoopSuspendOthers
<1>17. CASE loop # "crashed" /\ LoopSleep
  BY <1>17 DEF LoopSleep
<1>18. CASE loop # "crashed" /\ LoopResumeOthers
  BY <1>18 DEF LoopResumeOthers
<1>19. CASE loop # "crashed" /\ LoopStoreRunning
  BY <1>19 DEF LoopStoreRunning
<1>20. CASE loop # "crashed" /\ LoopCheckTerminate
  BY <1>20 DEF LoopCheckTerminate
<1>21. CASE loop # "crashed" /\ LoopTerminate
  BY <1>21 DEF LoopTerminate
<1>22. CASE UNCHANGED workerVars
  BY <1>22 DEF workerVars
<1> QED
  BY <1>1, <1>2, <1>3, <1>4, <1>5, <1>6, <1>7, <1>8, <1>9, <1>10, <1>11, <1>12, <1>13, <1>14, <1>15, <1>16, <1>17, <1>18, <1>19, <1>20, <1>21, <1>22, Zenon
     DEF WorkerNext, OwnerProceeds, MainLoop

\* So the invariant always holds.
LEMMA SpecWorkerInv == WorkerSpec => []WorkerInv
  BY InitWorkerInv, NextWorkerInv, PTL DEF WorkerSpec

\* Whatever the other threads call, and however often terminate overwrites the
\* state, a worker that is not started, or that await has reported as
\* terminated, has no main loop: it can be initialized and started again.
THEOREM StoppedHasNoLoop == WorkerSpec => []StoppedWorkerHasNoLoop
  BY SpecWorkerInv, PTL DEF WorkerInv

\* A worker that reports to be suspended runs no task.
THEOREM SuspendedRunsNoTask == WorkerSpec => []SuspendedWorkerRunsNoTask
<1>1. WorkerInv => SuspendedWorkerRunsNoTask
  BY Zenon DEF WorkerInv, WorkerTypeOK, SuspendedAgrees, TaskAgrees, SuspendedWorkerRunsNoTask
<1> QED BY <1>1, SpecWorkerInv, PTL
=============================================================================
