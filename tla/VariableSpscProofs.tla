-------------------------- MODULE VariableSpscProofs --------------------------
(***************************************************************************)
(* Proofs about the variable-size SPSC channel, for every capacity in       *)
(* tokens and in bytes, every set of sizes and every pop size.              *)
(***************************************************************************)
EXTENDS VariableSpsc, CircularBufferProofs

(***************************************************************************)
(* The inductive invariant.  bound ties the two circular buffers together:  *)
(* each byte counter is the bound of the token counter it belongs to, or    *)
(* one token ahead while the producer is between its two advances.          *)
(***************************************************************************)

\* The producer is pushing token pcHead and has not counted it yet.
InFlight(pc) == pc \in {"copying", "copied", "notifyPayload", "sizing", "sized"}

BoundsOrdered == \A j, k \in DOMAIN bound : j <= k => bound[j] <= bound[k]

HeadsInStep ==
  /\ pushing.pc \in {"idle", "copying", "copied", "notifyCount"} => ppHead = bound[pcHead]
  /\ pushing.pc \in {"notifyPayload", "sizing", "sized"} => ppHead = bound[pcHead + 1]
  /\ cpHead = IF pushing.pc = "notifyPayload" THEN bound[pcHead] ELSE ppHead
  /\ pcHead = IF pushing.pc = "notifyCount" THEN ccHead + 1 ELSE ccHead

\* The room that isFull found is still there: only the consumer moves a tail.
PushFits ==
  InFlight(pushing.pc) =>
    /\ bound[pcHead + 1] = bound[pcHead] + pushing.size
    /\ bound[pcHead + 1] - ppTail <= PayloadCapacity
    /\ pcHead - pcTail < Capacity

TailsInStep ==
  /\ cpTail = bound[ccTail]
  /\ popping.pc \in {"idle", "summing", "countTailLanded"} => pcTail = ccTail
  /\ popping.pc \in {"idle", "summing", "payloadTailLanded"} => ppTail = cpTail

\* The n tokens are there, and the loop has summed the sizes of the first i.
PopFits ==
  popping.pc = "summing" =>
    /\ ccTail + popping.n <= ccHead /\ popping.i <= popping.n
    /\ popping.bytes = bound[ccTail + popping.i] - bound[ccTail]

SizesWritten ==
  \A k \in ccTail .. (IF pushing.pc = "sized" THEN pcHead ELSE pcHead - 1) :
    sizes[Position(k, Capacity)] = bound[k + 1] - bound[k]

IInv ==
  /\ TypeOK /\ StaleOnTheSafeSide /\ BoundsOrdered
  /\ HeadsInStep /\ PushFits /\ TailsInStep /\ PopFits /\ SizesWritten

USE VariableSpscAssumption
\* A leaf that names no prover goes to the SMT solver, for a minute at most.
USE SMTT(60)

PushCalls ==
  [pc : {"idle", "copying", "copied", "notifyPayload", "sizing", "sized", "notifyCount", "fatal"},
   size : Sizes \cup {0}]

PopCalls ==
  [pc : {"idle", "summing", "notifying", "countTailLanded", "payloadTailLanded", "fatal"},
   n : 0 .. MaxPop, i : 0 .. MaxPop, bytes : Nat]

\* The last index of bound.
Last(h, pc) == IF InFlight(pc) THEN h + 1 ELSE h

\* Sizes are numbers of bytes.
LEMMA SizesAreNat == \A z \in Sizes \cup {0} : z \in Nat
<1>1. 0 \in Nat
  OBVIOUS
<1> QED BY <1>1, Zenon

\* Where bound is defined, in the words of the type invariant.
LEMMA BoundType ==
  ASSUME NEW h \in Nat, NEW call \in PushCalls, call.pc # "fatal"
  PROVE  [0 .. Last(h, call.pc) -> Nat]
           = [0 .. h + (IF call.pc \in {"idle", "notifyCount", "fatal"} THEN 0 ELSE 1) -> Nat]
<1>1. CASE InFlight(call.pc)
  <2>1. h + (IF call.pc \in {"idle", "notifyCount", "fatal"} THEN 0 ELSE 1) = Last(h, call.pc)
    BY <1>1 DEF InFlight, Last
  <2> QED BY <2>1
<1>2. CASE ~InFlight(call.pc)
  <2>1. call.pc \in {"idle", "notifyCount"}
    BY <1>2 DEF InFlight, PushCalls
  <2>2. h + (IF call.pc \in {"idle", "notifyCount", "fatal"} THEN 0 ELSE 1) = Last(h, call.pc)
    BY <1>2, <2>1 DEF Last
  <2> QED BY <2>2
<1> QED BY <1>1, <1>2

\* What the type invariant and the exclusion of fatal exceptions say of each
\* variable.
LEMMA Types ==
  ASSUME IInv
  PROVE  /\ pcHead \in Nat /\ pcTail \in Nat /\ ppHead \in Nat /\ ppTail \in Nat
         /\ ccHead \in Nat /\ ccTail \in Nat /\ cpHead \in Nat /\ cpTail \in Nat
         /\ pushing \in PushCalls /\ pushing.pc # "fatal" /\ pushing.size \in Nat
         /\ popping \in PopCalls /\ popping.pc # "fatal"
         /\ popping.n \in Nat /\ popping.i \in Nat /\ popping.bytes \in Nat
         /\ bound \in [0 .. Last(pcHead, pushing.pc) -> Nat]
         /\ sizes \in [0 .. Capacity - 1 -> Sizes \cup {0}]
<1>1. /\ pcHead \in Nat /\ pcTail \in Nat /\ ppHead \in Nat /\ ppTail \in Nat
      /\ ccHead \in Nat /\ ccTail \in Nat /\ cpHead \in Nat /\ cpTail \in Nat
      /\ sizes \in [0 .. Capacity - 1 -> Sizes \cup {0}]
  BY DEF IInv, TypeOK
<1>2. /\ pushing \in PushCalls /\ pushing.pc # "fatal" /\ pushing.size \in Nat
      /\ popping \in PopCalls /\ popping.pc # "fatal"
      /\ popping.n \in Nat /\ popping.i \in Nat /\ popping.bytes \in Nat
  <2>1. pushing \in PushCalls /\ popping \in PopCalls /\ pushing.pc # "fatal" /\ popping.pc # "fatal"
    BY DEF IInv, TypeOK, StaleOnTheSafeSide, PushCalls, PopCalls
  <2>2. pushing.size \in Sizes \cup {0}
    BY <2>1 DEF PushCalls
  <2>3. popping.n \in 0 .. MaxPop /\ popping.i \in 0 .. MaxPop /\ popping.bytes \in Nat
    BY <2>1 DEF PopCalls
  <2>4. pushing.size \in Nat
    BY <2>2, SizesAreNat, Zenon
  <2> QED BY <2>1, <2>3, <2>4
<1>3. bound \in [0 .. Last(pcHead, pushing.pc) -> Nat]
  <2>1. bound \in [0 .. pcHead + (IF pushing.pc \in {"idle", "notifyCount", "fatal"} THEN 0 ELSE 1) -> Nat]
    BY DEF IInv, TypeOK
  <2> QED BY <1>1, <1>2, <2>1, BoundType, Zenon
<1> QED BY <1>1, <1>2, <1>3

\* The converse, for the next state.
LEMMA TypesNext ==
  ASSUME pcHead' \in Nat, pcTail' \in Nat, ppHead' \in Nat, ppTail' \in Nat,
         ccHead' \in Nat, ccTail' \in Nat, cpHead' \in Nat, cpTail' \in Nat,
         sizes' \in [0 .. Capacity - 1 -> Sizes \cup {0}],
         payload' \in [0 .. PayloadBufferSize - 1 -> Nat \cup {NoToken}],
         pushing' \in PushCalls, pushing'.pc # "fatal", popping' \in PopCalls,
         bound' \in [0 .. Last(pcHead', pushing'.pc) -> Nat]
  PROVE  TypeOK'
<1>1. bound' \in [0 .. pcHead' + (IF pushing'.pc \in {"idle", "notifyCount", "fatal"} THEN 0 ELSE 1) -> Nat]
  BY BoundType, Zenon
<1> QED BY <1>1, Zenon DEF TypeOK, PushCalls, PopCalls

\* Bounds of the tokens in the channel are ordered, and the consumer's byte head
\* has every token that its count shows.
LEMMA BoundFacts ==
  ASSUME IInv
  PROVE  /\ ccTail <= ccHead /\ ccHead <= pcHead
         /\ \A k \in 0 .. pcHead : k \in 0 .. Last(pcHead, pushing.pc) /\ bound[k] \in Nat
         /\ \A j, k \in 0 .. Last(pcHead, pushing.pc) : j <= k => bound[j] <= bound[k]
         /\ bound[ccHead] <= cpHead
<1>1. /\ ccTail <= ccHead /\ ccHead <= pcHead /\ ccHead \in Nat /\ ccTail \in Nat /\ pcHead \in Nat
      /\ bound \in [0 .. Last(pcHead, pushing.pc) -> Nat]
  BY Types DEF IInv, StaleOnTheSafeSide
<1>2. \A k \in 0 .. pcHead : k \in 0 .. Last(pcHead, pushing.pc)
  BY <1>1 DEF Last
<1>3. \A j, k \in 0 .. Last(pcHead, pushing.pc) : j <= k => bound[j] <= bound[k]
  BY <1>1 DEF IInv, BoundsOrdered
<1>4. bound[ccHead] <= cpHead
  <2>1. bound[ccHead] <= bound[pcHead] /\ bound[ccHead] \in Nat /\ bound[pcHead] \in Nat
    BY <1>1, <1>2, <1>3
  <2>2. CASE InFlight(pushing.pc)
    <3>1. bound[pcHead] <= bound[pcHead + 1] /\ bound[pcHead + 1] \in Nat
      BY <1>1, <1>2, <1>3, <2>2 DEF Last
    <3> QED BY <2>1, <2>2, <3>1 DEF IInv, HeadsInStep, InFlight
  <2>3. CASE ~InFlight(pushing.pc)
    <3>1. pushing.pc \in {"idle", "notifyCount"}
      BY <2>3, Types DEF InFlight, PushCalls
    <3> QED BY <2>1, <3>1 DEF IInv, HeadsInStep
  <2> QED BY <2>2, <2>3
<1> QED BY <1>1, <1>2, <1>3, <1>4

\* The initial state satisfies the invariant.
LEMMA InitIInv == Init => IInv
<1> SUFFICES ASSUME Init PROVE IInv
  OBVIOUS
<1>1. TypeOK
  BY DEF Init, TypeOK, IdlePush, IdlePop, NoToken
<1> QED
  BY <1>1 DEF Init, IInv, StaleOnTheSafeSide, BoundsOrdered, HeadsInStep, PushFits, InFlight, TailsInStep,
              PopFits, SizesWritten, IdlePush, IdlePop

\* push begins: its token gets the bytes from ppHead on.
LEMMA PushStartIInv ==
  ASSUME IInv, NEW size \in Sizes, PushStart(size)
  PROVE  IInv'
<1> USE DEF producerCounters, consumerCounters
<1>0. /\ size \in Nat
      /\ pcHead \in Nat /\ pcTail \in Nat /\ ppHead \in Nat /\ ppTail \in Nat
      /\ ccHead \in Nat /\ ccTail \in Nat /\ cpHead \in Nat /\ cpTail \in Nat
  BY Types, SizesAreNat, Zenon
<1>1. /\ pcTail <= pcHead /\ ppTail <= ppHead /\ pcHead - pcTail <= Capacity
      /\ ccTail <= ccHead /\ ccHead <= pcHead
  BY <1>0 DEF IInv, StaleOnTheSafeSide
<1>2. /\ pushing.pc = "idle" /\ pushing' = [pc |-> "copying", size |-> size]
      /\ bound' = [k \in 0 .. pcHead + 1 |-> IF k = pcHead + 1 THEN ppHead + size ELSE bound[k]]
      /\ pcHead - pcTail # Capacity /\ ppHead - ppTail + size <= PayloadCapacity
  BY <1>0, <1>1 DEF PushStart, isFullFor, getDepth, OutOfOrder
<1>3. UNCHANGED <<pcHead, pcTail, ppHead, ppTail, ccHead, ccTail, cpHead, cpTail, sizes, payload, popping>>
  BY DEF PushStart
<1>4. pushing' \in PushCalls /\ pushing'.pc = "copying" /\ pushing'.size = size
  BY <1>2 DEF PushCalls
<1>5. /\ Last(pcHead, pushing.pc) = pcHead /\ bound \in [0 .. pcHead -> Nat]
      /\ ppHead = bound[pcHead] /\ cpHead = ppHead /\ pcHead = ccHead
      /\ \A j, k \in 0 .. pcHead : j <= k => bound[j] <= bound[k]
  BY <1>2, Types, BoundFacts DEF Last, InFlight, IInv, HeadsInStep
<1>6. /\ bound' \in [0 .. pcHead + 1 -> Nat] /\ bound'[pcHead + 1] = ppHead + size
      /\ \A k \in 0 .. pcHead : bound'[k] = bound[k]
  BY <1>0, <1>2, <1>5
<1>7. TypeOK'
  <2>1. Last(pcHead', pushing'.pc) = pcHead + 1
    BY <1>3, <1>4 DEF Last, InFlight
  <2>2. popping' \in PopCalls /\ sizes' \in [0 .. Capacity - 1 -> Sizes \cup {0}]
    BY <1>3, Types
  <2>3. payload' \in [0 .. PayloadBufferSize - 1 -> Nat \cup {NoToken}]
    BY <1>3 DEF IInv, TypeOK
  <2>4. pushing'.pc # "fatal"
    BY <1>4
  <2> QED BY <1>0, <1>3, <1>4, <1>6, <2>1, <2>2, <2>3, <2>4, TypesNext, Zenon
<1>8. StaleOnTheSafeSide'
  BY <1>3, <1>4 DEF IInv, StaleOnTheSafeSide
<1>9. BoundsOrdered'
  BY <1>0, <1>5, <1>6 DEF BoundsOrdered
<1>10. HeadsInStep' /\ PushFits'
  BY <1>0, <1>1, <1>2, <1>3, <1>4, <1>5, <1>6 DEF HeadsInStep, PushFits, InFlight
<1>11. TailsInStep'
  BY <1>0, <1>1, <1>3, <1>6 DEF IInv, TailsInStep
<1>12. PopFits'
  <2>1. popping.pc = "summing" => ccTail + popping.i \in 0 .. pcHead /\ ccTail \in 0 .. pcHead
    BY <1>0, <1>1, Types DEF IInv, PopFits
  <2> QED BY <1>3, <1>6, <2>1 DEF IInv, PopFits
<1>13. SizesWritten'
  <2>1. \A k \in ccTail .. pcHead - 1 : k \in 0 .. pcHead /\ k + 1 \in 0 .. pcHead
    BY <1>0
  <2>2. \A k \in ccTail .. pcHead - 1 : sizes[Position(k, Capacity)] = bound[k + 1] - bound[k]
    BY <1>2 DEF IInv, SizesWritten
  <2>3. \A k \in ccTail .. pcHead - 1 : sizes[Position(k, Capacity)] = bound'[k + 1] - bound'[k]
    BY <1>6, <2>1, <2>2
  <2> QED BY <1>3, <1>4, <2>3 DEF SizesWritten
<1> QED BY <1>7, <1>8, <1>9, <1>10, <1>11, <1>12, <1>13 DEF IInv

\* The other steps of push leave the consumer's side of the invariant alone.
LEMMA PushKeepsTails ==
  ASSUME IInv, UNCHANGED <<bound, pcTail, ppTail, ccTail, cpTail, popping>>,
         ccHead' \in Nat, ccHead <= ccHead'
  PROVE  BoundsOrdered' /\ TailsInStep' /\ PopFits'
<1>1. BoundsOrdered' /\ TailsInStep'
  BY DEF IInv, BoundsOrdered, TailsInStep
<1>2. PopFits'
  <2>1. PICK h \in Nat : ccHead' = h
    OBVIOUS
  <2>2. popping.pc = "summing" => ccTail + popping.n <= ccHead /\ popping.i <= popping.n
    BY DEF IInv, PopFits
  <2>3. popping.pc = "summing" => ccTail + popping.n <= h
    BY <2>1, <2>2, Types
  <2> QED BY <2>1, <2>3 DEF IInv, PopFits
<1> QED BY <1>1, <1>2

\* They preserve the invariant.
LEMMA PushCompletesIInv ==
  ASSUME IInv, PushCompletes
  PROVE  IInv'
<1> USE DEF producerCounters, consumerCounters
<1> DEFINE PayloadType == [0 .. PayloadBufferSize - 1 -> Nat \cup {NoToken}]
           SizesType == [0 .. Capacity - 1 -> Sizes \cup {0}]
           size == pushing.size
<1>0. /\ pcHead \in Nat /\ pcTail \in Nat /\ ppHead \in Nat /\ ppTail \in Nat
      /\ ccHead \in Nat /\ ccTail \in Nat /\ cpHead \in Nat /\ cpTail \in Nat
      /\ pushing \in PushCalls /\ size \in Nat /\ popping \in PopCalls
      /\ bound \in [0 .. Last(pcHead, pushing.pc) -> Nat]
      /\ sizes \in SizesType /\ payload \in PayloadType
  <2>1. payload \in PayloadType
    BY DEF IInv, TypeOK
  <2> QED BY <2>1, Types, Zenon
<1>1. /\ pcTail <= ccTail /\ ccTail <= ccHead /\ ccHead <= pcHead /\ pcHead - pcTail <= Capacity
      /\ ppTail <= cpTail /\ cpTail <= cpHead /\ cpHead <= ppHead /\ ppHead - ppTail <= PayloadCapacity
      /\ popping.pc # "fatal"
  BY DEF IInv, StaleOnTheSafeSide
<1>2. ASSUME InFlight(pushing.pc)
      PROVE  /\ Last(pcHead, pushing.pc) = pcHead + 1 /\ bound[pcHead] \in Nat
             /\ bound[pcHead + 1] = bound[pcHead] + size
             /\ bound[pcHead + 1] - ppTail <= PayloadCapacity
             /\ pcHead - pcTail < Capacity /\ pcHead = ccHead
  <2>1. Last(pcHead, pushing.pc) = pcHead + 1
    BY <1>2 DEF Last
  <2>2. bound[pcHead] \in Nat
    BY <1>0, <2>1
  <2>3. pcHead = ccHead
    BY <1>2 DEF IInv, HeadsInStep, InFlight
  <2> QED BY <1>2, <2>1, <2>2, <2>3 DEF IInv, PushFits
<1>3. CASE PayloadLands
  <2>1. pushing.pc = "copying" /\ pushing' = [pushing EXCEPT !.pc = "copied"]
    BY <1>3 DEF PayloadLands
  <2>2. pushing' \in PushCalls /\ pushing'.pc = "copied" /\ pushing'.size = size
    BY <1>0, <2>1 DEF PushCalls
  <2>3. UNCHANGED <<pcHead, pcTail, ppHead, ppTail, ccHead, ccTail, cpHead, cpTail, sizes, popping, bound>>
    BY <1>3 DEF PayloadLands
  <2>4. payload' \in PayloadType
    <3>1. pcHead \in Nat \cup {NoToken}
      BY <1>0
    <3> QED BY <1>0, <1>3, <3>1 DEF PayloadLands
  <2>5. InFlight(pushing.pc) /\ ppHead = bound[pcHead] /\ cpHead = ppHead
    BY <2>1 DEF InFlight, IInv, HeadsInStep
  <2>6. TypeOK'
    <3>1. Last(pcHead', pushing'.pc) = Last(pcHead, pushing.pc) /\ pushing'.pc # "fatal"
      BY <2>2, <2>3, <2>5 DEF Last, InFlight
    <3> QED BY <1>0, <2>2, <2>3, <2>4, <3>1, TypesNext, Zenon
  <2>7. StaleOnTheSafeSide'
    BY <1>1, <2>2, <2>3 DEF StaleOnTheSafeSide
  <2>8. HeadsInStep' /\ PushFits'
    BY <1>2, <2>2, <2>3, <2>5 DEF HeadsInStep, PushFits
  <2>9. SizesWritten'
    BY <2>1, <2>2, <2>3 DEF SizesWritten, IInv
  <2>10. BoundsOrdered' /\ TailsInStep' /\ PopFits'
    BY <1>0, <2>3, PushKeepsTails
  <2> QED BY <2>6, <2>7, <2>8, <2>9, <2>10 DEF IInv
<1>4. CASE AdvancePayload
  <2>1. /\ pushing.pc = "copied" /\ ppHead = bound[pcHead] /\ cpHead = ppHead /\ InFlight(pushing.pc)
        /\ pcHead = ccHead
    BY <1>4 DEF AdvancePayload, IInv, HeadsInStep, InFlight
  <2>2. pushing' = [pushing EXCEPT !.pc = "notifyPayload"] /\ ppHead' = ppHead + size
    <3>1. ppHead + size - ppTail <= PayloadCapacity /\ ppTail <= ppHead
      BY <1>0, <1>1, <1>2, <2>1
    <3>2. ~AdvanceHeadFatal(ppHead, ppTail, size, PayloadCapacity)
      BY <1>0, <3>1 DEF AdvanceHeadFatal, OutOfOrder, getDepth
    <3> QED BY <1>4, <3>2 DEF AdvancePayload
  <2>3. pushing' \in PushCalls /\ pushing'.pc = "notifyPayload" /\ pushing'.size = size
    BY <1>0, <2>2, Zenon DEF PushCalls
  <2>4. UNCHANGED <<pcHead, pcTail, ppTail, ccHead, ccTail, cpHead, cpTail, sizes, payload, popping, bound>>
    BY <1>4 DEF AdvancePayload
  <2>5. /\ ppHead' = bound[pcHead + 1] /\ ppHead' \in Nat /\ cpHead <= ppHead'
        /\ ppHead' - ppTail <= PayloadCapacity
    <3>1. /\ ppHead + size = bound[pcHead + 1] /\ ppHead + size \in Nat /\ cpHead <= ppHead + size
          /\ ppHead + size - ppTail <= PayloadCapacity
      BY <1>0, <1>2, <2>1
    <3>2. PICK h \in Nat : h = ppHead + size
      BY <3>1
    <3>3. ppHead' = h
      BY <2>2, <3>2
    <3>4. h = bound[pcHead + 1] /\ cpHead <= h /\ h - ppTail <= PayloadCapacity
      BY <1>0, <3>1, <3>2
    <3> QED BY <3>3, <3>4
  <2>6. TypeOK'
    <3>1. Last(pcHead', pushing'.pc) = Last(pcHead, pushing.pc) /\ pushing'.pc # "fatal"
      BY <2>1, <2>3, <2>4 DEF Last, InFlight
    <3> QED BY <1>0, <2>3, <2>4, <2>5, <3>1, TypesNext, Zenon
  <2>7. StaleOnTheSafeSide'
    BY <1>1, <2>3, <2>4, <2>5 DEF StaleOnTheSafeSide
  <2>8. HeadsInStep' /\ PushFits'
    BY <1>2, <2>1, <2>3, <2>4, <2>5 DEF HeadsInStep, PushFits
  <2>9. SizesWritten'
    BY <2>1, <2>3, <2>4 DEF SizesWritten, IInv
  <2>10. BoundsOrdered' /\ TailsInStep' /\ PopFits'
    BY <1>0, <2>4, PushKeepsTails
  <2> QED BY <2>6, <2>7, <2>8, <2>9, <2>10 DEF IInv
<1>5. CASE NotifyPayload
  <2>1. /\ pushing.pc = "notifyPayload" /\ ppHead = bound[pcHead + 1] /\ InFlight(pushing.pc)
        /\ pcHead = ccHead
    BY <1>5 DEF NotifyPayload, IInv, HeadsInStep, InFlight
  <2>2. pushing' = [pushing EXCEPT !.pc = "sizing"] /\ cpHead' = ppHead
    BY <1>5 DEF NotifyPayload
  <2>3. pushing' \in PushCalls /\ pushing'.pc = "sizing" /\ pushing'.size = size
    BY <1>0, <2>2 DEF PushCalls
  <2>4. UNCHANGED <<pcHead, pcTail, ppHead, ppTail, ccHead, ccTail, cpTail, sizes, payload, popping, bound>>
    BY <1>5 DEF NotifyPayload
  <2>5. TypeOK'
    <3>1. Last(pcHead', pushing'.pc) = Last(pcHead, pushing.pc) /\ pushing'.pc # "fatal"
      BY <2>1, <2>3, <2>4 DEF Last, InFlight
    <3> QED BY <1>0, <2>2, <2>3, <2>4, <3>1, TypesNext, Zenon
  <2>6. StaleOnTheSafeSide'
    BY <1>0, <1>1, <2>2, <2>3, <2>4 DEF StaleOnTheSafeSide
  <2>7. HeadsInStep' /\ PushFits'
    BY <1>2, <2>1, <2>2, <2>3, <2>4 DEF HeadsInStep, PushFits
  <2>8. SizesWritten'
    BY <2>1, <2>3, <2>4 DEF SizesWritten, IInv
  <2>9. BoundsOrdered' /\ TailsInStep' /\ PopFits'
    BY <1>0, <2>4, PushKeepsTails
  <2> QED BY <2>5, <2>6, <2>7, <2>8, <2>9 DEF IInv
<1>6. CASE SizeLands
  <2>1. /\ pushing.pc = "sizing" /\ ppHead = bound[pcHead + 1] /\ cpHead = ppHead /\ InFlight(pushing.pc)
        /\ pcHead = ccHead
    BY <1>6 DEF SizeLands, IInv, HeadsInStep, InFlight
  <2>2. /\ pushing' = [pushing EXCEPT !.pc = "sized"]
        /\ sizes' = [sizes EXCEPT ![Position(pcHead, Capacity)] = size]
    BY <1>6 DEF SizeLands
  <2>3. pushing' \in PushCalls /\ pushing'.pc = "sized" /\ pushing'.size = size
    BY <1>0, <2>2 DEF PushCalls
  <2>4. UNCHANGED <<pcHead, pcTail, ppHead, ppTail, ccHead, ccTail, cpHead, cpTail, payload, popping, bound>>
    BY <1>6 DEF SizeLands
  <2>5. TypeOK'
    <3>1. Last(pcHead', pushing'.pc) = Last(pcHead, pushing.pc) /\ pushing'.pc # "fatal"
      BY <2>1, <2>3, <2>4 DEF Last, InFlight
    <3>2. size \in Sizes \cup {0}
      BY <1>0 DEF PushCalls
    <3>3. sizes' \in SizesType
      BY <1>0, <2>2, <3>2, Zenon
    <3> QED BY <1>0, <2>2, <2>3, <2>4, <3>1, <3>3, TypesNext, Zenon
  <2>6. StaleOnTheSafeSide'
    BY <1>0, <1>1, <2>2, <2>3, <2>4 DEF StaleOnTheSafeSide
  <2>7. HeadsInStep' /\ PushFits'
    BY <1>2, <2>1, <2>2, <2>3, <2>4 DEF HeadsInStep, PushFits
  <2>8. SizesWritten'
    <3> SUFFICES ASSUME NEW k \in ccTail .. pcHead
                 PROVE  sizes'[Position(k, Capacity)] = bound[k + 1] - bound[k]
      BY <2>3, <2>4 DEF SizesWritten
    <3>1. /\ k \in Nat /\ Position(k, Capacity) \in 0 .. Capacity - 1
          /\ Position(pcHead, Capacity) \in 0 .. Capacity - 1
      <4>1. k \in Nat
        BY <1>0
      <4> QED BY <1>0, <4>1, PositionInRange, Zenon
    <3>2. CASE k = pcHead
      <4>1. bound[pcHead + 1] - bound[pcHead] = size
        BY <1>0, <1>2, <2>1
      <4> QED BY <1>0, <2>2, <3>1, <3>2, <4>1
    <3>3. CASE k # pcHead
      <4>1. k < pcHead /\ pcHead - k < Capacity /\ k \in ccTail .. pcHead - 1
        BY <1>0, <1>1, <1>2, <2>1, <3>3
      <4>2. Position(k, Capacity) # Position(pcHead, Capacity)
        BY <1>0, <3>1, <4>1, PositionsDistinct
      <4>3. sizes[Position(k, Capacity)] = bound[k + 1] - bound[k]
        BY <2>1, <4>1 DEF IInv, SizesWritten
      <4> QED BY <1>0, <2>2, <3>1, <4>2, <4>3
    <3> QED BY <3>2, <3>3
  <2>9. BoundsOrdered' /\ TailsInStep' /\ PopFits'
    BY <1>0, <2>4, PushKeepsTails
  <2> QED BY <2>5, <2>6, <2>7, <2>8, <2>9 DEF IInv
<1>7. CASE AdvanceCount
  <2>1. /\ pushing.pc = "sized" /\ ppHead = bound[pcHead + 1] /\ cpHead = ppHead /\ InFlight(pushing.pc)
        /\ pcHead = ccHead
    BY <1>7 DEF AdvanceCount, IInv, HeadsInStep, InFlight
  <2>2. pushing' = [pushing EXCEPT !.pc = "notifyCount"] /\ pcHead' = pcHead + 1
    BY <1>0, <1>1, <1>2, <1>7, <2>1 DEF AdvanceCount, AdvanceHeadFatal, OutOfOrder, getDepth
  <2>3. pushing' \in PushCalls /\ pushing'.pc = "notifyCount" /\ pushing'.size = size
    BY <1>0, <2>2, Zenon DEF PushCalls
  <2>4. UNCHANGED <<pcTail, ppHead, ppTail, ccHead, ccTail, cpHead, cpTail, sizes, payload, popping, bound>>
    BY <1>7 DEF AdvanceCount
  <2>5. TypeOK'
    <3>1. Last(pcHead', pushing'.pc) = Last(pcHead, pushing.pc) /\ pushing'.pc # "fatal"
      BY <2>1, <2>2, <2>3, <2>4 DEF Last, InFlight
    <3>2. pcHead' \in Nat
      BY <1>0, <2>2
    <3> QED BY <1>0, <2>3, <2>4, <3>1, <3>2, TypesNext, Zenon
  <2>6. StaleOnTheSafeSide'
    BY <1>0, <1>1, <1>2, <2>1, <2>2, <2>3, <2>4 DEF StaleOnTheSafeSide
  <2>7. HeadsInStep' /\ PushFits'
    BY <2>1, <2>2, <2>3, <2>4 DEF HeadsInStep, PushFits, InFlight
  <2>8. SizesWritten'
    <3>1. (pcHead + 1) - 1 = pcHead
      BY <1>0
    <3> QED BY <2>1, <2>2, <2>3, <2>4, <3>1 DEF SizesWritten, IInv
  <2>9. BoundsOrdered' /\ TailsInStep' /\ PopFits'
    BY <1>0, <2>4, PushKeepsTails
  <2> QED BY <2>5, <2>6, <2>7, <2>8, <2>9 DEF IInv
<1>8. CASE NotifyCount
  <2>1. /\ pushing.pc = "notifyCount" /\ ppHead = bound[pcHead] /\ cpHead = ppHead /\ pcHead = ccHead + 1
    BY <1>8 DEF NotifyCount, IInv, HeadsInStep
  <2>2. pushing' \in PushCalls /\ pushing'.pc = "idle" /\ ccHead' = pcHead
    BY <1>8 DEF NotifyCount, IdlePush, PushCalls
  <2>3. UNCHANGED <<pcHead, pcTail, ppHead, ppTail, ccTail, cpHead, cpTail, sizes, payload, popping, bound>>
    BY <1>8 DEF NotifyCount
  <2>4. TypeOK'
    <3>1. Last(pcHead', pushing'.pc) = Last(pcHead, pushing.pc) /\ pushing'.pc # "fatal"
      BY <2>1, <2>2, <2>3 DEF Last, InFlight
    <3> QED BY <1>0, <2>2, <2>3, <3>1, TypesNext, Zenon
  <2>5. StaleOnTheSafeSide'
    BY <1>0, <1>1, <2>1, <2>2, <2>3 DEF StaleOnTheSafeSide
  <2>6. HeadsInStep' /\ PushFits'
    BY <2>1, <2>2, <2>3 DEF HeadsInStep, PushFits, InFlight
  <2>7. SizesWritten'
    BY <2>1, <2>2, <2>3 DEF SizesWritten, IInv
  <2>8. BoundsOrdered' /\ TailsInStep' /\ PopFits'
    BY <1>0, <1>1, <2>2, <2>3, PushKeepsTails
  <2> QED BY <2>4, <2>5, <2>6, <2>7, <2>8 DEF IInv
<1> QED BY <1>3, <1>4, <1>5, <1>6, <1>7, <1>8 DEF PushCompletes
\* The steps of pop leave the producer's side of the invariant alone.
LEMMA PopKeepsHeads ==
  ASSUME IInv, UNCHANGED <<pcHead, ppHead, ccHead, cpHead, sizes, payload, pushing, bound>>,
         NEW pct \in Nat, NEW ppt \in Nat, NEW cct \in Nat, NEW cpt \in Nat,
         pcTail' = pct, ppTail' = ppt, ccTail' = cct, cpTail' = cpt,
         pcTail <= pct, ppTail <= ppt, ccTail <= cct, popping' \in PopCalls
  PROVE  TypeOK' /\ BoundsOrdered' /\ HeadsInStep' /\ PushFits' /\ SizesWritten'
<1>0. /\ pcHead \in Nat /\ pcTail \in Nat /\ ppTail \in Nat
      /\ bound \in [0 .. Last(pcHead, pushing.pc) -> Nat] /\ pushing.size \in Nat
  BY Types
<1>1. TypeOK'
  <2>1. payload \in [0 .. PayloadBufferSize - 1 -> Nat \cup {NoToken}]
    BY DEF IInv, TypeOK
  <2> QED BY <2>1, Types, TypesNext, Zenon
<1>2. BoundsOrdered' /\ HeadsInStep'
  BY DEF IInv, BoundsOrdered, HeadsInStep
<1>3. PushFits'
  <2> SUFFICES ASSUME InFlight(pushing.pc)
               PROVE  /\ bound[pcHead + 1] = bound[pcHead] + pushing.size
                      /\ bound[pcHead + 1] - ppt <= PayloadCapacity
                      /\ pcHead - pct < Capacity
    BY DEF PushFits
  <2>1. /\ bound[pcHead + 1] = bound[pcHead] + pushing.size
        /\ bound[pcHead + 1] - ppTail <= PayloadCapacity
        /\ pcHead - pcTail < Capacity
    BY DEF IInv, PushFits
  <2>2. bound[pcHead + 1] \in Nat
    <3>1. Last(pcHead, pushing.pc) = pcHead + 1
      BY DEF Last
    <3> QED BY <1>0, <3>1
  <2> QED BY <1>0, <2>1, <2>2
<1>4. SizesWritten'
  <2> DEFINE top == IF pushing.pc = "sized" THEN pcHead ELSE pcHead - 1
  <2>1. \A k \in ccTail .. top : sizes[Position(k, Capacity)] = bound[k + 1] - bound[k]
    BY DEF IInv, SizesWritten
  <2>2. \A k \in cct .. top : k \in ccTail .. top
    BY Types
  <2> QED BY <2>1, <2>2 DEF SizesWritten
<1> QED BY <1>1, <1>2, <1>3, <1>4

\* pop begins, and finds the tokens it is asked for.
LEMMA PopStartIInv ==
  ASSUME IInv, NEW n \in 0 .. MaxPop, PopStart(n)
  PROVE  IInv'
<1> USE DEF producerCounters, consumerCounters
<1>0. /\ pcTail \in Nat /\ ppTail \in Nat /\ ccHead \in Nat /\ ccTail \in Nat /\ cpTail \in Nat
      /\ ccTail <= ccHead /\ ccHead <= pcHead /\ pcHead \in Nat /\ popping.pc # "fatal"
  BY Types DEF IInv, StaleOnTheSafeSide
<1>1. /\ popping.pc = "idle" /\ n <= ccHead - ccTail
      /\ popping' = [pc |-> "summing", n |-> n, i |-> 0, bytes |-> 0]
  BY <1>0 DEF PopStart, OutOfOrder, getDepth
<1>2. UNCHANGED <<pcHead, pcTail, ppHead, ppTail, ccHead, ccTail, cpHead, cpTail, sizes, payload, pushing, bound>>
  BY DEF PopStart
<1>3. popping' \in PopCalls /\ popping'.pc = "summing" /\ popping'.n = n /\ popping'.i = 0 /\ popping'.bytes = 0
  BY <1>1 DEF PopCalls
<1>4. TypeOK' /\ BoundsOrdered' /\ HeadsInStep' /\ PushFits' /\ SizesWritten'
  BY <1>0, <1>2, <1>3, PopKeepsHeads
<1>5. StaleOnTheSafeSide' /\ TailsInStep'
  BY <1>1, <1>2, <1>3 DEF IInv, StaleOnTheSafeSide, TailsInStep
<1>6. PopFits'
  <2>1. bound[ccTail] \in Nat /\ ccTail + 0 = ccTail /\ ccTail + n <= ccHead
    BY <1>0, <1>1, BoundFacts
  <2>2. 0 = bound[ccTail + 0] - bound[ccTail]
    BY <2>1
  <2> QED BY <1>2, <1>3, <2>1, <2>2 DEF PopFits
<1> QED BY <1>4, <1>5, <1>6 DEF IInv

\* The other steps of pop preserve the invariant.
LEMMA PopCompletesIInv ==
  ASSUME IInv, PopCompletes
  PROVE  IInv'
<1> USE DEF producerCounters, consumerCounters
<1> DEFINE n == popping.n
           i == popping.i
           bytes == popping.bytes
<1>0. /\ pcHead \in Nat /\ pcTail \in Nat /\ ppHead \in Nat /\ ppTail \in Nat
      /\ ccHead \in Nat /\ ccTail \in Nat /\ cpHead \in Nat /\ cpTail \in Nat
      /\ popping \in PopCalls /\ n \in Nat /\ i \in Nat /\ bytes \in Nat /\ n <= MaxPop
  BY Types DEF PopCalls
<1>1. /\ pcTail <= ccTail /\ ccTail <= ccHead /\ ccHead <= pcHead /\ pcHead - pcTail <= Capacity
      /\ ppTail <= cpTail /\ cpTail <= cpHead /\ cpHead <= ppHead /\ ppHead - ppTail <= PayloadCapacity
      /\ pushing.pc # "fatal" /\ popping.pc # "fatal" /\ cpTail = bound[ccTail]
  BY DEF IInv, StaleOnTheSafeSide, TailsInStep
<1>2. ASSUME popping.pc = "summing"
      PROVE  /\ ccTail + n <= ccHead /\ i <= n /\ bytes = bound[ccTail + i] - bound[ccTail]
             /\ pcTail = ccTail /\ ppTail = cpTail
             /\ ccTail + i \in 0 .. pcHead /\ bound[ccTail] \in Nat /\ bound[ccTail + i] \in Nat
  <2>1. /\ ccTail + n <= ccHead /\ i <= n /\ bytes = bound[ccTail + i] - bound[ccTail]
        /\ pcTail = ccTail /\ ppTail = cpTail
    BY <1>2 DEF IInv, PopFits, TailsInStep
  <2>2. ccTail + i \in 0 .. pcHead /\ ccTail \in 0 .. pcHead
    BY <1>0, <1>1, <2>1
  <2> QED BY <2>1, <2>2, BoundFacts
<1>3. CASE SumSize
  <2>1. popping.pc = "summing" /\ i < n /\ popping' = [popping EXCEPT !.i = @ + 1, !.bytes = @ + sizes[basePeek(i)]]
    BY <1>3 DEF SumSize
  <2>2. UNCHANGED <<pcHead, pcTail, ppHead, ppTail, ccHead, ccTail, cpHead, cpTail, sizes, payload, pushing, bound>>
    BY <1>3 DEF SumSize
  <2>3. basePeek(i) = Position(ccTail + i, Capacity)
    BY <1>0, PositionOffset, Zenon DEF basePeek
  <2>4. /\ ccTail + i \in ccTail .. pcHead - 1 /\ ccTail + i + 1 \in 0 .. pcHead
        /\ bound[ccTail + i + 1] \in Nat /\ bound[ccTail + i] <= bound[ccTail + i + 1]
    <3>1. ccTail + i \in ccTail .. pcHead - 1 /\ ccTail + i + 1 \in 0 .. pcHead /\ ccTail + i <= ccTail + i + 1
      BY <1>0, <1>1, <1>2, <2>1
    <3> QED BY <1>2, <2>1, <3>1, BoundFacts
  <2>5. sizes[basePeek(i)] = bound[ccTail + i + 1] - bound[ccTail + i]
    <3>1. ccTail + i \in ccTail .. (IF pushing.pc = "sized" THEN pcHead ELSE pcHead - 1)
      BY <1>0, <2>4
    <3> QED BY <2>3, <3>1 DEF IInv, SizesWritten
  <2>6. /\ bytes + sizes[basePeek(i)] = bound[ccTail + (i + 1)] - bound[ccTail]
        /\ bytes + sizes[basePeek(i)] \in Nat /\ i + 1 \in 0 .. MaxPop /\ i + 1 <= n
    <3>1. ccTail + (i + 1) = ccTail + i + 1
      BY <1>0
    <3> QED BY <1>0, <1>2, <2>1, <2>4, <2>5, <3>1
  <2>7. /\ popping' \in PopCalls /\ popping'.pc = "summing" /\ popping'.n = n
        /\ popping'.i = i + 1 /\ popping'.bytes = bytes + sizes[basePeek(i)]
    BY <1>0, <2>1, <2>6, Zenon DEF PopCalls
  <2>8. TypeOK' /\ BoundsOrdered' /\ HeadsInStep' /\ PushFits' /\ SizesWritten'
    BY <1>0, <2>2, <2>7, PopKeepsHeads
  <2>9. StaleOnTheSafeSide' /\ TailsInStep'
    BY <1>1, <1>2, <2>1, <2>2, <2>7 DEF StaleOnTheSafeSide, TailsInStep
  <2>10. PopFits'
    BY <1>2, <2>1, <2>2, <2>6, <2>7 DEF PopFits
  <2> QED BY <2>8, <2>9, <2>10 DEF IInv
<1>4. CASE PopAdvance
  <2>1. popping.pc = "summing" /\ i = n
    BY <1>4 DEF PopAdvance
  <2>2. UNCHANGED <<pcHead, pcTail, ppHead, ppTail, ccHead, cpHead, sizes, payload, pushing, bound>>
    BY <1>4 DEF PopAdvance
  <2>3. /\ bytes = bound[ccTail + n] - cpTail /\ bound[ccTail + n] \in Nat /\ bound[ccTail + n] <= cpHead
        /\ cpTail + bytes = bound[ccTail + n]
    <3>1. ccTail + n \in 0 .. pcHead /\ ccHead \in 0 .. pcHead /\ ccTail + n <= ccHead
      BY <1>0, <1>1, <1>2, <2>1
    <3>2. /\ bound[ccTail + n] \in Nat /\ bound[ccHead] \in Nat
          /\ bound[ccTail + n] <= bound[ccHead] /\ bound[ccHead] <= cpHead
      BY <3>1, BoundFacts
    <3>3. bytes = bound[ccTail + n] - cpTail
      BY <1>1, <1>2, <2>1
    <3> QED BY <1>0, <3>2, <3>3
  <2>4. ~AdvanceTailFatal(ccHead, ccTail, n) /\ ~AdvanceTailFatal(cpHead, cpTail, bytes)
    BY <1>0, <1>1, <1>2, <2>1, <2>3 DEF AdvanceTailFatal, OutOfOrder, getDepth
  <2>5. popping' = [popping EXCEPT !.pc = "notifying"] /\ ccTail' = ccTail + n /\ cpTail' = cpTail + bytes
    BY <1>4, <2>4 DEF PopAdvance
  <2>6. popping' \in PopCalls /\ popping'.pc = "notifying"
    BY <1>0, <2>5 DEF PopCalls
  <2>7. PICK cct \in Nat, cpt \in Nat : cct = ccTail + n /\ cpt = cpTail + bytes
    BY <1>0
  <2>8. /\ ccTail' = cct /\ cpTail' = cpt /\ ccTail <= cct /\ cct <= ccHead
        /\ cpTail <= cpt /\ cpt <= cpHead
    BY <1>0, <1>2, <2>1, <2>3, <2>5, <2>7
  <2>9. TypeOK' /\ BoundsOrdered' /\ HeadsInStep' /\ PushFits' /\ SizesWritten'
    BY <1>0, <2>2, <2>6, <2>8, PopKeepsHeads
  <2>10. StaleOnTheSafeSide'
    <3>1. pcTail <= cct /\ ppTail <= cpt
      BY <1>0, <1>1, <2>7, <2>8
    <3> QED BY <1>1, <2>2, <2>6, <2>8, <3>1 DEF StaleOnTheSafeSide
  <2>11. TailsInStep' /\ PopFits'
    <3>1. cpt = bound[cct]
      BY <2>3, <2>7
    <3> QED BY <2>2, <2>6, <2>8, <3>1 DEF TailsInStep, PopFits
  <2> QED BY <2>9, <2>10, <2>11 DEF IInv
<1>5. CASE CountTailLands
  <2>1. /\ popping.pc \in {"notifying", "payloadTailLanded"} /\ pcTail' = ccTail
        /\ popping' = IF popping.pc = "notifying" THEN [popping EXCEPT !.pc = "countTailLanded"] ELSE IdlePop
    BY <1>5 DEF CountTailLands
  <2>2. UNCHANGED <<pcHead, ppHead, ppTail, ccHead, ccTail, cpHead, cpTail, sizes, payload, pushing, bound>>
    BY <1>5 DEF CountTailLands
  <2>3. /\ popping' \in PopCalls
        /\ popping'.pc = IF popping.pc = "notifying" THEN "countTailLanded" ELSE "idle"
    BY <1>0, <2>1 DEF PopCalls, IdlePop
  <2>4. TypeOK' /\ BoundsOrdered' /\ HeadsInStep' /\ PushFits' /\ SizesWritten'
    BY <1>0, <1>1, <2>1, <2>2, <2>3, PopKeepsHeads
  <2>5. StaleOnTheSafeSide'
    <3>1. pcHead - ccTail <= Capacity
      BY <1>0, <1>1
    <3> QED BY <1>0, <1>1, <2>1, <2>2, <2>3, <3>1 DEF StaleOnTheSafeSide
  <2>6. TailsInStep' /\ PopFits'
    BY <2>1, <2>2, <2>3 DEF IInv, TailsInStep, PopFits
  <2> QED BY <2>4, <2>5, <2>6 DEF IInv
<1>6. CASE PayloadTailLands
  <2>1. /\ popping.pc \in {"notifying", "countTailLanded"} /\ ppTail' = cpTail
        /\ popping' = IF popping.pc = "notifying" THEN [popping EXCEPT !.pc = "payloadTailLanded"] ELSE IdlePop
    BY <1>6 DEF PayloadTailLands
  <2>2. UNCHANGED <<pcHead, pcTail, ppHead, ccHead, ccTail, cpHead, cpTail, sizes, payload, pushing, bound>>
    BY <1>6 DEF PayloadTailLands
  <2>3. /\ popping' \in PopCalls
        /\ popping'.pc = IF popping.pc = "notifying" THEN "payloadTailLanded" ELSE "idle"
    BY <1>0, <2>1 DEF PopCalls, IdlePop
  <2>4. TypeOK' /\ BoundsOrdered' /\ HeadsInStep' /\ PushFits' /\ SizesWritten'
    BY <1>0, <1>1, <2>1, <2>2, <2>3, PopKeepsHeads
  <2>5. StaleOnTheSafeSide'
    <3>1. ppHead - cpTail <= PayloadCapacity
      BY <1>0, <1>1
    <3> QED BY <1>0, <1>1, <2>1, <2>2, <2>3, <3>1 DEF StaleOnTheSafeSide
  <2>6. TailsInStep' /\ PopFits'
    BY <2>1, <2>2, <2>3 DEF IInv, TailsInStep, PopFits
  <2> QED BY <2>4, <2>5, <2>6 DEF IInv
<1> QED BY <1>3, <1>4, <1>5, <1>6 DEF PopCompletes

\* Every step preserves the invariant.
LEMMA NextIInv == IInv /\ [Next]_vars => IInv'
<1> SUFFICES ASSUME IInv, [Next]_vars PROVE IInv'
  OBVIOUS
<1>1. CASE UNCHANGED vars
  <2>1. /\ TypeOK' /\ StaleOnTheSafeSide' /\ BoundsOrdered' /\ HeadsInStep'
    BY <1>1, Zenon DEF IInv, vars, TypeOK, StaleOnTheSafeSide, BoundsOrdered, HeadsInStep
  <2>2. PushFits' /\ TailsInStep' /\ PopFits' /\ SizesWritten'
    BY <1>1 DEF IInv, vars, PushFits, TailsInStep, PopFits, SizesWritten
  <2> QED BY <2>1, <2>2 DEF IInv
<1> QED
  BY <1>1, PushStartIInv, PushCompletesIInv, PopStartIInv, PopCompletesIInv DEF Next

\* So the invariant always holds.
LEMMA SpecIInv == Spec => []IInv
  BY InitIInv, NextIInv, PTL DEF Spec

\* The counters of both circular buffers are stale on the safe side only, in
\* whichever order the two tails reach the producer, and no interleaving makes
\* advanceHead or advanceTail throw, for every size of token, capacity in tokens
\* and in bytes, and pop size.
THEOREM ViewsAreSafe == Spec => []StaleOnTheSafeSide
<1>1. IInv => StaleOnTheSafeSide
  BY DEF IInv
<1> QED
  BY <1>1, SpecIInv, PTL
-----------------------------------------------------------------------------
(***************************************************************************)
(* Payloads.  A payload runs on into the excess buffer in place of wrapping,  *)
(* so that two regions are disjoint is a fact about positions: tokens that  *)
(* are in the channel together span at most PayloadCapacity bytes.          *)
(***************************************************************************)

\* The bytes from one byte counter to another, laid out without wrapping.
Bytes(b, e) == Position(b, PayloadCapacity) .. Position(b, PayloadCapacity) + (e - b) - 1

\* Payloads within PayloadCapacity bytes of the first lie apart.
LEMMA RegionsApart ==
  ASSUME NEW bj \in Nat, NEW ej \in Nat, NEW bk \in Nat, NEW ek \in Nat,
         bj <= ej, ej <= bk, bk <= ek, ek - bj <= PayloadCapacity
  PROVE  Bytes(bj, ej) \cap Bytes(bk, ek) = {}
<1> DEFINE C == PayloadCapacity
           u == bj \div C
           v == bk \div C
           r == Position(bj, C)
           s == Position(bk, C)
<1>0. C \in Nat \ {0}
  OBVIOUS
<1>1. u \in Int /\ v \in Int /\ bj = C * u + r /\ bk = C * v + s /\ r \in 0 .. C - 1 /\ s \in 0 .. C - 1
  BY <1>0, PositionLap, PositionInRange, Zenon
<1> HIDE DEF C, u, v, r, s
<1>2. r + (ej - bj) <= s \/ s + (ek - bk) <= r
  <2>1. CASE v = u
    BY <1>0, <1>1, <2>1
  <2>2. CASE v = u + 1
    <3>1. C * v = C * u + C
      BY <1>0, <1>1, <2>2
    <3>2. C * u \in Int
      BY <1>0, <1>1
    <3>3. bk = bj - r + C + s
      BY <1>0, <1>1, <3>1, <3>2
    <3> QED BY <1>0, <1>1, <3>3 DEF C
  <2>3. CASE v < u
    <3>1. PICK d \in Nat : u = v + 1 + d
      <4>1. u - v - 1 \in Nat /\ u = v + 1 + (u - v - 1)
        BY <1>1, <2>3
      <4> QED BY <4>1
    <3>2. C * u = C * v + C + C * d /\ C * d \in Nat /\ C * v \in Int
      BY <1>0, <1>1, <3>1
    <3> QED BY <1>0, <1>1, <3>2
  <2>4. CASE v > u + 1
    <3>1. PICK d \in Nat : v = u + 2 + d
      <4>1. v - u - 2 \in Nat /\ v = u + 2 + (v - u - 2)
        BY <1>1, <2>4
      <4> QED BY <4>1
    <3>2. C * v = C * u + C + C + C * d /\ C * d \in Nat /\ C * u \in Int
      BY <1>0, <1>1, <3>1
    <3>3. ek - bj <= C
      BY DEF C
    <3> QED BY <1>0, <1>1, <3>2, <3>3
  <2> QED BY <1>1, <2>1, <2>2, <2>3, <2>4
<1>3. Bytes(bj, ej) = r .. r + (ej - bj) - 1 /\ Bytes(bk, ek) = s .. s + (ek - bk) - 1
  BY DEF Bytes, C, r, s
<1>4. r \in Int /\ s \in Int
  BY <1>0, <1>1
<1> QED BY <1>2, <1>3, <1>4

\* A payload no larger than the payload buffer ends before the excess buffer does.
LEMMA RegionInBuffer ==
  ASSUME NEW b \in Nat, NEW e \in Nat, b <= e, e - b <= PayloadCapacity
  PROVE  Bytes(b, e) \subseteq 0 .. PayloadBufferSize - 1
<1>1. Position(b, PayloadCapacity) \in 0 .. PayloadCapacity - 1
  BY PositionInRange
<1> QED BY <1>1 DEF Bytes, PayloadBufferSize

\* Where the tokens in the channel begin and end.
LEMMA LiveBounds ==
  ASSUME IInv
  PROVE  /\ \A k \in Live : /\ k \in Nat /\ bound[k] \in Nat /\ bound[k + 1] \in Nat
                           /\ bound[k] <= bound[k + 1] /\ ppTail <= bound[k]
                           /\ bound[k + 1] - ppTail <= PayloadCapacity
                           /\ Region(k) = Bytes(bound[k], bound[k + 1])
         /\ \A j, k \in Live : j < k => bound[j + 1] <= bound[k]
<1> DEFINE last == Last(pcHead, pushing.pc)
<1>0. /\ pcHead \in Nat /\ ppHead \in Nat /\ ppTail \in Nat /\ ccTail \in Nat /\ cpTail \in Nat
      /\ bound \in [0 .. last -> Nat] /\ last \in Nat /\ Live = ccTail .. last - 1
  <2>1. Live = ccTail .. last - 1
    <3>1. CASE InFlight(pushing.pc)
      <4>1. last = pcHead + 1 /\ last - 1 = pcHead
        BY <3>1, Types DEF Last
      <4> QED BY <3>1, <4>1 DEF InFlight, Live
    <3>2. CASE ~InFlight(pushing.pc)
      <4>1. pushing.pc \in {"idle", "notifyCount"}
        BY <3>2, Types DEF InFlight, PushCalls
      <4> QED BY <3>2, <4>1 DEF Last, Live
    <3> QED BY <3>1, <3>2
  <2>2. last \in Nat
    BY Types DEF Last
  <2> QED BY <2>1, <2>2, Types
<1>1. \A j, k \in 0 .. last : j <= k => bound[j] <= bound[k]
  BY BoundFacts
<1>2. bound[last] - ppTail <= PayloadCapacity /\ ppTail <= bound[ccTail]
  <2>1. ppTail <= bound[ccTail]
    BY DEF IInv, StaleOnTheSafeSide, TailsInStep
  <2>2. CASE InFlight(pushing.pc)
    BY <2>1, <2>2 DEF Last, IInv, PushFits
  <2>3. CASE ~InFlight(pushing.pc)
    <3>1. pushing.pc \in {"idle", "notifyCount"}
      BY <2>3, Types DEF InFlight, PushCalls
    <3>2. last = pcHead /\ ppHead = bound[pcHead] /\ ppHead - ppTail <= PayloadCapacity
      BY <2>3, <3>1 DEF Last, IInv, HeadsInStep, StaleOnTheSafeSide
    <3> QED BY <2>1, <3>2
  <2> QED BY <2>2, <2>3
<1> HIDE DEF last
<1>3. ASSUME NEW k \in Live
      PROVE  /\ k \in Nat /\ bound[k] \in Nat /\ bound[k + 1] \in Nat
             /\ bound[k] <= bound[k + 1] /\ ppTail <= bound[k]
             /\ bound[k + 1] - ppTail <= PayloadCapacity
             /\ Region(k) = Bytes(bound[k], bound[k + 1])
  <2>1. /\ k \in Nat /\ k \in 0 .. last /\ k + 1 \in 0 .. last /\ last \in 0 .. last
        /\ ccTail \in 0 .. last /\ ccTail <= k /\ k <= k + 1 /\ k + 1 <= last
    BY <1>0
  <2>2. bound[k] \in Nat /\ bound[k + 1] \in Nat /\ bound[ccTail] \in Nat /\ bound[last] \in Nat
    BY <1>0, <2>1
  <2>3. bound[ccTail] <= bound[k] /\ bound[k] <= bound[k + 1] /\ bound[k + 1] <= bound[last]
    BY <1>1, <2>1
  <2>4. ppTail <= bound[k] /\ bound[k + 1] - ppTail <= PayloadCapacity
    BY <1>0, <1>2, <2>2, <2>3
  <2> QED BY <2>1, <2>2, <2>3, <2>4 DEF Region, Bytes
<1>4. ASSUME NEW j \in Live, NEW k \in Live, j < k PROVE bound[j + 1] <= bound[k]
  <2>1. j + 1 \in 0 .. last /\ k \in 0 .. last /\ j + 1 <= k
    BY <1>0, <1>4
  <2> QED BY <1>1, <2>1
<1> QED BY <1>3, <1>4

\* No two tokens in the channel share a byte of payload memory.
LEMMA RegionsDisjoint == IInv => LiveRegionsDisjoint
<1> SUFFICES ASSUME IInv PROVE LiveRegionsDisjoint
  OBVIOUS
<1>0. ppTail \in Nat
  BY Types
<1>1. ASSUME NEW k \in Live PROVE Region(k) \subseteq 0 .. PayloadBufferSize - 1
  <2>1. /\ bound[k] \in Nat /\ bound[k + 1] \in Nat /\ bound[k] <= bound[k + 1] /\ ppTail <= bound[k]
        /\ bound[k + 1] - ppTail <= PayloadCapacity /\ Region(k) = Bytes(bound[k], bound[k + 1])
    BY LiveBounds
  <2>2. bound[k + 1] - bound[k] <= PayloadCapacity
    BY <1>0, <2>1
  <2> QED BY <2>1, <2>2, RegionInBuffer
<1>2. ASSUME NEW j \in Live, NEW k \in Live, j < k PROVE Region(j) \cap Region(k) = {}
  <2>1. /\ bound[j] \in Nat /\ bound[j + 1] \in Nat /\ bound[k] \in Nat /\ bound[k + 1] \in Nat
        /\ bound[j] <= bound[j + 1] /\ bound[j + 1] <= bound[k] /\ bound[k] <= bound[k + 1]
        /\ ppTail <= bound[j] /\ bound[k + 1] - ppTail <= PayloadCapacity
        /\ Region(j) = Bytes(bound[j], bound[j + 1]) /\ Region(k) = Bytes(bound[k], bound[k + 1])
    BY <1>2, LiveBounds
  <2>2. bound[k + 1] - bound[j] <= PayloadCapacity
    BY <1>0, <2>1
  <2> QED BY <2>1, <2>2, RegionsApart
<1>3. ASSUME NEW j \in Live, NEW k \in Live, j # k PROVE j < k \/ k < j
  <2>1. j \in Nat /\ k \in Nat
    BY LiveBounds
  <2> QED BY <1>3, <2>1
<1> QED BY <1>1, <1>2, <1>3 DEF LiveRegionsDisjoint
\* The last token whose payload has been written.
Top(pc, h) == IF InFlight(pc) /\ pc # "copying" THEN h ELSE h - 1

\* The payload of token k is all there.
Whole(p, b, k) == \A x \in Bytes(b[k], b[k + 1]) : p[x] = k

\* Every payload that has been written and not been popped is all there.
PayloadsWritten == \A k \in ccTail .. Top(pushing.pc, pcHead) : Whole(payload, bound, k)

\* The copy of a payload writes its token's region and no other token's.
LEMMA CopyMissesPayloads ==
  ASSUME IInv, PayloadLands
  PROVE  /\ Whole(payload', bound, pcHead)
         /\ \A k \in ccTail .. pcHead - 1 : Whole(payload, bound, k) => Whole(payload', bound, k)
<1>0. pcHead \in Nat /\ ccTail \in Nat /\ pushing.size \in Nat /\ ccTail <= pcHead
  BY Types, BoundFacts
<1>1. pushing.pc = "copying" /\ Live = ccTail .. pcHead
  BY DEF PayloadLands, Live
<1>2. pcHead \in Live /\ \A k \in ccTail .. pcHead - 1 : k \in Live /\ k # pcHead
  BY <1>0, <1>1
<1>3. /\ bound[pcHead] \in Nat /\ bound[pcHead + 1] \in Nat /\ Region(pcHead) = Bytes(bound[pcHead], bound[pcHead + 1])
      /\ ppHead = bound[pcHead] /\ bound[pcHead + 1] = bound[pcHead] + pushing.size
  BY <1>1, <1>2, LiveBounds DEF IInv, HeadsInStep, PushFits, InFlight
<1>4. payload' = [b \in 0 .. PayloadBufferSize - 1 |-> IF b \in Region(pcHead) THEN pcHead ELSE payload[b]]
  <2> DEFINE first == Position(ppHead, PayloadCapacity)
  <2>1. pushing.size = bound[pcHead + 1] - bound[pcHead]
    BY <1>0, <1>3
  <2>2. first .. first + pushing.size - 1 = Region(pcHead)
    BY <1>3, <2>1 DEF Bytes
  <2>3. DOMAIN payload = 0 .. PayloadBufferSize - 1
    BY DEF IInv, TypeOK
  <2>4. payload' = [b \in DOMAIN payload |->
                      IF b \in first .. first + pushing.size - 1 THEN pcHead ELSE payload[b]]
    BY DEF PayloadLands
  <2> HIDE DEF first
  <2> QED BY <2>2, <2>3, <2>4, Zenon
<1>5. /\ \A k \in Live : Region(k) \subseteq 0 .. PayloadBufferSize - 1
      /\ \A k \in Live : k # pcHead => Region(k) \cap Region(pcHead) = {}
  BY <1>2, RegionsDisjoint DEF LiveRegionsDisjoint
<1>6. Whole(payload', bound, pcHead)
  <2>1. \A x \in Region(pcHead) : payload'[x] = pcHead
    BY <1>2, <1>4, <1>5, Zenon
  <2> QED BY <1>3, <2>1, Zenon DEF Whole
<1>7. ASSUME NEW k \in ccTail .. pcHead - 1, Whole(payload, bound, k)
      PROVE  Whole(payload', bound, k)
  <2>1. k \in Live /\ k # pcHead /\ Region(k) = Bytes(bound[k], bound[k + 1])
    BY <1>2, LiveBounds
  <2>2. \A x \in Region(k) : payload'[x] = payload[x]
    BY <1>4, <1>5, <2>1, Zenon
  <2> QED BY <1>7, <2>1, <2>2, Zenon DEF Whole
<1> QED BY <1>6, <1>7

\* Initially no token is in the channel.
LEMMA InitWritten == Init => PayloadsWritten
  BY DEF Init, PayloadsWritten, Top, InFlight, IdlePush

\* Every step keeps the payloads in the channel.
LEMMA NextWritten ==
  ASSUME IInv, IInv', PayloadsWritten, [Next]_vars
  PROVE  PayloadsWritten'
<1> USE DEF producerCounters, consumerCounters
<1>0. pcHead \in Nat /\ ccTail \in Nat /\ popping.n \in Nat /\ pushing'.pc # "fatal"
  BY Types DEF IInv, StaleOnTheSafeSide
<1>1. ASSUME NEW t \in Nat, ccTail <= t, ccTail' = t, payload' = payload,
             NEW top \in Int, Top(pushing'.pc, pcHead') = top, top <= Top(pushing.pc, pcHead),
             \A k \in ccTail .. top : bound'[k] = bound[k] /\ bound'[k + 1] = bound[k + 1]
      PROVE  PayloadsWritten'
  <2> SUFFICES ASSUME NEW k \in t .. top PROVE Whole(payload, bound', k)
    BY <1>1 DEF PayloadsWritten
  <2>1. k \in ccTail .. top /\ k \in ccTail .. Top(pushing.pc, pcHead)
    <3>1. Top(pushing.pc, pcHead) \in Int
      BY <1>0 DEF Top
    <3> QED BY <1>0, <1>1, <3>1
  <2>2. Whole(payload, bound, k)
    BY <2>1 DEF PayloadsWritten
  <2> QED BY <1>1, <2>1, <2>2 DEF Whole
<1>2. ASSUME NEW size \in Sizes, PushStart(size) PROVE PayloadsWritten'
  <2>1. /\ pushing.pc = "idle" /\ pushing'.pc = "copying" /\ UNCHANGED <<pcHead, ccTail, payload>>
        /\ bound' = [k \in 0 .. pcHead + 1 |-> IF k = pcHead + 1 THEN ppHead + size ELSE bound[k]]
    <3>1. pushing' # [pushing EXCEPT !.pc = "fatal"]
      BY <1>0, Types DEF PushCalls
    <3> QED BY <1>2, <3>1 DEF PushStart
  <2>2. Top(pushing'.pc, pcHead') = pcHead - 1 /\ Top(pushing.pc, pcHead) = pcHead - 1
    BY <2>1 DEF Top, InFlight
  <2>3. \A k \in ccTail .. pcHead - 1 : bound'[k] = bound[k] /\ bound'[k + 1] = bound[k + 1]
    BY <1>0, <2>1
  <2>4. pcHead - 1 \in Int /\ pcHead - 1 <= pcHead - 1 /\ ccTail <= ccTail
    BY <1>0
  <2> QED BY <1>0, <1>1, <2>1, <2>2, <2>3, <2>4
<1>3. CASE PayloadLands
  <2>1. /\ pushing.pc = "copying" /\ pushing'.pc = "copied" /\ UNCHANGED <<pcHead, ccTail, bound>>
    BY <1>3, Types DEF PayloadLands, PushCalls
  <2>2. Top(pushing'.pc, pcHead') = pcHead /\ Top(pushing.pc, pcHead) = pcHead - 1
    BY <2>1 DEF Top, InFlight
  <2>3. \A k \in ccTail .. pcHead : k = pcHead \/ k \in ccTail .. pcHead - 1
    BY <1>0
  <2>4. \A k \in ccTail .. pcHead : Whole(payload', bound, k)
    BY <1>3, <2>2, <2>3, CopyMissesPayloads DEF PayloadsWritten
  <2> QED BY <2>1, <2>2, <2>4 DEF PayloadsWritten
<1>4. CASE AdvancePayload \/ NotifyPayload \/ SizeLands \/ AdvanceCount \/ NotifyCount
  <2>1. UNCHANGED <<ccTail, payload, bound>>
    BY <1>4 DEF AdvancePayload, NotifyPayload, SizeLands, AdvanceCount, NotifyCount
  <2>2. Top(pushing'.pc, pcHead') = Top(pushing.pc, pcHead)
    <3>1. CASE AdvancePayload \/ NotifyPayload \/ SizeLands
      BY <1>0, <3>1, Types, Zenon DEF AdvancePayload, NotifyPayload, SizeLands, Top, InFlight, PushCalls
    <3>2. CASE AdvanceCount
      <4>1. pushing.pc = "sized" /\ pushing'.pc = "notifyCount" /\ pcHead' = pcHead + 1
        BY <1>0, <3>2, Types DEF AdvanceCount, PushCalls
      <4>2. (pcHead + 1) - 1 = pcHead
        BY <1>0
      <4> QED BY <4>1, <4>2 DEF Top, InFlight
    <3>3. CASE NotifyCount
      BY <3>3 DEF NotifyCount, IdlePush, Top, InFlight
    <3> QED BY <1>4, <3>1, <3>2, <3>3
  <2>3. Top(pushing.pc, pcHead) \in Int /\ Top(pushing.pc, pcHead) <= Top(pushing.pc, pcHead) /\ ccTail <= ccTail
    BY <1>0 DEF Top
  <2> QED BY <1>0, <1>1, <2>1, <2>2, <2>3
<1>5. CASE UNCHANGED <<pcHead, pushing, payload, bound>> /\ (ccTail' = ccTail \/ ccTail' = ccTail + popping.n)
  <2>1. PICK t \in Nat : ccTail' = t /\ ccTail <= t
    <3>1. CASE ccTail' = ccTail
      BY <1>0, <3>1
    <3>2. CASE ccTail' = ccTail + popping.n
      <4>1. ccTail + popping.n \in Nat /\ ccTail <= ccTail + popping.n
        BY <1>0
      <4> QED BY <3>2, <4>1
    <3> QED BY <1>5, <3>1, <3>2
  <2>2. Top(pushing.pc, pcHead) \in Int /\ Top(pushing.pc, pcHead) <= Top(pushing.pc, pcHead)
    BY <1>0 DEF Top
  <2> QED BY <1>1, <1>5, <2>1, <2>2
<1> QED
  BY <1>2, <1>3, <1>4, <1>5
     DEF Next, vars, PushCompletes, PopCompletes, PopStart, SumSize, PopAdvance, CountTailLands, PayloadTailLands

\* peek of a channel that is not empty finds the oldest payload.
LEMMA PeekFinds == IInv /\ PayloadsWritten => PeekFindsOldestToken
<1> SUFFICES ASSUME IInv, PayloadsWritten, ccTail < ccHead
             PROVE  /\ peekPosition .. peekPosition + peekSize - 1 = Region(ccTail)
                    /\ \A b \in Region(ccTail) : payload[b] = ccTail
  BY DEF PeekFindsOldestToken
<1>0. /\ ccTail \in Nat /\ pcHead \in Nat /\ cpTail \in Nat /\ ccHead \in Nat /\ ccHead <= pcHead
      /\ cpTail = bound[ccTail]
  BY Types, BoundFacts DEF IInv, TailsInStep
<1>1. ccTail \in Live /\ ccTail \in ccTail .. Top(pushing.pc, pcHead)
  BY <1>0 DEF Live, Top
<1>2. peekPosition = Position(bound[ccTail], PayloadCapacity)
  <2>1. (Position(cpTail, PayloadCapacity) + 0) % PayloadCapacity = Position(cpTail + 0, PayloadCapacity)
    BY <1>0, PositionOffset, Zenon
  <2>2. cpTail + 0 = cpTail /\ Position(cpTail, PayloadCapacity) + 0 = Position(cpTail, PayloadCapacity)
    BY <1>0, PositionInRange
  <2> QED BY <1>0, <2>1, <2>2, Zenon DEF peekPosition
<1>3. peekSize = bound[ccTail + 1] - bound[ccTail]
  <2>1. basePeek(0) = Position(ccTail, Capacity)
    <3>1. (Position(ccTail, Capacity) + 0) % Capacity = Position(ccTail + 0, Capacity) /\ ccTail + 0 = ccTail
      BY <1>0, PositionOffset
    <3> QED BY <3>1, Zenon DEF basePeek
  <2>2. ccTail \in ccTail .. (IF pushing.pc = "sized" THEN pcHead ELSE pcHead - 1)
    BY <1>0
  <2> QED BY <2>1, <2>2 DEF peekSize, IInv, SizesWritten
<1>4. Region(ccTail) = Bytes(bound[ccTail], bound[ccTail + 1])
  BY <1>1, LiveBounds
<1>5. \A b \in Region(ccTail) : payload[b] = ccTail
  BY <1>1, <1>4 DEF PayloadsWritten, Whole
<1>6. peekPosition .. peekPosition + peekSize - 1 = Region(ccTail)
  BY <1>2, <1>3, <1>4, Zenon DEF Bytes
<1> QED BY <1>5, <1>6

\* So visible payloads are always intact.
LEMMA SpecWritten == Spec => []PayloadsWritten
<1>1. IInv /\ IInv' /\ PayloadsWritten /\ [Next]_vars => PayloadsWritten'
  BY NextWritten
<1> QED
  BY <1>1, InitWritten, SpecIInv, PTL DEF Spec

\* No payload in the channel is overwritten before it is popped and peek finds
\* the oldest one whole: an excess buffer of PayloadCapacity bytes is enough for
\* every size of token that push lets in.
THEOREM PayloadsStayIntact == Spec => []PayloadsIntact
<1>1. IInv /\ PayloadsWritten => PayloadsIntact
  BY RegionsDisjoint, PeekFinds DEF PayloadsIntact
<1> QED
  BY <1>1, SpecIInv, SpecWritten, PTL
-----------------------------------------------------------------------------
(***************************************************************************)
(* The channel implements the bounded queue when no token is empty: the first *)
(* byte of a payload tells which token it is.  A token arrives when its     *)
(* count lands at the consumer, its payload having landed before.           *)
(***************************************************************************)

NoTokenEmpty == \A k \in 0 .. Last(pcHead, pushing.pc) - 1 : bound[k] < bound[k + 1]

\* Token k has a first byte, and it shows k.
Legible(p, b, k) == p[Position(b[k], PayloadCapacity)] = k

AllLegible(p, b, t, h) == \A k \in t .. h - 1 : Legible(p, b, k)

TokensLegible == AllLegible(payload, bound, ccTail, ccHead)

\* What the first bytes of the tokens from number t up to number h show.
FirstBytesOf(p, b, t, h) ==
  [i \in 1 .. getDepth(h, t) |-> p[Position(b[t + i - 1], PayloadCapacity)]]

\* The tokens from number t up to number h.
Numbers(t, h) == [i \in 1 .. h - t |-> t + i - 1]

\* There is no token at the start.
LEMMA InitNoTokenEmpty == Init => NoTokenEmpty
  BY DEF Init, NoTokenEmpty, Last, InFlight, IdlePush

\* If callers push no empty token, none ever appears.
LEMMA NextNoTokenEmpty ==
  ASSUME 0 \notin Sizes, IInv, IInv', NoTokenEmpty, [Next]_vars
  PROVE  NoTokenEmpty'
<1> USE DEF producerCounters, consumerCounters
<1>0. /\ pcHead \in Nat /\ ppHead \in Nat /\ pushing \in PushCalls /\ pushing'.pc # "fatal"
      /\ \A k \in 0 .. pcHead : bound[k] \in Nat
  BY Types, BoundFacts DEF IInv, StaleOnTheSafeSide
<1>1. ASSUME NEW size \in Sizes, PushStart(size) PROVE NoTokenEmpty'
  <2>1. /\ pushing.pc = "idle" /\ pushing'.pc = "copying" /\ pcHead' = pcHead
        /\ bound' = [k \in 0 .. pcHead + 1 |-> IF k = pcHead + 1 THEN ppHead + size ELSE bound[k]]
    <3>1. pushing' # [pushing EXCEPT !.pc = "fatal"]
      BY <1>0 DEF PushCalls
    <3> QED BY <1>1, <3>1 DEF PushStart
  <2>2. /\ Last(pcHead', pushing'.pc) = pcHead + 1 /\ Last(pcHead, pushing.pc) = pcHead
        /\ ppHead = bound[pcHead]
    BY <2>1 DEF Last, InFlight, IInv, HeadsInStep
  <2>3. size \in Nat /\ size # 0
    BY SizesAreNat, Zenon
  <2>4. \A k \in 0 .. pcHead : bound'[k] = bound[k]
    BY <1>0, <2>1
  <2>5. bound'[pcHead + 1] = ppHead + size
    BY <1>0, <2>1
  <2> SUFFICES ASSUME NEW k \in 0 .. (pcHead + 1) - 1 PROVE bound'[k] < bound'[k + 1]
    BY <2>2 DEF NoTokenEmpty
  <2>6. CASE k = pcHead
    <3>1. ppHead < ppHead + size /\ pcHead \in 0 .. pcHead
      BY <1>0, <2>3
    <3> QED BY <2>2, <2>4, <2>5, <2>6, <3>1
  <2>7. CASE k # pcHead
    <3>1. k \in 0 .. pcHead - 1 /\ k \in 0 .. pcHead /\ k + 1 \in 0 .. pcHead
      BY <1>0, <2>7
    <3>2. bound[k] < bound[k + 1]
      BY <2>2, <3>1 DEF NoTokenEmpty
    <3> QED BY <2>4, <3>1, <3>2
  <2> QED BY <2>6, <2>7
<1>2. ASSUME UNCHANGED bound, Last(pcHead', pushing'.pc) = Last(pcHead, pushing.pc)
      PROVE  NoTokenEmpty'
  BY <1>2 DEF NoTokenEmpty
<1>3. CASE PushCompletes
  <2>1. CASE PayloadLands \/ AdvancePayload \/ NotifyPayload \/ SizeLands
    <3>1. InFlight(pushing.pc) /\ InFlight(pushing'.pc) /\ UNCHANGED <<pcHead, bound>>
      BY <1>0, <2>1 DEF PayloadLands, AdvancePayload, NotifyPayload, SizeLands, InFlight, PushCalls
    <3> QED BY <1>2, <3>1 DEF Last
  <2>2. CASE AdvanceCount
    <3>1. pushing.pc = "sized" /\ pushing'.pc = "notifyCount" /\ pcHead' = pcHead + 1 /\ UNCHANGED bound
      BY <1>0, <2>2 DEF AdvanceCount, PushCalls
    <3> QED BY <1>2, <3>1 DEF Last, InFlight
  <2>3. CASE NotifyCount
    BY <1>2, <2>3 DEF NotifyCount, IdlePush, Last, InFlight
  <2> QED BY <1>3, <2>1, <2>2, <2>3 DEF PushCompletes
<1>4. CASE UNCHANGED <<pcHead, pushing, bound>>
  BY <1>2, <1>4
<1> QED
  BY <1>1, <1>3, <1>4 DEF Next, vars, PopCompletes, PopStart, SumSize, PopAdvance, CountTailLands, PayloadTailLands

\* The first byte of a token that the consumer can see is the token's.
LEMMA FirstBytes == IInv /\ PayloadsWritten /\ NoTokenEmpty => TokensLegible
<1> SUFFICES ASSUME IInv, PayloadsWritten, NoTokenEmpty, NEW k \in ccTail .. ccHead - 1
             PROVE  Legible(payload, bound, k)
  BY DEF TokensLegible, AllLegible
<1>0. /\ ccTail \in Nat /\ pcHead \in Nat /\ ccHead \in Nat /\ ccHead <= pcHead
  BY Types, BoundFacts
<1>1. /\ k \in 0 .. pcHead /\ k + 1 \in 0 .. pcHead /\ k \in ccTail .. Top(pushing.pc, pcHead)
      /\ k \in 0 .. Last(pcHead, pushing.pc) - 1
  BY <1>0 DEF Top, Last
<1>2. bound[k] \in Nat /\ bound[k + 1] \in Nat /\ bound[k] < bound[k + 1] /\ Whole(payload, bound, k)
  BY <1>1, BoundFacts DEF NoTokenEmpty, PayloadsWritten
<1>3. Position(bound[k], PayloadCapacity) \in Bytes(bound[k], bound[k + 1])
  <2>1. Position(bound[k], PayloadCapacity) \in Nat
    BY <1>2, PositionInRange
  <2> QED BY <1>2, <2>1 DEF Bytes
<1> QED BY <1>2, <1>3, Zenon DEF Whole, Legible

\* So the queue of the refinement mapping holds the numbers of those tokens.
LEMMA MappedQueue ==
  ASSUME NEW p, NEW b, NEW t \in Nat, NEW h \in Nat, AllLegible(p, b, t, h)
  PROVE  FirstBytesOf(p, b, t, h) = Numbers(t, h)
<1>1. \A i \in 1 .. h - t : t + i - 1 \in t .. h - 1
  OBVIOUS
<1> QED BY <1>1 DEF FirstBytesOf, AllLegible, Legible, Numbers, getDepth

\* The queue has as many numbers as the counters say.
LEMMA NumbersType ==
  ASSUME NEW t \in Nat, NEW h \in Nat, t <= h
  PROVE  Numbers(t, h) \in Queues(h - t, Nat)
  BY DEF Numbers, Queues

\* A higher head appends the numbers in between.
LEMMA NumbersGrow ==
  ASSUME NEW t \in Nat, NEW h \in Nat, t <= h, NEW n \in Nat
  PROVE  Appended(Numbers(t, h), h - t, Numbers(h, h + n), Numbers(t, h + n))
<1>1. /\ h - t \in Nat /\ h + n \in Nat /\ h <= h + n /\ (h + n) - h = n /\ t <= h + n
      /\ (h + n) - t = (h - t) + n
  OBVIOUS
<1>2. /\ Numbers(t, h) \in Queues(h - t, Nat) /\ Numbers(h, h + n) \in Queues(n, Nat)
      /\ Numbers(t, h + n) \in Queues((h - t) + n, Nat)
  <2>1. /\ Numbers(t, h) \in Queues(h - t, Nat) /\ Numbers(h, h + n) \in Queues((h + n) - h, Nat)
        /\ Numbers(t, h + n) \in Queues((h + n) - t, Nat)
    BY <1>1, NumbersType, Zenon
  <2> QED BY <1>1, <2>1
<1>3. \A i \in 1 .. h - t : Numbers(t, h + n)[i] = Numbers(t, h)[i]
  BY DEF Numbers
<1>4. \A i \in 1 .. n : Numbers(t, h + n)[(h - t) + i] = Numbers(h, h + n)[i]
  BY DEF Numbers
<1> QED BY <1>1, <1>2, <1>3, <1>4, QueueGrows, Zenon

\* A higher tail removes the oldest numbers.
LEMMA NumbersShrink ==
  ASSUME NEW t \in Nat, NEW h \in Nat, t <= h, NEW n \in 0 .. h - t
  PROVE  Removed(Numbers(t, h), h - t, n, Numbers(t + n, h))
<1>1. h - t \in Nat /\ t + n \in Nat /\ t + n <= h /\ h - (t + n) = (h - t) - n
  OBVIOUS
<1>2. Numbers(t, h) \in Queues(h - t, Nat) /\ Numbers(t + n, h) \in Queues((h - t) - n, Nat)
  <2>1. Numbers(t, h) \in Queues(h - t, Nat) /\ Numbers(t + n, h) \in Queues(h - (t + n), Nat)
    BY <1>1, NumbersType, Zenon
  <2> QED BY <1>1, <2>1
<1>3. \A i \in 1 .. (h - t) - n : Numbers(t + n, h)[i] = Numbers(t, h)[n + i]
  BY DEF Numbers
<1> QED BY <1>1, <1>2, <1>3, QueueShrinks, Zenon

\* The initial queue is empty.
LEMMA InitRefines == Init => Fifo!FifoInit
<1> SUFFICES ASSUME Init PROVE Fifo!FifoInit
  OBVIOUS
<1>1. 1 .. getDepth(ccHead, ccTail) = {}
  BY DEF Init, getDepth
<1>2. [i \in 1 .. getDepth(ccHead, ccTail) |-> payload[Position(bound[ccTail + i - 1], PayloadCapacity)]] = <<>>
  BY <1>1
<1> QED BY <1>2 DEF Fifo!FifoInit, Init

\* Every step of the channel is a step of the queue or is not seen.
LEMMA StepRefines ==
  ASSUME IInv, IInv', TokensLegible, TokensLegible', [Next]_vars
  PROVE  Fifo!FifoNext \/ UNCHANGED Fifo!fifoVars
<1> USE DEF producerCounters, consumerCounters
<1> DEFINE queue == [i \in 1 .. getDepth(ccHead, ccTail) |->
                       payload[Position(bound[ccTail + i - 1], PayloadCapacity)]]
           batch(n) == [i \in 1 .. n |-> ccHead + i - 1]
<1>1. /\ ccHead \in Nat /\ ccTail \in Nat /\ ccTail <= ccHead /\ pcHead \in Nat /\ pcTail \in Nat
      /\ pcTail <= ccTail /\ pcHead - pcTail <= Capacity /\ popping \in PopCalls /\ popping.n \in 0 .. MaxPop
  BY Types DEF IInv, StaleOnTheSafeSide, PopCalls
<1>2. queue = Numbers(ccTail, ccHead) /\ queue' = Numbers(ccTail', ccHead')
  <2>1. ccHead' \in Nat /\ ccTail' \in Nat
    BY DEF IInv, TypeOK
  <2>2. FirstBytesOf(payload, bound, ccTail, ccHead) = Numbers(ccTail, ccHead)
    BY <1>1, MappedQueue DEF TokensLegible
  <2>3. FirstBytesOf(payload', bound', ccTail', ccHead') = Numbers(ccTail', ccHead')
    BY <2>1, MappedQueue DEF TokensLegible
  <2> QED BY <2>2, <2>3, Zenon DEF FirstBytesOf
<1> HIDE DEF queue
<1>3. CASE UNCHANGED <<ccHead, ccTail>>
  <2>1. queue' = queue
    BY <1>2, <1>3
  <2> QED BY <1>3, <2>1 DEF Fifo!fifoVars, queue
<1>4. CASE NotifyCount
  <2>1. ccHead' = ccHead + 1 /\ pcHead = ccHead + 1 /\ ccTail' = ccTail
    BY <1>1, <1>4 DEF NotifyCount, IInv, HeadsInStep
  <2>2. Appended(Numbers(ccTail, ccHead), ccHead - ccTail, Numbers(ccHead, ccHead + 1), Numbers(ccTail, ccHead + 1))
    BY <1>1, NumbersGrow
  <2>3. Numbers(ccHead, ccHead + 1) = batch(1)
    <3>1. (ccHead + 1) - ccHead = 1
      BY <1>1
    <3> QED BY <3>1 DEF Numbers
  <2> HIDE DEF batch
  <2>4. Appended(queue, ccHead - ccTail, batch(1), queue')
    BY <1>2, <2>1, <2>2, <2>3
  <2>5. Len(queue) = ccHead - ccTail /\ queue' = queue \o batch(1)
    BY <2>4 DEF Appended
  <2>6. Len(queue) + 1 <= Capacity
    BY <1>1, <2>1, <2>5
  <2>7. Fifo!Arrive(1)
    BY <2>1, <2>5, <2>6, Zenon DEF Fifo!Arrive, queue, batch
  <2>8. 1 \in 1 .. MaxPop
    OBVIOUS
  <2> QED BY <2>7, <2>8 DEF Fifo!FifoNext
<1>5. CASE PopAdvance
  <2> DEFINE n == popping.n
  <2>1. n <= ccHead - ccTail /\ ccHead' = ccHead
    BY <1>1, <1>5, Types DEF PopAdvance, IInv, PopFits
  <2>2. ccTail' = ccTail + n
    <3>1. ~AdvanceTailFatal(ccHead, ccTail, n)
      BY <1>1, <2>1 DEF AdvanceTailFatal, OutOfOrder, getDepth
    <3> QED BY <1>5, <3>1 DEF PopAdvance
  <2> HIDE DEF n
  <2>3. n \in 0 .. MaxPop /\ n \in 0 .. ccHead - ccTail
    BY <1>1, <2>1 DEF n
  <2>4. Removed(Numbers(ccTail, ccHead), ccHead - ccTail, n, Numbers(ccTail + n, ccHead))
    BY <1>1, <2>3, NumbersShrink
  <2>5. n <= Len(queue) /\ queue' = SubSeq(queue, n + 1, Len(queue))
    BY <1>2, <2>1, <2>2, <2>4 DEF Removed
  <2>6. Fifo!Leave(n)
    BY <2>1, <2>5, Zenon DEF Fifo!Leave, queue
  <2>7. CASE n = 0
    BY <1>1, <1>3, <2>1, <2>2, <2>7
  <2>8. CASE n # 0
    <3>1. n \in 1 .. MaxPop
      BY <2>3, <2>8
    <3> QED BY <2>6, <3>1 DEF Fifo!FifoNext
  <2> QED BY <2>7, <2>8
<1> QED
  BY <1>3, <1>4, <1>5
     DEF Next, vars, PushStart, PushCompletes, PayloadLands, AdvancePayload, NotifyPayload, SizeLands, AdvanceCount,
         PopStart, PopCompletes, SumSize, CountTailLands, PayloadTailLands

\* When no token is empty, the payloads the consumer can see behave as a bounded
\* first-in first-out queue, for every capacity in tokens and in bytes, every
\* mix of sizes and every pop size.
THEOREM TokensRefineFifo == 0 \notin Sizes => (Spec => RefinesBoundedFifo)
<1> SUFFICES ASSUME 0 \notin Sizes PROVE Spec => RefinesBoundedFifo
  OBVIOUS
<1>1. IInv /\ IInv' /\ NoTokenEmpty /\ [Next]_vars => NoTokenEmpty'
  BY NextNoTokenEmpty
<1>2. Spec => []TokensLegible
  BY <1>1, InitNoTokenEmpty, SpecIInv, SpecWritten, FirstBytes, PTL DEF Spec
<1>3. IInv /\ IInv' /\ TokensLegible /\ TokensLegible' /\ [Next]_vars => [Fifo!FifoNext]_(Fifo!fifoVars)
  BY StepRefines
<1> QED
  BY <1>2, <1>3, InitRefines, SpecIInv, PTL DEF Spec, RefinesBoundedFifo, Fifo!FifoSpec
=============================================================================
