--------------------------- MODULE FixedSpscProofs ---------------------------
(***************************************************************************)
(* Proofs about the fixed-size SPSC channel, for every capacity and batch   *)
(* size, and about the consumer of the nonlocking MPSC channel, which is    *)
(* made of SPSC channels, for every number of producers, capacity and width *)
(* of a machine word.                                                       *)
(***************************************************************************)
EXTENDS FixedSpsc, MpscNonlocking, CircularBufferProofs

(***************************************************************************)
(* The inductive invariant.  The counters are ordered, and what each side   *)
(* established before its copies still holds until it advances: the         *)
(* producer's n tokens fit, the consumer's n tokens are there.  A side that *)
(* is not between its advance and its notification has told the other all.  *)
(***************************************************************************)
PushFits ==
  /\ pushing.pc = "copying" => pHead - pTail + pushing.n <= Capacity
  /\ pushing.pc \in {"idle", "copying"} => cHead = pHead
  /\ pushing.pc = "notifying" => pHead = cHead + pushing.n
  /\ pushing.copies \subseteq 0 .. pushing.n - 1
  /\ pushing.pc # "copying" => pushing.copies = {}

PopFits ==
  /\ popping.pc = "popping" => cTail + popping.n <= cHead
  /\ popping.pc \in {"idle", "popping"} => pTail = cTail

IInv == TypeOK /\ StaleOnTheSafeSide /\ NoFatal /\ PushFits /\ PopFits

USE FixedSpscAssumption
\* A leaf that names no prover goes to the SMT solver, for a minute at most.
USE SMTT(60)

\* The initial state satisfies the invariant.
LEMMA InitIInv == Init => IInv
<1> SUFFICES ASSUME Init PROVE IInv
  OBVIOUS
<1>1. TypeOK
  BY DEF Init, TypeOK, IdlePush, IdlePop, NoToken
<1> QED
  BY <1>1 DEF Init, IInv, StaleOnTheSafeSide, NoFatal, PushFits, PopFits, IdlePush, IdlePop

\* Every step of push and pop preserves it.
LEMMA NextIInv == IInv /\ [Next]_vars => IInv'
<1> SUFFICES ASSUME IInv, [Next]_vars PROVE IInv'
  OBVIOUS
<1> USE DEF IInv, TypeOK, StaleOnTheSafeSide, NoFatal, PushFits, PopFits, getDepth, OutOfOrder
<1>1. ASSUME NEW n \in 0 .. MaxPush, PushStart(n) PROVE IInv'
  <2>1. pushing' = [pc |-> "copying", n |-> n, copies |-> 0 .. n - 1]
    BY <1>1 DEF PushStart
  <2>2. pHead - pTail + n <= Capacity /\ cHead = pHead
    BY <1>1 DEF PushStart
  <2>3. 0 .. n - 1 \in SUBSET (0 .. MaxPush - 1)
    OBVIOUS
  <2>4. UNCHANGED <<pHead, pTail, cHead, cTail, buffer, popping>>
    BY <1>1 DEF PushStart
  <2>5. /\ pushing' \in [pc : {"idle", "copying", "notifying", "fatal"},
                         n : 0 .. MaxPush, copies : SUBSET (0 .. MaxPush - 1)]
        /\ pushing'.pc = "copying" /\ pushing'.n = n /\ pushing'.copies = 0 .. n - 1
    BY <2>1, <2>3
  <2> QED BY <2>2, <2>4, <2>5
<1>2. ASSUME NEW i \in 0 .. MaxPush - 1, PushCopyLands(i) PROVE IInv'
  <2>1. buffer' \in [0 .. Capacity - 1 -> Nat \cup {NoToken}]
    <3>1. pHead + i \in Nat \cup {NoToken}
      OBVIOUS
    <3> QED BY <1>2, <3>1, Zenon DEF PushCopyLands
  <2>2. /\ pushing' \in [pc : {"idle", "copying", "notifying", "fatal"},
                         n : 0 .. MaxPush, copies : SUBSET (0 .. MaxPush - 1)]
        /\ pushing'.pc = "copying" /\ pushing'.n = pushing.n
        /\ pushing'.copies \subseteq pushing.copies
    BY <1>2, Zenon DEF PushCopyLands
  <2> QED BY <1>2, <2>1, <2>2, Zenon DEF PushCopyLands
<1>3. CASE PushAdvance
  <2>1. ~AdvanceHeadFatal(pHead, pTail, pushing.n, Capacity)
    BY <1>3 DEF PushAdvance, AdvanceHeadFatal
  <2>2. pushing' = [pushing EXCEPT !.pc = "notifying"] /\ pHead' = pHead + pushing.n
    BY <1>3, <2>1 DEF PushAdvance
  <2>3. /\ pushing' \in [pc : {"idle", "copying", "notifying", "fatal"},
                         n : 0 .. MaxPush, copies : SUBSET (0 .. MaxPush - 1)]
        /\ pushing'.pc = "notifying" /\ pushing'.n = pushing.n /\ pushing'.copies = {}
    BY <1>3, <2>2, Zenon DEF PushAdvance
  <2>4. /\ pushing.pc = "copying"
        /\ UNCHANGED <<pTail, cHead, cTail, buffer, popping>>
    BY <1>3 DEF PushAdvance
  <2>5. pHead' \in Nat /\ cHead <= pHead' /\ pHead' - pTail <= Capacity /\ pHead' = cHead + pushing.n
    BY <2>2, <2>4
  <2> QED BY <2>3, <2>4, <2>5
<1>4. CASE PushNotify
  <2>1. /\ cHead' = pHead
        /\ UNCHANGED <<pHead, pTail, cTail, buffer, popping>>
    BY <1>4 DEF PushNotify
  <2>2. /\ pushing' \in [pc : {"idle", "copying", "notifying", "fatal"},
                         n : 0 .. MaxPush, copies : SUBSET (0 .. MaxPush - 1)]
        /\ pushing'.pc = "idle" /\ pushing'.copies = {}
    BY <1>4 DEF PushNotify, IdlePush
  <2> QED BY <2>1, <2>2
<1>5. ASSUME NEW n \in 0 .. MaxPop, PopStart(n) PROVE IInv'
  <2>1. popping' = [pc |-> "popping", n |-> n] /\ n <= cHead - cTail
    BY <1>5 DEF PopStart
  <2>2. /\ popping.pc = "idle"
        /\ UNCHANGED <<pHead, pTail, cHead, cTail, buffer, pushing>>
    BY <1>5 DEF PopStart
  <2>3. /\ popping' \in [pc : {"idle", "popping", "notifying", "fatal"}, n : 0 .. MaxPop]
        /\ popping'.pc = "popping" /\ popping'.n = n
    BY <2>1
  <2> QED BY <2>1, <2>2, <2>3
<1>6. CASE PopAdvance
  <2>1. ~AdvanceTailFatal(cHead, cTail, popping.n)
    BY <1>6 DEF PopAdvance, AdvanceTailFatal
  <2>2. popping' = [popping EXCEPT !.pc = "notifying"] /\ cTail' = cTail + popping.n
    BY <1>6, <2>1 DEF PopAdvance
  <2>3. /\ popping' \in [pc : {"idle", "popping", "notifying", "fatal"}, n : 0 .. MaxPop]
        /\ popping'.pc = "notifying"
    BY <1>6, <2>2 DEF PopAdvance
  <2>4. /\ popping.pc = "popping"
        /\ UNCHANGED <<pHead, pTail, cHead, buffer, pushing>>
    BY <1>6 DEF PopAdvance
  <2>5. cTail' \in Nat /\ pTail <= cTail' /\ cTail' <= cHead
    BY <2>2, <2>4
  <2> QED BY <2>3, <2>4, <2>5
<1>7. CASE PopNotify
  <2>1. /\ pTail' = cTail
        /\ UNCHANGED <<pHead, cHead, cTail, buffer, pushing>>
    BY <1>7 DEF PopNotify
  <2>2. /\ popping' \in [pc : {"idle", "popping", "notifying", "fatal"}, n : 0 .. MaxPop]
        /\ popping'.pc = "idle"
    BY <1>7 DEF PopNotify, IdlePop
  <2> QED BY <2>1, <2>2
<1>8. CASE UNCHANGED vars
  BY <1>8 DEF vars
<1> QED
  BY <1>1, <1>2, <1>3, <1>4, <1>5, <1>6, <1>7, <1>8, Zenon DEF Next, Producer, Consumer

\* So the invariant always holds.
LEMMA SpecIInv == Spec => []IInv
  BY InitIInv, NextIInv, PTL DEF Spec

\* Every variable of the channel keeps its type, through every step of push
\* and pop.
THEOREM TypeCorrect == Spec => []TypeOK
  BY SpecIInv, PTL DEF IInv

\* Whatever the interleaving of push and pop, a stale counter only makes the
\* channel look fuller to the producer and emptier to the consumer.
THEOREM ViewsAreSafe == Spec => []StaleOnTheSafeSide
  BY SpecIInv, PTL DEF IInv

\* The fatal exceptions of the circular buffer are unreachable.
THEOREM NeverFatal == Spec => []NoFatal
  BY SpecIInv, PTL DEF IInv

-----------------------------------------------------------------------------
\* peek(pos) is the position of the counter cTail + pos.
LEMMA PeekPosition ==
  ASSUME TypeOK, NEW pos \in Nat
  PROVE  peek(pos) = Position(cTail + pos, Capacity)
  BY PositionOffset DEF peek, TypeOK

\* A copy of push lands in a slot whose token, if it had one, was popped.
LEMMA CopyMissesTokens ==
  ASSUME IInv, NEW i \in 0 .. MaxPush - 1, PushCopyLands(i),
         NEW k \in Nat, cTail <= k, k < pHead
  PROVE  Position(k, Capacity) # Position(pHead, Capacity)
<1>1. pHead - pTail + pushing.n <= Capacity /\ pTail <= cTail
  BY DEF IInv, PushFits, StaleOnTheSafeSide, PushCopyLands
<1>2. pushing.n >= 1 /\ pushing.n \in Nat
  BY DEF IInv, PushFits, PushCopyLands, TypeOK
<1>3. pHead - k < Capacity /\ pHead \in Nat
  BY <1>1, <1>2 DEF IInv, TypeOK
<1> QED BY <1>3, PositionsDistinct

\* For every capacity and batch size, no step of push or pop changes a token
\* at a position that peek may have returned.
THEOREM PeekedStable == Spec => PeekedTokensStable
<1> DEFINE Stable == \A pos \in 0 .. getDepth(cHead, cTail) - 1 :
                       buffer'[peek(pos)] = buffer[peek(pos)]
<1>1. IInv /\ [Next]_vars => [Stable]_vars
  <2> SUFFICES ASSUME IInv, Next, NEW pos \in 0 .. getDepth(cHead, cTail) - 1
               PROVE  buffer'[peek(pos)] = buffer[peek(pos)]
    OBVIOUS
  <2>1. ASSUME NEW i \in 0 .. MaxPush - 1, PushCopyLands(i)
        PROVE  buffer'[peek(pos)] = buffer[peek(pos)]
    <3>1. pos \in Nat /\ cTail + pos \in Nat /\ cTail <= cTail + pos /\ cTail + pos < pHead
      BY DEF IInv, TypeOK, StaleOnTheSafeSide, getDepth
    <3>2. peek(pos) = Position(cTail + pos, Capacity)
      BY <3>1, PeekPosition DEF IInv
    <3>3. peek(pos) # Position(pHead, Capacity)
      BY <2>1, <3>1, <3>2, CopyMissesTokens
    <3>4. peek(pos) \in 0 .. Capacity - 1
      BY <3>1, <3>2, PositionInRange
    <3> QED BY <2>1, <3>3, <3>4 DEF PushCopyLands, PushDestination, IInv, TypeOK
  <2>2. CASE UNCHANGED buffer
    BY <2>2
  <2> QED
    BY <2>1, <2>2 DEF Next, Producer, Consumer, PushStart, PushAdvance, PushNotify,
                      PopStart, PopAdvance, PopNotify
<1> QED BY <1>1, SpecIInv, PTL DEF Spec, PeekedTokensStable

-----------------------------------------------------------------------------
(***************************************************************************)
(* Contents.  When every push has at most one token, all tokens up to the   *)
(* head, and the one whose copy has landed, are in their slots.             *)
(***************************************************************************)
Written == IF pushing.pc = "copying" /\ pushing.copies = {} THEN pHead + pushing.n ELSE pHead

SlotsWritten == \A k \in Nat : cTail <= k /\ k < Written => buffer[Position(k, Capacity)] = k

\* Nothing is visible at the start.
LEMMA InitWritten == Init => SlotsWritten
  BY DEF Init, SlotsWritten, Written, IdlePush

\* With one token per push, every step keeps the slots right.
LEMMA NextWritten ==
  ASSUME MaxPush = 1, IInv, SlotsWritten, [Next]_vars
  PROVE  SlotsWritten'
<1> USE DEF IInv, TypeOK, StaleOnTheSafeSide, NoFatal, PushFits, PopFits, getDepth, OutOfOrder
<1>1. ASSUME NEW n \in 0 .. MaxPush, PushStart(n) PROVE SlotsWritten'
  <2>1. pushing' = [pc |-> "copying", n |-> n, copies |-> 0 .. n - 1] /\ pushing.pc = "idle"
    BY <1>1 DEF PushStart
  <2>2. n # 0 => 0 \in 0 .. n - 1
    OBVIOUS
  <2>3. Written' = pHead /\ Written = pHead
    BY <1>1, <2>1, <2>2 DEF Written, PushStart
  <2> QED BY <1>1, <2>3 DEF SlotsWritten, PushStart
<1>2. ASSUME NEW i \in 0 .. MaxPush - 1, PushCopyLands(i) PROVE SlotsWritten'
  <2>1. i = 0 /\ pushing.n = 1 /\ pushing.copies = {0} /\ pushing.pc = "copying"
    BY <1>2 DEF PushCopyLands
  <2>2. Written = pHead /\ Written' = pHead + 1
    BY <1>2, <2>1 DEF Written, PushCopyLands
  <2>3. SUFFICES ASSUME NEW k \in Nat, cTail <= k, k < pHead + 1
                 PROVE  buffer'[Position(k, Capacity)] = k
    BY <1>2, <2>2 DEF SlotsWritten, PushCopyLands
  <2>4. Position(k, Capacity) \in 0 .. Capacity - 1
    BY PositionInRange, Zenon
  <2>5. CASE k = pHead
    BY <1>2, <2>1, <2>4, <2>5 DEF PushCopyLands, PushDestination
  <2>6. CASE k < pHead
    <3>1. Position(k, Capacity) # Position(pHead, Capacity)
      BY <1>2, <2>3, <2>6, CopyMissesTokens
    <3>2. buffer[Position(k, Capacity)] = k
      BY <2>2, <2>3, <2>6 DEF SlotsWritten
    <3> QED BY <1>2, <2>4, <3>1, <3>2 DEF PushCopyLands, PushDestination
  <2> QED BY <2>3, <2>5, <2>6
<1>3. CASE PushAdvance
  <2>1. ~AdvanceHeadFatal(pHead, pTail, pushing.n, Capacity)
    BY <1>3 DEF PushAdvance, AdvanceHeadFatal
  <2>2. Written' = Written
    BY <1>3, <2>1 DEF PushAdvance, Written
  <2> QED BY <1>3, <2>2 DEF PushAdvance, SlotsWritten
<1>4. CASE PushNotify
  BY <1>4 DEF PushNotify, IdlePush, SlotsWritten, Written
<1>5. ASSUME NEW n \in 0 .. MaxPop, PopStart(n) PROVE SlotsWritten'
  BY <1>5 DEF PopStart, SlotsWritten, Written
<1>6. CASE PopAdvance
  <2>1. cTail' \in Nat /\ cTail <= cTail' /\ Written' = Written
    BY <1>6 DEF PopAdvance, Written, AdvanceTailFatal
  <2> QED BY <1>6, <2>1 DEF PopAdvance, SlotsWritten
<1>7. CASE PopNotify
  BY <1>7 DEF PopNotify, SlotsWritten, Written
<1>8. CASE UNCHANGED vars
  BY <1>8 DEF vars, SlotsWritten, Written
<1> QED
  BY <1>1, <1>2, <1>3, <1>4, <1>5, <1>6, <1>7, <1>8 DEF Next, Producer, Consumer

\* So the consumer finds each token in its place.
LEMMA WrittenInOrder == IInv /\ SlotsWritten => TokensInOrder
<1> SUFFICES ASSUME IInv, SlotsWritten, NEW pos \in 0 .. getDepth(cHead, cTail) - 1
             PROVE  buffer[peek(pos)] = cTail + pos
  BY DEF TokensInOrder
<1>1. pos \in Nat /\ cTail + pos \in Nat /\ cTail + pos < pHead /\ pHead <= Written
  BY DEF IInv, TypeOK, StaleOnTheSafeSide, getDepth, Written
<1>2. peek(pos) = Position(cTail + pos, Capacity)
  BY <1>1, PeekPosition DEF IInv
<1> QED BY <1>1, <1>2 DEF SlotsWritten, IInv, TypeOK, Written

\* When callers push one token at a time, peek finds every token in the order
\* of the pushes, with its own contents, for every capacity.
THEOREM SingleTokensInOrder == MaxPush = 1 => (Spec => []TokensInOrder)
<1> SUFFICES ASSUME MaxPush = 1 PROVE Spec => []TokensInOrder
  OBVIOUS
<1>1. IInv /\ SlotsWritten /\ [Next]_vars => SlotsWritten'
  BY NextWritten
<1> QED
  BY <1>1, InitWritten, SpecIInv, WrittenInOrder, PTL DEF Spec

-----------------------------------------------------------------------------
(***************************************************************************)
(* The channel implements the bounded queue when every push has at most one *)
(* token: the token arrives when its head counter lands.                    *)
(***************************************************************************)

\* The queue of the refinement mapping is what the buffer holds between the
\* consumer's counters.
LEMMA MappedQueue ==
  ASSUME NEW buf, NEW t \in Nat, NEW h \in Nat
  PROVE  [i \in 1 .. getDepth(h, t) |-> buf[(Position(t, Capacity) + (i - 1)) % Capacity]]
           = Visible(buf, t, h, Capacity)
<1>1. \A i \in 1 .. h - t : i - 1 \in Nat /\ t + (i - 1) = t + i - 1
  OBVIOUS
<1>2. \A i \in 1 .. h - t : (Position(t, Capacity) + (i - 1)) % Capacity = Position(t + i - 1, Capacity)
  BY <1>1, PositionOffset
<1> QED BY <1>2 DEF Visible, getDepth

\* The initial queue is empty.
LEMMA InitRefines == Init => Fifo!FifoInit
<1> SUFFICES ASSUME Init PROVE Fifo!FifoInit
  OBVIOUS
<1>1. 1 .. getDepth(cHead, cTail) = {}
  BY DEF Init, getDepth
<1>2. [i \in 1 .. getDepth(cHead, cTail) |-> buffer[peek(i - 1)]] = <<>>
  BY <1>1
<1> QED BY <1>2 DEF Fifo!FifoInit, Init

\* Every step of the channel is a step of the queue or is not seen.
LEMMA StepRefines ==
  ASSUME MaxPush = 1, IInv, IInv', SlotsWritten, [Next]_vars
  PROVE  Fifo!FifoNext \/ UNCHANGED Fifo!fifoVars
<1> DEFINE T == Nat \cup {NoToken}
           queue == [i \in 1 .. getDepth(cHead, cTail) |-> buffer[peek(i - 1)]]
           batch(n) == [i \in 1 .. n |-> cHead + i - 1]
           MaxBatch == IF MaxPush > MaxPop THEN MaxPush ELSE MaxPop
<1>1. /\ cHead \in Nat /\ cTail \in Nat /\ cTail <= cHead /\ pHead \in Nat /\ cHead <= pHead
      /\ pushing.n \in 0 .. MaxPush /\ popping.n \in 0 .. MaxPop
      /\ buffer \in Slots(Capacity, T)
  BY DEF IInv, TypeOK, StaleOnTheSafeSide, Slots
<1>2. queue = Visible(buffer, cTail, cHead, Capacity) /\ queue' = Visible(buffer', cTail', cHead', Capacity)
  <2>1. cHead' \in Nat /\ cTail' \in Nat
    BY DEF IInv, TypeOK
  <2> QED BY <1>1, <2>1, MappedQueue, Zenon DEF peek
<1> HIDE DEF queue
<1>3. ASSUME UNCHANGED <<cHead, cTail>>,
             \A k \in cTail .. cHead - 1 : buffer'[Position(k, Capacity)] = buffer[Position(k, Capacity)]
      PROVE  UNCHANGED Fifo!fifoVars
  <2>1. queue' = queue
    BY <1>1, <1>2, <1>3, VisibleSame
  <2> QED BY <1>3, <2>1 DEF Fifo!fifoVars, queue
<1>4. ASSUME NEW i \in 0 .. MaxPush - 1, PushCopyLands(i) PROVE UNCHANGED Fifo!fifoVars
  <2> SUFFICES ASSUME NEW k \in cTail .. cHead - 1
               PROVE  buffer'[Position(k, Capacity)] = buffer[Position(k, Capacity)]
    BY <1>3, <1>4 DEF PushCopyLands
  <2>1. k \in Nat /\ cTail <= k /\ k < pHead
    BY <1>1
  <2>2. Position(k, Capacity) # Position(pHead, Capacity) /\ Position(k, Capacity) \in 0 .. Capacity - 1
    BY <1>4, <2>1, CopyMissesTokens, PositionInRange
  <2> QED BY <1>1, <1>4, <2>2 DEF PushCopyLands, PushDestination, Slots
<1>5. CASE PushNotify
  <2> DEFINE n == pushing.n
  <2>1. /\ cHead' = cHead + n /\ pHead = cHead + n /\ UNCHANGED <<cTail, buffer>>
        /\ pHead - cTail <= Capacity /\ Written = pHead
    BY <1>1, <1>5 DEF PushNotify, IInv, PushFits, StaleOnTheSafeSide, Written, TypeOK
  <2> HIDE DEF n
  <2>2. n \in 0 .. MaxPush
    BY <1>1 DEF n
  <2>3. \A i \in 1 .. n : /\ cHead + i - 1 \in Nat /\ cTail <= cHead + i - 1 /\ cHead + i - 1 < Written
    BY <1>1, <2>1, <2>2
  <2>4. \A i \in 1 .. n : buffer[Position(cHead + i - 1, Capacity)] = batch(n)[i]
    BY <2>3 DEF SlotsWritten
  <2>5. n \in Nat /\ batch(n) \in Queues(n, T)
    BY <2>2, <2>3 DEF Queues
  <2> HIDE DEF batch, T
  <2>6. Appended(Visible(buffer, cTail, cHead, Capacity), cHead - cTail, batch(n),
                 Visible(buffer, cTail, cHead + n, Capacity))
    BY <1>1, <2>4, <2>5, VisibleGrows
  <2>7. Len(queue) + n <= Capacity /\ queue' = queue \o batch(n)
    <3>1. Appended(queue, cHead - cTail, batch(n), queue')
      BY <1>2, <2>1, <2>6
    <3>2. Len(queue) = cHead - cTail /\ queue' = queue \o batch(n)
      BY <3>1 DEF Appended
    <3> QED BY <1>1, <2>1, <2>5, <3>2
  <2>8. Fifo!Arrive(n)
    BY <2>1, <2>7, Zenon DEF Fifo!Arrive, queue, batch
  <2>9. CASE n = 0
    BY <1>1, <1>3, <2>1, <2>9
  <2>10. CASE n # 0
    <3>1. n \in 1 .. MaxBatch
      BY <2>2, <2>10
    <3> QED BY <2>8, <3>1 DEF Fifo!FifoNext
  <2> QED BY <2>9, <2>10
<1>6. CASE PopAdvance
  <2> DEFINE n == popping.n
  <2>1. n <= cHead - cTail /\ cTail' = cTail + n /\ UNCHANGED <<cHead, buffer>>
    BY <1>1, <1>6 DEF PopAdvance, IInv, PopFits, StaleOnTheSafeSide, AdvanceTailFatal, OutOfOrder, getDepth
  <2> HIDE DEF n
  <2>2. n \in 0 .. MaxPop /\ n \in 0 .. cHead - cTail
    BY <1>1, <2>1 DEF n
  <2> HIDE DEF T
  <2>3. Removed(Visible(buffer, cTail, cHead, Capacity), cHead - cTail, n,
                Visible(buffer, cTail + n, cHead, Capacity))
    BY <1>1, <2>2, VisibleShrinks
  <2>4. n <= Len(queue) /\ queue' = SubSeq(queue, n + 1, Len(queue))
    BY <1>2, <2>1, <2>3 DEF Removed
  <2>5. Fifo!Leave(n)
    BY <2>1, <2>4, Zenon DEF Fifo!Leave, queue
  <2>6. CASE n = 0
    BY <1>1, <1>3, <2>1, <2>6
  <2>7. CASE n # 0
    <3>1. n \in 1 .. MaxBatch
      BY <2>2, <2>7
    <3> QED BY <2>5, <3>1 DEF Fifo!FifoNext
  <2> QED BY <2>6, <2>7
<1>7. CASE UNCHANGED <<cHead, cTail, buffer>>
  BY <1>3, <1>7
<1> QED
  BY <1>4, <1>5, <1>6, <1>7 DEF Next, Producer, Consumer, vars, PushStart, PushAdvance, PopStart, PopNotify

\* When callers push one token at a time, the tokens the consumer can see behave
\* as a bounded first-in first-out queue, for every capacity and pop size.
THEOREM SingleTokensRefineFifo == MaxPush = 1 => (Spec => RefinesBoundedFifo)
<1> SUFFICES ASSUME MaxPush = 1 PROVE Spec => RefinesBoundedFifo
  OBVIOUS
<1>1. IInv /\ SlotsWritten /\ [Next]_vars => SlotsWritten'
  BY NextWritten
<1>2. IInv /\ IInv' /\ SlotsWritten /\ [Next]_vars => [Fifo!FifoNext]_(Fifo!fifoVars)
  BY StepRefines
<1> QED
  BY <1>1, <1>2, InitWritten, InitRefines, SpecIInv, PTL DEF Spec, RefinesBoundedFifo, Fifo!FifoSpec

-----------------------------------------------------------------------------
(* The consumer of the nonlocking MPSC channel                                *)

HIDE FixedSpscAssumption
USE MpscNonlockingAssumption

Calls ==
  [pc : {"idle", "constructing", "reading", "recording", "peek", "pop", "popping", "outOfSync"},
   op : {"none", "updateDepth", "peek", "pop"}, n : Pops \cup {0}, i : Nat,
   new : [Channels -> Nat], first : Channels]

\* The types, and where the index of a loop is.
Typed ==
  /\ spsc \in [Channels -> Nat] /\ depths \in [Channels -> Nat]
  /\ channelPushes \in Seq(Channels) /\ call \in Calls
  /\ call.pc = "constructing" => call.i \in 0 .. N - 1
  /\ call.pc \in {"reading", "recording"} => call.i \in 0 .. N /\ call.op # "none"
  /\ call.op = "pop" => call.n \in Pops

\* What peek returned is still the oldest entry, and pop takes the oldest entry.
PeekedIsOldest ==
  /\ peeked # -1 => channelPushes # <<>> /\ Head(channelPushes) = peeked
  /\ call.pc = "constructing" => peeked = -1
  /\ call.pc = "pop" => mpscGetDepth(depths) = Len(channelPushes) /\ call.op = "pop" /\ call.i = 0
  /\ call.pc = "popping" =>
       /\ call.i < call.n /\ call.n - call.i <= Len(channelPushes)
       /\ IF call.i = 0 THEN call.first = Head(channelPushes) ELSE peeked = -1

\* Entries appended behind the oldest one leave it the oldest.
LEMMA HeadStays ==
  ASSUME NEW T, NEW s \in Seq(T), NEW k \in Nat, NEW a \in T
  PROVE  LET r == s \o [j \in 1 .. k |-> a]
         IN  r \in Seq(T) /\ (s # <<>> => r # <<>> /\ Head(r) = Head(s))
<1> DEFINE t == [j \in 1 .. k |-> a]
           r == s \o t
<1>1. t \in Seq(T)
  OBVIOUS
<1> HIDE DEF t
<1>2. /\ r \in Seq(T) /\ Len(r) = Len(s) + Len(t)
      /\ \A i \in 1 .. Len(s) + Len(t) : r[i] = IF i <= Len(s) THEN s[i] ELSE t[i - Len(s)]
  BY <1>1
<1> HIDE DEF r
<1>3. ASSUME s # <<>> PROVE r # <<>> /\ Head(r) = Head(s)
  <2>1. Len(s) \in Nat \ {0} /\ Len(t) \in Nat
    BY <1>1, <1>3
  <2>2. 1 \in 1 .. Len(s) + Len(t) /\ 1 <= Len(s)
    BY <2>1
  <2>3. r[1] = s[1] /\ r # <<>>
    BY <1>2, <2>1, <2>2
  <2> QED BY <1>2, <1>3, <2>3
<1> QED BY <1>2, <1>3 DEF r, t

\* Between two calls and in the constructor there is nothing in the call.
LEMMA IdleType ==
  /\ Idle \in Calls /\ Idle.pc = "idle" /\ Idle.op = "none" /\ Idle.i = 0 /\ Idle.n = 0
  /\ Constructing \in Calls /\ Constructing.pc = "constructing" /\ Constructing.op = "none" /\ Constructing.i = 0
<1>1. NoDepths \in [Channels -> Nat] /\ 0 \in Channels
  BY DEF NoDepths, Channels
<1> QED BY <1>1 DEF Idle, Constructing, Calls

\* The index of a loop moves.
LEMMA IndexMoves ==
  ASSUME NEW c \in Calls, NEW k \in Nat
  PROVE  LET r == [c EXCEPT !.i = k]
         IN  /\ r \in Calls /\ r.pc = c.pc /\ r.op = c.op /\ r.n = c.n /\ r.first = c.first /\ r.new = c.new
             /\ r.i = k
  BY DEF Calls

\* The depths have been read.
LEMMA LoopOver ==
  ASSUME NEW c \in Calls
  PROVE  LET r == [c EXCEPT !.pc = "recording", !.i = 0]
         IN  r \in Calls /\ r.pc = "recording" /\ r.op = c.op /\ r.n = c.n /\ r.i = 0 /\ r.new = c.new
  BY Zenon DEF Calls

\* The initial state.
LEMMA InitTyped == MpscInit => Typed /\ PeekedIsOldest
<1> SUFFICES ASSUME MpscInit PROVE Typed /\ PeekedIsOldest
  OBVIOUS
<1>1. NoDepths \in [Channels -> Nat]
  BY DEF NoDepths
<1>2. call \in Calls /\ call.pc \in {"idle", "constructing"} /\ call.op = "none" /\ call.i = 0
  BY IdleType DEF MpscInit
<1> QED BY <1>1, <1>2 DEF MpscInit, Typed, PeekedIsOldest

\* What a step of the consumer makes of the helper FIFO and of its call.
LEMMA PushesAppended ==
  ASSUME Typed, NEW c \in Channels
  PROVE  /\ channelPushes \o [j \in 1 .. spsc[c] |-> c] \in Seq(Channels)
         /\ channelPushes \o NewPushes(c) \in Seq(Channels)
         /\ channelPushes # <<>> => /\ channelPushes \o NewPushes(c) # <<>>
                                   /\ Head(channelPushes \o NewPushes(c)) = Head(channelPushes)
<1>1. spsc[c] \in Nat /\ channelPushes \in Seq(Channels)
  BY DEF Typed
<1> DEFINE k == IF depths[c] < call.new[c] THEN call.new[c] - depths[c] ELSE 0
<1>2. k \in Nat
  <2>1. depths[c] \in Nat /\ call.new[c] \in Nat
    BY DEF Typed, Calls
  <2> QED BY <2>1
<1>3. NewPushes(c) = [j \in 1 .. k |-> c]
  BY DEF NewPushes
<1> HIDE DEF k
<1> QED BY <1>1, <1>2, <1>3, HeadStays

\* The first two parts of the invariant are inductive.
LEMMA NextTyped ==
  ASSUME Typed, PeekedIsOldest, [MpscNext]_mpscVars
  PROVE  Typed' /\ PeekedIsOldest'
<1>0. /\ spsc \in [Channels -> Nat] /\ depths \in [Channels -> Nat] /\ channelPushes \in Seq(Channels)
      /\ call \in Calls
  BY DEF Typed
<1>1. ASSUME NEW c \in Channels, Push(c) PROVE Typed' /\ PeekedIsOldest'
  <2>1. spsc' \in [Channels -> Nat] /\ UNCHANGED <<depths, channelPushes, call, peeked>>
    BY <1>0, <1>1 DEF Push
  <2> QED BY <2>1 DEF Typed, PeekedIsOldest
<1>2. ASSUME NEW op \in {"updateDepth", "peek", "pop"}, NEW n \in Pops \cup {0}, op = "pop" => n \in Pops, Start(op, n)
      PROVE  Typed' /\ PeekedIsOldest'
  <2>1. call'.pc = "reading" /\ call'.op = op /\ call'.n = n /\ call'.i = 0 /\ call' \in Calls
    <3> DEFINE r == [Idle EXCEPT !.pc = "reading", !.op = op, !.n = n]
    <3>1. r \in Calls /\ r.pc = "reading" /\ r.op = op /\ r.n = n /\ r.i = 0
      BY IdleType, Zenon DEF Calls
    <3> QED BY <1>2, <3>1 DEF Start
  <2>2. UNCHANGED <<spsc, depths, channelPushes, peeked>>
    BY <1>2 DEF Start
  <2> QED BY <1>2, <2>1, <2>2 DEF Typed, PeekedIsOldest
<1>3. CASE ConstructChannel
  <2>1. call.pc = "constructing" /\ call.i \in 0 .. N - 1 /\ call.i \in Channels /\ peeked = -1
    BY <1>3 DEF ConstructChannel, Typed, PeekedIsOldest, Channels
  <2>2. channelPushes' \in Seq(Channels) /\ depths' \in [Channels -> Nat] /\ UNCHANGED <<spsc, peeked>>
    BY <1>0, <1>3, <2>1, PushesAppended, Zenon DEF ConstructChannel
  <2>3. CASE call.i + 1 = N
    <3>1. call' = Idle
      BY <1>3, <2>3 DEF ConstructChannel
    <3> QED BY <1>0, <2>1, <2>2, <3>1, IdleType DEF Typed, PeekedIsOldest
  <2>4. CASE call.i + 1 # N
    <3> DEFINE r == [call EXCEPT !.i = call.i + 1]
    <3>1. call' = r
      BY <1>3, <2>4 DEF ConstructChannel
    <3>2. r \in Calls /\ r.pc = "constructing" /\ r.op = call.op /\ r.n = call.n /\ r.i \in 0 .. N - 1
      <4>1. call.i + 1 \in Nat /\ call.i + 1 \in 0 .. N - 1
        BY <2>1, <2>4
      <4> QED BY <1>0, <2>1, <4>1, IndexMoves
    <3> HIDE DEF r
    <3> QED BY <1>0, <2>1, <2>2, <3>1, <3>2 DEF Typed, PeekedIsOldest
  <2> QED BY <2>3, <2>4
<1>4. CASE ReadDepth
  <2>1. call.pc = "reading" /\ call.i \in 0 .. N /\ call.op # "none" /\ UNCHANGED <<spsc, depths, channelPushes, peeked>>
    BY <1>4 DEF ReadDepth, Typed
  <2>2. CASE call.i < N
    <3> DEFINE d == [call.new EXCEPT ![call.i] = spsc[call.i]]
               r == [call EXCEPT !.new = d, !.i = call.i + 1]
    <3>1. call' = r
      BY <1>4, <2>2 DEF ReadDepth
    <3>2. call.i \in Channels /\ spsc[call.i] \in Nat
      BY <1>0, <2>1, <2>2 DEF Channels
    <3>3. r \in Calls /\ r.pc = "reading" /\ r.op = call.op /\ r.n = call.n /\ r.i \in 0 .. N
      <4>1. call.i + 1 \in Nat /\ call.i + 1 \in 0 .. N
        BY <2>1, <2>2
      <4>2. r \in Calls /\ r.pc = call.pc /\ r.op = call.op /\ r.n = call.n /\ r.i = call.i + 1
        <5>1. d \in [Channels -> Nat]
          BY <1>0, <3>2 DEF Calls
        <5> HIDE DEF d
        <5>2. \A k \in Nat : LET q == [call EXCEPT !.new = d, !.i = k]
                              IN  /\ q \in Calls /\ q.pc = call.pc /\ q.op = call.op /\ q.n = call.n
                                  /\ q.i = k
          BY <1>0, <5>1, Zenon DEF Calls
        <5> QED BY <4>1, <5>2, Zenon
      <4> QED BY <2>1, <4>1, <4>2
    <3> HIDE DEF r
    <3> QED BY <1>0, <2>1, <3>1, <3>3 DEF Typed, PeekedIsOldest
  <2>3. CASE ~(call.i < N)
    <3> DEFINE r == [call EXCEPT !.pc = "recording", !.i = 0]
    <3>1. call' = r
      BY <1>4, <2>3 DEF ReadDepth
    <3>2. r \in Calls /\ r.pc = "recording" /\ r.op = call.op /\ r.n = call.n /\ r.i = 0
      BY <1>0, LoopOver, Zenon
    <3>3. 0 \in 0 .. N
      OBVIOUS
    <3> HIDE DEF r
    <3> QED BY <1>0, <2>1, <3>1, <3>2, <3>3 DEF Typed, PeekedIsOldest
  <2> QED BY <2>2, <2>3
<1>5. CASE RecordPushes
  <2> DEFINE r == [call EXCEPT !.i = call.i + 1]
  <2>1. /\ call.pc = "recording" /\ call.i \in 0 .. N /\ call.op # "none" /\ call.i < N
        /\ UNCHANGED <<spsc, depths, peeked>> /\ call' = r
        /\ channelPushes' = channelPushes \o NewPushes(call.i)
    BY <1>5 DEF RecordPushes, Typed
  <2>2. call.i \in Channels
    BY <2>1 DEF Channels
  <2>3. /\ channelPushes' \in Seq(Channels)
        /\ channelPushes # <<>> => channelPushes' # <<>> /\ Head(channelPushes') = Head(channelPushes)
    BY <2>1, <2>2, PushesAppended, Zenon
  <2>4. r \in Calls /\ r.pc = "recording" /\ r.op = call.op /\ r.n = call.n /\ r.i \in 0 .. N
    <3>1. call.i + 1 \in Nat /\ call.i + 1 \in 0 .. N
      BY <2>1
    <3> QED BY <1>0, <2>1, <3>1, IndexMoves
  <2> HIDE DEF r
  <2> QED BY <1>0, <2>1, <2>3, <2>4 DEF Typed, PeekedIsOldest
<1>6. CASE SwapDepths
  <2>1. /\ call.pc = "recording" /\ call.op # "none" /\ UNCHANGED <<spsc, channelPushes, peeked>>
        /\ depths' = call.new /\ call.new \in [Channels -> Nat]
    BY <1>0, <1>6 DEF SwapDepths, Typed, Calls
  <2>2. CASE mpscGetDepth(call.new) # Len(channelPushes)
    <3> DEFINE r == [call EXCEPT !.pc = "outOfSync"]
    <3>1. call' = r
      BY <1>6, <2>2 DEF SwapDepths
    <3>2. r \in Calls /\ r.pc = "outOfSync" /\ r.op = call.op /\ r.n = call.n
      BY <1>0, Zenon DEF Calls
    <3> HIDE DEF r
    <3> QED BY <1>0, <2>1, <3>1, <3>2 DEF Typed, PeekedIsOldest
  <2>3. CASE mpscGetDepth(call.new) = Len(channelPushes) /\ call.op = "updateDepth"
    <3>1. call' = Idle
      BY <1>6, <2>3 DEF SwapDepths
    <3> QED BY <1>0, <2>1, <3>1, IdleType DEF Typed, PeekedIsOldest
  <2>4. CASE mpscGetDepth(call.new) = Len(channelPushes) /\ call.op # "updateDepth"
    <3> DEFINE r == [call EXCEPT !.pc = call.op, !.i = 0]
    <3>1. call' = r
      BY <1>6, <2>4 DEF SwapDepths
    <3>2. call.op \in {"peek", "pop"}
      BY <1>0, <2>1, <2>4 DEF Calls
    <3>3. r \in Calls /\ r.pc = call.op /\ r.op = call.op /\ r.n = call.n /\ r.i = 0
      BY <1>0, <3>2, Zenon DEF Calls
    <3>4. mpscGetDepth(depths') = Len(channelPushes')
      BY <2>1, <2>4
    <3> HIDE DEF r
    <3> QED BY <1>0, <2>1, <3>1, <3>2, <3>3, <3>4 DEF Typed, PeekedIsOldest
  <2> QED BY <2>2, <2>3, <2>4
<1>7. CASE Peek
  <2>1. call' = Idle /\ UNCHANGED <<spsc, depths, channelPushes>>
        /\ (peeked' # -1 => channelPushes # <<>> /\ peeked' = Head(channelPushes))
    BY <1>7 DEF Peek
  <2> QED BY <1>0, <2>1, IdleType DEF Typed, PeekedIsOldest
<1>8. CASE PopFirst
  <2>1. /\ call.pc = "pop" /\ call.op = "pop" /\ call.i = 0 /\ call.n \in Pops /\ mpscGetDepth(depths) = Len(channelPushes)
        /\ UNCHANGED <<spsc, depths, channelPushes, peeked>>
    BY <1>8 DEF PopFirst, Typed, PeekedIsOldest
  <2>2. CASE call.n > mpscGetDepth(depths)
    <3>1. call' = Idle
      BY <1>8, <2>2 DEF PopFirst
    <3> QED BY <1>0, <2>1, <3>1, IdleType DEF Typed, PeekedIsOldest
  <2>3. CASE ~(call.n > mpscGetDepth(depths))
    <3> DEFINE r == [call EXCEPT !.pc = "popping", !.first = Head(channelPushes)]
    <3>1. call' = r
      BY <1>8, <2>3 DEF PopFirst
    <3>2. call.n \in Nat /\ call.n # 0
      BY <2>1, Zenon
    <3>3. channelPushes # <<>>
      <4>1. Len(channelPushes) \in Nat /\ Len(channelPushes) # 0
        BY <1>0, <2>1, <2>3, <3>2
      <4> QED BY <4>1
    <3>4. Head(channelPushes) \in Channels
      BY <1>0, <3>3
    <3>5. r \in Calls /\ r.pc = "popping" /\ r.op = call.op /\ r.n = call.n /\ r.first = Head(channelPushes)
          /\ r.i = call.i
      BY <1>0, <3>4, Zenon DEF Calls
    <3> HIDE DEF r
    <3>6. call.n <= Len(channelPushes) /\ call.i < call.n /\ call.n - call.i <= Len(channelPushes)
      BY <1>0, <2>1, <2>3, <3>2
    <3> QED BY <1>0, <2>1, <3>1, <3>3, <3>5, <3>6 DEF Typed, PeekedIsOldest
  <2> QED BY <2>2, <2>3
<1>9. CASE PopOne
  <2>1. /\ call.pc = "popping" /\ peeked' = -1 /\ call.first \in Channels
        /\ call.i < call.n /\ call.n - call.i <= Len(channelPushes)
    BY <1>0, <1>9 DEF PopOne, PeekedIsOldest, Calls
  <2>2. CASE spsc[call.first] = 0
    <3>1. call' = Idle /\ UNCHANGED <<spsc, depths, channelPushes>>
      BY <1>9, <2>2 DEF PopOne
    <3> QED BY <1>0, <2>1, <3>1, IdleType DEF Typed, PeekedIsOldest
  <2>3. CASE spsc[call.first] # 0
    <3>0. call.n \in Nat /\ call.i \in Nat /\ call.n \in Pops \cup {0}
      <4>1. call.n \in Pops \cup {0} /\ call.i \in Nat
        BY <1>0 DEF Calls
      <4>2. Pops \cup {0} \subseteq Nat
        OBVIOUS
      <4> QED BY <4>1, <4>2, Zenon
    <3>1. spsc' \in [Channels -> Nat]
      <4>1. spsc[call.first] \in Nat
        BY <1>0, <2>1
      <4>2. spsc[call.first] - 1 \in Nat
        BY <2>3, <4>1
      <4>3. spsc' = [spsc EXCEPT ![call.first] = spsc[call.first] - 1]
        BY <1>9, <2>3 DEF PopOne
      <4> QED BY <1>0, <4>2, <4>3, Zenon
    <3>2. depths' \in [Channels -> Nat]
      <4>1. depths[call.first] \in Nat
        BY <1>0, <2>1
      <4>2. (depths[call.first] - 1) % Word \in Nat
        BY <4>1
      <4>3. depths' = [depths EXCEPT ![call.first] = (depths[call.first] - 1) % Word]
        BY <1>9, <2>3 DEF PopOne
      <4> QED BY <1>0, <4>2, <4>3, Zenon
    <3>3. channelPushes # <<>> /\ channelPushes' = Tail(channelPushes)
      <4>1. Len(channelPushes) # 0
        BY <1>0, <2>1, <3>0
      <4> QED BY <1>9, <2>3, <4>1 DEF PopOne
    <3>4. channelPushes' \in Seq(Channels) /\ Len(channelPushes') = Len(channelPushes) - 1
      BY <1>0, <3>3
    <3>5. CASE call.i + 1 = call.n
      <4>1. call' = Idle
        BY <1>9, <2>3, <3>5 DEF PopOne
      <4> QED BY <1>0, <2>1, <3>1, <3>2, <3>4, <4>1, IdleType, Zenon DEF Typed, PeekedIsOldest
    <3>6. CASE call.i + 1 # call.n
      <4> DEFINE r == [call EXCEPT !.i = call.i + 1]
      <4>1. call' = r
        BY <1>9, <2>3, <3>6 DEF PopOne
      <4>2. r \in Calls /\ r.pc = "popping" /\ r.op = call.op /\ r.n = call.n /\ r.i = call.i + 1
        <5>1. call.i + 1 \in Nat
          BY <3>0
        <5> QED BY <1>0, <2>1, <5>1, IndexMoves
      <4>3. call.i + 1 < call.n /\ call.i + 1 # 0 /\ call.n - (call.i + 1) <= Len(channelPushes')
        <5>1. Len(channelPushes) \in Nat
          BY <1>0
        <5> QED BY <2>1, <3>0, <3>4, <3>6, <5>1
      <4> HIDE DEF r
      <4> QED BY <1>0, <2>1, <3>1, <3>2, <3>4, <4>1, <4>2, <4>3, Zenon DEF Typed, PeekedIsOldest
    <3> QED BY <3>5, <3>6
  <2> QED BY <2>2, <2>3
<1>10. CASE UNCHANGED mpscVars
  BY <1>10 DEF mpscVars, Typed, PeekedIsOldest
<1> QED BY <1>1, <1>2, <1>3, <1>4, <1>5, <1>6, <1>7, <1>8, <1>9, <1>10 DEF MpscNext, CallCompletes

\* So a pop after a peek takes the token that peek returned, however many tokens
\* it asks for and whatever the producers pushed in between.
THEOREM PopTakesPeeked == MpscSpec => PopTakesPeekedToken
<1> DEFINE A == \A c \in Channels : (spsc'[c] < spsc[c] /\ peeked # -1) => c = peeked
<1>1. ASSUME Typed, PeekedIsOldest, MpscNext PROVE A
  <2> SUFFICES ASSUME NEW c \in Channels, spsc'[c] < spsc[c], peeked # -1 PROVE c = peeked
    OBVIOUS
  <2>0. spsc \in [Channels -> Nat] /\ spsc[c] \in Nat
    BY <1>1 DEF Typed
  <2>1. CASE PopOne
    <3>1. call.i = 0 /\ call.first = Head(channelPushes) /\ Head(channelPushes) = peeked
      BY <1>1, <2>1 DEF PopOne, PeekedIsOldest
    <3>2. spsc' = [spsc EXCEPT ![call.first] = spsc[call.first] - 1]
      BY <2>0, <2>1 DEF PopOne
    <3> QED BY <2>0, <3>1, <3>2
  <2>2. CASE \E d \in Channels : Push(d)
    <3>1. PICK d \in Channels : spsc' = [spsc EXCEPT ![d] = spsc[d] + 1]
      BY <2>2, Zenon DEF Push
    <3> QED BY <2>0, <3>1
  <2>3. CASE UNCHANGED spsc
    BY <2>0, <2>3
  <2> QED BY <1>1, <2>1, <2>2, <2>3, Zenon DEF MpscNext, CallCompletes, Start, ConstructChannel, ReadDepth, RecordPushes,
                                     SwapDepths, Peek, PopFirst
<1>2. Typed /\ PeekedIsOldest /\ [MpscNext]_mpscVars => [A]_mpscVars
  BY <1>1
<1> QED BY <1>2, InitTyped, NextTyped, PTL DEF MpscSpec, PopTakesPeekedToken

-----------------------------------------------------------------------------
(* Counting the entries of a channel                                        *)

INSTANCE FiniteSetTheorems

Count(s, c) == Cardinality({j \in 1 .. Len(s) : s[j] = c})

\* The entries of a channel can be counted.
LEMMA CountType ==
  ASSUME NEW T, NEW s \in Seq(T), NEW c
  PROVE  IsFiniteSet({j \in 1 .. Len(s) : s[j] = c}) /\ Count(s, c) \in Nat
<1>1. Len(s) \in Nat
  OBVIOUS
<1>2. IsFiniteSet(1 .. Len(s))
  BY <1>1, FS_Interval
<1>3. IsFiniteSet({j \in 1 .. Len(s) : s[j] = c})
  BY <1>2, FS_Subset
<1> QED BY <1>3, FS_CardinalityType DEF Count

\* k entries for channel a.
Repeated(k, a) == [j \in 1 .. k |-> a]

\* They are appended.
LEMMA CountAppend ==
  ASSUME NEW T, NEW s \in Seq(T), NEW k \in Nat, NEW a \in T, NEW c \in T
  PROVE  /\ c = a => Count(s \o Repeated(k, a), c) = Count(s, c) + k
         /\ c # a => Count(s \o Repeated(k, a), c) = Count(s, c)
<1> DEFINE t == [j \in 1 .. k |-> a]
           r == s \o t
           A == {j \in 1 .. Len(s) : s[j] = c}
           B == Len(s) + 1 .. Len(s) + k
           R == {j \in 1 .. Len(r) : r[j] = c}
<1>1. t \in Seq(T) /\ Len(t) = k /\ \A j \in 1 .. k : t[j] = a
  OBVIOUS
<1>0. Len(s) \in Nat
  OBVIOUS
<1> HIDE DEF t
<1>2. /\ Len(r) = Len(s) + k
      /\ \A j \in 1 .. Len(s) + k : r[j] = IF j <= Len(s) THEN s[j] ELSE t[j - Len(s)]
  BY <1>1
<1> HIDE DEF r
<1>3. \A j \in 1 .. Len(s) + k : r[j] = IF j <= Len(s) THEN s[j] ELSE a
  <2> SUFFICES ASSUME NEW j \in 1 .. Len(s) + k, ~(j <= Len(s)) PROVE t[j - Len(s)] = a
    BY <1>2
  <2>1. j - Len(s) \in 1 .. k
    BY <1>0
  <2> QED BY <1>1, <2>1
<1>4. IsFiniteSet(A) /\ Cardinality(A) = Count(s, c) /\ Count(s, c) \in Nat
  BY CountType, Zenon DEF Count
<1>5. Cardinality(R) = Count(r, c)
  BY DEF Count
<1>6. CASE c # a
  <2>1. R = A
    BY <1>0, <1>2, <1>3, <1>6
  <2> QED BY <1>4, <1>5, <1>6, <2>1, Zenon DEF r, t, Repeated
<1>7. CASE c = a
  <2>1. R = A \cup B
    BY <1>0, <1>2, <1>3, <1>7
  <2>2. A \cap B = {}
    BY <1>0
  <2>3. IsFiniteSet(B) /\ Cardinality(B) = k
    <3>1. Len(s) + 1 \in Int /\ Len(s) + k \in Int
      BY <1>0
    <3>2. IsFiniteSet(B) /\ Cardinality(B) = IF Len(s) + 1 > Len(s) + k THEN 0 ELSE (Len(s) + k) - (Len(s) + 1) + 1
      BY <3>1, FS_Interval, Zenon
    <3>3. k = IF Len(s) + 1 > Len(s) + k THEN 0 ELSE (Len(s) + k) - (Len(s) + 1) + 1
      BY <1>0
    <3> QED BY <3>2, <3>3
  <2> HIDE DEF A, B, R
  <2>4. Cardinality(A \cup B) = Cardinality(A) + Cardinality(B) - Cardinality({})
    BY <1>4, <2>2, <2>3, FS_Union
  <2>5. Cardinality(R) = Count(s, c) + k
    BY <1>4, <2>1, <2>3, <2>4, FS_EmptySet
  <2> QED BY <1>5, <1>7, <2>5 DEF r, t, Repeated
<1> QED BY <1>6, <1>7

\* The oldest entry is removed.
LEMMA CountTail ==
  ASSUME NEW T, NEW s \in Seq(T), s # <<>>, NEW c \in T
  PROVE  Count(Tail(s), c) = IF c = Head(s) THEN Count(s, c) - 1 ELSE Count(s, c)
<1> DEFINE t == Tail(s)
           A == {j \in 1 .. Len(s) : s[j] = c}
           B == {j \in 1 .. Len(t) : t[j] = c}
           f == [j \in B |-> j + 1]
<1>1. /\ t \in Seq(T) /\ Len(t) = Len(s) - 1 /\ \A j \in 1 .. Len(t) : t[j] = s[j + 1]
      /\ Len(s) \in Nat \ {0} /\ Head(s) = s[1]
  OBVIOUS
<1> HIDE DEF t
<1>2. IsFiniteSet(A) /\ Cardinality(A) = Count(s, c)
  BY CountType, Zenon DEF Count
<1>3. IsFiniteSet(B) /\ Cardinality(B) = Count(t, c)
  BY <1>1, CountType, Zenon DEF Count
<1>4. f \in Bijection(B, A \ {1})
  <2>1. \A j \in B : j + 1 \in A \ {1}
    BY <1>1
  <2>2. \A i, j \in B : i + 1 = j + 1 => i = j
    OBVIOUS
  <2>3. \A i \in A \ {1} : i - 1 \in B /\ (i - 1) + 1 = i
    BY <1>1
  <2> HIDE DEF A, B
  <2>4. f \in [B -> A \ {1}] /\ \A j \in B : f[j] = j + 1
    BY <2>1
  <2> HIDE DEF f
  <2>5. \A i, j \in B : f[i] = f[j] => i = j
    BY <2>2, <2>4
  <2>6. \A i \in A \ {1} : \E j \in B : f[j] = i
    BY <2>3, <2>4
  <2> QED BY <2>4, <2>5, <2>6 DEF Bijection, Injection, Surjection, IsInjective
<1>5. Cardinality(A \ {1}) = Count(t, c)
  BY <1>3, <1>4, FS_Bijection DEF ExistsBijection
<1>6. Cardinality(A \ {1}) = IF 1 \in A THEN Cardinality(A) - 1 ELSE Cardinality(A)
  BY <1>2, FS_RemoveElement, Zenon
<1>7. 1 \in A <=> c = Head(s)
  BY <1>1
<1> QED BY <1>2, <1>5, <1>6, <1>7 DEF t

-----------------------------------------------------------------------------
(* The helper FIFO and the recorded depths stay in step                     *)

\* Of a channel with sp tokens, of which d are recorded and new were read, e
\* entries are in the helper FIFO when the call is at index i of its loop.
Tallied(pc, i, c, new, sp, d, e) ==
  /\ sp <= ChannelCapacity /\ d <= sp
  /\ (pc = "recording" \/ (pc = "reading" /\ c < i)) => d <= new /\ new <= sp
  /\ (pc = "constructing" /\ i <= c) => d = 0
  /\ e = IF pc = "recording" /\ c < i THEN new ELSE d

InStep ==
  \A c \in Channels :
    Tallied(call.pc, call.i, c, call.new[c], spsc[c], depths[c], Count(channelPushes, c))

\* A depth that is at most the capacity fits a machine word.
LEMMA DepthFitsWord == ASSUME NEW d \in Nat, d <= ChannelCapacity, d # 0 PROVE (d - 1) % Word = d - 1
<1>1. ChannelCapacity <= N * ChannelCapacity
  <2>1. (N - 1) * ChannelCapacity >= 0
    <3>1. \A x, y \in Nat : x * y >= 0
      OBVIOUS
    <3>2. N - 1 \in Nat
      OBVIOUS
    <3> QED BY <3>1, <3>2
  <2> QED BY <2>1
<1>2. N * ChannelCapacity \in Nat
  OBVIOUS
<1>3. d - 1 \in 0 .. Word - 1
  BY <1>1, <1>2
<1> QED BY <1>3

\* The types, channel by channel.
LEMMA ChannelTypes ==
  ASSUME Typed, NEW c \in Channels
  PROVE  /\ spsc[c] \in Nat /\ depths[c] \in Nat /\ call.new[c] \in Nat /\ Count(channelPushes, c) \in Nat
         /\ c \in Int /\ call.i \in Int
<1>1. spsc[c] \in Nat /\ depths[c] \in Nat /\ channelPushes \in Seq(Channels)
  BY DEF Typed
<1>2. call.new[c] \in Nat /\ call.i \in Nat
  BY DEF Typed, Calls
<1>3. c \in Int
  BY DEF Channels
<1>4. Count(channelPushes, c) \in Nat
  BY <1>1, CountType, Zenon
<1> QED BY <1>1, <1>2, <1>3, <1>4

\* Nothing is recorded at the start.
LEMMA InitInStep == MpscInit => InStep
<1> SUFFICES ASSUME MpscInit, NEW c \in Channels
             PROVE  Tallied(call.pc, call.i, c, call.new[c], spsc[c], depths[c], Count(channelPushes, c))
  BY DEF InStep
<1>1. call.pc \in {"idle", "constructing"} /\ spsc[c] = 0 /\ depths[c] = 0
  BY IdleType DEF MpscInit, NoDepths
<1>2. Count(channelPushes, c) = 0
  <2>1. {j \in 1 .. Len(channelPushes) : channelPushes[j] = c} = {}
    BY DEF MpscInit
  <2> QED BY <2>1, FS_EmptySet, Zenon DEF Count
<1> QED BY <1>1, <1>2 DEF Tallied

\* With single pops every step keeps the tally of every channel.
LEMMA NextInStep ==
  ASSUME Pops \subseteq {1}, Typed, PeekedIsOldest, InStep, [MpscNext]_mpscVars
  PROVE  InStep'
<1> SUFFICES ASSUME NEW c \in Channels
             PROVE  Tallied(call'.pc, call'.i, c, call'.new[c], spsc'[c], depths'[c], Count(channelPushes', c))
  BY DEF InStep
<1> DEFINE pc == call.pc  i == call.i  new == call.new[c]  sp == spsc[c]  d == depths[c]
           e == Count(channelPushes, c)
<1>a. Tallied(pc, i, c, new, sp, d, e)
  BY DEF InStep
<1>b. /\ sp \in Nat /\ d \in Nat /\ new \in Nat /\ e \in Nat /\ c \in Int /\ i \in Int
      /\ spsc \in [Channels -> Nat] /\ depths \in [Channels -> Nat] /\ channelPushes \in Seq(Channels)
      /\ call \in Calls /\ call.new \in [Channels -> Nat]
  BY ChannelTypes DEF Typed, Calls
<1>c. c >= 0 /\ c < N
  BY DEF Channels
<1>1. ASSUME NEW b \in Channels, Push(b)
      PROVE  Tallied(call'.pc, call'.i, c, call'.new[c], spsc'[c], depths'[c], Count(channelPushes', c))
  <2>1. UNCHANGED <<call, depths, channelPushes>> /\ spsc[b] < ChannelCapacity /\ spsc' = [spsc EXCEPT ![b] = spsc[b] + 1]
    BY <1>1 DEF Push
  <2>2. spsc'[c] = IF c = b THEN sp + 1 ELSE sp
    BY <1>b, <2>1
  <2>3. Tallied(pc, i, c, new, IF c = b THEN sp + 1 ELSE sp, d, e)
    BY <1>a, <1>b, <2>1 DEF Tallied
  <2> QED BY <2>1, <2>2, <2>3
<1>2. ASSUME NEW op, NEW n, Start(op, n)
      PROVE  Tallied(call'.pc, call'.i, c, call'.new[c], spsc'[c], depths'[c], Count(channelPushes', c))
  <2>1. UNCHANGED <<spsc, depths, channelPushes>> /\ pc = "idle" /\ call'.pc = "reading" /\ call'.i = 0
    BY <1>2 DEF Start, Idle
  <2>2. \A x : Tallied("reading", 0, c, x, sp, d, e)
    BY <1>a, <1>b, <1>c, <2>1 DEF Tallied
  <2> QED BY <2>1, <2>2
<1>3. CASE ConstructChannel
  <2>1. i \in Channels /\ pc = "constructing" /\ UNCHANGED spsc
    BY <1>3 DEF ConstructChannel, Typed, Channels
  <2>2. depths'[c] = IF c = i THEN sp ELSE d
    BY <1>3, <1>b, <2>1 DEF ConstructChannel
  <2>3. Count(channelPushes', c) = IF c = i THEN e + sp ELSE e
    <3>1. spsc[i] \in Nat
      BY <1>b, <2>1
    <3>2. channelPushes' = channelPushes \o Repeated(spsc[i], i)
      BY <1>3 DEF ConstructChannel, Repeated
    <3>3. /\ c = i => Count(channelPushes \o Repeated(spsc[i], i), c) = e + spsc[i]
          /\ c # i => Count(channelPushes \o Repeated(spsc[i], i), c) = e
      <4>1. i \in Channels /\ channelPushes \in Seq(Channels)
        BY <1>b, <2>1
      <4> QED BY <3>1, <4>1, CountAppend
    <3> QED BY <3>2, <3>3
  <2>4. call'.pc = "idle" \/ (call'.pc = "constructing" /\ call'.i = i + 1)
    <3>1. CASE i + 1 = N
      BY <1>3, <3>1, IdleType DEF ConstructChannel
    <3>2. CASE i + 1 # N
      <4>1. call' = [call EXCEPT !.i = i + 1]
        BY <1>3, <3>2 DEF ConstructChannel
      <4> QED BY <1>b, <2>1, <4>1 DEF Calls
    <3> QED BY <3>1, <3>2
  <2>5. \A x, y : /\ Tallied("idle", y, c, x, sp, IF c = i THEN sp ELSE d, IF c = i THEN e + sp ELSE e)
                  /\ Tallied("constructing", i + 1, c, x, sp, IF c = i THEN sp ELSE d, IF c = i THEN e + sp ELSE e)
    BY <1>a, <1>b, <2>1 DEF Tallied
  <2> QED BY <2>1, <2>2, <2>3, <2>4, <2>5
<1>4. CASE ReadDepth
  <2>1. i \in 0 .. N /\ pc = "reading" /\ UNCHANGED <<spsc, depths, channelPushes>>
    BY <1>4 DEF ReadDepth, Typed
  <2>2. CASE i < N
    <3> DEFINE w == [call.new EXCEPT ![i] = spsc[i]]
    <3>1. call' = [call EXCEPT !.new = w, !.i = i + 1]
      BY <1>4, <2>2 DEF ReadDepth
    <3>2. w[c] = IF c = i THEN sp ELSE new
      BY <1>b
    <3> HIDE DEF w
    <3>3. call'.pc = pc /\ call'.i = i + 1 /\ call'.new = w
      BY <1>b, <3>1 DEF Calls
    <3>4. Tallied("reading", i + 1, c, IF c = i THEN sp ELSE new, sp, d, e)
      BY <1>a, <1>b, <2>1 DEF Tallied
    <3> QED BY <2>1, <3>2, <3>3, <3>4
  <2>3. CASE ~(i < N)
    <3>1. call' = [call EXCEPT !.pc = "recording", !.i = 0]
      BY <1>4, <2>3 DEF ReadDepth
    <3>2. call'.pc = "recording" /\ call'.i = 0 /\ call'.new = call.new
      BY <1>b, <3>1, LoopOver, Zenon
    <3>3. Tallied("recording", 0, c, new, sp, d, e)
      BY <1>a, <1>b, <1>c, <2>1, <2>3 DEF Tallied
    <3> QED BY <2>1, <3>2, <3>3
  <2> QED BY <2>2, <2>3
<1>5. CASE RecordPushes
  <2>1. /\ i \in Channels /\ pc = "recording" /\ UNCHANGED <<spsc, depths>>
        /\ channelPushes' = channelPushes \o NewPushes(i) /\ call' = [call EXCEPT !.i = i + 1]
    BY <1>5 DEF RecordPushes, Typed, Channels
  <2>2. call'.pc = "recording" /\ call'.i = i + 1 /\ call'.new = call.new
    BY <1>b, <2>1 DEF Calls
  <2> DEFINE k == IF depths[i] < call.new[i] THEN call.new[i] - depths[i] ELSE 0
  <2>3. k \in Nat /\ NewPushes(i) = Repeated(k, i)
    <3>1. depths[i] \in Nat /\ call.new[i] \in Nat
      BY <1>b, <2>1
    <3>2. NewPushes(i) = Repeated(k, i)
      BY DEF NewPushes, Repeated
    <3> QED BY <3>1, <3>2
  <2>4. c = i => k = new - d
    BY <1>a, <1>b, <2>1 DEF Tallied
  <2> HIDE DEF k
  <2>5. Count(channelPushes', c) = IF c = i THEN e + k ELSE e
    <3>1. /\ c = i => Count(channelPushes \o Repeated(k, i), c) = e + k
          /\ c # i => Count(channelPushes \o Repeated(k, i), c) = e
      <4>1. i \in Channels /\ channelPushes \in Seq(Channels) /\ k \in Nat
        BY <1>b, <2>1, <2>3
      <4> QED BY <4>1, CountAppend
    <3> QED BY <2>1, <2>3, <3>1
  <2>6. Tallied("recording", i + 1, c, new, sp, d, IF c = i THEN e + k ELSE e)
    <3>1. pc = "recording" /\ i \in Int /\ k \in Nat
      BY <1>b, <2>1, <2>3
    <3> QED BY <1>a, <1>b, <2>4, <3>1 DEF Tallied
  <2> QED BY <2>1, <2>2, <2>5, <2>6
<1>6. CASE SwapDepths
  <2>1. pc = "recording" /\ i = N /\ UNCHANGED <<spsc, channelPushes>> /\ depths' = call.new
    BY <1>6 DEF SwapDepths
  <2>2. call'.pc \in {"idle", "outOfSync", "peek", "pop"}
    <3>1. call.op \in {"updateDepth", "peek", "pop"}
      BY <1>b, <2>1 DEF Typed, Calls
    <3>2. [call EXCEPT !.pc = "outOfSync"].pc = "outOfSync" /\ [call EXCEPT !.pc = call.op, !.i = 0].pc = call.op
      BY <1>b DEF Calls
    <3> QED BY <1>6, <3>1, <3>2, IdleType DEF SwapDepths
  <2>3. \A p \in {"idle", "outOfSync", "peek", "pop"} : \A x, y : Tallied(p, x, c, y, sp, new, e)
    BY <1>a, <1>b, <1>c, <2>1 DEF Tallied
  <2> QED BY <2>1, <2>2, <2>3
<1>7. CASE Peek \/ PopFirst
  <2>1. pc \in {"peek", "pop"} /\ UNCHANGED <<spsc, depths, channelPushes>>
    BY <1>7 DEF Peek, PopFirst
  <2>2. call'.pc \in {"idle", "popping"}
    <3>1. \A h : [call EXCEPT !.pc = "popping", !.first = h].pc = "popping"
      BY <1>b DEF Calls
    <3> QED BY <1>7, <3>1, IdleType, Zenon DEF Peek, PopFirst
  <2>3. \A p \in {"idle", "popping"} : \A x, y : Tallied(p, x, c, y, sp, d, e)
    BY <1>a, <1>b, <2>1 DEF Tallied
  <2> QED BY <2>1, <2>2, <2>3
<1>8. CASE PopOne
  <2> DEFINE h == call.first
  <2>1. pc = "popping" /\ h \in Channels /\ i < call.n /\ call.n - i <= Len(channelPushes)
    BY <1>8, <1>b DEF PopOne, PeekedIsOldest, Calls
  <2>2. call.n = 1 /\ i = 0 /\ i \in Nat
    <3>1. i \in Nat /\ call.n \in {0, 1}
      BY <1>b, Zenon DEF Calls
    <3> QED BY <2>1, <3>1
  <2>3. CASE spsc[h] = 0
    <3>1. call'.pc = "idle" /\ UNCHANGED <<spsc, depths, channelPushes>>
      BY <1>8, <2>3, IdleType DEF PopOne
    <3>2. \A x, y : Tallied("idle", x, c, y, sp, d, e)
      BY <1>a, <1>b, <2>1 DEF Tallied
    <3> QED BY <3>1, <3>2
  <2>4. CASE spsc[h] # 0
    <3>1. h = Head(channelPushes) /\ channelPushes # <<>>
      <4>1. Len(channelPushes) # 0
        BY <1>b, <2>1, <2>2
      <4> QED BY <2>1, <2>2, <4>1 DEF PeekedIsOldest
    <3>2. call'.pc = "idle" /\ channelPushes' = Tail(channelPushes)
      BY <1>8, <2>2, <2>4, IdleType DEF PopOne
    <3>3. Count(channelPushes', c) = IF c = h THEN e - 1 ELSE e
      BY <1>b, <3>1, <3>2, CountTail
    <3>4. spsc'[c] = IF c = h THEN sp - 1 ELSE sp
      BY <1>8, <1>b, <2>4 DEF PopOne
    <3>5. depths'[c] = IF c = h THEN (d - 1) % Word ELSE d
      BY <1>8, <1>b, <2>4 DEF PopOne
    <3>6. c = h => e # 0
      <4>1. channelPushes' \in Seq(Channels)
        BY <1>b, <3>1, <3>2
      <4>2. Count(channelPushes', c) \in Nat
        BY <4>1, CountType, Zenon
      <4> QED BY <1>b, <3>3, <4>2
    <3>7. d <= ChannelCapacity /\ e = d /\ d <= sp
      BY <1>a, <1>b, <2>1 DEF Tallied
    <3>8. depths'[c] = IF c = h THEN d - 1 ELSE d
      BY <1>b, <3>5, <3>6, <3>7, DepthFitsWord
    <3>9. \A x, y : Tallied("idle", x, c, y, IF c = h THEN sp - 1 ELSE sp, IF c = h THEN d - 1 ELSE d,
                            IF c = h THEN e - 1 ELSE e)
      BY <1>a, <1>b, <2>1, <3>7 DEF Tallied
    <3> QED BY <3>2, <3>3, <3>4, <3>8, <3>9
  <2> QED BY <2>3, <2>4
<1>9. CASE UNCHANGED mpscVars
  BY <1>9, <1>a DEF mpscVars
<1> QED BY <1>1, <1>2, <1>3, <1>4, <1>5, <1>6, <1>7, <1>8, <1>9, Zenon DEF MpscNext, CallCompletes

\* When every pop asks for one token, the helper FIFO holds exactly one entry for
\* each token the snapshot counted whenever the consumer is between two calls,
\* each entry has a token behind it, and a depth read is never below the one
\* recorded.  (A pop of more takes them all from the first channel.)
THEOREM SnapshotStaysInStep == Pops \subseteq {1} => (MpscSpec => []SnapshotInStep)
<1> SUFFICES ASSUME Pops \subseteq {1} PROVE MpscSpec => []SnapshotInStep
  OBVIOUS
<1>1. Typed /\ InStep => SnapshotInStep
  <2> SUFFICES ASSUME Typed, InStep, NEW c \in Channels
               PROVE  /\ call.pc = "recording" => depths[c] <= call.new[c]
                      /\ call.pc = "idle" => Entries(c) = depths[c] /\ depths[c] <= spsc[c]
    BY DEF SnapshotInStep
  <2>1. Entries(c) = Count(channelPushes, c)
    <3>1. DOMAIN channelPushes = 1 .. Len(channelPushes)
      BY DEF Typed
    <3> QED BY <3>1 DEF Entries, Count
  <2>2. Tallied(call.pc, call.i, c, call.new[c], spsc[c], depths[c], Count(channelPushes, c))
    BY DEF InStep
  <2> QED BY <2>1, <2>2 DEF Tallied
<1>2. MpscInit => Typed /\ PeekedIsOldest /\ InStep
  BY InitTyped, InitInStep
<1>3. Typed /\ PeekedIsOldest /\ InStep /\ [MpscNext]_mpscVars => (Typed /\ PeekedIsOldest /\ InStep)'
  BY NextTyped, NextInStep
<1> QED BY <1>1, <1>2, <1>3, PTL DEF MpscSpec
=============================================================================
