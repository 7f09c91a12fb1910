-------------------------- MODULE VariableMpscLocking --------------------------
(***************************************************************************)
(* The locking variable-size multiple-producer single-consumer channel      *)
(* (frontends/channel/variableSize/mpsc/locking).  The consumer has two     *)
(* coordination buffers, one that counts tokens and one that counts payload *)
(* bytes, both guarded by the global lock of the first.  A push writes the  *)
(* size, then the payload, in two chunks when it spills over the end of the *)
(* payload buffer, then both heads.  peek takes no lock; pop does.          *)
(*                                                                          *)
(* The k-th token of producer p is <<p, k>>, and a byte of payload memory   *)
(* shows the token it belongs to.  bound[k] is the byte counter at which    *)
(* the k-th token of the channel begins (a history variable).               *)
(***************************************************************************)
EXTENDS CircularBuffer, FiniteSets

CONSTANTS
  Producers,
  Consumer,          \* the consumer as an owner of the lock
  Free,              \* the lock has no owner
  NoToken,           \* content of a byte never written
  Capacity,          \* tokens the channel holds
  PayloadCapacity,   \* bytes the channel holds
  Sizes,             \* sizes of the tokens callers push
  Pops,              \* numbers of tokens callers ask pop to remove
  ChecksDepth,       \* callers ask for no more tokens than getDepth shows
  MaxTokens          \* bound: tokens pushed by one producer in a behaviour

ASSUME VariableMpscLockingAssumption ==
  /\ Consumer \notin Producers /\ Free \notin Producers /\ Consumer # Free
  /\ Capacity \in Nat \ {0}
  /\ PayloadCapacity \in Nat \ {0}
  /\ Sizes \subseteq Nat
  /\ Pops \subseteq Nat
  /\ ChecksDepth \in BOOLEAN
  /\ MaxTokens \in Nat

VARIABLES
  cHead, cTail,   \* the consumer's coordination buffer for counts
  bHead, bTail,   \* the consumer's coordination buffer for payloads
  local,          \* each producer's own coordination buffers
  sizes,          \* the token buffer, holding sizes
  payload,        \* the payload buffer
  lock,           \* owner of the consumer's coordination buffer for counts
  pushing,        \* each producer's call: where it is, its size, chunks in flight
  popping,        \* the consumer's call: where it is and its n
  sent,           \* tokens of each producer whose count has landed
  bound           \* history: where each token begins and ends

counters == <<cHead, cTail, bHead, bTail>>
memory == <<sizes, payload>>
vars == <<cHead, cTail, bHead, bTail, local, sizes, payload, lock, pushing, popping, sent, bound>>

IdlePush == [pc |-> "idle", size |-> 0, chunks |-> {}]
IdlePop == [pc |-> "idle", n |-> 0]

Init ==
  /\ cHead = 0 /\ cTail = 0 /\ bHead = 0 /\ bTail = 0
  /\ local = [p \in Producers |-> [cHead |-> 0, cTail |-> 0, bHead |-> 0, bTail |-> 0]]
  /\ sizes = [b \in 0 .. Capacity - 1 |-> 0]
  /\ payload = [b \in 0 .. PayloadCapacity - 1 |-> NoToken]
  /\ lock = Free
  /\ pushing = [p \in Producers |-> IdlePush]
  /\ popping = IdlePop
  /\ sent = [p \in Producers |-> 0]
  /\ bound = [k \in {0} |-> 0]

\* Of acquireGlobalLock's two outcomes, only success is a step.
acquireGlobalLock(owner) == lock = Free /\ lock' = owner
releaseGlobalLock(owner) == lock = owner /\ lock' = Free

-----------------------------------------------------------------------------
(* Producer::push(sourceSlot)                                               *)

PushAcquire(p, size) ==
  /\ pushing[p].pc = "idle"
  /\ sent[p] < MaxTokens
  /\ acquireGlobalLock(p)
  /\ pushing' = [pushing EXCEPT ![p] = [pc |-> "locked", size |-> size, chunks |-> {}]]
  /\ UNCHANGED <<counters, local, memory, popping, sent, bound>>

\* updateDepth: both of the consumer's coordination buffers are fetched.
updateDepth(p) ==
  /\ pushing[p].pc = "locked"
  /\ local' = [local EXCEPT ![p] = [cHead |-> cHead, cTail |-> cTail, bHead |-> bHead, bTail |-> bTail]]
  /\ pushing' = [pushing EXCEPT ![p].pc = "fetched"]
  /\ UNCHANGED <<counters, memory, lock, popping, sent, bound>>

PayloadFits(p) ==
  getDepth(local[p].bHead, local[p].bTail) + pushing[p].size <= PayloadCapacity

CountFits(p) == getDepth(local[p].cHead, local[p].cTail) + 1 <= Capacity

\* Mutant: a push that finds no room for its payload keeps the lock.
PushCheckKeepsLock(p) ==
  /\ pushing[p].pc = "fetched"
  /\ pushing' = [pushing EXCEPT ![p] =
       IF ~PayloadFits(p) THEN IdlePush
       ELSE [@ EXCEPT !.pc = IF CountFits(p) THEN "sizing" ELSE "releasing"]]
  /\ UNCHANGED <<counters, local, memory, lock, popping, sent, bound>>

\* Either buffer without room makes push release the lock and return false.
PushCheck(p) ==
  /\ pushing[p].pc = "fetched"
  /\ pushing' = [pushing EXCEPT ![p].pc =
       IF \/ OutOfOrder(local[p].bHead, local[p].bTail)
          \/ PayloadFits(p) /\ OutOfOrder(local[p].cHead, local[p].cTail) THEN "fatal"
       ELSE IF PayloadFits(p) /\ CountFits(p) THEN "sizing"
       ELSE "releasing"]
  /\ UNCHANGED <<counters, local, memory, lock, popping, sent, bound>>

\* The offsets of the token that lie before the end of the payload buffer.
headPosition(p) == Position(local[p].bHead, PayloadCapacity)
firstChunk(p) == PayloadCapacity - headPosition(p)
Chunks(p) ==
  LET offsets == 0 .. pushing[p].size - 1
  IN  IF pushing[p].size + headPosition(p) > PayloadCapacity
        THEN {{i \in offsets : i < firstChunk(p)}, {i \in offsets : i >= firstChunk(p)}}
        ELSE {offsets}

\* Phase 1: the size lands and its fence returns; phase 2 issues the payload.
SizeLands(p) ==
  /\ pushing[p].pc = "sizing"
  /\ sizes' = [sizes EXCEPT ![Position(local[p].cHead, Capacity)] = pushing[p].size]
  /\ pushing' = [pushing EXCEPT ![p] = [@ EXCEPT !.pc = "copying", !.chunks = Chunks(p)]]
  /\ bound' = [k \in 0 .. local[p].cHead + 1 |->
                 IF k = local[p].cHead + 1 THEN local[p].bHead + pushing[p].size ELSE bound[k]]
  /\ UNCHANGED <<counters, local, payload, lock, popping, sent>>

\* Mutant: the second chunk does not start at the beginning of the buffer.
DestinationOneLate(p, i) ==
  IF i < firstChunk(p) THEN headPosition(p) + i ELSE (i - firstChunk(p) + 1) % PayloadCapacity

\* Where byte i of the token goes.
Destination(p, i) ==
  IF i < firstChunk(p) THEN headPosition(p) + i ELSE i - firstChunk(p)

ChunkLands(p, chunk) ==
  /\ pushing[p].pc = "copying"
  /\ chunk \in pushing[p].chunks
  /\ payload' = [b \in DOMAIN payload |->
                   IF \E i \in chunk : b = Destination(p, i) THEN <<p, sent[p]>> ELSE payload[b]]
  /\ pushing' = [pushing EXCEPT ![p].chunks = @ \ {chunk}]
  /\ UNCHANGED <<counters, local, sizes, lock, popping, sent, bound>>

\* The payload fence returns, the private heads advance and both are sent.
PushFence(p) ==
  /\ pushing[p].pc = "copying"
  /\ pushing[p].chunks = {}
  /\ LET countFatal == AdvanceHeadFatal(local[p].cHead, local[p].cTail, 1, Capacity)
         payloadFatal == AdvanceHeadFatal(local[p].bHead, local[p].bTail, pushing[p].size, PayloadCapacity)
     IN  /\ local' = [local EXCEPT
              ![p].cHead = IF countFatal THEN @ ELSE @ + 1,
              ![p].bHead = IF countFatal \/ payloadFatal THEN @ ELSE @ + pushing[p].size]
         /\ pushing' = [pushing EXCEPT ![p].pc =
              IF countFatal \/ payloadFatal THEN "fatal" ELSE "publishing"]
  /\ UNCHANGED <<counters, memory, lock, popping, sent, bound>>

\* The two heads land in either order.
CountHeadLands(p) ==
  /\ pushing[p].pc \in {"publishing", "payloadHeadLanded"}
  /\ cHead' = local[p].cHead
  /\ sent' = [sent EXCEPT ![p] = @ + 1]
  /\ pushing' = [pushing EXCEPT ![p].pc = IF @ = "publishing" THEN "countHeadLanded" ELSE "releasing"]
  /\ UNCHANGED <<cTail, bHead, bTail, local, memory, lock, popping, bound>>

PayloadHeadLands(p) ==
  /\ pushing[p].pc \in {"publishing", "countHeadLanded"}
  /\ bHead' = local[p].bHead
  /\ pushing' = [pushing EXCEPT ![p].pc = IF @ = "publishing" THEN "payloadHeadLanded" ELSE "releasing"]
  /\ UNCHANGED <<cHead, cTail, bTail, local, memory, lock, popping, sent, bound>>

PushRelease(p) ==
  /\ pushing[p].pc = "releasing"
  /\ releaseGlobalLock(p)
  /\ pushing' = [pushing EXCEPT ![p] = IdlePush]
  /\ UNCHANGED <<counters, local, memory, popping, sent, bound>>

-----------------------------------------------------------------------------
(* Consumer::peek() and Consumer::pop(n)                                    *)

\* peek returns where the oldest payload begins and its size, without a lock.
basePeek(pos) == (Position(cTail, Capacity) + pos) % Capacity
peekPosition == Position(bTail, PayloadCapacity) % PayloadCapacity
peekSize == sizes[basePeek(0)]

PopAcquire(n) ==
  /\ popping.pc = "idle"
  /\ ChecksDepth => n <= getDepth(cHead, cTail)
  /\ acquireGlobalLock(Consumer)
  /\ popping' = [pc |-> "locked", n |-> n]
  /\ UNCHANGED <<counters, local, memory, pushing, sent, bound>>

\* pop throws when it finds fewer than n tokens, and does not release the lock.
PopCheck ==
  /\ popping.pc = "locked"
  /\ popping' = IF OutOfOrder(cHead, cTail) THEN [popping EXCEPT !.pc = "fatal"]
                ELSE IF popping.n > getDepth(cHead, cTail) THEN IdlePop
                ELSE [popping EXCEPT !.pc = "popping"]
  /\ UNCHANGED <<counters, local, memory, lock, pushing, sent, bound>>

\* Mutant: the size is read after the tail has advanced.
bytesOldestEntryLate == sizes[Position(cTail + popping.n, Capacity)]

\* Whatever n is, the payload tail advances by the size of the oldest token.
bytesOldestEntry == sizes[Position(cTail, Capacity)]

\* Mutant: pop empties the channel.
PopAdvanceDrains ==
  /\ popping.pc = "popping"
  /\ cTail' = cHead
  /\ bTail' = bHead
  /\ popping' = [popping EXCEPT !.pc = "releasing"]
  /\ UNCHANGED <<cHead, bHead, local, memory, lock, pushing, sent, bound>>

PopAdvance ==
  /\ popping.pc = "popping"
  /\ IF AdvanceTailFatal(cHead, cTail, popping.n)
       THEN UNCHANGED cTail
       ELSE cTail' = cTail + popping.n
  /\ IF AdvanceTailFatal(cHead, cTail, popping.n) \/ AdvanceTailFatal(bHead, bTail, bytesOldestEntry)
       THEN popping' = [popping EXCEPT !.pc = "fatal"] /\ UNCHANGED bTail
       ELSE popping' = [popping EXCEPT !.pc = "releasing"] /\ bTail' = bTail + bytesOldestEntry
  /\ UNCHANGED <<cHead, bHead, local, memory, lock, pushing, sent, bound>>

PopRelease ==
  /\ popping.pc = "releasing"
  /\ releaseGlobalLock(Consumer)
  /\ popping' = IdlePop
  /\ UNCHANGED <<counters, local, memory, pushing, sent, bound>>

-----------------------------------------------------------------------------
PushCompletes(p) ==
  \/ updateDepth(p) \/ PushCheck(p) \/ SizeLands(p)
  \/ \E chunk \in pushing[p].chunks : ChunkLands(p, chunk)
  \/ PushFence(p) \/ CountHeadLands(p) \/ PayloadHeadLands(p) \/ PushRelease(p)

PopCompletes == PopCheck \/ PopAdvance \/ PopRelease

\* The applications have no more tokens to push and have popped them all.
Finished ==
  /\ \A p \in Producers : sent[p] = MaxTokens /\ pushing[p].pc = "idle"
  /\ popping.pc = "idle" /\ lock = Free /\ cHead = cTail
  /\ UNCHANGED vars

Next ==
  \/ \E p \in Producers : (\E size \in Sizes : PushAcquire(p, size)) \/ PushCompletes(p)
  \/ \E n \in Pops : PopAcquire(n)
  \/ PopCompletes
  \/ Finished

Spec == Init /\ [][Next]_vars

\* A call that holds the lock runs to its end.
FairSpec ==
  /\ Spec
  /\ \A p \in Producers : WF_vars(PushCompletes(p))
  /\ WF_vars(PopCompletes)

-----------------------------------------------------------------------------
(* Properties                                                               *)

Tokens == Producers \X Nat

\* The type invariant.
TypeOK ==
  /\ \A c \in {cHead, cTail, bHead, bTail} : c \in Nat
  /\ local \in [Producers -> [cHead : Nat, cTail : Nat, bHead : Nat, bTail : Nat]]
  /\ sizes \in [0 .. Capacity - 1 -> Sizes \cup {0}]
  /\ payload \in [0 .. PayloadCapacity - 1 -> Tokens \cup {NoToken}]
  /\ lock \in Producers \cup {Consumer, Free}
  /\ pushing \in [Producers ->
        [pc : {"idle", "locked", "fetched", "sizing", "copying", "publishing", "countHeadLanded",
               "payloadHeadLanded", "releasing", "fatal"},
         size : Sizes \cup {0}, chunks : SUBSET SUBSET (0 .. PayloadCapacity - 1)]]
  /\ popping \in [pc : {"idle", "locked", "popping", "releasing", "fatal"}, n : Pops \cup {0}]
  /\ sent \in [Producers -> Nat]
  /\ DOMAIN bound \in {0 .. cHead, 0 .. cHead + 1} /\ \A k \in DOMAIN bound : bound[k] \in Nat

\* Whenever nobody holds the lock, the byte counters are where the token
\* counters say: no call leaves one circular buffer ahead of the other, and so
\* no participant reaches a fatal exception of either.
CountersInStep ==
  /\ lock = Free => bTail = bound[cTail] /\ bHead = bound[cHead]
  /\ popping.pc # "fatal" /\ \A p \in Producers : pushing[p].pc # "fatal"

\* The memory of the k-th token of the channel.
Region(k) == {Position(c, PayloadCapacity) : c \in bound[k] .. bound[k + 1] - 1}

\* peek, called without the lock between two pops, finds the oldest token and
\* its size as soon as the count shows it, even before the payload head lands.
PeekFindsOldestToken ==
  (popping.pc = "idle" /\ cTail < cHead) =>
     /\ {(peekPosition + i) % PayloadCapacity : i \in 0 .. peekSize - 1} = Region(cTail)
     /\ \A b, c \in Region(cTail) : payload[b] = payload[c] /\ payload[b] \in Tokens

\* The payloads behave as one bounded queue, first-in first-out per producer.
Shared == INSTANCE SharedFifo WITH
  MaxBatch <- 1,
  queue <- [i \in 1 .. getDepth(cHead, cTail) |-> payload[Position(bound[cTail + i - 1], PayloadCapacity)]],
  next <- sent

RefinesSharedFifo == Shared!SharedSpec

\* Whoever takes the lock gives it back on every path through push and pop.
LockIsReleased == \A o \in Producers \cup {Consumer} : lock = o ~> lock # o

\* A pop that has returned, with or without tokens removed, holds no lock.
ReturnedPopHoldsNoLock == popping.pc = "idle" => lock # Consumer
=============================================================================
