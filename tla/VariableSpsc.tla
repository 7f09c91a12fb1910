----------------------------- MODULE VariableSpsc -----------------------------
(***************************************************************************)
(* The variable-size single-producer single-consumer channel                *)
(* (frontends/channel/variableSize/spsc).  It runs two circular buffers in  *)
(* step: one counts tokens and holds the size of each, the other counts     *)
(* bytes and holds the payloads.  Each has a head and a tail at either      *)
(* side, copied one way as in the fixed-size channel.                       *)
(*                                                                          *)
(* A payload is written and peeked as one contiguous region.  One that does *)
(* not fit before the end of the payload buffer runs on into an excess      *)
(* buffer behind it, while the byte counters wrap as if it did not exist.   *)
(*                                                                          *)
(* The k-th token pushed is token k; bound[k] is the byte counter at which  *)
(* it begins and bound[k + 1] the one at which it ends (a history variable: *)
(* no action reads it).  A byte of payload memory shows its token's number. *)
(***************************************************************************)
EXTENDS CircularBuffer

CONSTANTS
  Capacity,          \* tokens the channel holds
  PayloadCapacity,   \* bytes the channel holds
  Sizes,             \* sizes of the tokens callers push
  MaxPop,            \* most tokens a caller asks one pop to remove
  MaxTokens          \* bound: tokens pushed in a behaviour

ASSUME VariableSpscAssumption ==
  /\ Capacity \in Nat \ {0}
  /\ PayloadCapacity \in Nat \ {0}
  /\ Sizes \subseteq Nat
  /\ MaxPop \in Nat \ {0}
  /\ MaxTokens \in Nat

NoToken == -1

VARIABLES
  pcHead, pcTail,   \* the producer's coordination buffer for counts
  ppHead, ppTail,   \* the producer's coordination buffer for payloads
  ccHead, ccTail,   \* the consumer's coordination buffer for counts
  cpHead, cpTail,   \* the consumer's coordination buffer for payloads
  sizes,            \* the token buffer, holding sizes
  payload,          \* the payload buffer and the excess buffer behind it
  pushing,          \* the producer's call: where it is and its token's size
  popping,          \* the consumer's call: where it is, n, tokens and bytes summed
  bound             \* history: where each token begins and ends

producerCounters == <<pcHead, pcTail, ppHead, ppTail>>
consumerCounters == <<ccHead, ccTail, cpHead, cpTail>>
vars == <<pcHead, pcTail, ppHead, ppTail, ccHead, ccTail, cpHead, cpTail,
          sizes, payload, pushing, popping, bound>>

\* getPayloadBufferSize: the excess buffer is as large as the payload buffer.
PayloadBufferSize == 2 * PayloadCapacity

IdlePush == [pc |-> "idle", size |-> 0]
IdlePop == [pc |-> "idle", n |-> 0, i |-> 0, bytes |-> 0]

Init ==
  /\ pcHead = 0 /\ pcTail = 0 /\ ppHead = 0 /\ ppTail = 0
  /\ ccHead = 0 /\ ccTail = 0 /\ cpHead = 0 /\ cpTail = 0
  /\ sizes = [p \in 0 .. Capacity - 1 |-> 0]
  /\ payload = [b \in 0 .. PayloadBufferSize - 1 |-> NoToken]
  /\ pushing = IdlePush
  /\ popping = IdlePop
  /\ bound = [k \in {0} |-> 0]

-----------------------------------------------------------------------------
(* Producer::push(sourceSlot): first the payload, then its size             *)

\* Producer::isFull(requiredBufferSize).
isFullFor(size) ==
  \/ getDepth(pcHead, pcTail) = Capacity
  \/ getDepth(ppHead, ppTail) + size > PayloadCapacity

PushStart(size) ==
  /\ pushing.pc = "idle"
  /\ pcHead < MaxTokens
  /\ IF OutOfOrder(pcHead, pcTail) \/ OutOfOrder(ppHead, ppTail)
       THEN pushing' = [pushing EXCEPT !.pc = "fatal"] /\ UNCHANGED bound
       ELSE /\ ~isFullFor(size)
            /\ pushing' = [pc |-> "copying", size |-> size]
            /\ bound' = [k \in 0 .. pcHead + 1 |->
                           IF k = pcHead + 1 THEN ppHead + size ELSE bound[k]]
  /\ UNCHANGED <<producerCounters, consumerCounters, sizes, payload, popping>>

\* Mutant: the payload is written at the tail position.
PayloadLandsAtTail ==
  /\ pushing.pc = "copying"
  /\ LET first == Position(ppTail, PayloadCapacity)
     IN  payload' = [b \in DOMAIN payload |->
                       IF b \in first .. first + pushing.size - 1 THEN pcHead ELSE payload[b]]
  /\ pushing' = [pushing EXCEPT !.pc = "copied"]
  /\ UNCHANGED <<producerCounters, consumerCounters, sizes, popping, bound>>

\* The one copy of the payload, from the head position on, without wrapping.
PayloadLands ==
  /\ pushing.pc = "copying"
  /\ LET first == Position(ppHead, PayloadCapacity)
     IN  payload' = [b \in DOMAIN payload |->
                       IF b \in first .. first + pushing.size - 1 THEN pcHead ELSE payload[b]]
  /\ pushing' = [pushing EXCEPT !.pc = "copied"]
  /\ UNCHANGED <<producerCounters, consumerCounters, sizes, popping, bound>>

\* The payload fence returns and the head of the payloads advances.
AdvancePayload ==
  /\ pushing.pc = "copied"
  /\ IF AdvanceHeadFatal(ppHead, ppTail, pushing.size, PayloadCapacity)
       THEN pushing' = [pushing EXCEPT !.pc = "fatal"] /\ UNCHANGED ppHead
       ELSE pushing' = [pushing EXCEPT !.pc = "notifyPayload"] /\ ppHead' = ppHead + pushing.size
  /\ UNCHANGED <<pcHead, pcTail, ppTail, consumerCounters, sizes, payload, popping, bound>>

NotifyPayload ==
  /\ pushing.pc = "notifyPayload"
  /\ cpHead' = ppHead
  /\ pushing' = [pushing EXCEPT !.pc = "sizing"]
  /\ UNCHANGED <<producerCounters, ccHead, ccTail, cpTail, sizes, payload, popping, bound>>

SizeLands ==
  /\ pushing.pc = "sizing"
  /\ sizes' = [sizes EXCEPT ![Position(pcHead, Capacity)] = pushing.size]
  /\ pushing' = [pushing EXCEPT !.pc = "sized"]
  /\ UNCHANGED <<producerCounters, consumerCounters, payload, popping, bound>>

AdvanceCount ==
  /\ pushing.pc = "sized"
  /\ IF AdvanceHeadFatal(pcHead, pcTail, 1, Capacity)
       THEN pushing' = [pushing EXCEPT !.pc = "fatal"] /\ UNCHANGED pcHead
       ELSE pushing' = [pushing EXCEPT !.pc = "notifyCount"] /\ pcHead' = pcHead + 1
  /\ UNCHANGED <<pcTail, ppHead, ppTail, consumerCounters, sizes, payload, popping, bound>>

NotifyCount ==
  /\ pushing.pc = "notifyCount"
  /\ ccHead' = pcHead
  /\ pushing' = IdlePush
  /\ UNCHANGED <<producerCounters, ccTail, cpHead, cpTail, sizes, payload, popping, bound>>

-----------------------------------------------------------------------------
(* Consumer::peek() and Consumer::pop(n)                                    *)

basePeek(pos) == (Position(ccTail, Capacity) + pos) % Capacity

\* peek returns where the oldest payload begins and its size.
peekPosition == Position(cpTail, PayloadCapacity) % PayloadCapacity
peekSize == sizes[basePeek(0)]

PopStart(n) ==
  /\ popping.pc = "idle"
  /\ n <= Capacity
  /\ IF OutOfOrder(ccHead, ccTail)
       THEN popping' = [popping EXCEPT !.pc = "fatal"]
       ELSE /\ n <= getDepth(ccHead, ccTail)
            /\ popping' = [pc |-> "summing", n |-> n, i |-> 0, bytes |-> 0]
  /\ UNCHANGED <<producerCounters, consumerCounters, sizes, payload, pushing, bound>>

\* Mutant: only the oldest token's bytes are counted.
SumSizeOldestOnly ==
  /\ popping.pc = "summing"
  /\ popping.i < popping.n
  /\ popping' = [popping EXCEPT !.i = @ + 1, !.bytes = sizes[basePeek(0)]]
  /\ UNCHANGED <<producerCounters, consumerCounters, sizes, payload, pushing, bound>>

\* One round of the loop of getOldPayloadBytes(n).
SumSize ==
  /\ popping.pc = "summing"
  /\ popping.i < popping.n
  /\ popping' = [popping EXCEPT !.i = @ + 1, !.bytes = @ + sizes[basePeek(popping.i)]]
  /\ UNCHANGED <<producerCounters, consumerCounters, sizes, payload, pushing, bound>>

\* advanceTail(n) on the counts, then advanceTail(payloadBytes) on the payloads.
PopAdvance ==
  /\ popping.pc = "summing"
  /\ popping.i = popping.n
  /\ IF AdvanceTailFatal(ccHead, ccTail, popping.n)
       THEN UNCHANGED ccTail
       ELSE ccTail' = ccTail + popping.n
  /\ IF AdvanceTailFatal(ccHead, ccTail, popping.n) \/ AdvanceTailFatal(cpHead, cpTail, popping.bytes)
       THEN popping' = [popping EXCEPT !.pc = "fatal"] /\ UNCHANGED cpTail
       ELSE popping' = [popping EXCEPT !.pc = "notifying"] /\ cpTail' = cpTail + popping.bytes
  /\ UNCHANGED <<producerCounters, ccHead, cpHead, sizes, payload, pushing, bound>>

\* Both tails are sent before the fences, so either may land first.
CountTailLands ==
  /\ popping.pc \in {"notifying", "payloadTailLanded"}
  /\ pcTail' = ccTail
  /\ popping' = IF popping.pc = "notifying" THEN [popping EXCEPT !.pc = "countTailLanded"] ELSE IdlePop
  /\ UNCHANGED <<pcHead, ppHead, ppTail, consumerCounters, sizes, payload, pushing, bound>>

\* Mutant: the head of the payloads is sent in place of the tail.
PayloadTailLandsWithHead ==
  /\ popping.pc \in {"notifying", "countTailLanded"}
  /\ ppTail' = cpHead
  /\ popping' = IF popping.pc = "notifying" THEN [popping EXCEPT !.pc = "payloadTailLanded"] ELSE IdlePop
  /\ UNCHANGED <<pcHead, pcTail, ppHead, consumerCounters, sizes, payload, pushing, bound>>

\* Mutant: the tail of the payloads is not sent.
PayloadTailNotSent ==
  /\ popping.pc \in {"notifying", "countTailLanded"}
  /\ popping' = IF popping.pc = "notifying" THEN [popping EXCEPT !.pc = "payloadTailLanded"] ELSE IdlePop
  /\ UNCHANGED <<producerCounters, consumerCounters, sizes, payload, pushing, bound>>

PayloadTailLands ==
  /\ popping.pc \in {"notifying", "countTailLanded"}
  /\ ppTail' = cpTail
  /\ popping' = IF popping.pc = "notifying" THEN [popping EXCEPT !.pc = "payloadTailLanded"] ELSE IdlePop
  /\ UNCHANGED <<pcHead, pcTail, ppHead, consumerCounters, sizes, payload, pushing, bound>>

-----------------------------------------------------------------------------
PushCompletes ==
  \/ PayloadLands \/ AdvancePayload \/ NotifyPayload
  \/ SizeLands \/ AdvanceCount \/ NotifyCount

PopCompletes == SumSize \/ PopAdvance \/ CountTailLands \/ PayloadTailLands

Next ==
  \/ \E size \in Sizes : PushStart(size)
  \/ PushCompletes
  \/ \E n \in 0 .. MaxPop : PopStart(n)
  \/ PopCompletes

Spec == Init /\ [][Next]_vars

\* Calls run to their end, copies land, and the consumer's application does
\* not ignore a non-empty channel forever.
FairSpec ==
  /\ Spec
  /\ WF_vars(PushCompletes)
  /\ WF_vars(PopCompletes)
  /\ SF_vars(\E n \in 1 .. MaxPop : PopStart(n))

-----------------------------------------------------------------------------
(* Properties                                                               *)

TypeOK ==
  /\ \A c \in {pcHead, pcTail, ppHead, ppTail, ccHead, ccTail, cpHead, cpTail} : c \in Nat
  /\ sizes \in [0 .. Capacity - 1 -> Sizes \cup {0}]
  /\ payload \in [0 .. PayloadBufferSize - 1 -> Nat \cup {NoToken}]
  /\ pushing \in [pc : {"idle", "copying", "copied", "notifyPayload", "sizing", "sized",
                        "notifyCount", "fatal"},
                  size : Sizes \cup {0}]
  /\ popping \in [pc : {"idle", "summing", "notifying", "countTailLanded",
                        "payloadTailLanded", "fatal"},
                  n : 0 .. MaxPop, i : 0 .. MaxPop, bytes : Nat]
  /\ bound \in [0 .. pcHead + (IF pushing.pc \in {"idle", "notifyCount", "fatal"} THEN 0 ELSE 1) -> Nat]

\* The counters of both circular buffers are stale on the safe side only,
\* although the tails of the two arrive at the producer in either order, and so
\* no interleaving makes either of them throw its fatal exception.
StaleOnTheSafeSide ==
  /\ pushing.pc # "fatal" /\ popping.pc # "fatal"
  /\ pcTail <= ccTail /\ ccTail <= ccHead /\ ccHead <= pcHead /\ pcHead - pcTail <= Capacity
  /\ ppTail <= cpTail /\ cpTail <= cpHead /\ cpHead <= ppHead /\ ppHead - ppTail <= PayloadCapacity

\* The bytes of payload memory that token k occupies.
Region(k) ==
  LET first == Position(bound[k], PayloadCapacity)
  IN  first .. first + (bound[k + 1] - bound[k]) - 1

\* Tokens whose payload is being written or has not been popped.
Live == ccTail .. (IF pushing.pc \in {"idle", "notifyCount"} THEN pcHead - 1 ELSE pcHead)

\* The excess buffer is large enough and never shared: tokens in the channel,
\* the one being pushed included, occupy disjoint regions inside it.
LiveRegionsDisjoint ==
  /\ \A k \in Live : Region(k) \subseteq 0 .. PayloadBufferSize - 1
  /\ \A j, k \in Live : j # k => Region(j) \cap Region(k) = {}

\* peek of a non-empty channel returns the region of the oldest token, and all
\* of its payload is there: the size is never seen before the payload.
PeekFindsOldestToken ==
  (popping.pc = "idle" /\ ccTail < ccHead) =>
     /\ peekPosition .. peekPosition + peekSize - 1 = Region(ccTail)
     /\ \A b \in Region(ccTail) : payload[b] = ccTail

\* No payload in the channel is overwritten before it is popped, and peek finds
\* it whole.
PayloadsIntact == LiveRegionsDisjoint /\ PeekFindsOldestToken

\* The payloads in the channel behave as a bounded first-in first-out queue.
Fifo == INSTANCE BoundedFifo WITH
  MaxBatch <- MaxPop,
  queue <- [i \in 1 .. getDepth(ccHead, ccTail) |->
              payload[Position(bound[ccTail + i - 1], PayloadCapacity)]],
  next <- ccHead

RefinesBoundedFifo == Fifo!FifoSpec

\* A producer waiting for room for a token that fits the payload buffer gets
\* it eventually: both tails come back, so neither buffer stays full.
RoomComesBack ==
  \A size \in {z \in Sizes : z <= PayloadCapacity} : isFullFor(size) ~> ~isFullFor(size)
=============================================================================
