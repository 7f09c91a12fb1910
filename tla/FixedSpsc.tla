------------------------------ MODULE FixedSpsc ------------------------------
(***************************************************************************)
(* The fixed-size single-producer single-consumer channel                   *)
(* (frontends/channel/fixedSize/spsc).  Each side has a coordination buffer *)
(* with a head and a tail counter.  The producer owns the head: it advances *)
(* its own and copies it to the consumer.  The consumer owns the tail: it   *)
(* advances its own and copies it to the producer.  Each side's view of the *)
(* other's counter may therefore be stale.  The token buffer is at the      *)
(* consumer and the producer writes it with one-sided copies.               *)
(*                                                                          *)
(* A copy may land at any moment between its memcpy and the return of the   *)
(* fence after it, and copies between two fences land in any order.  A push *)
(* or pop that throws a logic or runtime exception changes nothing and is   *)
(* not a step.  Tokens are numbered: the source buffer of a push of n       *)
(* tokens holds pHead .. pHead + n - 1.                                     *)
(***************************************************************************)
EXTENDS CircularBuffer

CONSTANTS
  Capacity,   \* capacity of the channel, in tokens
  MaxPush,    \* most tokens a caller passes to one push
  MaxPop,     \* most tokens a caller asks one pop to remove
  MaxTokens   \* bound: tokens pushed in a behaviour

ASSUME FixedSpscAssumption ==
  /\ Capacity \in Nat \ {0}
  /\ MaxPush \in Nat \ {0}
  /\ MaxPop \in Nat \ {0}
  /\ MaxTokens \in Nat

NoToken == -1

VARIABLES
  pHead, pTail,   \* the producer's coordination buffer
  cHead, cTail,   \* the consumer's coordination buffer
  buffer,         \* the token buffer
  pushing,        \* the producer's call: where it is, its n, copies in flight
  popping         \* the consumer's call: where it is and its n

vars == <<pHead, pTail, cHead, cTail, buffer, pushing, popping>>

IdlePush == [pc |-> "idle", n |-> 0, copies |-> {}]
IdlePop == [pc |-> "idle", n |-> 0]

\* Both coordination buffers are zeroed before the channel is constructed.
Init ==
  /\ pHead = 0 /\ pTail = 0
  /\ cHead = 0 /\ cTail = 0
  /\ buffer = [p \in 0 .. Capacity - 1 |-> NoToken]
  /\ pushing = IdlePush
  /\ popping = IdlePop

-----------------------------------------------------------------------------
(* Producer::push(sourceSlot, n), from the capacity check to the last fence *)

\* Mutant: the capacity check forgets the size of the batch.
PushStartIgnoresBatch(n) ==
  /\ pushing.pc = "idle"
  /\ pHead + n <= MaxTokens
  /\ getDepth(pHead, pTail) < Capacity
  /\ pushing' = [pc |-> "copying", n |-> n, copies |-> 0 .. n - 1]
  /\ UNCHANGED <<pHead, pTail, cHead, cTail, buffer, popping>>

\* Mutant: the capacity check is off by one.
PushStartOneTooMany(n) ==
  /\ pushing.pc = "idle"
  /\ pHead + n <= MaxTokens
  /\ getDepth(pHead, pTail) + n <= Capacity + 1
  /\ pushing' = [pc |-> "copying", n |-> n, copies |-> 0 .. n - 1]
  /\ UNCHANGED <<pHead, pTail, cHead, cTail, buffer, popping>>

PushStart(n) ==
  /\ pushing.pc = "idle"
  /\ pHead + n <= MaxTokens
  /\ IF OutOfOrder(pHead, pTail)
       THEN pushing' = [pushing EXCEPT !.pc = "fatal"]
       ELSE /\ getDepth(pHead, pTail) + n <= Capacity
            /\ pushing' = [pc |-> "copying", n |-> n, copies |-> 0 .. n - 1]
  /\ UNCHANGED <<pHead, pTail, cHead, cTail, buffer, popping>>

\* The loop copies every token to the head position, which it does not move.
PushDestination(i) == Position(pHead, Capacity)

PushCopyLands(i) ==
  /\ pushing.pc = "copying"
  /\ i \in pushing.copies
  /\ buffer' = [buffer EXCEPT ![PushDestination(i)] = pHead + i]
  /\ pushing' = [pushing EXCEPT !.copies = @ \ {i}]
  /\ UNCHANGED <<pHead, pTail, cHead, cTail, popping>>

\* Mutant: no fence between the payload and the head counter.
PushAdvanceNoFence ==
  /\ pushing.pc = "copying"
  /\ pushing' = [pushing EXCEPT !.pc = "notifying"]
  /\ pHead' = pHead + pushing.n
  /\ UNCHANGED <<pTail, cHead, cTail, buffer, popping>>

\* The payload fence returns, then advanceHead(n) reads both counters again.
PushAdvance ==
  /\ pushing.pc = "copying"
  /\ pushing.copies = {}
  /\ IF AdvanceHeadFatal(pHead, pTail, pushing.n, Capacity)
       THEN pushing' = [pushing EXCEPT !.pc = "fatal"] /\ UNCHANGED pHead
       ELSE pushing' = [pushing EXCEPT !.pc = "notifying"] /\ pHead' = pHead + pushing.n
  /\ UNCHANGED <<pTail, cHead, cTail, buffer, popping>>

\* Mutant: the remote head is incremented instead of overwritten.
PushNotifyIncrements ==
  /\ pushing.pc = "notifying"
  /\ cHead' = cHead + 1
  /\ pushing' = IdlePush
  /\ UNCHANGED <<pHead, pTail, cTail, buffer, popping>>

\* Mutant: the head counter is not sent.
PushNotifyMissing ==
  /\ pushing.pc = "notifying"
  /\ pushing' = IdlePush
  /\ UNCHANGED <<pHead, pTail, cHead, cTail, buffer, popping>>

\* The head counter lands at the consumer and the second fence returns.
PushNotify ==
  /\ pushing.pc = "notifying"
  /\ cHead' = pHead
  /\ pushing' = IdlePush
  /\ UNCHANGED <<pHead, pTail, cTail, buffer, popping>>

-----------------------------------------------------------------------------
(* Consumer::peek(pos) and Consumer::pop(n)                                 *)

peek(pos) == (Position(cTail, Capacity) + pos) % Capacity

PopStart(n) ==
  /\ popping.pc = "idle"
  /\ n <= Capacity
  /\ IF OutOfOrder(cHead, cTail)
       THEN popping' = [popping EXCEPT !.pc = "fatal"]
       ELSE /\ n <= getDepth(cHead, cTail)
            /\ popping' = [pc |-> "popping", n |-> n]
  /\ UNCHANGED <<pHead, pTail, cHead, cTail, buffer, pushing>>

\* advanceTail(n) reads both counters again.
PopAdvance ==
  /\ popping.pc = "popping"
  /\ IF AdvanceTailFatal(cHead, cTail, popping.n)
       THEN popping' = [popping EXCEPT !.pc = "fatal"] /\ UNCHANGED cTail
       ELSE popping' = [popping EXCEPT !.pc = "notifying"] /\ cTail' = cTail + popping.n
  /\ UNCHANGED <<pHead, pTail, cHead, buffer, pushing>>

\* Mutant: the wrong element of the coordination buffer is sent.
PopNotifySendsHead ==
  /\ popping.pc = "notifying"
  /\ pTail' = cHead
  /\ popping' = IdlePop
  /\ UNCHANGED <<pHead, cHead, cTail, buffer, pushing>>

PopNotify ==
  /\ popping.pc = "notifying"
  /\ pTail' = cTail
  /\ popping' = IdlePop
  /\ UNCHANGED <<pHead, cHead, cTail, buffer, pushing>>

-----------------------------------------------------------------------------
Producer ==
  \/ \E n \in 0 .. MaxPush : PushStart(n)
  \/ \E i \in 0 .. MaxPush - 1 : PushCopyLands(i)
  \/ PushAdvance
  \/ PushNotify

Consumer ==
  \/ \E n \in 0 .. MaxPop : PopStart(n)
  \/ PopAdvance
  \/ PopNotify

Next == Producer \/ Consumer

Spec == Init /\ [][Next]_vars

(***************************************************************************)
(* Fairness.  A call that has begun runs to its end, copies land, and the   *)
(* consumer's application does not ignore a non-empty channel forever       *)
(* ("while (consumer.isEmpty()) consumer.updateDepth(); consumer.pop();").  *)
(* Nothing is assumed of the producer's application.                        *)
(***************************************************************************)
PushCompletes ==
  \/ \E i \in 0 .. MaxPush - 1 : PushCopyLands(i)
  \/ PushAdvance
  \/ PushNotify

PopCompletes == PopAdvance \/ PopNotify

FairSpec ==
  /\ Spec
  /\ WF_vars(PushCompletes)
  /\ WF_vars(PopCompletes)
  /\ SF_vars(\E n \in 1 .. MaxPop : PopStart(n))

-----------------------------------------------------------------------------
(* Properties                                                               *)

TypeOK ==
  /\ pHead \in Nat /\ pTail \in Nat
  /\ cHead \in Nat /\ cTail \in Nat
  /\ buffer \in [0 .. Capacity - 1 -> Nat \cup {NoToken}]
  /\ pushing \in [pc : {"idle", "copying", "notifying", "fatal"},
                  n : 0 .. MaxPush, copies : SUBSET (0 .. MaxPush - 1)]
  /\ popping \in [pc : {"idle", "popping", "notifying", "fatal"}, n : 0 .. MaxPop]

\* Stale counters are stale on the safe side: the producer never believes
\* there is more room than there is, nor the consumer more tokens than there
\* are, although each side reads the other's counter unsynchronised.
StaleOnTheSafeSide ==
  /\ pTail <= cTail /\ cTail <= cHead /\ cHead <= pHead
  /\ pHead - pTail <= Capacity

\* No interleaving of push and pop reaches one of the fatal exceptions of the
\* circular buffer ("This is probably a bug in HiCR"): the capacity and depth
\* checks made before the copies still hold when the counters are re-read.
NoFatal == pushing.pc # "fatal" /\ popping.pc # "fatal"

\* No step writes a slot of the token buffer that peek may return: a position
\* the consumer holds keeps its token until the consumer pops it.
PeekedTokensStable ==
  [][\A pos \in 0 .. getDepth(cHead, cTail) - 1 :
       buffer'[peek(pos)] = buffer[peek(pos)]]_vars

\* peek(pos) finds the token that was pushed pos places after the oldest one
\* not yet popped: nothing is lost, duplicated, reordered or half written.
TokensInOrder ==
  \A pos \in 0 .. getDepth(cHead, cTail) - 1 : buffer[peek(pos)] = cTail + pos

\* The tokens the consumer can see behave as a bounded first-in first-out
\* queue, which push extends when its head counter lands and pop shortens
\* when it advances the tail.
Fifo == INSTANCE BoundedFifo WITH
  MaxBatch <- IF MaxPush > MaxPop THEN MaxPush ELSE MaxPop,
  queue <- [i \in 1 .. getDepth(cHead, cTail) |-> buffer[peek(i - 1)]],
  next <- cHead

RefinesBoundedFifo == Fifo!FifoSpec

\* A token that push has accepted is eventually popped.
TokensDelivered == \A k \in 0 .. MaxTokens - 1 : pHead > k ~> cTail > k

=============================================================================
