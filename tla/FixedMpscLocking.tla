--------------------------- MODULE FixedMpscLocking ---------------------------
(***************************************************************************)
(* The locking fixed-size multiple-producer single-consumer channel         *)
(* (frontends/channel/fixedSize/mpsc/locking).  There is one coordination   *)
(* buffer that counts, the consumer's, guarded by a global lock.  A push    *)
(* takes the lock, fetches both counters, copies its tokens, writes BOTH    *)
(* counters back and releases the lock; peek and pop take the same lock.    *)
(*                                                                          *)
(* A call that finds the lock taken, or too few tokens or slots, returns    *)
(* false: not getting the lock is not a step, the others release it again.  *)
(* The i-th token of a push by p is <<p, sent[p] + i>>.                     *)
(***************************************************************************)
EXTENDS CircularBuffer, FiniteSets

CONSTANTS
  Producers,
  Consumer,   \* the consumer as an owner of the lock
  Free,       \* the lock has no owner
  NoToken,    \* content of a slot never written
  Capacity,   \* capacity of the channel, in tokens
  MaxPush,    \* most tokens a caller passes to one push
  MaxPop,     \* most tokens a caller asks one pop to remove
  MaxTokens   \* bound: tokens pushed by one producer in a behaviour

ASSUME FixedMpscLockingAssumption ==
  /\ Consumer \notin Producers /\ Free \notin Producers /\ Consumer # Free
  /\ Capacity \in Nat \ {0}
  /\ MaxPush \in Nat \ {0}
  /\ MaxPop \in Nat \ {0}
  /\ MaxTokens \in Nat

VARIABLES
  head, tail,     \* the consumer's coordination buffer
  pHead, pTail,   \* each producer's coordination buffer
  buffer,         \* the token buffer
  lock,           \* owner of the consumer's coordination buffer
  pushing,        \* each producer's call: where it is, its n, copies in flight
  popping,        \* the consumer's call: where it is, its argument
  peeked,         \* the buffer position the consumer's last peek returned, or -1
  sent            \* tokens of each producer whose head counter has landed

local == <<pHead, pTail>>
vars == <<head, tail, pHead, pTail, buffer, lock, pushing, popping, peeked, sent>>

IdlePush == [pc |-> "idle", n |-> 0, copies |-> {}]
IdlePop == [pc |-> "idle", n |-> 0]

Init ==
  /\ head = 0 /\ tail = 0
  /\ pHead = [p \in Producers |-> 0]
  /\ pTail = [p \in Producers |-> 0]
  /\ buffer = [b \in 0 .. Capacity - 1 |-> NoToken]
  /\ lock = Free
  /\ pushing = [p \in Producers |-> IdlePush]
  /\ popping = IdlePop
  /\ peeked = -1
  /\ sent = [p \in Producers |-> 0]

-----------------------------------------------------------------------------
(* The global lock of a memory slot                                         *)

\* acquireGlobalLock: only one of the two outcomes is a step.
acquireGlobalLock(owner) == lock = Free /\ lock' = owner
releaseGlobalLock(owner) == lock = owner /\ lock' = Free

-----------------------------------------------------------------------------
(* Producer::push(sourceSlot, n)                                            *)

PushAcquire(p, n) ==
  /\ pushing[p].pc = "idle"
  /\ sent[p] + n <= MaxTokens
  /\ acquireGlobalLock(p)
  /\ pushing' = [pushing EXCEPT ![p] = [pc |-> "locked", n |-> n, copies |-> {}]]
  /\ UNCHANGED <<head, tail, local, buffer, popping, peeked, sent>>

\* Mutant: only the head is fetched.
PushFetchHeadOnly(p) ==
  /\ pushing[p].pc = "locked"
  /\ pHead' = [pHead EXCEPT ![p] = head]
  /\ pushing' = [pushing EXCEPT ![p].pc = "fetched"]
  /\ UNCHANGED <<head, tail, pTail, buffer, lock, popping, peeked, sent>>

\* The consumer's coordination buffer is fetched into the producer's.
PushFetch(p) ==
  /\ pushing[p].pc = "locked"
  /\ pHead' = [pHead EXCEPT ![p] = head]
  /\ pTail' = [pTail EXCEPT ![p] = tail]
  /\ pushing' = [pushing EXCEPT ![p].pc = "fetched"]
  /\ UNCHANGED <<head, tail, buffer, lock, popping, peeked, sent>>

\* Mutant: a push that finds no room returns without releasing the lock.
PushIssueReturnsEarly(p) ==
  /\ pushing[p].pc = "fetched"
  /\ IF getDepth(pHead[p], pTail[p]) + pushing[p].n <= Capacity
       THEN /\ pushing' = [pushing EXCEPT ![p] = [@ EXCEPT !.pc = "copying", !.copies = 0 .. pushing[p].n - 1]]
            /\ pHead' = [pHead EXCEPT ![p] = @ + pushing[p].n]
       ELSE /\ pushing' = [pushing EXCEPT ![p] = IdlePush]
            /\ UNCHANGED pHead
  /\ UNCHANGED <<head, tail, pTail, buffer, lock, popping, peeked, sent>>

\* The capacity check and the loop that issues the copies, advancing the
\* private head after each.  advanceHead repeats the check just made.
PushIssue(p) ==
  /\ pushing[p].pc = "fetched"
  /\ LET n == pushing[p].n
     IN  IF OutOfOrder(pHead[p], pTail[p])
           THEN /\ pushing' = [pushing EXCEPT ![p].pc = "fatal"]
                /\ UNCHANGED pHead
           ELSE IF getDepth(pHead[p], pTail[p]) + n <= Capacity
             THEN /\ pushing' = [pushing EXCEPT ![p] = [@ EXCEPT !.pc = "copying", !.copies = 0 .. n - 1]]
                  /\ pHead' = [pHead EXCEPT ![p] = @ + n]
             ELSE /\ pushing' = [pushing EXCEPT ![p].pc = "releasing"]
                  /\ UNCHANGED pHead
  /\ UNCHANGED <<head, tail, pTail, buffer, lock, popping, peeked, sent>>

\* Where the loop's i-th copy goes, the private head having advanced by n.
PushDestination(p, i) == Position(pHead[p] - pushing[p].n + i, Capacity)

PushCopyLands(p, i) ==
  /\ pushing[p].pc = "copying"
  /\ i \in pushing[p].copies
  /\ buffer' = [buffer EXCEPT ![PushDestination(p, i)] = <<p, sent[p] + i>>]
  /\ pushing' = [pushing EXCEPT ![p].copies = @ \ {i}]
  /\ UNCHANGED <<head, tail, local, lock, popping, peeked, sent>>

\* The payload fence returns and both counters are sent back.
PushFence(p) ==
  /\ pushing[p].pc = "copying"
  /\ pushing[p].copies = {}
  /\ pushing' = [pushing EXCEPT ![p].pc = "publishing"]
  /\ UNCHANGED <<head, tail, local, buffer, lock, popping, peeked, sent>>

\* The head lands ...
PushHeadLands(p) ==
  /\ pushing[p].pc \in {"publishing", "tailLanded"}
  /\ head' = pHead[p]
  /\ sent' = [sent EXCEPT ![p] = @ + pushing[p].n]
  /\ pushing' = [pushing EXCEPT ![p].pc = IF @ = "publishing" THEN "headLanded" ELSE "releasing"]
  /\ UNCHANGED <<tail, local, buffer, lock, popping, peeked>>

\* ... and so does the tail, which is the consumer's to advance.
PushTailLands(p) ==
  /\ pushing[p].pc \in {"publishing", "headLanded"}
  /\ tail' = pTail[p]
  /\ pushing' = [pushing EXCEPT ![p].pc = IF @ = "publishing" THEN "tailLanded" ELSE "releasing"]
  /\ UNCHANGED <<head, local, buffer, lock, popping, peeked, sent>>

PushRelease(p) ==
  /\ pushing[p].pc = "releasing"
  /\ releaseGlobalLock(p)
  /\ pushing' = [pushing EXCEPT ![p] = IdlePush]
  /\ UNCHANGED <<head, tail, local, buffer, popping, peeked, sent>>

-----------------------------------------------------------------------------
(* Consumer::peek(pos) and Consumer::pop(n)                                 *)

PeekAcquire(pos) ==
  /\ popping.pc = "idle"
  /\ pos < Capacity
  /\ acquireGlobalLock(Consumer)
  /\ popping' = [pc |-> "peeking", n |-> pos]
  /\ peeked' = -1
  /\ UNCHANGED <<head, tail, local, buffer, pushing, sent>>

\* Mutant: the check of the position is off by one.
PeekResultBeyondDepth ==
  /\ popping.pc = "peeking"
  /\ popping' = [popping EXCEPT !.pc = "releasing"]
  /\ peeked' = IF popping.n <= getDepth(head, tail)
                 THEN (Position(tail, Capacity) + popping.n) % Capacity ELSE -1
  /\ UNCHANGED <<head, tail, local, buffer, lock, pushing, sent>>

PeekResult ==
  /\ popping.pc = "peeking"
  /\ IF OutOfOrder(head, tail)
       THEN popping' = [popping EXCEPT !.pc = "fatal"] /\ UNCHANGED peeked
       ELSE /\ popping' = [popping EXCEPT !.pc = "releasing"]
            /\ peeked' = IF popping.n < getDepth(head, tail)
                           THEN (Position(tail, Capacity) + popping.n) % Capacity
                           ELSE -1
  /\ UNCHANGED <<head, tail, local, buffer, lock, pushing, sent>>

PopAcquire(n) ==
  /\ popping.pc = "idle"
  /\ n <= Capacity
  /\ acquireGlobalLock(Consumer)
  /\ popping' = [pc |-> "popping", n |-> n]
  /\ UNCHANGED <<head, tail, local, buffer, pushing, peeked, sent>>

\* Mutant: pop of more tokens than there are empties the channel.
PopAdvanceAll ==
  /\ popping.pc = "popping"
  /\ tail' = tail + popping.n
  /\ peeked' = -1
  /\ popping' = [popping EXCEPT !.pc = "releasing"]
  /\ UNCHANGED <<head, local, buffer, lock, pushing, sent>>

\* A position that peek returned is not used once its token is popped.
PopAdvance ==
  /\ popping.pc = "popping"
  /\ IF OutOfOrder(head, tail)
       THEN popping' = [popping EXCEPT !.pc = "fatal"] /\ UNCHANGED <<tail, peeked>>
       ELSE /\ popping' = [popping EXCEPT !.pc = "releasing"]
            /\ IF popping.n <= getDepth(head, tail)
                 THEN tail' = tail + popping.n /\ peeked' = -1
                 ELSE UNCHANGED <<tail, peeked>>
  /\ UNCHANGED <<head, local, buffer, lock, pushing, sent>>

ConsumerRelease ==
  /\ popping.pc = "releasing"
  /\ releaseGlobalLock(Consumer)
  /\ popping' = IdlePop
  /\ UNCHANGED <<head, tail, local, buffer, pushing, peeked, sent>>

-----------------------------------------------------------------------------
PushCompletes(p) ==
  \/ PushFetch(p) \/ PushIssue(p)
  \/ \E i \in 0 .. MaxPush - 1 : PushCopyLands(p, i)
  \/ PushFence(p) \/ PushHeadLands(p) \/ PushTailLands(p) \/ PushRelease(p)

ConsumerCompletes == PeekResult \/ PopAdvance \/ ConsumerRelease

Next ==
  \/ \E p \in Producers : (\E n \in 0 .. MaxPush : PushAcquire(p, n)) \/ PushCompletes(p)
  \/ \E pos \in 0 .. MaxPop - 1 : PeekAcquire(pos)
  \/ \E n \in 0 .. MaxPop : PopAcquire(n)
  \/ ConsumerCompletes

Spec == Init /\ [][Next]_vars

\* A call that holds the lock runs to its end.
FairCalls ==
  /\ \A p \in Producers : WF_vars(PushCompletes(p))
  /\ WF_vars(ConsumerCompletes)

\* The consumer's application repeats pop until it is done, and one attempt
\* falls on a moment at which the lock is free.
FairSpec == Spec /\ FairCalls /\ SF_vars(PopAcquire(1))

-----------------------------------------------------------------------------
(* Properties                                                               *)

Tokens == Producers \X Nat

\* The type invariant.
TypeOK ==
  /\ head \in Nat /\ tail \in Nat
  /\ pHead \in [Producers -> Nat] /\ pTail \in [Producers -> Nat]
  /\ buffer \in [0 .. Capacity - 1 -> Tokens \cup {NoToken}]
  /\ lock \in Producers \cup {Consumer, Free}
  /\ pushing \in [Producers ->
        [pc : {"idle", "locked", "fetched", "copying", "publishing", "headLanded", "tailLanded",
               "releasing", "fatal"},
         n : 0 .. MaxPush, copies : SUBSET (0 .. MaxPush - 1)]]
  /\ popping \in [pc : {"idle", "peeking", "popping", "releasing", "fatal"}, n : 0 .. MaxPop]
  /\ peeked \in -1 .. Capacity - 1
  /\ sent \in [Producers -> Nat]

\* The counters are never out of order and never more than the capacity apart,
\* and no participant reaches a fatal exception.
CountersConsistent ==
  /\ tail <= head /\ head - tail <= Capacity
  /\ popping.pc # "fatal" /\ \A p \in Producers : pushing[p].pc # "fatal"

\* The buffer position a peek returned keeps its token after peek has released
\* the lock, whatever the producers do, until the consumer pops.
PeekedTokenStable ==
  [][(peeked # -1 /\ peeked' = peeked) => buffer'[peeked] = buffer[peeked]]_vars

\* The visible tokens behave as one bounded queue, first-in first-out for each
\* producer and with the tokens of a batch contiguous.
Shared == INSTANCE SharedFifo WITH
  MaxBatch <- IF MaxPush > MaxPop THEN MaxPush ELSE MaxPop,
  queue <- [i \in 1 .. getDepth(head, tail) |-> buffer[Position(tail + i - 1, Capacity)]],
  next <- sent

RefinesSharedFifo == Shared!SharedSpec

\* A token whose push returned true is eventually popped.
TokensDelivered == \A k \in 1 .. MaxTokens : head >= k ~> tail >= k
=============================================================================
