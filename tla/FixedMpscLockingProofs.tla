------------------------ MODULE FixedMpscLockingProofs ------------------------
(***************************************************************************)
(* Proofs about the locking fixed-size MPSC channel, for every set of       *)
(* producers, capacity and batch size.                                      *)
(***************************************************************************)
EXTENDS FixedMpscLocking, CircularBufferProofs

(***************************************************************************)
(* The inductive invariant.                                                 *)
(***************************************************************************)

\* The producer has checked the capacity and its head has not landed yet.
Unpublished(call) == call.pc \in {"copying", "publishing", "tailLanded"}

\* Whoever is in a call holds the lock, and nobody else does.
LockHeld ==
  /\ \A p \in Producers : pushing[p].pc # "idle" <=> lock = p
  /\ popping.pc # "idle" <=> lock = Consumer

\* The counters a producer fetched are current for as long as it uses them: its
\* tail is the consumer's, and its head is the consumer's or, until that head
\* lands, ahead of it by a batch that fits.
Current(call, ph, pt, h, t) ==
  /\ call.pc \in {"fetched", "headLanded"} => ph = h /\ pt = t
  /\ Unpublished(call) => ph = h + call.n /\ pt = t /\ ph - t <= Capacity
  /\ call.copies \subseteq 0 .. call.n - 1
  /\ call.pc # "copying" => call.copies = {}

FetchedCurrent == \A p \in Producers : Current(pushing[p], pHead[p], pTail[p], head, tail)

\* A position that peek returned holds a token that has not been popped.
PeekedVisible ==
  peeked # -1 => \E k \in tail .. head - 1 : peeked = Position(k, Capacity)

IInv == TypeOK /\ CountersConsistent /\ LockHeld /\ FetchedCurrent /\ PeekedVisible

USE FixedMpscLockingAssumption
\* A leaf that names no prover goes to the SMT solver, for a minute at most.
USE SMTT(60)

\* The initial state satisfies the invariant.
LEMMA InitIInv == Init => IInv
<1> SUFFICES ASSUME Init PROVE IInv
  OBVIOUS
<1>1. IdlePush \in [pc : {"idle", "locked", "fetched", "copying", "publishing", "headLanded",
                          "tailLanded", "releasing", "fatal"},
                    n : 0 .. MaxPush, copies : SUBSET (0 .. MaxPush - 1)]
  BY DEF IdlePush
<1>2. TypeOK
  BY <1>1 DEF Init, TypeOK, IdlePop
<1> QED
  BY <1>2 DEF Init, IInv, CountersConsistent, LockHeld, FetchedCurrent, Current, Unpublished, PeekedVisible,
              IdlePush, IdlePop

Buffers == [0 .. Capacity - 1 -> Tokens \cup {NoToken}]

PushCalls ==
  [pc : {"idle", "locked", "fetched", "copying", "publishing", "headLanded", "tailLanded",
         "releasing", "fatal"},
   n : 0 .. MaxPush, copies : SUBSET (0 .. MaxPush - 1)]

\* A step of one producer's call changes no other call, and while it holds the
\* lock the other producers and the consumer are between two calls.
LEMMA OnePushMoves ==
  ASSUME IInv, NEW p \in Producers, lock = p,
         NEW r \in PushCalls, pushing' = [pushing EXCEPT ![p] = r]
  PROVE  /\ pushing' \in [Producers -> PushCalls]
         /\ pushing'[p] = r
         /\ popping.pc = "idle"
         /\ \A q \in Producers \ {p} : pushing'[q] = pushing[q] /\ pushing[q].pc = "idle"
         /\ \A q \in Producers \ {p} : Current(pushing'[q], pHead'[q], pTail'[q], head', tail')
<1>1. /\ pushing' \in [Producers -> PushCalls]
      /\ pushing'[p] = r
      /\ \A q \in Producers \ {p} : pushing'[q] = pushing[q]
  BY DEF IInv, TypeOK, PushCalls
<1>2. popping.pc = "idle" /\ \A q \in Producers \ {p} : pushing[q].pc = "idle" /\ pushing[q].copies = {}
  BY DEF IInv, LockHeld, FetchedCurrent, Current
<1>3. \A q \in Producers \ {p} : Current(pushing'[q], pHead'[q], pTail'[q], head', tail')
  BY <1>1, <1>2 DEF Current, Unpublished
<1> QED BY <1>1, <1>2, <1>3

\* What a step of the producer that holds the lock does to preserve the
\* invariant: its call becomes r, it may publish tokens, but neither undoes a
\* pop nor overfills the channel, and its own counters stay current.
LockedPush(p, r) ==
  /\ lock = p /\ UNCHANGED <<tail, lock, popping, peeked>>
  /\ pushing' = [pushing EXCEPT ![p] = r] /\ r.pc \notin {"idle", "fatal"}
  /\ head' \in Nat /\ head <= head' /\ head' - tail <= Capacity
  /\ pHead' \in [Producers -> Nat] /\ pTail' \in [Producers -> Nat]
  /\ buffer' \in Buffers /\ sent' \in [Producers -> Nat]
  /\ Current(r, pHead'[p], pTail'[p], head', tail')

\* Such a step preserves the invariant.
LEMMA LockedPushIInv ==
  ASSUME IInv, NEW p \in Producers, NEW r \in PushCalls, LockedPush(p, r)
  PROVE  IInv'
<1> SUFFICES ASSUME lock = p, UNCHANGED <<tail, lock, popping, peeked>>,
                    pushing' = [pushing EXCEPT ![p] = r], r.pc \notin {"idle", "fatal"},
                    NEW h \in Nat, head' = h, head <= h, h - tail <= Capacity,
                    pHead' \in [Producers -> Nat], pTail' \in [Producers -> Nat],
                    buffer' \in Buffers, sent' \in [Producers -> Nat],
                    Current(r, pHead'[p], pTail'[p], h, tail)
             PROVE  IInv'
  BY DEF LockedPush
<1>0. /\ head \in Nat /\ tail \in Nat /\ tail <= head /\ Capacity \in Nat
      /\ popping.pc # "fatal" /\ \A q \in Producers : pushing[q].pc # "fatal"
  BY DEF IInv, TypeOK, CountersConsistent
<1>1. /\ pushing' \in [Producers -> PushCalls] /\ pushing'[p] = r
      /\ popping.pc = "idle"
      /\ \A q \in Producers \ {p} : pushing'[q] = pushing[q] /\ pushing[q].pc = "idle"
      /\ \A q \in Producers \ {p} : Current(pushing'[q], pHead'[q], pTail'[q], head', tail')
  BY OnePushMoves, Zenon
<1>2. TypeOK'
  BY <1>0, <1>1 DEF IInv, TypeOK, PushCalls, Buffers
<1>3. LockHeld'
  BY <1>1 DEF LockHeld
<1>4. FetchedCurrent'
  BY <1>1 DEF FetchedCurrent
<1>5. CountersConsistent'
  <2>1. tail' <= head'
    BY <1>0
  <2>2. head' - tail' <= Capacity
    BY <1>0
  <2>3. popping'.pc # "fatal"
    BY <1>0
  <2>4. \A q \in Producers : pushing'[q].pc # "fatal"
    BY <1>0, <1>1
  <2> QED BY <2>1, <2>2, <2>3, <2>4 DEF CountersConsistent
<1>6. PeekedVisible'
  <2> SUFFICES ASSUME peeked # -1 PROVE \E k \in tail .. h - 1 : peeked = Position(k, Capacity)
    BY DEF PeekedVisible
  <2>1. PICK k \in tail .. head - 1 : peeked = Position(k, Capacity)
    BY DEF IInv, PeekedVisible
  <2> QED BY <1>0, <2>1
<1> QED BY <1>2, <1>3, <1>4, <1>5, <1>6 DEF IInv

\* Every step of push preserves the invariant ...
LEMMA PushIInv ==
  ASSUME IInv, NEW p \in Producers, (\E n \in 0 .. MaxPush : PushAcquire(p, n)) \/ PushCompletes(p)
  PROVE  IInv'
<1> USE DEF local
<1>0. /\ pushing[p] \in PushCalls /\ (pushing[p].pc # "idle" <=> lock = p)
      /\ Current(pushing[p], pHead[p], pTail[p], head, tail)
      /\ head \in Nat /\ tail \in Nat /\ tail <= head /\ head - tail <= Capacity
      /\ pHead \in [Producers -> Nat] /\ pTail \in [Producers -> Nat]
      /\ buffer \in Buffers /\ sent \in [Producers -> Nat]
  BY DEF IInv, TypeOK, PushCalls, Buffers, LockHeld, FetchedCurrent, CountersConsistent
<1>1. ASSUME NEW n \in 0 .. MaxPush, PushAcquire(p, n) PROVE IInv'
  <2> DEFINE r == [pc |-> "locked", n |-> n, copies |-> {}]
  <2>1. r \in PushCalls /\ pushing' = [pushing EXCEPT ![p] = r]
    BY <1>1 DEF PushAcquire, PushCalls
  <2>2. /\ pushing' \in [Producers -> PushCalls] /\ pushing'[p] = r
        /\ \A q \in Producers \ {p} : pushing'[q] = pushing[q]
    BY <2>1 DEF IInv, TypeOK, PushCalls
  <2>3. lock = Free /\ lock' = p
    BY <1>1 DEF PushAcquire, acquireGlobalLock
  <2>4. popping.pc = "idle" /\ \A q \in Producers : pushing[q].pc = "idle" /\ pushing[q].copies = {}
    BY <2>3 DEF IInv, LockHeld, FetchedCurrent, Current
  <2>5. LockHeld'
    BY <1>1, <2>2, <2>3, <2>4 DEF PushAcquire, LockHeld
  <2>6. FetchedCurrent' /\ CountersConsistent'
    BY <1>1, <2>2, <2>4 DEF PushAcquire, FetchedCurrent, Current, Unpublished, CountersConsistent, IInv
  <2>7. TypeOK' /\ PeekedVisible'
    BY <1>1, <2>2, <2>3 DEF PushAcquire, IInv, TypeOK, PushCalls, PeekedVisible
  <2> QED BY <2>5, <2>6, <2>7 DEF IInv
<1>2. CASE PushFetch(p)
  <2> DEFINE r == [pushing[p] EXCEPT !.pc = "fetched"]
  <2>1. /\ r \in PushCalls /\ r.pc = "fetched" /\ r.copies = {}
        /\ pushing' = [pushing EXCEPT ![p] = r] /\ pushing'[p] = r
    BY <1>0, <1>2, Zenon DEF PushFetch, PushCalls, Current, IInv, TypeOK
  <2>2. /\ lock = p /\ UNCHANGED <<head, tail, buffer, lock, popping, peeked, sent>>
        /\ pHead' \in [Producers -> Nat] /\ pHead'[p] = head
        /\ pTail' \in [Producers -> Nat] /\ pTail'[p] = tail
    BY <1>0, <1>2 DEF PushFetch
  <2> HIDE DEF r
  <2>3. Current(r, pHead'[p], pTail'[p], head', tail')
    BY <2>1, <2>2 DEF Current, Unpublished
  <2>9. r \in PushCalls /\ LockedPush(p, r)
    BY <1>0, <2>1, <2>2, <2>3 DEF LockedPush
  <2> QED BY <2>9, LockedPushIInv
<1>3. CASE PushIssue(p)
  <2> DEFINE n == pushing[p].n
             r == IF getDepth(pHead[p], pTail[p]) + n <= Capacity
                    THEN [pushing[p] EXCEPT !.pc = "copying", !.copies = 0 .. n - 1]
                    ELSE [pushing[p] EXCEPT !.pc = "releasing"]
  <2>1. /\ lock = p /\ pHead[p] = head /\ pTail[p] = tail /\ pushing[p].copies = {}
        /\ n \in 0 .. MaxPush /\ 0 .. n - 1 \in SUBSET (0 .. MaxPush - 1)
        /\ UNCHANGED <<head, tail, pTail, buffer, lock, popping, peeked, sent>>
    BY <1>0, <1>3 DEF PushIssue, Current, PushCalls
  <2>2. ~OutOfOrder(pHead[p], pTail[p])
    BY <1>0, <2>1 DEF OutOfOrder
  <2>3. r \in PushCalls /\ pushing' = [pushing EXCEPT ![p] = r] /\ pushing'[p] = r
    BY <1>0, <1>3, <2>1, <2>2, Zenon DEF PushIssue, PushCalls, IInv, TypeOK
  <2>4. CASE getDepth(pHead[p], pTail[p]) + n <= Capacity
    <3>1. r.pc = "copying" /\ r.n = n /\ r.copies = 0 .. n - 1
      BY <1>0, <2>4 DEF PushCalls
    <3>2. pHead' \in [Producers -> Nat] /\ pHead'[p] = head + n
      BY <1>0, <1>3, <2>1, <2>2, <2>4 DEF PushIssue
    <3> HIDE DEF r
    <3>3. Current(r, pHead'[p], pTail'[p], head', tail')
      BY <1>0, <2>1, <2>3, <2>4, <3>1, <3>2 DEF Current, Unpublished, getDepth
    <3>9. r \in PushCalls /\ LockedPush(p, r)
      BY <1>0, <2>1, <2>3, <3>1, <3>2, <3>3 DEF LockedPush
    <3> QED BY <3>9, LockedPushIInv
  <2>5. CASE ~(getDepth(pHead[p], pTail[p]) + n <= Capacity)
    <3>1. r.pc = "releasing" /\ r.copies = {}
      BY <1>0, <2>1, <2>5 DEF PushCalls
    <3>2. pHead' = pHead
      BY <1>3, <2>2, <2>5 DEF PushIssue
    <3> HIDE DEF r
    <3>3. Current(r, pHead'[p], pTail'[p], head', tail')
      BY <2>3, <3>1 DEF Current, Unpublished
    <3>9. r \in PushCalls /\ LockedPush(p, r)
      BY <1>0, <2>1, <2>3, <3>1, <3>2, <3>3 DEF LockedPush
    <3> QED BY <3>9, LockedPushIInv
  <2> QED BY <2>4, <2>5
<1>4. ASSUME NEW i \in 0 .. MaxPush - 1, PushCopyLands(p, i) PROVE IInv'
  <2> DEFINE r == [pushing[p] EXCEPT !.copies = @ \ {i}]
  <2>1. /\ r \in PushCalls /\ r.pc = "copying" /\ r.n = pushing[p].n /\ r.copies \subseteq pushing[p].copies
        /\ pushing' = [pushing EXCEPT ![p] = r] /\ pushing'[p] = r
    BY <1>0, <1>4, Zenon DEF PushCopyLands, PushCalls, IInv, TypeOK
  <2>2. lock = p /\ UNCHANGED <<head, tail, pHead, pTail, lock, popping, peeked, sent>>
    BY <1>0, <1>4 DEF PushCopyLands
  <2>3. <<p, sent[p] + i>> \in Tokens \cup {NoToken}
    BY <1>0 DEF Tokens
  <2>4. buffer' \in Buffers
    BY <1>0, <1>4, <2>3, Zenon DEF PushCopyLands, Buffers
  <2> HIDE DEF r
  <2>5. Current(r, pHead'[p], pTail'[p], head', tail')
    BY <1>0, <1>4, <2>1, <2>2 DEF PushCopyLands, Current, Unpublished
  <2>9. r \in PushCalls /\ LockedPush(p, r)
    BY <1>0, <2>1, <2>2, <2>4, <2>5 DEF LockedPush
  <2> QED BY <2>9, LockedPushIInv
<1>5. CASE PushFence(p)
  <2> DEFINE r == [pushing[p] EXCEPT !.pc = "publishing"]
  <2>1. /\ r \in PushCalls /\ r.pc = "publishing" /\ r.n = pushing[p].n /\ r.copies = {}
        /\ pushing' = [pushing EXCEPT ![p] = r] /\ pushing'[p] = r
    BY <1>0, <1>5, Zenon DEF PushFence, PushCalls, IInv, TypeOK
  <2>2. lock = p /\ UNCHANGED <<head, tail, pHead, pTail, buffer, lock, popping, peeked, sent>>
    BY <1>0, <1>5 DEF PushFence
  <2> HIDE DEF r
  <2>3. Current(r, pHead'[p], pTail'[p], head', tail')
    BY <1>0, <1>5, <2>1, <2>2 DEF PushFence, Current, Unpublished
  <2>9. r \in PushCalls /\ LockedPush(p, r)
    BY <1>0, <2>1, <2>2, <2>3 DEF LockedPush
  <2> QED BY <2>9, LockedPushIInv
<1>6. CASE PushHeadLands(p)
  <2> DEFINE r == [pushing[p] EXCEPT !.pc = IF pushing[p].pc = "publishing" THEN "headLanded" ELSE "releasing"]
  <2>1. /\ r \in PushCalls /\ r.pc = (IF pushing[p].pc = "publishing" THEN "headLanded" ELSE "releasing")
        /\ r.copies = {} /\ pushing' = [pushing EXCEPT ![p] = r] /\ pushing'[p] = r
    BY <1>0, <1>6, Zenon DEF PushHeadLands, PushCalls, Current, IInv, TypeOK
  <2>2. /\ lock = p /\ UNCHANGED <<tail, pHead, pTail, buffer, lock, popping, peeked>>
        /\ head' = pHead[p]
    BY <1>0, <1>6 DEF PushHeadLands
  <2>3. pHead[p] = head + pushing[p].n /\ pTail[p] = tail /\ pHead[p] - tail <= Capacity
    BY <1>0, <1>6 DEF PushHeadLands, Current, Unpublished
  <2>4. pushing[p].n \in Nat
    BY <1>0 DEF PushCalls
  <2>5. sent' \in [Producers -> Nat]
    BY <1>0, <1>6, <2>4 DEF PushHeadLands
  <2> HIDE DEF r
  <2>6. Current(r, pHead'[p], pTail'[p], head', tail')
    BY <2>1, <2>2, <2>3 DEF Current, Unpublished
  <2>9. r \in PushCalls /\ LockedPush(p, r)
    BY <1>0, <2>1, <2>2, <2>3, <2>4, <2>5, <2>6 DEF LockedPush
  <2> QED BY <2>9, LockedPushIInv
<1>7. CASE PushTailLands(p)
  <2> DEFINE r == [pushing[p] EXCEPT !.pc = IF pushing[p].pc = "publishing" THEN "tailLanded" ELSE "releasing"]
  <2>1. /\ r \in PushCalls /\ r.pc = (IF pushing[p].pc = "publishing" THEN "tailLanded" ELSE "releasing")
        /\ r.n = pushing[p].n /\ r.copies = {}
        /\ pushing' = [pushing EXCEPT ![p] = r] /\ pushing'[p] = r
    BY <1>0, <1>7, Zenon DEF PushTailLands, PushCalls, Current, IInv, TypeOK
  <2>2. /\ lock = p /\ UNCHANGED <<head, pHead, pTail, buffer, lock, popping, peeked, sent>>
        /\ tail' = pTail[p] /\ pTail[p] = tail
    BY <1>0, <1>7 DEF PushTailLands, Current, Unpublished
  <2> HIDE DEF r
  <2>3. Current(r, pHead'[p], pTail'[p], head', tail')
    BY <1>0, <1>7, <2>1, <2>2 DEF PushTailLands, Current, Unpublished
  <2>9. r \in PushCalls /\ LockedPush(p, r)
    BY <1>0, <2>1, <2>2, <2>3 DEF LockedPush
  <2> QED BY <2>9, LockedPushIInv
<1>8. CASE PushRelease(p)
  <2>1. IdlePush \in PushCalls /\ IdlePush.pc = "idle" /\ IdlePush.copies = {}
    BY DEF IdlePush, PushCalls
  <2>2. lock = p /\ lock' = Free /\ UNCHANGED <<head, tail, pHead, pTail, buffer, popping, peeked, sent>>
    BY <1>8 DEF PushRelease, releaseGlobalLock
  <2>3. pushing' = [pushing EXCEPT ![p] = IdlePush]
    BY <1>8 DEF PushRelease
  <2>4. /\ pushing' \in [Producers -> PushCalls] /\ pushing'[p] = IdlePush
        /\ popping.pc = "idle"
        /\ \A q \in Producers \ {p} : pushing'[q] = pushing[q] /\ pushing[q].pc = "idle"
        /\ \A q \in Producers \ {p} : Current(pushing'[q], pHead'[q], pTail'[q], head', tail')
    BY <2>1, <2>2, <2>3, OnePushMoves, Zenon
  <2>5. LockHeld' /\ FetchedCurrent'
    BY <2>1, <2>2, <2>4 DEF LockHeld, FetchedCurrent, Current, Unpublished
  <2>6. TypeOK' /\ CountersConsistent' /\ PeekedVisible'
    BY <2>1, <2>2, <2>4, Zenon DEF IInv, TypeOK, PushCalls, CountersConsistent, PeekedVisible
  <2> QED BY <2>5, <2>6 DEF IInv
<1> QED BY <1>1, <1>2, <1>3, <1>4, <1>5, <1>6, <1>7, <1>8 DEF PushCompletes

\* ... and so does every step of peek and pop: while the consumer holds the
\* lock no producer uses its counters.
LEMMA ConsumerIInv ==
  ASSUME IInv,
         \/ \E pos \in 0 .. MaxPop - 1 : PeekAcquire(pos)
         \/ \E n \in 0 .. MaxPop : PopAcquire(n)
         \/ ConsumerCompletes
  PROVE  IInv'
<1> DEFINE PopCalls == [pc : {"idle", "peeking", "popping", "releasing", "fatal"}, n : 0 .. MaxPop]
<1> USE DEF local
<1>0. /\ head \in Nat /\ tail \in Nat /\ tail <= head /\ head - tail <= Capacity
      /\ popping \in PopCalls /\ (popping.pc # "idle" <=> lock = Consumer) /\ popping.pc # "fatal"
      /\ ~OutOfOrder(head, tail)
  BY DEF IInv, TypeOK, LockHeld, CountersConsistent, OutOfOrder
<1>1. ASSUME lock = Consumer \/ lock = Free, UNCHANGED <<head, pushing, pHead, pTail>>
      PROVE  FetchedCurrent'
  <2>1. \A q \in Producers : pushing[q].pc = "idle" /\ pushing[q].copies = {}
    BY <1>1 DEF IInv, LockHeld, FetchedCurrent, Current
  <2> QED BY <1>1, <2>1 DEF FetchedCurrent, Current, Unpublished
<1>2. ASSUME NEW pc \in {"peeking", "popping"}, NEW n \in 0 .. MaxPop,
             lock = Free, lock' = Consumer, popping' = [pc |-> pc, n |-> n],
             peeked' \in {peeked, -1}, UNCHANGED <<head, tail, pHead, pTail, buffer, pushing, sent>>
      PROVE  IInv'
  <2>1. popping' \in PopCalls /\ popping'.pc = pc
    BY <1>2
  <2>2. FetchedCurrent'
    BY <1>1, <1>2
  <2>3. LockHeld'
    BY <1>2, <2>1 DEF IInv, LockHeld
  <2>4. CountersConsistent' /\ PeekedVisible'
    BY <1>2, <2>1 DEF IInv, CountersConsistent, PeekedVisible
  <2>5. TypeOK'
    BY <1>2, <2>1 DEF IInv, TypeOK
  <2> QED BY <2>2, <2>3, <2>4, <2>5 DEF IInv
<1>3. ASSUME NEW pos \in 0 .. MaxPop - 1, PeekAcquire(pos) PROVE IInv'
  <2>1. pos \in 0 .. MaxPop
    OBVIOUS
  <2> QED BY <1>2, <1>3, <2>1 DEF PeekAcquire, acquireGlobalLock
<1>4. ASSUME NEW n \in 0 .. MaxPop, PopAcquire(n) PROVE IInv'
  BY <1>2, <1>4 DEF PopAcquire, acquireGlobalLock
<1>5. ASSUME lock = Consumer, popping' = [popping EXCEPT !.pc = "releasing"],
             NEW t \in Nat, tail' = t, tail <= t, t <= head,
             peeked' \in -1 .. Capacity - 1,
             peeked' # -1 => \E k \in t .. head - 1 : peeked' = Position(k, Capacity),
             UNCHANGED <<head, pHead, pTail, buffer, lock, pushing, sent>>
      PROVE  IInv'
  <2>1. popping' \in PopCalls /\ popping'.pc = "releasing"
    BY <1>0, <1>5
  <2>2. FetchedCurrent'
    BY <1>1, <1>5
  <2>3. LockHeld'
    BY <1>5, <2>1 DEF IInv, LockHeld
  <2>4. CountersConsistent'
    BY <1>0, <1>5, <2>1 DEF IInv, CountersConsistent
  <2>5. PeekedVisible'
    BY <1>5 DEF PeekedVisible
  <2>6. TypeOK'
    BY <1>5, <2>1 DEF IInv, TypeOK
  <2> QED BY <2>2, <2>3, <2>4, <2>5, <2>6 DEF IInv
<1>6. CASE PeekResult
  <2> DEFINE n == popping.n
  <2>1. /\ lock = Consumer /\ UNCHANGED <<head, tail, pHead, pTail, buffer, lock, pushing, sent>>
        /\ popping' = [popping EXCEPT !.pc = "releasing"] /\ n \in Nat
        /\ peeked' = IF n < head - tail THEN (Position(tail, Capacity) + n) % Capacity ELSE -1
    BY <1>0, <1>6 DEF PeekResult, getDepth
  <2>2. CASE n < head - tail
    <3>1. tail + n \in tail .. head - 1 /\ tail + n \in Nat
      BY <1>0, <2>1, <2>2
    <3>2. peeked' = Position(tail + n, Capacity) /\ Position(tail + n, Capacity) \in 0 .. Capacity - 1
      BY <1>0, <2>1, <2>2, <3>1, PositionOffset, PositionInRange
    <3>3. peeked' \in -1 .. Capacity - 1
      BY <3>2
    <3> QED BY <1>0, <1>5, <2>1, <3>1, <3>2, <3>3
  <2>3. CASE ~(n < head - tail)
    <3>1. peeked' = -1 /\ -1 \in -1 .. Capacity - 1
      BY <2>1, <2>3
    <3> QED BY <1>0, <1>5, <2>1, <3>1
  <2> QED BY <2>2, <2>3
<1>7. CASE PopAdvance
  <2> DEFINE n == popping.n
  <2>1. /\ lock = Consumer /\ UNCHANGED <<head, pHead, pTail, buffer, lock, pushing, sent>>
        /\ popping' = [popping EXCEPT !.pc = "releasing"] /\ n \in Nat
        /\ IF n <= head - tail THEN tail' = tail + n /\ peeked' = -1 ELSE UNCHANGED <<tail, peeked>>
    BY <1>0, <1>7 DEF PopAdvance, getDepth
  <2>2. CASE n <= head - tail
    <3>1. tail + n \in Nat /\ tail <= tail + n /\ tail + n <= head /\ -1 \in -1 .. Capacity - 1
      BY <1>0, <2>1, <2>2
    <3> QED BY <1>5, <2>1, <2>2, <3>1
  <2>3. CASE ~(n <= head - tail)
    <3>1. /\ peeked \in -1 .. Capacity - 1
          /\ peeked # -1 => \E k \in tail .. head - 1 : peeked = Position(k, Capacity)
      BY DEF IInv, TypeOK, PeekedVisible
    <3> QED BY <1>0, <1>5, <2>1, <2>3, <3>1
  <2> QED BY <2>2, <2>3
<1>8. CASE ConsumerRelease
  <2>1. popping' \in PopCalls /\ popping'.pc = "idle" /\ lock = Consumer /\ lock' = Free
        /\ UNCHANGED <<head, tail, pHead, pTail, buffer, pushing, peeked, sent>>
    BY <1>8 DEF ConsumerRelease, releaseGlobalLock, IdlePop
  <2>2. FetchedCurrent'
    BY <1>1, <2>1
  <2>3. LockHeld'
    BY <2>1 DEF IInv, LockHeld
  <2>4. CountersConsistent' /\ PeekedVisible' /\ TypeOK'
    BY <2>1 DEF IInv, CountersConsistent, PeekedVisible, TypeOK
  <2> QED BY <2>2, <2>3, <2>4 DEF IInv
<1> QED BY <1>3, <1>4, <1>6, <1>7, <1>8 DEF ConsumerCompletes

\* So every step does, whatever the interleaving.
LEMMA NextIInv == IInv /\ [Next]_vars => IInv'
<1> SUFFICES ASSUME IInv, [Next]_vars PROVE IInv'
  OBVIOUS
<1>1. CASE UNCHANGED vars
  BY <1>1 DEF vars, IInv, TypeOK, CountersConsistent, LockHeld, FetchedCurrent, PeekedVisible
<1> QED BY <1>1, PushIInv, ConsumerIInv DEF Next

\* So the invariant always holds.
LEMMA SpecIInv == Spec => []IInv
  BY InitIInv, NextIInv, PTL DEF Spec

\* For every set of producers, capacity and batch size: although a push writes
\* back both counters, the tail being the consumer's, the counters stay in order
\* and within the capacity, and no participant meets a fatal exception.
THEOREM CountersStayConsistent == Spec => []CountersConsistent
  BY SpecIInv, PTL DEF IInv

-----------------------------------------------------------------------------
(***************************************************************************)
(* Contents of the token buffer.                                            *)
(***************************************************************************)

\* A copy of push lands in a slot above the head, within the capacity.
LEMMA CopyDestination ==
  ASSUME IInv, NEW p \in Producers, NEW i \in 0 .. MaxPush - 1, PushCopyLands(p, i)
  PROVE  /\ i \in 0 .. pushing[p].n - 1 /\ head + i - tail < Capacity
         /\ PushDestination(p, i) = Position(head + i, Capacity)
<1>1. pHead[p] \in Nat /\ head \in Nat /\ tail \in Nat /\ pushing[p].n \in Nat
  BY DEF IInv, TypeOK
<1>2. pHead[p] = head + pushing[p].n /\ pHead[p] - tail <= Capacity /\ i \in 0 .. pushing[p].n - 1
  BY DEF IInv, FetchedCurrent, Current, Unpublished, PushCopyLands
<1>3. pHead[p] - pushing[p].n + i = head + i
  BY <1>1, <1>2
<1> QED BY <1>1, <1>2, <1>3 DEF PushDestination

\* It writes no other slot within the capacity, those of the tokens in the
\* channel and of the rest of its batch among them.
LEMMA CopyMissesTokens ==
  ASSUME IInv, NEW p \in Producers, NEW i \in 0 .. MaxPush - 1, PushCopyLands(p, i),
         NEW k \in Nat, tail <= k, k - tail < Capacity, k # head + i
  PROVE  buffer'[Position(k, Capacity)] = buffer[Position(k, Capacity)]
<1>1. /\ head \in Nat /\ tail \in Nat /\ tail <= head /\ buffer \in Buffers
      /\ Capacity \in Nat \ {0}
  BY DEF IInv, TypeOK, CountersConsistent, Buffers
<1>2. /\ head + i - tail < Capacity
      /\ PushDestination(p, i) = Position(head + i, Capacity)
  BY CopyDestination
<1> DEFINE d == head + i
<1>3. d \in Nat /\ d # k /\ d - k < Capacity /\ k - d < Capacity
  BY <1>1, <1>2
<1> HIDE DEF d
<1>4. Position(k, Capacity) # Position(d, Capacity)
  <2>1. CASE d < k
    BY <1>1, <1>3, <2>1, PositionsDistinct
  <2>2. CASE k < d
    BY <1>1, <1>3, <2>2, PositionsDistinct
  <2> QED BY <1>3, <2>1, <2>2
<1>5. Position(k, Capacity) \in 0 .. Capacity - 1
  BY <1>1, PositionInRange
<1> QED BY <1>1, <1>2, <1>4, <1>5 DEF PushCopyLands, Buffers, d

\* For every set of producers, capacity and batch size: no copy of a push lands
\* on a position that peek returned, although peek no longer holds the lock.
THEOREM PeekedStable == Spec => PeekedTokenStable
<1> DEFINE Stable == (peeked # -1 /\ peeked' = peeked) => buffer'[peeked] = buffer[peeked]
<1>1. IInv /\ [Next]_vars => [Stable]_vars
  <2> SUFFICES ASSUME IInv, Next, peeked # -1 PROVE buffer'[peeked] = buffer[peeked]
    OBVIOUS
  <2>1. ASSUME NEW p \in Producers, NEW i \in 0 .. MaxPush - 1, PushCopyLands(p, i)
        PROVE  buffer'[peeked] = buffer[peeked]
    <3>1. /\ head \in Nat /\ tail \in Nat /\ head - tail <= Capacity
      BY DEF IInv, TypeOK, CountersConsistent
    <3>2. PICK k \in tail .. head - 1 : peeked = Position(k, Capacity)
      BY DEF IInv, PeekedVisible
    <3>3. k \in Nat /\ tail <= k /\ k - tail < Capacity /\ k # head + i
      BY <3>1
    <3> QED BY <2>1, <3>2, <3>3, CopyMissesTokens
  <2>2. CASE UNCHANGED buffer
    BY <2>2
  <2> QED
    BY <2>1, <2>2, Zenon DEF Next, PushCompletes, ConsumerCompletes, PushAcquire, PushFetch, PushIssue, PushFence,
                      PushHeadLands, PushTailLands, PushRelease, PeekAcquire, PeekResult, PopAcquire,
                      PopAdvance, ConsumerRelease
<1> QED BY <1>1, SpecIInv, PTL DEF Spec, PeekedTokenStable

\* The copies of the batch being pushed that have landed are in their slots.
Landed(call, p, h, first, buf) ==
  Unpublished(call) =>
    \A i \in (0 .. call.n - 1) \ call.copies : buf[Position(h + i, Capacity)] = <<p, first + i>>

BatchLanded == \A p \in Producers : Landed(pushing[p], p, head, sent[p], buffer)

\* Nothing is being pushed at the start.
LEMMA InitLanded == Init => BatchLanded
  BY DEF Init, BatchLanded, Landed, Unpublished, IdlePush

\* A step of push preserves this: a copy lands in its own slot, and the head
\* moves only when the batch ceases to be in flight.
LEMMA PushLanded ==
  ASSUME IInv, BatchLanded, NEW p \in Producers,
         (\E n \in 0 .. MaxPush : PushAcquire(p, n)) \/ PushCompletes(p)
  PROVE  BatchLanded'
<1> USE DEF local
<1>0. /\ pushing \in [Producers -> PushCalls] /\ pushing[p] \in PushCalls
      /\ head \in Nat /\ tail \in Nat /\ tail <= head /\ sent \in [Producers -> Nat]
      /\ Landed(pushing[p], p, head, sent[p], buffer)
      /\ Current(pushing[p], pHead[p], pTail[p], head, tail)
  BY DEF IInv, TypeOK, PushCalls, CountersConsistent, BatchLanded, FetchedCurrent
<1>1. pushing[p].pc = "idle" => lock = Free
  BY DEF PushAcquire, acquireGlobalLock, PushCompletes, PushFetch, PushIssue, PushCopyLands, PushFence,
         PushHeadLands, PushTailLands, PushRelease
<1>2. \A q \in Producers \ {p} : ~Unpublished(pushing[q]) /\ pushing'[q] = pushing[q]
  <2>1. \A q \in Producers \ {p} : ~Unpublished(pushing[q])
    BY <1>1 DEF IInv, LockHeld, Unpublished
  <2>2. \A q \in Producers \ {p} : pushing'[q] = pushing[q]
    BY <1>0 DEF PushAcquire, PushCompletes, PushFetch, PushIssue, PushCopyLands, PushFence,
                PushHeadLands, PushTailLands, PushRelease
  <2> QED BY <2>1, <2>2
<1>3. SUFFICES Landed(pushing'[p], p, head', sent'[p], buffer')
  BY <1>2 DEF BatchLanded, Landed
<1>4. CASE ~Unpublished(pushing'[p])
  BY <1>4 DEF Landed
<1>5. CASE PushIssue(p) /\ Unpublished(pushing'[p])
  <2>1. pushing' = [pushing EXCEPT ![p] = [@ EXCEPT !.pc = "copying", !.copies = 0 .. pushing[p].n - 1]]
    BY <1>0, <1>5 DEF PushIssue, PushCalls, Unpublished
  <2>2. pushing'[p].copies = 0 .. pushing[p].n - 1 /\ pushing'[p].n = pushing[p].n
    BY <1>0, <2>1 DEF PushCalls
  <2> QED BY <2>2 DEF Landed
<1>6. ASSUME NEW i \in 0 .. MaxPush - 1, PushCopyLands(p, i)
      PROVE  Landed(pushing'[p], p, head', sent'[p], buffer')
  <2>1. /\ pushing[p].pc = "copying" /\ pushing'[p].n = pushing[p].n
        /\ pushing'[p].copies = pushing[p].copies \ {i}
        /\ UNCHANGED <<head, tail, pHead, sent>>
    BY <1>0, <1>6 DEF PushCopyLands, PushCalls
  <2>2. /\ i \in 0 .. pushing[p].n - 1 /\ head + i - tail < Capacity
        /\ PushDestination(p, i) = Position(head + i, Capacity)
    BY <1>6, CopyDestination
  <2>3. buffer'[Position(head + i, Capacity)] = <<p, sent[p] + i>>
    <3>1. head + i \in Nat /\ Capacity \in Nat \ {0} /\ buffer \in Buffers
      BY <1>0 DEF IInv, TypeOK, Buffers
    <3>2. Position(head + i, Capacity) \in 0 .. Capacity - 1
      BY <3>1, PositionInRange
    <3> QED BY <1>6, <2>2, <3>1, <3>2 DEF PushCopyLands, Buffers
  <2>4. ASSUME NEW j \in (0 .. pushing[p].n - 1) \ pushing[p].copies
        PROVE  buffer'[Position(head + j, Capacity)] = <<p, sent[p] + j>>
    <3>1. buffer[Position(head + j, Capacity)] = <<p, sent[p] + j>>
      BY <1>0, <2>1 DEF Landed, Unpublished
    <3>2. pHead[p] = head + pushing[p].n /\ pHead[p] - tail <= Capacity /\ pushing[p].n \in Nat
      BY <1>0, <2>1 DEF Current, Unpublished, PushCalls
    <3>3. i \in pushing[p].copies
      BY <1>6 DEF PushCopyLands
    <3> DEFINE k == head + j
    <3>4. k \in Nat /\ tail <= k /\ k - tail < Capacity /\ k # head + i
      BY <1>0, <2>2, <3>2, <3>3
    <3> HIDE DEF k
    <3>5. buffer'[Position(k, Capacity)] = buffer[Position(k, Capacity)]
      BY <1>6, <3>4, CopyMissesTokens
    <3> QED BY <3>1, <3>5 DEF k
  <2> QED BY <2>1, <2>3, <2>4 DEF Landed
<1>7. CASE PushFence(p)
  <2>1. /\ pushing[p].pc = "copying" /\ pushing'[p].n = pushing[p].n
        /\ pushing'[p].copies = pushing[p].copies /\ UNCHANGED <<head, sent, buffer>>
    BY <1>0, <1>7 DEF PushFence, PushCalls
  <2> QED BY <1>0, <2>1 DEF Landed, Unpublished
<1>8. CASE PushTailLands(p) /\ Unpublished(pushing'[p])
  <2>1. /\ pushing[p].pc = "publishing" /\ pushing'[p].n = pushing[p].n
        /\ pushing'[p].copies = pushing[p].copies /\ UNCHANGED <<head, sent, buffer>>
    BY <1>0, <1>8 DEF PushTailLands, PushCalls, Unpublished
  <2> QED BY <1>0, <2>1 DEF Landed, Unpublished
<1>9. PushHeadLands(p) \/ PushFetch(p) \/ PushRelease(p) \/ (\E n \in 0 .. MaxPush : PushAcquire(p, n))
        => ~Unpublished(pushing'[p])
  BY <1>0 DEF PushHeadLands, PushFetch, PushRelease, PushAcquire, PushCalls, Unpublished, IdlePush
<1> QED BY <1>4, <1>5, <1>6, <1>7, <1>8, <1>9 DEF PushCompletes

\* What has landed stays until it is popped.
LEMMA NextLanded ==
  ASSUME IInv, BatchLanded, [Next]_vars
  PROVE  BatchLanded'
<1>1. CASE UNCHANGED <<pushing, head, sent, buffer>>
  BY <1>1 DEF BatchLanded
<1>2. CASE \E p \in Producers : (\E n \in 0 .. MaxPush : PushAcquire(p, n)) \/ PushCompletes(p)
  BY <1>2, PushLanded
<1> QED
  BY <1>1, <1>2 DEF Next, vars, ConsumerCompletes, PeekAcquire, PeekResult, PopAcquire, PopAdvance,
                    ConsumerRelease

-----------------------------------------------------------------------------
(***************************************************************************)
(* The channel implements the shared queue.  A batch arrives when its head  *)
(* lands and leaves when pop advances the tail; nothing else is visible.    *)
(***************************************************************************)

\* The initial queue is empty.
LEMMA InitRefines == Init => Shared!SharedInit
<1> SUFFICES ASSUME Init PROVE Shared!SharedInit
  OBVIOUS
<1>1. 1 .. getDepth(head, tail) = {}
  BY DEF Init, getDepth
<1>2. [i \in 1 .. getDepth(head, tail) |-> buffer[Position(tail + i - 1, Capacity)]] = <<>>
  BY <1>1
<1> QED BY <1>2 DEF Shared!SharedInit, Init

\* Steps that move neither counter and write no visible slot are not seen.
LEMMA StutterRefines ==
  ASSUME IInv, UNCHANGED <<head, tail, sent>>,
         \A k \in tail .. head - 1 : buffer'[Position(k, Capacity)] = buffer[Position(k, Capacity)]
  PROVE  UNCHANGED Shared!sharedVars
<1>1. head \in Nat /\ tail \in Nat
  BY DEF IInv, TypeOK
<1>2. Visible(buffer', tail, head, Capacity) = Visible(buffer, tail, head, Capacity)
  BY <1>1, VisibleSame
<1> QED BY <1>2 DEF Shared!sharedVars, getDepth, Visible

\* Landing the head of a batch appends the batch.
LEMMA HeadLandsRefines ==
  ASSUME IInv, BatchLanded, NEW p \in Producers, PushHeadLands(p)
  PROVE  Shared!Arrive(p, pushing[p].n)
<1> DEFINE n == pushing[p].n
           T == Tokens \cup {NoToken}
           batch == [i \in 1 .. n |-> <<p, sent[p] + i - 1>>]
<1>1. /\ head \in Nat /\ tail \in Nat /\ tail <= head /\ n \in Nat
      /\ buffer \in Slots(Capacity, T) /\ sent \in [Producers -> Nat]
  BY DEF IInv, TypeOK, CountersConsistent, Slots
<1>2. /\ Unpublished(pushing[p]) /\ pushing[p].copies = {}
      /\ head' = pHead[p] /\ pHead[p] = head + n /\ pHead[p] - tail <= Capacity
  BY DEF IInv, FetchedCurrent, Current, Unpublished, PushHeadLands
<1>3. \A i \in 0 .. n - 1 : buffer[Position(head + i, Capacity)] = <<p, sent[p] + i>>
  BY <1>2 DEF BatchLanded, Landed
<1>4. UNCHANGED <<tail, buffer>> /\ sent' = [sent EXCEPT ![p] = @ + n]
  BY DEF PushHeadLands
<1> HIDE DEF n
<1>5. \A i \in 1 .. n : /\ i - 1 \in 0 .. n - 1 /\ head + (i - 1) = head + i - 1
                        /\ sent[p] + (i - 1) = sent[p] + i - 1 /\ sent[p] + i - 1 \in Nat
  BY <1>1
<1>6. batch \in Queues(n, T)
  BY <1>5 DEF Tokens, Queues
<1>7. \A i \in 1 .. n : buffer[Position(head + i - 1, Capacity)] = batch[i]
  BY <1>3, <1>5
<1> HIDE DEF batch, T
<1>8. Appended(Visible(buffer, tail, head, Capacity), head - tail, batch,
               Visible(buffer, tail, head + n, Capacity))
  BY <1>1, <1>6, <1>7, VisibleGrows
<1>9. /\ [i \in 1 .. getDepth(head, tail) |-> buffer[Position(tail + i - 1, Capacity)]]
           = Visible(buffer, tail, head, Capacity)
      /\ [i \in 1 .. getDepth(head, tail) |-> buffer[Position(tail + i - 1, Capacity)]]'
           = Visible(buffer, tail, head + n, Capacity)
  BY <1>2, <1>4 DEF getDepth, Visible
<1>10. (head - tail) + n <= Capacity
  BY <1>1, <1>2
<1> QED BY <1>4, <1>8, <1>9, <1>10, Zenon DEF Shared!Arrive, Appended, n, batch

\* Advancing the tail removes the tokens that pop was asked to remove.
LEMMA PopAdvanceRefines ==
  ASSUME IInv, PopAdvance
  PROVE  UNCHANGED Shared!sharedVars \/ (popping.n \in 1 .. MaxPop /\ Shared!Leave(popping.n))
<1> DEFINE n == popping.n
           T == Tokens \cup {NoToken}
<1>1. /\ head \in Nat /\ tail \in Nat /\ tail <= head /\ n \in 0 .. MaxPop
      /\ buffer \in Slots(Capacity, T)
  BY DEF IInv, TypeOK, CountersConsistent, Slots
<1>2. /\ UNCHANGED <<head, buffer, sent>>
      /\ (tail' = tail + n /\ n <= head - tail) \/ UNCHANGED tail
  BY DEF PopAdvance, getDepth
<1> HIDE DEF n
<1>3. CASE UNCHANGED tail
  BY <1>2, <1>3, StutterRefines
<1>4. CASE tail' = tail + n /\ n <= head - tail /\ n # 0
  <2>1. n \in 0 .. head - tail /\ n \in 1 .. MaxPop
    BY <1>1, <1>4
  <2> HIDE DEF T
  <2>2. Removed(Visible(buffer, tail, head, Capacity), head - tail, n,
                Visible(buffer, tail + n, head, Capacity))
    BY <1>1, <2>1, VisibleShrinks
  <2>3. /\ [i \in 1 .. getDepth(head, tail) |-> buffer[Position(tail + i - 1, Capacity)]]
             = Visible(buffer, tail, head, Capacity)
        /\ [i \in 1 .. getDepth(head, tail) |-> buffer[Position(tail + i - 1, Capacity)]]'
             = Visible(buffer, tail + n, head, Capacity)
    BY <1>2, <1>4 DEF getDepth, Visible
  <2>4. Shared!Leave(n)
    BY <1>2, <1>4, <2>2, <2>3, Zenon DEF Shared!Leave, Removed
  <2> QED BY <2>1, <2>4 DEF n
<1>5. n = 0 /\ tail' = tail + n => UNCHANGED tail
  BY <1>1
<1> QED BY <1>2, <1>3, <1>4, <1>5

\* Every step of the channel is a step of the shared queue or is not seen.
LEMMA StepRefines ==
  IInv /\ BatchLanded /\ [Next]_vars => [Shared!SharedNext]_(Shared!sharedVars)
<1> SUFFICES ASSUME IInv, BatchLanded, [Next]_vars
             PROVE  Shared!SharedNext \/ UNCHANGED Shared!sharedVars
  OBVIOUS
<1> USE DEF local
<1>1. CASE UNCHANGED <<head, tail, sent, buffer>>
  BY <1>1, StutterRefines
<1>2. ASSUME NEW p \in Producers, NEW i \in 0 .. MaxPush - 1, PushCopyLands(p, i)
      PROVE  UNCHANGED Shared!sharedVars
  <2>1. head \in Nat /\ tail \in Nat /\ head - tail <= Capacity
    BY DEF IInv, TypeOK, CountersConsistent
  <2>2. \A k \in tail .. head - 1 : k \in Nat /\ tail <= k /\ k - tail < Capacity /\ k # head + i
    BY <2>1
  <2>3. \A k \in tail .. head - 1 : buffer'[Position(k, Capacity)] = buffer[Position(k, Capacity)]
    BY <1>2, <2>2, CopyMissesTokens
  <2>4. UNCHANGED <<head, tail, sent>>
    BY <1>2 DEF PushCopyLands
  <2> QED BY <2>3, <2>4, StutterRefines
<1>3. ASSUME NEW p \in Producers, PushTailLands(p) PROVE UNCHANGED Shared!sharedVars
  <2>1. UNCHANGED <<head, tail, sent, buffer>>
    BY <1>3 DEF PushTailLands, IInv, FetchedCurrent, Current, Unpublished
  <2> QED BY <2>1, StutterRefines
<1>4. ASSUME NEW p \in Producers, PushHeadLands(p)
      PROVE  Shared!SharedNext \/ UNCHANGED Shared!sharedVars
  <2>1. pushing[p].n \in 0 .. MaxPush /\ head \in Nat /\ sent \in [Producers -> Nat]
    BY DEF IInv, TypeOK
  <2>2. CASE pushing[p].n = 0
    <3>1. pHead[p] = head + 0
      BY <1>4, <2>2 DEF PushHeadLands, IInv, FetchedCurrent, Current, Unpublished
    <3>2. UNCHANGED <<head, tail, sent, buffer>>
      BY <1>4, <2>1, <2>2, <3>1 DEF PushHeadLands
    <3> QED BY <3>2, StutterRefines
  <2>3. CASE pushing[p].n # 0
    <3>1. Shared!Arrive(p, pushing[p].n)
      BY <1>4, HeadLandsRefines
    <3>2. pushing[p].n \in 1 .. (IF MaxPush > MaxPop THEN MaxPush ELSE MaxPop)
      BY <2>1, <2>3
    <3> QED BY <3>1, <3>2 DEF Shared!SharedNext
  <2> QED BY <2>2, <2>3
<1>5. CASE PopAdvance
  <2>1. CASE popping.n \in 1 .. MaxPop /\ Shared!Leave(popping.n)
    <3>1. popping.n \in 1 .. (IF MaxPush > MaxPop THEN MaxPush ELSE MaxPop)
      BY <2>1
    <3> QED BY <2>1, <3>1 DEF Shared!SharedNext
  <2> QED BY <1>5, <2>1, PopAdvanceRefines
<1> QED
  BY <1>1, <1>2, <1>3, <1>4, <1>5, Zenon
  DEF Next, vars, PushCompletes, ConsumerCompletes, PushAcquire, PushFetch, PushIssue, PushFence,
      PushRelease, PeekAcquire, PeekResult, PopAcquire, ConsumerRelease

\* For every set of producers, capacity and batch size: the tokens the consumer
\* can see behave as one bounded queue, in the order of each producer's pushes
\* and with every batch contiguous, whatever the order in which copies land and
\* calls interleave.
THEOREM ChannelRefinesSharedFifo == Spec => RefinesSharedFifo
<1>1. Spec => []BatchLanded
  <2>1. IInv /\ BatchLanded /\ [Next]_vars => BatchLanded'
    BY NextLanded
  <2> QED BY <2>1, InitLanded, SpecIInv, PTL DEF Spec
<1> QED
  BY <1>1, InitRefines, StepRefines, SpecIInv, PTL DEF Spec, RefinesSharedFifo, Shared!SharedSpec
=============================================================================
