----------------------- MODULE VariableMpscLockingProofs -----------------------
(***************************************************************************)
(* Proofs about the locking variable-size MPSC channel, for every set of    *)
(* producers, every capacity in tokens and in bytes and every set of sizes, *)
(* when callers pop one token at a time.                                    *)
(***************************************************************************)
EXTENDS VariableMpscLocking, CircularBufferProofs

(***************************************************************************)
(* The inductive invariant.  Only the owner of the lock is in a call, so    *)
(* where its call is tells how far the two coordination buffers and the     *)
(* history of bounds may be apart.                                          *)
(***************************************************************************)

\* Whoever is in a call holds the lock.  A pop that threw holds it as well.
LockHeld ==
  /\ \A p \in Producers : pushing[p].pc # "idle" <=> lock = p
  /\ popping.pc # "idle" => lock = Consumer

\* Where the producer that holds the lock is.
HolderPc == IF lock \in Producers THEN pushing[lock].pc ELSE "idle"

\* A token has a bound, and its count has not landed.
Uncounted(pc) == pc \in {"copying", "publishing", "payloadHeadLanded"}

\* Tokens that have a bound, of which ch have been counted.
Bounded(pc, ch) == IF Uncounted(pc) THEN ch + 1 ELSE ch

\* The tokens whose payload the head of the payloads counts.
PayloadsCounted(pc, ch) ==
  IF pc = "countHeadLanded" THEN ch - 1 ELSE IF pc = "payloadHeadLanded" THEN ch + 1 ELSE ch

\* The byte counters bh and bt are the bounds of token counters, neither buffer
\* is over capacity, and the consumer has popped no token that is in flight.  Only
\* an empty token ends where it begins.
Ledger(pc, ch, ct, bh, bt, b) ==
  /\ b \in [0 .. Bounded(pc, ch) -> Nat]
  /\ \A j, k \in 0 .. Bounded(pc, ch) : j <= k => b[j] <= b[k]
  /\ 0 \notin Sizes => \A j, k \in 0 .. Bounded(pc, ch) : j < k => b[j] < b[k]
  /\ ct <= PayloadsCounted(pc, ch) /\ ct <= ch
  /\ bt = b[ct] /\ bh = b[PayloadsCounted(pc, ch)]
  /\ Bounded(pc, ch) - ct <= Capacity /\ b[Bounded(pc, ch)] - bt <= PayloadCapacity

\* What the producer that holds the lock fetched is current until its own heads
\* land, and there is room for its token.
Current(call, l, ch, ct, bh, bt, b) ==
  /\ call.pc # "idle" => call.size \in Sizes
  /\ call.pc \in {"fetched", "sizing", "copying"} => l.cHead = ch /\ l.cTail = ct /\ l.bHead = bh /\ l.bTail = bt
  /\ call.pc = "sizing" => ch + 1 - ct <= Capacity /\ bh + call.size - bt <= PayloadCapacity
  /\ Uncounted(call.pc) => b[ch + 1] = b[ch] + call.size
  /\ call.pc \in {"publishing", "payloadHeadLanded"} => l.cHead = ch + 1
  /\ call.pc = "publishing" => l.bHead = b[ch + 1]
  /\ call.pc = "countHeadLanded" => l.bHead = b[ch]

FetchedCurrent == \A p \in Producers : Current(pushing[p], local[p], cHead, cTail, bHead, bTail, bound)

\* A pop removes a token that is there.
PopFits ==
  /\ popping.pc # "idle" => popping.n \in Pops
  /\ popping.pc = "popping" => cTail < cHead

\* The token buffer holds the sizes of the tokens ct to h.
SizesIn(sz, ct, h, b) == \A k \in ct .. h - 1 : sz[Position(k, Capacity)] = b[k + 1] - b[k]

NoFatal == popping.pc # "fatal" /\ \A p \in Producers : pushing[p].pc # "fatal"

IInv ==
  /\ TypeOK /\ NoFatal /\ LockHeld /\ FetchedCurrent /\ PopFits
  /\ Ledger(HolderPc, cHead, cTail, bHead, bTail, bound)
  /\ SizesIn(sizes, cTail, Bounded(HolderPc, cHead), bound)

\* All the bytes of token k show tok.
Shown(pl, b, k, tok) == \A c \in b[k] .. b[k + 1] - 1 : pl[Position(c, PayloadCapacity)] = tok

\* Every token that has been counted and not been popped is all there.
PayloadsWritten == \A k \in cTail .. cHead - 1 : \E tok \in Tokens : Shown(payload, bound, k, tok)

\* Producer p's token ch has landed but for the chunks in flight.
Landed(call, p, s, pl, b, ch) ==
  /\ call.chunks \subseteq SUBSET (0 .. call.size - 1)
  /\ call.pc # "copying" => call.chunks = {}
  /\ Uncounted(call.pc) =>
       \A i \in 0 .. call.size - 1 :
         (\A chunk \in call.chunks : i \notin chunk) => pl[Position(b[ch] + i, PayloadCapacity)] = <<p, s>>

ChunksLanded == \A p \in Producers : Landed(pushing[p], p, sent[p], payload, bound, cHead)
USE VariableMpscLockingAssumption
\* A leaf that names no prover goes to the SMT solver, for a minute at most.
USE SMTT(60)

LocalType == [cHead : Nat, cTail : Nat, bHead : Nat, bTail : Nat]
SizesType == [0 .. Capacity - 1 -> Sizes \cup {0}]
PayloadType == [0 .. PayloadCapacity - 1 -> Tokens \cup {NoToken}]
ChunkSets == SUBSET SUBSET (0 .. PayloadCapacity - 1)

PushCalls ==
  [pc : {"idle", "locked", "fetched", "sizing", "copying", "publishing", "countHeadLanded",
         "payloadHeadLanded", "releasing", "fatal"},
   size : Sizes \cup {0}, chunks : ChunkSets]

PopCalls == [pc : {"idle", "locked", "popping", "releasing", "fatal"}, n : Pops \cup {0}]

\* Sizes are numbers of bytes.
LEMMA SizesAreNat ==
  /\ \A z \in Sizes : z \in Nat
  /\ \A z \in Sizes \cup {0} : z \in Nat
<1>1. 0 \in Nat
  BY Zenon
<1>2. Sizes \subseteq Nat
  BY Zenon
<1> QED BY <1>1, <1>2, Zenon

\* What the invariant says of the type of each variable.
LEMMA Types ==
  ASSUME IInv
  PROVE  /\ cHead \in Nat /\ cTail \in Nat /\ bHead \in Nat /\ bTail \in Nat
         /\ local \in [Producers -> LocalType] /\ sizes \in SizesType /\ payload \in PayloadType
         /\ lock \in Producers \cup {Consumer, Free}
         /\ pushing \in [Producers -> PushCalls] /\ popping \in PopCalls /\ sent \in [Producers -> Nat]
  BY Zenon DEF IInv, TypeOK, LocalType, SizesType, PayloadType, PushCalls, PopCalls, ChunkSets

\* The converse, for the next state.
LEMMA TypesNext ==
  ASSUME NEW ch \in Nat, cHead' = ch, NEW pc, NEW ct, NEW bh, NEW bt, Ledger(pc, ch, ct, bh, bt, bound'),
         cTail' \in Nat, bHead' \in Nat, bTail' \in Nat,
         local' \in [Producers -> LocalType], sizes' \in SizesType, payload' \in PayloadType,
         lock' \in Producers \cup {Consumer, Free},
         pushing' \in [Producers -> PushCalls], popping' \in PopCalls, sent' \in [Producers -> Nat]
  PROVE  TypeOK'
<1>1. DOMAIN bound' \in {0 .. cHead', 0 .. cHead' + 1} /\ \A k \in DOMAIN bound' : bound'[k] \in Nat
  BY Zenon DEF Ledger, Bounded
<1> QED
  BY <1>1, Zenon DEF TypeOK, LocalType, SizesType, PayloadType, PushCalls, PopCalls, ChunkSets

\* What the ledger says of bounds and counters.
LEMMA LedgerFacts ==
  ASSUME NEW pc, NEW ch \in Nat, NEW ct \in Nat, NEW bh \in Nat, NEW bt \in Nat, NEW b,
         Ledger(pc, ch, ct, bh, bt, b)
  PROVE  /\ Bounded(pc, ch) \in {ch, ch + 1} /\ Bounded(pc, ch) \in Nat
         /\ PayloadsCounted(pc, ch) \in 0 .. Bounded(pc, ch) /\ ct \in 0 .. ch
         /\ \A k \in 0 .. Bounded(pc, ch) : b[k] \in Nat
         /\ 0 \notin Sizes => \A j, k \in 0 .. Bounded(pc, ch) : j < k => b[j] < b[k]
         /\ \A j, k \in 0 .. Bounded(pc, ch) : j <= k => b[j] <= b[k]
         /\ bt <= bh
<1> DEFINE last == Bounded(pc, ch)
           mid == PayloadsCounted(pc, ch)
<1>1. last \in {ch, ch + 1} /\ last \in Nat
  BY DEF Bounded
<1>2. mid \in 0 .. last /\ ct <= mid /\ ct \in 0 .. ch /\ ct \in 0 .. last
  BY DEF Ledger, Bounded, PayloadsCounted, Uncounted
<1> HIDE DEF last, mid
<1>3. /\ \A k \in 0 .. last : b[k] \in Nat
      /\ \A j, k \in 0 .. last : j <= k => b[j] <= b[k]
      /\ 0 \notin Sizes => \A j, k \in 0 .. last : j < k => b[j] < b[k]
      /\ bt = b[ct] /\ bh = b[mid]
  BY Zenon DEF Ledger, last, mid
<1>4. bt <= bh
  BY <1>2, <1>3, Zenon
<1> QED BY <1>1, <1>2, <1>3, <1>4, Zenon DEF last, mid

\* A step that counts a token, or the bytes of one, that has a bound already.
LEMMA LedgerMoves ==
  ASSUME NEW pc, NEW ch, NEW ct, NEW bh, NEW bt, NEW b, Ledger(pc, ch, ct, bh, bt, b),
         NEW pc2, NEW ch2, NEW bh2, Bounded(pc2, ch2) = Bounded(pc, ch),
         ct <= PayloadsCounted(pc2, ch2), ct <= ch2, bh2 = b[PayloadsCounted(pc2, ch2)]
  PROVE  Ledger(pc2, ch2, ct, bh2, bt, b)
  BY Zenon DEF Ledger

\* The initial state satisfies the invariant.
LEMMA InitIInv == Init => IInv
<1> SUFFICES ASSUME Init PROVE IInv
  BY Zenon
<1>1. IdlePush \in PushCalls /\ IdlePop \in PopCalls /\ IdlePush.pc = "idle"
  BY Zenon DEF IdlePush, IdlePop, PushCalls, PopCalls, ChunkSets
<1>2. HolderPc = "idle"
  BY Zenon DEF Init, HolderPc
<1>3. Bounded("idle", 0) = 0 /\ PayloadsCounted("idle", 0) = 0
  BY Zenon DEF Bounded, Uncounted, PayloadsCounted
<1>4. Ledger("idle", 0, 0, 0, 0, bound)
  BY <1>3 DEF Init, Ledger
<1>5. TypeOK
  BY <1>1 DEF Init, TypeOK, PushCalls, PopCalls, ChunkSets
<1>6. LockHeld /\ NoFatal /\ PopFits
  BY <1>1, Zenon DEF Init, LockHeld, NoFatal, PopFits, IdlePop
<1>7. FetchedCurrent
  BY <1>1, Zenon DEF Init, FetchedCurrent, Current, Uncounted
<1>8. SizesIn(sizes, 0, 0, bound)
  BY DEF SizesIn
<1> QED
  BY <1>2, <1>3, <1>4, <1>5, <1>6, <1>7, <1>8, Zenon DEF Init, IInv

\* A step of the producer that holds the lock: its call becomes r.
LockedPush(p, r) ==
  /\ lock = p /\ UNCHANGED <<cTail, bTail, lock, popping>>
  /\ pushing' = [pushing EXCEPT ![p] = r] /\ r.pc \notin {"idle", "fatal"}
  /\ cHead' \in Nat /\ bHead' \in Nat /\ cHead <= cHead'
  /\ local' \in [Producers -> LocalType] /\ sizes' \in SizesType /\ payload' \in PayloadType
  /\ sent' \in [Producers -> Nat]
  /\ Ledger(r.pc, cHead', cTail, bHead', bTail, bound')
  /\ Current(r, local'[p], cHead', cTail, bHead', bTail, bound')
  /\ SizesIn(sizes', cTail, Bounded(r.pc, cHead'), bound')

\* While a producer holds the lock, everybody else is between two calls.
LEMMA OnePushMoves ==
  ASSUME IInv, NEW p \in Producers, lock = p \/ lock = Free,
         NEW r \in PushCalls, pushing' = [pushing EXCEPT ![p] = r]
  PROVE  /\ pushing' \in [Producers -> PushCalls]
         /\ pushing'[p] = r
         /\ popping.pc = "idle"
         /\ \A q \in Producers \ {p} : pushing'[q] = pushing[q] /\ pushing[q].pc = "idle"
<1>1. /\ pushing' \in [Producers -> PushCalls]
      /\ pushing'[p] = r
      /\ \A q \in Producers \ {p} : pushing'[q] = pushing[q]
  BY Types, Zenon
<1>2. popping.pc = "idle" /\ \A q \in Producers \ {p} : pushing[q].pc = "idle"
  BY Zenon DEF IInv, LockHeld
<1> QED BY <1>1, <1>2, Zenon

\* Such a step preserves the invariant.
LEMMA LockedPushIInv ==
  ASSUME IInv, NEW p \in Producers, NEW r \in PushCalls, LockedPush(p, r)
  PROVE  IInv'
<1>1. PICK ch \in Nat : cHead' = ch /\ cHead <= ch
  BY Zenon DEF LockedPush
<1>2. /\ lock = p /\ UNCHANGED <<cTail, bTail, lock, popping>>
      /\ pushing' = [pushing EXCEPT ![p] = r] /\ r.pc \notin {"idle", "fatal"}
      /\ bHead' \in Nat
      /\ local' \in [Producers -> LocalType] /\ sizes' \in SizesType /\ payload' \in PayloadType
      /\ sent' \in [Producers -> Nat]
      /\ Ledger(r.pc, ch, cTail, bHead', bTail, bound')
      /\ Current(r, local'[p], ch, cTail, bHead', bTail, bound')
      /\ SizesIn(sizes', cTail, Bounded(r.pc, ch), bound')
  BY <1>1, Zenon DEF LockedPush
<1>3. /\ pushing' \in [Producers -> PushCalls] /\ pushing'[p] = r /\ popping.pc = "idle"
      /\ \A q \in Producers \ {p} : pushing'[q] = pushing[q] /\ pushing[q].pc = "idle"
  BY <1>2, OnePushMoves, Zenon
<1>4. HolderPc' = r.pc
  BY <1>2, <1>3, Zenon DEF HolderPc
<1>5. TypeOK'
  <2>1. cTail' \in Nat /\ bTail' \in Nat /\ popping' \in PopCalls /\ lock' \in Producers \cup {Consumer, Free}
    BY <1>2, Types, Zenon
  <2> QED BY <1>1, <1>2, <1>3, <2>1, TypesNext, Zenon
<1>6. LockHeld' /\ NoFatal'
  BY <1>2, <1>3, Zenon DEF LockHeld, NoFatal
<1>7. FetchedCurrent'
  <2>1. \A q \in Producers \ {p} : Current(pushing'[q], local'[q], cHead', cTail', bHead', bTail', bound')
    BY <1>3, Zenon DEF Current, Uncounted
  <2>2. Current(pushing'[p], local'[p], cHead', cTail', bHead', bTail', bound')
    BY <1>1, <1>2, <1>3, Zenon
  <2> QED BY <2>1, <2>2, Zenon DEF FetchedCurrent
<1>8. PopFits'
  BY <1>2, <1>3, Zenon DEF PopFits
<1>9. Ledger(HolderPc, cHead, cTail, bHead, bTail, bound)' /\ SizesIn(sizes, cTail, Bounded(HolderPc, cHead), bound)'
  BY <1>1, <1>2, <1>4, Zenon
<1> QED BY <1>5, <1>6, <1>7, <1>8, <1>9, Zenon DEF IInv
\* The steps of push that move no counter and write nothing but payload.
LEMMA QuietPushIInv ==
  ASSUME IInv, NEW p \in Producers, lock = p, NEW r \in PushCalls, r.pc \notin {"idle", "fatal"},
         pushing' = [pushing EXCEPT ![p] = r],
         UNCHANGED <<cHead, cTail, bHead, bTail, sizes, lock, popping, sent, bound>>,
         local' \in [Producers -> LocalType], payload' \in PayloadType,
         Bounded(r.pc, cHead) = Bounded(pushing[p].pc, cHead),
         PayloadsCounted(r.pc, cHead) = PayloadsCounted(pushing[p].pc, cHead),
         Current(r, local'[p], cHead, cTail, bHead, bTail, bound)
  PROVE  IInv'
<1>1. /\ HolderPc = pushing[p].pc
      /\ Ledger(pushing[p].pc, cHead, cTail, bHead, bTail, bound)
      /\ SizesIn(sizes, cTail, Bounded(pushing[p].pc, cHead), bound)
  BY Zenon DEF IInv, HolderPc
<1>2. Ledger(r.pc, cHead, cTail, bHead, bTail, bound)
  BY <1>1, Zenon DEF Ledger
<1>3. /\ cHead \in Nat /\ bHead \in Nat /\ cHead <= cHead
      /\ sizes \in SizesType /\ sent \in [Producers -> Nat]
  BY Types
<1>4. LockedPush(p, r)
  BY <1>1, <1>2, <1>3, Zenon DEF LockedPush
<1> QED BY <1>4, LockedPushIInv, Zenon

\* push takes the lock.
LEMMA PushAcquireIInv ==
  ASSUME IInv, NEW p \in Producers, NEW size \in Sizes, PushAcquire(p, size)
  PROVE  IInv'
<1> USE DEF counters, memory
<1> DEFINE r == [pc |-> "locked", size |-> size, chunks |-> {}]
<1>1. r \in PushCalls /\ r.pc = "locked" /\ r.size = size
  BY Zenon DEF PushCalls, ChunkSets
<1>2. /\ pushing' = [pushing EXCEPT ![p] = r] /\ lock = Free /\ lock' = p
      /\ UNCHANGED <<cHead, cTail, bHead, bTail, local, sizes, payload, popping, sent, bound>>
  BY Zenon DEF PushAcquire, acquireGlobalLock
<1> HIDE DEF r
<1>3. /\ pushing' \in [Producers -> PushCalls] /\ pushing'[p] = r /\ popping.pc = "idle"
      /\ \A q \in Producers \ {p} : pushing'[q] = pushing[q] /\ pushing[q].pc = "idle"
  BY <1>1, <1>2, OnePushMoves, Zenon
<1>4. HolderPc = "idle" /\ HolderPc' = "locked"
  BY <1>1, <1>2, <1>3, Zenon DEF HolderPc
<1>5. Bounded("locked", cHead) = Bounded("idle", cHead) /\ PayloadsCounted("locked", cHead) = PayloadsCounted("idle", cHead)
  BY Zenon DEF Bounded, Uncounted, PayloadsCounted
<1>6. /\ Ledger("locked", cHead, cTail, bHead, bTail, bound)
      /\ SizesIn(sizes, cTail, Bounded("locked", cHead), bound)
  BY <1>4, <1>5, Zenon DEF IInv, Ledger
<1>7. TypeOK'
  BY <1>2, <1>3, <1>6, Types, TypesNext, Zenon
<1>8. LockHeld' /\ NoFatal' /\ PopFits'
  BY <1>1, <1>2, <1>3, Zenon DEF LockHeld, NoFatal, PopFits
<1>9. FetchedCurrent'
  BY <1>1, <1>2, <1>3, Zenon DEF FetchedCurrent, Current, Uncounted
<1> QED BY <1>2, <1>4, <1>6, <1>7, <1>8, <1>9, Zenon DEF IInv

\* push has the lock and gives it back.
LEMMA PushReleaseIInv ==
  ASSUME IInv, NEW p \in Producers, PushRelease(p)
  PROVE  IInv'
<1> USE DEF counters, memory
<1>1. IdlePush \in PushCalls /\ IdlePush.pc = "idle"
  BY Zenon DEF IdlePush, PushCalls, ChunkSets
<1>2. /\ pushing' = [pushing EXCEPT ![p] = IdlePush] /\ lock = p /\ lock' = Free /\ pushing[p].pc = "releasing"
      /\ UNCHANGED <<cHead, cTail, bHead, bTail, local, sizes, payload, popping, sent, bound>>
  BY Zenon DEF PushRelease, releaseGlobalLock
<1>3. /\ pushing' \in [Producers -> PushCalls] /\ pushing'[p] = IdlePush /\ popping.pc = "idle"
      /\ \A q \in Producers \ {p} : pushing'[q] = pushing[q] /\ pushing[q].pc = "idle"
  BY <1>1, <1>2, OnePushMoves, Zenon
<1>4. HolderPc = "releasing" /\ HolderPc' = "idle"
  BY <1>2, Zenon DEF HolderPc
<1>5. Bounded("releasing", cHead) = Bounded("idle", cHead)
      /\ PayloadsCounted("releasing", cHead) = PayloadsCounted("idle", cHead)
  BY Zenon DEF Bounded, Uncounted, PayloadsCounted
<1>6. /\ Ledger("idle", cHead, cTail, bHead, bTail, bound)
      /\ SizesIn(sizes, cTail, Bounded("idle", cHead), bound)
  BY <1>4, <1>5, Zenon DEF IInv, Ledger
<1>7. TypeOK'
  BY <1>2, <1>3, <1>6, Types, TypesNext, Zenon
<1>8. LockHeld' /\ NoFatal' /\ PopFits'
  BY <1>1, <1>2, <1>3, Zenon DEF LockHeld, NoFatal, PopFits
<1>9. FetchedCurrent'
  BY <1>1, <1>2, <1>3, Zenon DEF FetchedCurrent, Current, Uncounted
<1> QED BY <1>2, <1>4, <1>6, <1>7, <1>8, <1>9, Zenon DEF IInv

\* What the producer that holds the lock knows.
LEMMA HolderFacts ==
  ASSUME IInv, NEW p \in Producers, pushing[p].pc # "idle"
  PROVE  /\ lock = p /\ pushing[p] \in PushCalls /\ local[p] \in LocalType /\ sent[p] \in Nat
         /\ pushing[p].size \in Sizes /\ pushing[p].size \in Nat
         /\ Current(pushing[p], local[p], cHead, cTail, bHead, bTail, bound)
         /\ Ledger(pushing[p].pc, cHead, cTail, bHead, bTail, bound)
         /\ SizesIn(sizes, cTail, Bounded(pushing[p].pc, cHead), bound)
         /\ cTail <= cHead /\ bTail <= bHead
<1>1. lock = p /\ Current(pushing[p], local[p], cHead, cTail, bHead, bTail, bound)
  BY Zenon DEF IInv, LockHeld, FetchedCurrent
<1>2. pushing[p].size \in Sizes
  BY <1>1, Zenon DEF Current
<1>3. pushing[p].size \in Nat
  BY <1>2, SizesAreNat, Zenon
<1>4. HolderPc = pushing[p].pc
  BY <1>1, Zenon DEF HolderPc
<1>5. pushing[p] \in PushCalls /\ local[p] \in LocalType /\ sent[p] \in Nat
  BY Types, Zenon
<1>6. cTail <= cHead /\ bTail <= bHead
  <2>1. /\ Ledger(HolderPc, cHead, cTail, bHead, bTail, bound)
        /\ cHead \in Nat /\ cTail \in Nat /\ bHead \in Nat /\ bTail \in Nat
    BY Types, Zenon DEF IInv
  <2>2. cTail \in 0 .. cHead /\ bTail <= bHead
    BY <2>1, LedgerFacts, Zenon
  <2> QED BY <2>1, <2>2
<1> QED BY <1>1, <1>2, <1>3, <1>4, <1>5, <1>6, Zenon DEF IInv

\* advanceHead on both of a producer's own coordination buffers.
LEMMA HeadsAdvance ==
  ASSUME NEW l \in LocalType, NEW z \in Nat
  PROVE  LET m == [l EXCEPT !.cHead = @ + 1, !.bHead = @ + z]
         IN  m \in LocalType /\ m.cHead = l.cHead + 1 /\ m.bHead = l.bHead + z
<1>1. l.cHead + 1 \in Nat /\ l.bHead + z \in Nat
  BY DEF LocalType
<1> QED BY <1>1, Zenon DEF LocalType

\* The steps of push up to its last write preserve the invariant.
LEMMA PushWritesIInv ==
  ASSUME IInv, NEW p \in Producers,
         updateDepth(p) \/ PushCheck(p) \/ (\E chunk \in pushing[p].chunks : ChunkLands(p, chunk)) \/ PushFence(p)
  PROVE  IInv'
<1> USE DEF counters, memory
<1> DEFINE call == pushing[p]
<1>0. /\ cHead \in Nat /\ cTail \in Nat /\ bHead \in Nat /\ bTail \in Nat /\ call \in PushCalls
      /\ local \in [Producers -> LocalType] /\ payload \in PayloadType
      /\ pushing \in [Producers -> PushCalls] /\ call.pc # "idle"
  BY Types, Zenon DEF updateDepth, PushCheck, ChunkLands, PushFence
<1>1. /\ lock = p /\ local[p] \in LocalType /\ call.size \in Sizes /\ call.size \in Nat /\ sent[p] \in Nat
      /\ Current(call, local[p], cHead, cTail, bHead, bTail, bound)
      /\ Ledger(call.pc, cHead, cTail, bHead, bTail, bound)
      /\ cTail <= cHead /\ bTail <= bHead
  BY <1>0, HolderFacts, Zenon
<1>2. CASE updateDepth(p)
  <2> DEFINE r == [call EXCEPT !.pc = "fetched"]
  <2>1. call.pc = "locked" /\ r \in PushCalls /\ r.pc = "fetched" /\ r.size = call.size
        /\ pushing' = [pushing EXCEPT ![p] = r]
    BY <1>0, <1>2, Zenon DEF updateDepth, PushCalls
  <2>2. /\ local' \in [Producers -> LocalType] /\ local'[p].cHead = cHead /\ local'[p].cTail = cTail
        /\ local'[p].bHead = bHead /\ local'[p].bTail = bTail
        /\ UNCHANGED <<cHead, cTail, bHead, bTail, sizes, payload, lock, popping, sent, bound>>
    BY <1>0, <1>2, Zenon DEF updateDepth, LocalType
  <2> HIDE DEF r
  <2>3. /\ Bounded(r.pc, cHead) = Bounded(call.pc, cHead)
        /\ PayloadsCounted(r.pc, cHead) = PayloadsCounted(call.pc, cHead)
    BY <2>1, Zenon DEF Bounded, Uncounted, PayloadsCounted
  <2>4. Current(r, local'[p], cHead, cTail, bHead, bTail, bound)
    BY <1>1, <2>1, <2>2, Zenon DEF Current, Uncounted
  <2>5. r.pc \notin {"idle", "fatal"}
    BY <2>1, Zenon
  <2> HIDE DEF call
  <2> QED BY <1>0, <1>1, <2>1, <2>2, <2>3, <2>4, <2>5, QuietPushIInv, Zenon DEF call
<1>3. CASE PushCheck(p)
  <2>1. call.pc = "fetched"
    BY <1>3, Zenon DEF PushCheck
  <2>2. local[p].cHead = cHead /\ local[p].cTail = cTail /\ local[p].bHead = bHead /\ local[p].bTail = bTail
    BY <1>1, <2>1, Zenon DEF Current
  <2>4. ~OutOfOrder(local[p].bHead, local[p].bTail) /\ ~OutOfOrder(local[p].cHead, local[p].cTail)
    BY <1>0, <1>1, <2>2 DEF OutOfOrder
  <2> DEFINE fits == PayloadFits(p) /\ CountFits(p)
             r == [call EXCEPT !.pc = IF fits THEN "sizing" ELSE "releasing"]
  <2>5. pushing' = [pushing EXCEPT ![p] = r]
    BY <1>0, <1>3, <2>4, Zenon DEF PushCheck
  <2>6. r \in PushCalls /\ r.pc = (IF fits THEN "sizing" ELSE "releasing") /\ r.size = call.size
    BY <1>0, Zenon DEF PushCalls
  <2>7. UNCHANGED <<cHead, cTail, bHead, bTail, local, sizes, payload, lock, popping, sent, bound>>
    BY <1>3, Zenon DEF PushCheck
  <2>8. fits => cHead + 1 - cTail <= Capacity /\ bHead + call.size - bTail <= PayloadCapacity
    BY <1>0, <1>1, <2>2 DEF PayloadFits, CountFits, getDepth
  <2> HIDE DEF r, fits
  <2>9. /\ Bounded(r.pc, cHead) = Bounded(call.pc, cHead)
        /\ PayloadsCounted(r.pc, cHead) = PayloadsCounted(call.pc, cHead)
    BY <2>1, <2>6, Zenon DEF Bounded, Uncounted, PayloadsCounted
  <2>10. Current(r, local'[p], cHead, cTail, bHead, bTail, bound)
    BY <1>1, <2>2, <2>6, <2>7, <2>8, Zenon DEF Current, Uncounted
  <2>11. r.pc \notin {"idle", "fatal"}
    BY <2>6, Zenon
  <2> HIDE DEF call
  <2> QED BY <1>0, <1>1, <2>5, <2>6, <2>7, <2>9, <2>10, <2>11, QuietPushIInv, Zenon DEF call
<1>4. ASSUME NEW chunk \in call.chunks, ChunkLands(p, chunk) PROVE IInv'
  <2> DEFINE r == [call EXCEPT !.chunks = @ \ {chunk}]
  <2>1. call.pc = "copying" /\ r \in PushCalls /\ r.pc = "copying" /\ r.size = call.size
        /\ pushing' = [pushing EXCEPT ![p] = r]
    BY <1>0, <1>4, Zenon DEF ChunkLands, PushCalls, ChunkSets
  <2>2. UNCHANGED <<cHead, cTail, bHead, bTail, local, sizes, lock, popping, sent, bound>>
    BY <1>4, Zenon DEF ChunkLands
  <2>3. payload' \in PayloadType
    <3>1. <<p, sent[p]>> \in Tokens \cup {NoToken}
      BY <1>1, Zenon DEF Tokens
    <3> QED BY <1>0, <1>4, <3>1, Zenon DEF ChunkLands, PayloadType
  <2> HIDE DEF r
  <2>4. Current(r, local'[p], cHead, cTail, bHead, bTail, bound)
    BY <1>1, <2>1, <2>2, Zenon DEF Current, Uncounted
  <2>5. r.pc \notin {"idle", "fatal"} /\ r.pc = call.pc
    BY <2>1, Zenon
  <2> HIDE DEF call
  <2> QED BY <1>0, <1>1, <2>1, <2>2, <2>3, <2>4, <2>5, QuietPushIInv, Zenon DEF call
<1>5. CASE PushFence(p)
  <2>1. call.pc = "copying" /\ Uncounted(call.pc)
    BY <1>5, Zenon DEF PushFence, Uncounted
  <2>2. /\ local[p].cHead = cHead /\ local[p].cTail = cTail /\ local[p].bHead = bHead /\ local[p].bTail = bTail
        /\ bound[cHead + 1] = bound[cHead] + call.size
    BY <1>1, <2>1, Zenon DEF Current
  <2>3. /\ cHead + 1 - cTail <= Capacity
        /\ bHead = bound[cHead] /\ bound[cHead + 1] - bTail <= PayloadCapacity
    <3>1. Bounded(call.pc, cHead) = cHead + 1 /\ PayloadsCounted(call.pc, cHead) = cHead
      BY <2>1, Zenon DEF Bounded, PayloadsCounted
    <3>2. /\ bHead = bound[PayloadsCounted(call.pc, cHead)] /\ Bounded(call.pc, cHead) - cTail <= Capacity
          /\ bound[Bounded(call.pc, cHead)] - bTail <= PayloadCapacity
      BY <1>1, Zenon DEF Ledger
    <3> QED BY <1>0, <3>1, <3>2
  <2>4. /\ ~AdvanceHeadFatal(local[p].cHead, local[p].cTail, 1, Capacity)
        /\ ~AdvanceHeadFatal(local[p].bHead, local[p].bTail, call.size, PayloadCapacity)
    <3>1. bHead + call.size - bTail <= PayloadCapacity
      BY <1>0, <1>1, <2>2, <2>3
    <3> QED BY <1>0, <1>1, <2>2, <2>3, <3>1 DEF AdvanceHeadFatal, OutOfOrder, getDepth
  <2> DEFINE r == [call EXCEPT !.pc = "publishing"]
             l == [local[p] EXCEPT !.cHead = @ + 1, !.bHead = @ + call.size]
  <2>5. pushing' = [pushing EXCEPT ![p] = r] /\ local' = [local EXCEPT ![p] = l]
    BY <1>0, <1>5, <2>4, Zenon DEF PushFence
  <2>6. r \in PushCalls /\ r.pc = "publishing" /\ r.size = call.size
    BY <1>0, Zenon DEF PushCalls
  <2>7. UNCHANGED <<cHead, cTail, bHead, bTail, sizes, payload, lock, popping, sent, bound>>
    BY <1>5, Zenon DEF PushFence
  <2>8. l \in LocalType /\ l.cHead = cHead + 1 /\ l.bHead = bound[cHead + 1]
    <3>1. l \in LocalType /\ l.cHead = local[p].cHead + 1 /\ l.bHead = local[p].bHead + call.size
      BY <1>1, HeadsAdvance, Zenon
    <3>2. local[p].bHead + call.size = bound[cHead + 1]
      <4>1. local[p].bHead = bound[cHead] /\ bound[cHead + 1] = bound[cHead] + call.size
        BY <2>2, <2>3, Zenon
      <4> QED BY <4>1, Zenon
    <3> HIDE DEF l
    <3> QED BY <2>2, <3>1, <3>2, Zenon
  <2> HIDE DEF r, l
  <2>9. local' \in [Producers -> LocalType] /\ local'[p] = l
    BY <1>0, <2>5, <2>8, Zenon
  <2>10. /\ Bounded(r.pc, cHead) = Bounded(call.pc, cHead)
         /\ PayloadsCounted(r.pc, cHead) = PayloadsCounted(call.pc, cHead)
    BY <2>1, <2>6, Zenon DEF Bounded, Uncounted, PayloadsCounted
  <2>11. Current(r, local'[p], cHead, cTail, bHead, bTail, bound)
    BY <1>1, <2>2, <2>6, <2>8, <2>9, Zenon DEF Current, Uncounted
  <2>12. r.pc \notin {"idle", "fatal"}
    BY <2>6, Zenon
  <2> HIDE DEF call
  <2> QED BY <1>0, <1>1, <2>5, <2>6, <2>7, <2>9, <2>10, <2>11, <2>12, QuietPushIInv, Zenon DEF call
<1> QED BY <1>2, <1>3, <1>4, <1>5, Zenon
\* A token of z bytes that fits gets its bound.
Extends(b2, b, ch, end) ==
  b2 \in [0 .. ch + 1 -> Nat] /\ b2[ch + 1] = end /\ \A k \in 0 .. ch : b2[k] = b[k]

\* The bounds stay in order.
LEMMA LedgerGrows ==
  ASSUME NEW ch \in Nat, NEW ct \in Nat, NEW bh \in Nat, NEW bt \in Nat, NEW b, NEW z \in Sizes, z \in Nat,
         Ledger("sizing", ch, ct, bh, bt, b), ch + 1 - ct <= Capacity, bh + z - bt <= PayloadCapacity,
         NEW b2, Extends(b2, b, ch, bh + z)
  PROVE  Ledger("copying", ch, ct, bh, bt, b2)
<1>1. /\ Bounded("sizing", ch) = ch /\ PayloadsCounted("sizing", ch) = ch
      /\ Bounded("copying", ch) = ch + 1 /\ PayloadsCounted("copying", ch) = ch
  BY Zenon DEF Bounded, Uncounted, PayloadsCounted
<1>2. /\ b \in [0 .. ch -> Nat] /\ bh = b[ch] /\ ct <= ch /\ bt = b[ct]
      /\ \A j, k \in 0 .. ch : j <= k => b[j] <= b[k]
      /\ 0 \notin Sizes => \A j, k \in 0 .. ch : j < k => b[j] < b[k]
  BY <1>1, Zenon DEF Ledger
<1>3. b2 \in [0 .. ch + 1 -> Nat] /\ b2[ch + 1] = bh + z /\ \A k \in 0 .. ch : b2[k] = b[k]
  BY Zenon DEF Extends
<1>4. b2[ch] = bh /\ b2[ct] = bt
  BY <1>2, <1>3
<1>5. ASSUME NEW j \in 0 .. ch + 1, NEW k \in 0 .. ch + 1, j < k
      PROVE  b2[j] <= b2[k] /\ (0 \notin Sizes => b2[j] < b2[k])
  <2>1. CASE k = ch + 1
    <3>1. j \in 0 .. ch /\ j <= ch /\ ch \in 0 .. ch
      BY <1>5, <2>1
    <3>2. b[j] \in Nat /\ b[j] <= bh /\ b2[j] = b[j]
      BY <1>2, <1>3, <3>1, Zenon
    <3>3. 0 \notin Sizes => z # 0
      BY Zenon
    <3> QED BY <1>3, <2>1, <3>2, <3>3
  <2>2. CASE k # ch + 1
    <3>1. j \in 0 .. ch /\ k \in 0 .. ch /\ j <= k
      BY <1>5, <2>2
    <3> QED BY <1>2, <1>3, <1>5, <3>1, Zenon
  <2> QED BY <2>1, <2>2, Zenon
<1>6. Ledger("copying", ch, ct, bh, bt, b2)
  <2>1. (ch + 1) - ct <= Capacity /\ b2[ch + 1] - bt <= PayloadCapacity /\ ct <= ch
    BY <1>2, <1>3
  <2>2. \A j, k \in 0 .. ch + 1 : j <= k => b2[j] <= b2[k]
    <3>1. \A j, k \in 0 .. ch + 1 : j <= k => j = k \/ j < k
      OBVIOUS
    <3>2. \A j \in 0 .. ch + 1 : b2[j] <= b2[j]
      BY <1>3
    <3> QED BY <1>5, <3>1, <3>2, Zenon
  <2>3. 0 \notin Sizes => \A j, k \in 0 .. ch + 1 : j < k => b2[j] < b2[k]
    BY <1>5, Zenon
  <2> QED BY <1>1, <1>3, <1>4, <2>1, <2>2, <2>3, Zenon DEF Ledger
<1> QED BY <1>6, Zenon

\* The chunks of a token that fits.
LEMMA ChunksType ==
  ASSUME NEW p \in Producers, pushing[p].size \in Nat, pushing[p].size <= PayloadCapacity
  PROVE  Chunks(p) \in ChunkSets /\ Chunks(p) \subseteq SUBSET (0 .. pushing[p].size - 1)
<1>1. 0 .. pushing[p].size - 1 \subseteq 0 .. PayloadCapacity - 1
  OBVIOUS
<1>2. Chunks(p) \subseteq SUBSET (0 .. pushing[p].size - 1)
  BY Zenon DEF Chunks
<1> QED BY <1>1, <1>2, Zenon DEF ChunkSets

\* The size of the token lands.
LEMMA SizeLandsIInv ==
  ASSUME IInv, NEW p \in Producers, SizeLands(p)
  PROVE  IInv'
<1> USE DEF counters, memory
<1> DEFINE call == pushing[p]
           size == pushing[p].size
           r == [call EXCEPT !.pc = "copying", !.chunks = Chunks(p)]
<1>0. /\ cHead \in Nat /\ cTail \in Nat /\ bHead \in Nat /\ bTail \in Nat
      /\ local \in [Producers -> LocalType] /\ payload \in PayloadType /\ sizes \in SizesType
      /\ pushing \in [Producers -> PushCalls] /\ call.pc = "sizing" /\ sent \in [Producers -> Nat]
  BY Types, Zenon DEF SizeLands
<1>1. /\ lock = p /\ call \in PushCalls /\ size \in Sizes /\ size \in Nat
      /\ Current(call, local[p], cHead, cTail, bHead, bTail, bound)
      /\ Ledger("sizing", cHead, cTail, bHead, bTail, bound)
      /\ SizesIn(sizes, cTail, Bounded("sizing", cHead), bound)
      /\ cTail <= cHead /\ bTail <= bHead
  <2>1. call.pc # "idle"
    BY <1>0, Zenon
  <2> QED BY <1>0, <2>1, HolderFacts, Zenon
<1>2. /\ local[p].cHead = cHead /\ local[p].cTail = cTail /\ local[p].bHead = bHead /\ local[p].bTail = bTail
      /\ cHead + 1 - cTail <= Capacity /\ bHead + size - bTail <= PayloadCapacity
  BY <1>0, <1>1, Zenon DEF Current
<1>3. Chunks(p) \in ChunkSets
  <2>1. size <= PayloadCapacity
    BY <1>0, <1>1, <1>2
  <2> QED BY <1>1, <2>1, ChunksType, Zenon
<1>4. r \in PushCalls /\ r.pc = "copying" /\ r.size = size
  BY <1>1, <1>3, Zenon DEF PushCalls
<1>5. /\ pushing' = [pushing EXCEPT ![p] = r]
      /\ sizes' = [sizes EXCEPT ![Position(cHead, Capacity)] = size]
      /\ bound' = [k \in 0 .. cHead + 1 |-> IF k = cHead + 1 THEN bHead + size ELSE bound[k]]
      /\ UNCHANGED <<cHead, cTail, bHead, bTail, local, payload, lock, popping, sent>>
  BY <1>2, Zenon DEF SizeLands
<1> HIDE DEF r
<1>6. /\ Ledger("copying", cHead, cTail, bHead, bTail, bound')
      /\ bound'[cHead + 1] = bound'[cHead] + size /\ bound'[cHead] = bHead
      /\ \A k \in 0 .. cHead : bound'[k] = bound[k]
  <2>1. \A k \in 0 .. cHead : bound[k] \in Nat
    <3>1. Bounded("sizing", cHead) = cHead
      BY Zenon DEF Bounded, Uncounted
    <3> QED BY <1>1, <3>1, Zenon DEF Ledger
  <2>2. bound' \in [0 .. cHead + 1 -> Nat]
    BY <1>0, <1>1, <1>5, <2>1
  <2>3. bound'[cHead + 1] = bHead + size /\ \A k \in 0 .. cHead : bound'[k] = bound[k]
    BY <1>0, <1>5
  <2>4. Extends(bound', bound, cHead, bHead + size)
    BY <2>2, <2>3, Zenon DEF Extends
  <2>5. Ledger("copying", cHead, cTail, bHead, bTail, bound')
    <3>1. cHead + 1 - cTail <= Capacity /\ bHead + size - bTail <= PayloadCapacity
      BY <1>2, Zenon
    <3>2. size \in Sizes /\ size \in Nat /\ Ledger("sizing", cHead, cTail, bHead, bTail, bound)
      BY <1>1, Zenon
    <3>3. cHead \in Nat /\ cTail \in Nat /\ bHead \in Nat /\ bTail \in Nat
      BY <1>0, Zenon
    <3> QED BY <2>4, <3>1, <3>2, <3>3, LedgerGrows, Zenon
  <2>6. bound[cHead] = bHead
    BY <1>0, <1>1, Zenon DEF Ledger, PayloadsCounted
  <2>7. bound'[cHead] = bHead
    BY <1>0, <2>3, <2>6
  <2> QED BY <2>3, <2>5, <2>7, Zenon
<1>7. sizes' \in SizesType
  BY <1>0, <1>1, <1>5, Zenon DEF SizesType
<1>8. SizesIn(sizes', cTail, cHead + 1, bound')
  <2> SUFFICES ASSUME NEW k \in cTail .. (cHead + 1) - 1
               PROVE  sizes'[Position(k, Capacity)] = bound'[k + 1] - bound'[k]
    BY Zenon DEF SizesIn
  <2>1. /\ k \in Nat /\ Position(k, Capacity) \in 0 .. Capacity - 1
        /\ Position(cHead, Capacity) \in 0 .. Capacity - 1
    <3>1. k \in Nat
      BY <1>0
    <3> QED BY <1>0, <3>1, PositionInRange, Zenon
  <2>2. CASE k = cHead
    <3>1. sizes'[Position(k, Capacity)] = size
      BY <1>0, <1>5, <2>1, <2>2, Zenon DEF SizesType
    <3>2. bound'[cHead + 1] - bound'[cHead] = size
      <4>1. (bHead + size) - bHead = size
        BY <1>0, <1>1
      <4>2. bound'[cHead + 1] = bHead + size /\ bound'[cHead] = bHead
        BY <1>6, Zenon
      <4> QED BY <4>1, <4>2, Zenon
    <3> QED BY <2>2, <3>1, <3>2, Zenon
  <2>3. CASE k # cHead
    <3>1. /\ k < cHead /\ cHead - k < Capacity /\ k \in cTail .. cHead - 1
          /\ k \in 0 .. cHead /\ k + 1 \in 0 .. cHead
      BY <1>0, <1>1, <1>2, <2>1, <2>3
    <3>2. Position(k, Capacity) # Position(cHead, Capacity)
      BY <1>0, <2>1, <3>1, PositionsDistinct, Zenon
    <3>3. Bounded("sizing", cHead) = cHead
      BY Zenon DEF Bounded, Uncounted
    <3>4. sizes[Position(k, Capacity)] = bound[k + 1] - bound[k]
      BY <1>1, <3>1, <3>3, Zenon DEF SizesIn
    <3>5. sizes'[Position(k, Capacity)] = sizes[Position(k, Capacity)]
      BY <1>0, <1>5, <2>1, <3>2, Zenon DEF SizesType
    <3>6. bound'[k + 1] = bound[k + 1] /\ bound'[k] = bound[k]
      BY <1>6, <3>1, Zenon
    <3> QED BY <3>4, <3>5, <3>6, Zenon
  <2> QED BY <2>2, <2>3, Zenon
<1>9. Current(r, local'[p], cHead, cTail, bHead, bTail, bound')
  BY <1>1, <1>2, <1>4, <1>5, <1>6, Zenon DEF Current, Uncounted
<1>10. Bounded("copying", cHead) = cHead + 1
  BY Zenon DEF Bounded, Uncounted
<1>11. LockedPush(p, r)
  <2>1. cHead <= cHead /\ r.pc \notin {"idle", "fatal"}
    BY <1>0, <1>4
  <2> QED BY <1>0, <1>1, <1>4, <1>5, <1>6, <1>7, <1>8, <1>9, <1>10, <2>1, Zenon DEF LockedPush
<1> QED BY <1>4, <1>11, LockedPushIInv, Zenon

\* A head lands.
LEMMA HeadLandsIInv ==
  ASSUME IInv, NEW p \in Producers, CountHeadLands(p) \/ PayloadHeadLands(p)
  PROVE  IInv'
<1> USE DEF counters, memory
<1> DEFINE call == pushing[p]
<1>0. /\ cHead \in Nat /\ cTail \in Nat /\ bHead \in Nat /\ bTail \in Nat
      /\ local \in [Producers -> LocalType] /\ payload \in PayloadType /\ sizes \in SizesType
      /\ pushing \in [Producers -> PushCalls] /\ sent \in [Producers -> Nat]
      /\ call.pc \in {"publishing", "payloadHeadLanded", "countHeadLanded"}
  BY Types, Zenon DEF CountHeadLands, PayloadHeadLands
<1>1. /\ lock = p /\ call \in PushCalls /\ call.size \in Sizes /\ local[p] \in LocalType /\ sent[p] \in Nat
      /\ Current(call, local[p], cHead, cTail, bHead, bTail, bound)
      /\ Ledger(call.pc, cHead, cTail, bHead, bTail, bound)
      /\ SizesIn(sizes, cTail, Bounded(call.pc, cHead), bound)
      /\ cTail <= cHead
  <2>1. call.pc # "idle"
    BY <1>0, Zenon
  <2> QED BY <1>0, <2>1, HolderFacts, Zenon
<1>2. CASE CountHeadLands(p)
  <2> DEFINE pc == IF call.pc = "publishing" THEN "countHeadLanded" ELSE "releasing"
             r == [call EXCEPT !.pc = pc]
  <2>1. /\ call.pc \in {"publishing", "payloadHeadLanded"} /\ local[p].cHead = cHead + 1
        /\ (call.pc = "publishing" => local[p].bHead = bound[cHead + 1])
    BY <1>1, <1>2, Zenon DEF CountHeadLands, Current
  <2>2. /\ r \in PushCalls /\ r.pc = pc /\ r.size = call.size
    BY <1>1, Zenon DEF PushCalls
  <2>3. /\ pushing' = [pushing EXCEPT ![p] = r] /\ cHead' = cHead + 1 /\ sent' \in [Producers -> Nat]
        /\ UNCHANGED <<cTail, bHead, bTail, local, sizes, payload, lock, popping, bound>>
    BY <1>0, <1>2, <2>1 DEF CountHeadLands
  <2>4. /\ Bounded(pc, cHead + 1) = Bounded(call.pc, cHead)
        /\ PayloadsCounted(pc, cHead + 1) = PayloadsCounted(call.pc, cHead)
    BY <1>0, <2>1 DEF Bounded, Uncounted, PayloadsCounted
  <2>5. pc \in {"countHeadLanded", "releasing"} /\ (pc = "countHeadLanded" => call.pc = "publishing")
    BY Zenon
  <2> HIDE DEF r, pc
  <2>6. Ledger(pc, cHead + 1, cTail, bHead, bTail, bound)
    <3>1. cTail <= PayloadsCounted(call.pc, cHead) /\ bHead = bound[PayloadsCounted(call.pc, cHead)]
      BY <1>1, Zenon DEF Ledger
    <3>2. cTail <= PayloadsCounted(pc, cHead + 1) /\ bHead = bound[PayloadsCounted(pc, cHead + 1)]
      BY <2>4, <3>1, Zenon
    <3>3. cTail <= cHead + 1
      BY <1>0, <1>1
    <3> HIDE DEF call
    <3>4. Bounded(pc, cHead + 1) = Bounded(call.pc, cHead)
      BY <2>4, Zenon
    <3>5. Ledger(call.pc, cHead, cTail, bHead, bTail, bound)
      BY <1>1, Zenon
    <3> QED BY <3>2, <3>3, <3>4, <3>5, LedgerMoves
  <2>7. Current(r, local[p], cHead + 1, cTail, bHead, bTail, bound)
    BY <1>1, <2>1, <2>2, <2>5, Zenon DEF Current, Uncounted
  <2>8. LockedPush(p, r)
    <3>1. cHead + 1 \in Nat /\ cHead <= cHead + 1 /\ r.pc \notin {"idle", "fatal"}
      BY <1>0, <2>2, <2>5
    <3> HIDE DEF call
    <3> QED BY <1>0, <1>1, <2>2, <2>3, <2>4, <2>6, <2>7, <3>1, Zenon DEF LockedPush
  <2> QED BY <2>2, <2>8, LockedPushIInv, Zenon
<1>3. CASE PayloadHeadLands(p)
  <2> DEFINE pc == IF call.pc = "publishing" THEN "payloadHeadLanded" ELSE "releasing"
             r == [call EXCEPT !.pc = pc]
  <2>1. /\ call.pc \in {"publishing", "countHeadLanded"}
        /\ (call.pc = "publishing" => local[p].cHead = cHead + 1 /\ local[p].bHead = bound[cHead + 1]
                                       /\ bound[cHead + 1] = bound[cHead] + call.size)
        /\ (call.pc = "countHeadLanded" => local[p].bHead = bound[cHead])
    BY <1>1, <1>3, Zenon DEF PayloadHeadLands, Current, Uncounted
  <2>2. /\ r \in PushCalls /\ r.pc = pc /\ r.size = call.size
    BY <1>1, Zenon DEF PushCalls
  <2>3. /\ pushing' = [pushing EXCEPT ![p] = r] /\ bHead' = local[p].bHead
        /\ UNCHANGED <<cHead, cTail, bTail, local, sizes, payload, lock, popping, sent, bound>>
    BY <1>0, <1>3, <2>1, Zenon DEF PayloadHeadLands
  <2>4. /\ Bounded(pc, cHead) = Bounded(call.pc, cHead)
        /\ local[p].bHead = bound[PayloadsCounted(pc, cHead)]
        /\ cTail <= PayloadsCounted(pc, cHead)
    BY <1>0, <1>1, <2>1 DEF Bounded, Uncounted, PayloadsCounted
  <2>5. pc \in {"payloadHeadLanded", "releasing"} /\ (pc = "payloadHeadLanded" => call.pc = "publishing")
    BY Zenon
  <2> HIDE DEF r, pc
  <2>6. Ledger(pc, cHead, cTail, local[p].bHead, bTail, bound)
    <3> HIDE DEF call
    <3> QED BY <1>1, <2>4, LedgerMoves, Zenon
  <2>7. Current(r, local[p], cHead, cTail, local[p].bHead, bTail, bound)
    BY <1>1, <2>1, <2>2, <2>5, Zenon DEF Current, Uncounted
  <2>8. LockedPush(p, r)
    <3>1. local[p].bHead \in Nat /\ cHead <= cHead /\ r.pc \notin {"idle", "fatal"}
      BY <1>0, <1>1, <2>2, <2>5 DEF LocalType
    <3> HIDE DEF call
    <3> QED BY <1>0, <1>1, <2>2, <2>3, <2>4, <2>6, <2>7, <3>1, Zenon DEF LockedPush
  <2> QED BY <2>2, <2>8, LockedPushIInv, Zenon
<1> QED BY <1>2, <1>3, Zenon
\* A step of the consumer, which has the lock before it or after it or both: its
\* call becomes r, and the tails ct and bt.
PopStep(r, ct, bt) ==
  /\ lock \in {Consumer, Free} /\ lock' \in {Consumer, Free}
  /\ UNCHANGED <<cHead, bHead, local, sizes, payload, pushing, sent, bound>>
  /\ popping' = r /\ cTail' = ct /\ bTail' = bt
  /\ r.pc # "fatal" /\ (r.pc # "idle" => lock' = Consumer /\ r.n \in Pops)
  /\ r.pc = "popping" => ct < cHead

\* When no producer holds the lock, the heads are in step.
LEMMA ConsumerFacts ==
  ASSUME IInv, lock \in {Consumer, Free}
  PROVE  /\ Ledger("idle", cHead, cTail, bHead, bTail, bound) /\ SizesIn(sizes, cTail, cHead, bound)
         /\ cTail <= cHead /\ bTail = bound[cTail] /\ bHead = bound[cHead]
         /\ HolderPc = "idle" /\ \A p \in Producers : pushing[p].pc = "idle"
         /\ \A k \in 0 .. cHead : bound[k] \in Nat
         /\ \A j, k \in 0 .. cHead : j <= k => bound[j] <= bound[k]
<1>1. HolderPc = "idle" /\ \A p \in Producers : pushing[p].pc = "idle"
  BY Zenon DEF HolderPc, IInv, LockHeld
<1>2. Bounded("idle", cHead) = cHead /\ PayloadsCounted("idle", cHead) = cHead
  BY Zenon DEF Bounded, Uncounted, PayloadsCounted
<1>3. Ledger("idle", cHead, cTail, bHead, bTail, bound) /\ SizesIn(sizes, cTail, cHead, bound)
  BY <1>1, <1>2, Zenon DEF IInv
<1> QED BY <1>1, <1>2, <1>3, Zenon DEF Ledger

\* Such a step preserves the invariant.
LEMMA PopStepIInv ==
  ASSUME IInv, NEW r \in PopCalls, NEW ct \in Nat, NEW bt \in Nat, PopStep(r, ct, bt),
         Ledger("idle", cHead, ct, bHead, bt, bound), SizesIn(sizes, ct, cHead, bound)
  PROVE  IInv'
<1>1. /\ lock \in {Consumer, Free} /\ lock' \in {Consumer, Free}
      /\ UNCHANGED <<cHead, bHead, local, sizes, payload, pushing, sent, bound>>
      /\ popping' = r /\ cTail' = ct /\ bTail' = bt
      /\ r.pc # "fatal" /\ (r.pc # "idle" => lock' = Consumer /\ r.n \in Pops)
      /\ r.pc = "popping" => ct < cHead
  BY Zenon DEF PopStep
<1>2. \A p \in Producers : pushing[p].pc = "idle"
  BY <1>1, ConsumerFacts, Zenon
<1>3. HolderPc' = "idle" /\ Bounded("idle", cHead) = cHead
  BY <1>1, Zenon DEF HolderPc, Bounded, Uncounted
<1>4. TypeOK'
  <2>1. lock' \in Producers \cup {Consumer, Free}
    BY <1>1, Zenon
  <2> QED BY <1>1, <2>1, Types, TypesNext, Zenon
<1>5. LockHeld' /\ NoFatal' /\ PopFits'
  BY <1>1, <1>2, Zenon DEF LockHeld, NoFatal, PopFits
<1>6. FetchedCurrent'
  BY <1>1, <1>2, Zenon DEF FetchedCurrent, Current, Uncounted
<1> QED BY <1>1, <1>3, <1>4, <1>5, <1>6, Zenon DEF IInv

\* The steps of pop that move no counter.
LEMMA PopQuietIInv ==
  ASSUME IInv, (\E n \in Pops : PopAcquire(n)) \/ PopCheck \/ PopRelease, Pops \subseteq {1}
  PROVE  IInv'
<1> USE DEF counters, memory
<1>0. cHead \in Nat /\ cTail \in Nat /\ bTail \in Nat /\ popping \in PopCalls
  BY Types, Zenon
<1>1. /\ lock \in {Consumer, Free}
      /\ UNCHANGED <<cHead, cTail, bHead, bTail, local, sizes, payload, pushing, sent, bound>>
  BY Zenon DEF IInv, LockHeld, PopAcquire, PopCheck, PopRelease, acquireGlobalLock, releaseGlobalLock
<1>2. /\ Ledger("idle", cHead, cTail, bHead, bTail, bound) /\ SizesIn(sizes, cTail, cHead, bound)
      /\ cTail <= cHead
  BY <1>1, ConsumerFacts, Zenon
<1>3. IdlePop \in PopCalls /\ IdlePop.pc = "idle"
  BY Zenon DEF IdlePop, PopCalls
<1>4. ASSUME NEW n \in Pops, PopAcquire(n) PROVE \E r \in PopCalls : PopStep(r, cTail, bTail)
  <2> DEFINE r == [pc |-> "locked", n |-> n]
  <2>1. r \in PopCalls /\ r.pc = "locked" /\ r.n = n
    BY Zenon DEF PopCalls
  <2>2. popping' = r /\ lock' = Consumer
    BY <1>4, Zenon DEF PopAcquire, acquireGlobalLock
  <2> HIDE DEF r
  <2> QED BY <1>1, <2>1, <2>2, Zenon DEF PopStep
<1>5. ASSUME PopCheck PROVE \E r \in PopCalls : PopStep(r, cTail, bTail)
  <2>1. popping.pc = "locked" /\ lock' = lock /\ lock = Consumer /\ popping.n \in Pops
    BY <1>5, Zenon DEF PopCheck, IInv, LockHeld, PopFits
  <2>2. ~OutOfOrder(cHead, cTail)
    BY <1>0, <1>2 DEF OutOfOrder
  <2>3. CASE popping.n > getDepth(cHead, cTail)
    <3>1. popping' = IdlePop
      BY <1>5, <2>2, <2>3, Zenon DEF PopCheck
    <3> QED BY <1>1, <1>3, <2>1, <3>1, Zenon DEF PopStep
  <2>4. CASE ~(popping.n > getDepth(cHead, cTail))
    <3> DEFINE r == [popping EXCEPT !.pc = "popping"]
    <3>1. popping' = r
      BY <1>5, <2>2, <2>4, Zenon DEF PopCheck
    <3>2. r \in PopCalls /\ r.pc = "popping" /\ r.n = popping.n
      BY <1>0, Zenon DEF PopCalls
    <3>3. cTail < cHead
      <4>1. popping.n = 1
        BY <2>1, Zenon
      <4> QED BY <1>0, <2>4, <4>1 DEF getDepth
    <3> HIDE DEF r
    <3> QED BY <1>1, <2>1, <3>1, <3>2, <3>3, Zenon DEF PopStep
  <2> QED BY <2>3, <2>4, Zenon
<1>6. ASSUME PopRelease PROVE \E r \in PopCalls : PopStep(r, cTail, bTail)
  <2>1. popping' = IdlePop /\ lock' = Free
    BY <1>6, Zenon DEF PopRelease, releaseGlobalLock
  <2> QED BY <1>1, <1>3, <2>1, Zenon DEF PopStep
<1>7. \E r \in PopCalls : PopStep(r, cTail, bTail)
  BY <1>4, <1>5, <1>6, Zenon
<1> QED BY <1>0, <1>2, <1>7, PopStepIInv, Zenon

\* A pop that has found its token moves both tails by that token.
LEMMA PopAdvanceMoves ==
  ASSUME IInv, PopAdvance, Pops \subseteq {1}
  PROVE  /\ lock = Consumer /\ lock' = lock /\ cTail < cHead /\ cTail + 1 \in 0 .. cHead
         /\ popping' = [popping EXCEPT !.pc = "releasing"] /\ popping.n \in Pops
         /\ cTail' = cTail + 1 /\ bTail' = bound[cTail + 1]
         /\ UNCHANGED <<cHead, bHead, local, sizes, payload, pushing, sent, bound>>
<1> USE DEF memory
<1>0. cHead \in Nat /\ cTail \in Nat /\ bTail \in Nat /\ bHead \in Nat
  BY Types, Zenon
<1>1. popping.pc = "popping" /\ lock = Consumer /\ popping.n \in Pops /\ cTail < cHead
  BY Zenon DEF PopAdvance, IInv, LockHeld, PopFits
<1>2. /\ SizesIn(sizes, cTail, cHead, bound) /\ bTail = bound[cTail] /\ bHead = bound[cHead]
      /\ \A k \in 0 .. cHead : bound[k] \in Nat
      /\ \A j, k \in 0 .. cHead : j <= k => bound[j] <= bound[k]
  BY <1>1, ConsumerFacts, Zenon
<1>3. popping.n = 1
  BY <1>1, Zenon
<1>4. cTail \in cTail .. cHead - 1 /\ cTail + 1 \in 0 .. cHead /\ cTail \in 0 .. cHead /\ cHead \in 0 .. cHead
  BY <1>0, <1>1
<1>5. bytesOldestEntry = bound[cTail + 1] - bound[cTail]
  BY <1>2, <1>4, Zenon DEF SizesIn, bytesOldestEntry
<1>6. /\ bound[cTail] \in Nat /\ bound[cTail + 1] \in Nat /\ bound[cHead] \in Nat
      /\ bound[cTail] <= bound[cTail + 1] /\ bound[cTail + 1] <= bound[cHead]
  <2>1. bound[cTail] \in Nat /\ bound[cTail + 1] \in Nat /\ bound[cHead] \in Nat
    BY <1>2, <1>4, Zenon
  <2>2. cTail <= cTail + 1 /\ cTail + 1 <= cHead
    BY <1>0, <1>1
  <2> QED BY <1>2, <1>4, <2>1, <2>2, Zenon
<1>7. ~AdvanceTailFatal(cHead, cTail, popping.n)
  BY <1>0, <1>1, <1>3 DEF AdvanceTailFatal, OutOfOrder, getDepth
<1>8. ~AdvanceTailFatal(bHead, bTail, bytesOldestEntry) /\ bTail + bytesOldestEntry = bound[cTail + 1]
  <2> SUFFICES ASSUME NEW x \in Nat, NEW y \in Nat, NEW z \in Nat, x <= y, y <= z,
                      x = bTail, z = bHead, y = bound[cTail + 1], bytesOldestEntry = y - x
               PROVE  ~AdvanceTailFatal(z, x, y - x) /\ x + (y - x) = y
    BY <1>2, <1>5, <1>6, Zenon
  <2> QED BY DEF AdvanceTailFatal, OutOfOrder, getDepth
<1>9. /\ popping' = [popping EXCEPT !.pc = "releasing"] /\ cTail' = cTail + popping.n
      /\ bTail' = bTail + bytesOldestEntry
      /\ UNCHANGED <<cHead, bHead, local, sizes, payload, lock, pushing, sent, bound>>
  BY <1>7, <1>8, Zenon DEF PopAdvance
<1> QED BY <1>1, <1>3, <1>4, <1>8, <1>9, Zenon

\* That step preserves the invariant.
LEMMA PopAdvanceIInv ==
  ASSUME IInv, PopAdvance, Pops \subseteq {1}
  PROVE  IInv'
<1>0. cHead \in Nat /\ cTail \in Nat /\ bTail \in Nat /\ bHead \in Nat /\ popping \in PopCalls
  BY Types, Zenon
<1> DEFINE r == [popping EXCEPT !.pc = "releasing"]
           ct == cTail + 1
           bt == bound[cTail + 1]
<1>1. /\ lock = Consumer /\ lock' = lock /\ cTail < cHead /\ ct \in 0 .. cHead
      /\ popping' = r /\ popping.n \in Pops /\ cTail' = ct /\ bTail' = bt
      /\ UNCHANGED <<cHead, bHead, local, sizes, payload, pushing, sent, bound>>
  BY PopAdvanceMoves, Zenon
<1>2. r \in PopCalls /\ r.pc = "releasing" /\ r.n = popping.n
  BY <1>0, Zenon DEF PopCalls
<1>3. /\ Ledger("idle", cHead, cTail, bHead, bTail, bound) /\ SizesIn(sizes, cTail, cHead, bound)
      /\ \A k \in 0 .. cHead : bound[k] \in Nat
      /\ \A j, k \in 0 .. cHead : j <= k => bound[j] <= bound[k]
      /\ bTail = bound[cTail]
  BY <1>1, ConsumerFacts, Zenon
<1>4. bt \in Nat /\ bTail <= bt
  BY <1>0, <1>1, <1>3
<1>5. Ledger("idle", cHead, ct, bHead, bt, bound)
  <2>1. Bounded("idle", cHead) = cHead /\ PayloadsCounted("idle", cHead) = cHead
    BY Zenon DEF Bounded, Uncounted, PayloadsCounted
  <2>2. /\ bound \in [0 .. cHead -> Nat] /\ bHead = bound[cHead] /\ cHead - cTail <= Capacity
        /\ bound[cHead] - bTail <= PayloadCapacity
    BY <1>3, <2>1, Zenon DEF Ledger
  <2>3. ct <= cHead /\ cHead - ct <= Capacity
    BY <1>0, <1>1, <2>2
  <2>4. bound[cHead] - bt <= PayloadCapacity
    BY <1>0, <1>3, <1>4, <2>2
  <2> QED BY <1>3, <2>1, <2>2, <2>3, <2>4, Zenon DEF Ledger
<1>6. SizesIn(sizes, ct, cHead, bound)
  BY <1>0, <1>3 DEF SizesIn
<1> HIDE DEF r, bt
<1>7. PopStep(r, ct, bt)
  BY <1>1, <1>2, Zenon DEF PopStep
<1>8. ct \in Nat
  BY <1>0
<1> QED BY <1>2, <1>4, <1>5, <1>6, <1>7, <1>8, PopStepIInv, Zenon

\* The invariant is inductive.
LEMMA NextIInv ==
  ASSUME IInv, [Next]_vars, Pops \subseteq {1}
  PROVE  IInv'
<1>1. ASSUME NEW p \in Producers, NEW size \in Sizes, PushAcquire(p, size) PROVE IInv'
  BY <1>1, PushAcquireIInv, Zenon
<1>2. ASSUME NEW p \in Producers, PushCompletes(p) PROVE IInv'
  BY <1>2, PushWritesIInv, SizeLandsIInv, HeadLandsIInv, PushReleaseIInv, Zenon DEF PushCompletes
<1>3. ASSUME (\E n \in Pops : PopAcquire(n)) \/ PopCompletes PROVE IInv'
  BY <1>3, PopQuietIInv, PopAdvanceIInv, Zenon DEF PopCompletes
<1>4. ASSUME Finished \/ UNCHANGED vars PROVE IInv'
  <2>1. UNCHANGED vars
    BY <1>4, Zenon DEF Finished
  <2> QED BY <2>1, Zenon DEF vars, IInv, TypeOK, NoFatal, LockHeld, FetchedCurrent, PopFits, HolderPc
<1> QED BY <1>1, <1>2, <1>3, <1>4, Zenon DEF Next

\* It holds in every behaviour in which callers pop one token at a time.
LEMMA SpecIInv == Pops \subseteq {1} => (Spec => []IInv)
<1>1. CASE Pops \subseteq {1}
  <2>1. IInv /\ [Next]_vars => IInv'
    BY <1>1, NextIInv, Zenon
  <2> QED BY <2>1, InitIInv, PTL DEF Spec
<1> QED BY <1>1, Zenon

\* When callers pop one token at a time, the counters of bytes are where the
\* counters of tokens say whenever nobody holds the lock, and neither push nor
\* pop throws a fatal exception: the one lock, of the counts, is enough to keep
\* the two coordination buffers together.
THEOREM CountersStayInStep == Pops \subseteq {1} => (Spec => []CountersInStep)
<1>1. IInv => CountersInStep
  BY ConsumerFacts, Zenon DEF CountersInStep, IInv, NoFatal
<1> QED BY <1>1, SpecIInv, PTL
-----------------------------------------------------------------------------
(* Payloads *)

\* The two chunks of a payload follow each other round the end of the buffer.
LEMMA DestinationIsPosition ==
  ASSUME NEW p \in Producers, local[p].bHead \in Nat, NEW i \in 0 .. PayloadCapacity - 1
  PROVE  Destination(p, i) = Position(local[p].bHead + i, PayloadCapacity)
<1> DEFINE h == local[p].bHead
           x == Position(h, PayloadCapacity)
           m == x + i
<1>1. x \in 0 .. PayloadCapacity - 1
  BY PositionInRange, Zenon
<1>2. m % PayloadCapacity = Position(h + i, PayloadCapacity)
  <2>1. h \in Nat /\ i \in Nat
    OBVIOUS
  <2> HIDE DEF h
  <2> QED BY <2>1, PositionOffset, Zenon
<1> HIDE DEF x
<1>3. m \in Nat
  BY <1>1
<1>4. CASE i < PayloadCapacity - x
  <2>1. m = PayloadCapacity * 0 + m /\ m \in 0 .. PayloadCapacity - 1 /\ 0 \in Int
    BY <1>1, <1>4
  <2>2. Position(m, PayloadCapacity) = m
    BY <1>3, <2>1, PositionUnique, Zenon
  <2> QED BY <1>2, <1>4, <2>2, Zenon DEF Destination, firstChunk, headPosition, x, Position
<1>5. CASE ~(i < PayloadCapacity - x)
  <2> DEFINE r == i - (PayloadCapacity - x)
  <2>1. m = PayloadCapacity * 1 + r /\ r \in 0 .. PayloadCapacity - 1 /\ 1 \in Int
    BY <1>1, <1>5
  <2>2. Position(m, PayloadCapacity) = r
    BY <1>3, <2>1, PositionUnique, Zenon
  <2> QED BY <1>2, <1>5, <2>2, Zenon DEF Destination, firstChunk, headPosition, x, Position
<1> QED BY <1>4, <1>5, Zenon

\* A chunk lands in the bytes of its own token, and in none that holds a payload
\* the consumer may still read.
LEMMA ChunkFacts ==
  ASSUME IInv, ChunksLanded, NEW p \in Producers, NEW chunk \in pushing[p].chunks, ChunkLands(p, chunk)
  PROVE  /\ \A c \in bTail .. bHead - 1 :
               payload'[Position(c, PayloadCapacity)] = payload[Position(c, PayloadCapacity)]
         /\ \A i \in chunk : payload'[Position(bHead + i, PayloadCapacity)] = <<p, sent[p]>>
         /\ \A x \in 0 .. PayloadCapacity - 1 : payload'[x] = payload[x] \/ payload'[x] = <<p, sent[p]>>
         /\ bHead = bound[cHead] /\ bHead \in Nat /\ pushing[p].size \in Nat
         /\ bHead + pushing[p].size - bTail <= PayloadCapacity
         /\ pushing[p].size <= PayloadCapacity
<1> DEFINE size == pushing[p].size
<1>0. /\ cHead \in Nat /\ cTail \in Nat /\ bHead \in Nat /\ bTail \in Nat /\ payload \in PayloadType
      /\ pushing[p].pc = "copying" /\ pushing[p].pc # "idle"
  BY Types, Zenon DEF ChunkLands
<1>1. /\ size \in Nat /\ bTail <= bHead
      /\ Current(pushing[p], local[p], cHead, cTail, bHead, bTail, bound)
      /\ Ledger(pushing[p].pc, cHead, cTail, bHead, bTail, bound)
  BY <1>0, HolderFacts, Zenon
<1>2. local[p].bHead = bHead /\ bound[cHead + 1] = bound[cHead] + size
  BY <1>0, <1>1, Zenon DEF Current, Uncounted
<1>3. bHead = bound[cHead] /\ bound[cHead + 1] - bTail <= PayloadCapacity
  <2>1. Bounded("copying", cHead) = cHead + 1 /\ PayloadsCounted("copying", cHead) = cHead
    BY Zenon DEF Bounded, Uncounted, PayloadsCounted
  <2> QED BY <1>0, <1>1, <2>1, Zenon DEF Ledger
<1>4. bHead + size - bTail <= PayloadCapacity /\ size <= PayloadCapacity
  <2>1. bound[cHead + 1] = bHead + size
    BY <1>2, <1>3, Zenon
  <2>2. bHead + size - bTail <= PayloadCapacity
    <3>1. bound[cHead + 1] - bTail <= PayloadCapacity
      BY <1>3, Zenon
    <3>2. bound[cHead + 1] \in Nat
      BY <1>0, <1>1, <2>1
    <3> QED BY <1>0, <1>1, <2>1, <3>1, <3>2
  <2> QED BY <1>0, <1>1, <2>2
<1>5. chunk \subseteq 0 .. size - 1
  BY Zenon DEF ChunksLanded, Landed
<1>6. payload' = [b \in 0 .. PayloadCapacity - 1 |->
                    IF \E i \in chunk : b = Destination(p, i) THEN <<p, sent[p]>> ELSE payload[b]]
  BY <1>0, Zenon DEF ChunkLands, PayloadType
<1>7. \A i \in chunk : /\ i \in Nat /\ i < size /\ bHead + i \in Nat
                       /\ Destination(p, i) = Position(bHead + i, PayloadCapacity)
                       /\ Position(bHead + i, PayloadCapacity) \in 0 .. PayloadCapacity - 1
  <2> SUFFICES ASSUME NEW i \in chunk
               PROVE  /\ i \in Nat /\ i < size /\ bHead + i \in Nat
                      /\ Destination(p, i) = Position(bHead + i, PayloadCapacity)
                      /\ Position(bHead + i, PayloadCapacity) \in 0 .. PayloadCapacity - 1
    BY Zenon
  <2>1. i \in 0 .. PayloadCapacity - 1 /\ i < size
    BY <1>1, <1>4, <1>5
  <2>2. i \in Nat /\ bHead + i \in Nat
    BY <1>0, <2>1
  <2>3. local[p].bHead \in Nat
    BY <1>0, <1>2, Zenon
  <2>4. Destination(p, i) = Position(local[p].bHead + i, PayloadCapacity)
    BY <2>1, <2>3, DestinationIsPosition, Zenon
  <2>5. Position(bHead + i, PayloadCapacity) \in 0 .. PayloadCapacity - 1
    BY <2>2, PositionInRange, Zenon
  <2> QED BY <1>2, <2>1, <2>2, <2>4, <2>5, Zenon
<1>8. \A i \in chunk : payload'[Position(bHead + i, PayloadCapacity)] = <<p, sent[p]>>
  BY <1>6, <1>7, Zenon
<1>9. ASSUME NEW c \in bTail .. bHead - 1
      PROVE  payload'[Position(c, PayloadCapacity)] = payload[Position(c, PayloadCapacity)]
  <2>1. c \in Nat /\ Position(c, PayloadCapacity) \in 0 .. PayloadCapacity - 1
    <3>1. c \in Nat
      BY <1>0
    <3> QED BY <3>1, PositionInRange, Zenon
  <2>2. ASSUME NEW i \in chunk PROVE Position(c, PayloadCapacity) # Destination(p, i)
    <3>1. i \in Nat /\ i < size /\ bHead + i \in Nat /\ Destination(p, i) = Position(bHead + i, PayloadCapacity)
      BY <1>7, Zenon
    <3>2. c < bHead + i /\ (bHead + i) - c < PayloadCapacity
      BY <1>0, <1>1, <1>4, <2>1, <3>1
    <3>3. Position(c, PayloadCapacity) # Position(bHead + i, PayloadCapacity)
      BY <2>1, <3>1, <3>2, PositionsDistinct, Zenon
    <3> QED BY <3>1, <3>3, Zenon
  <2> QED BY <1>6, <2>1, <2>2, Zenon
<1>10. \A x \in 0 .. PayloadCapacity - 1 : payload'[x] = payload[x] \/ payload'[x] = <<p, sent[p]>>
  BY <1>6, Zenon
<1> QED BY <1>0, <1>1, <1>3, <1>4, <1>8, <1>9, <1>10, Zenon

\* A call that has no token in flight.
LEMMA LandedQuiet ==
  ASSUME NEW call, NEW p, NEW s, NEW pl, NEW b, NEW ch, ~Uncounted(call.pc), call.chunks = {}
  PROVE  Landed(call, p, s, pl, b, ch)
  BY Zenon DEF Landed, Uncounted

\* The chunks cover the token.
LEMMA ChunksCover ==
  ASSUME NEW p \in Producers, pushing[p].size \in Nat, local[p].bHead \in Nat,
         NEW i \in 0 .. pushing[p].size - 1
  PROVE  \E chunk \in Chunks(p) : i \in chunk
<1>1. firstChunk(p) \in Int
  <2>1. headPosition(p) \in 0 .. PayloadCapacity - 1
    BY PositionInRange, Zenon DEF headPosition
  <2> QED BY <2>1 DEF firstChunk
<1> DEFINE offsets == 0 .. pushing[p].size - 1
           before == {j \in offsets : j < firstChunk(p)}
           after == {j \in offsets : j >= firstChunk(p)}
<1>2. i \in before \/ i \in after
  BY <1>1
<1>3. Chunks(p) = {before, after} \/ Chunks(p) = {offsets}
  BY Zenon DEF Chunks
<1> HIDE DEF before, after
<1> QED BY <1>2, <1>3, Zenon

\* Producer p's token lands chunk by chunk.
LEMMA PushLanded ==
  ASSUME IInv, ChunksLanded, NEW p \in Producers, PushCompletes(p)
  PROVE  Landed(pushing'[p], p, sent'[p], payload', bound', cHead')
<1> USE DEF counters, memory
<1> DEFINE call == pushing[p]
<1>0. /\ cHead \in Nat /\ cTail \in Nat /\ bHead \in Nat /\ bTail \in Nat /\ payload \in PayloadType
      /\ pushing \in [Producers -> PushCalls] /\ call \in PushCalls /\ local[p] \in LocalType
  BY Types, Zenon
<1>1. Landed(call, p, sent[p], payload, bound, cHead)
  BY Zenon DEF ChunksLanded
<1>2. call.chunks \subseteq SUBSET (0 .. call.size - 1) /\ (call.pc # "copying" => call.chunks = {})
  BY <1>1, Zenon DEF Landed
<1>3. CASE updateDepth(p) \/ PushCheck(p)
  <2>1. ~Uncounted(pushing'[p].pc) /\ pushing'[p].chunks = {}
    BY <1>0, <1>2, <1>3 DEF updateDepth, PushCheck, Uncounted, PushCalls
  <2> QED BY <2>1, LandedQuiet, Zenon
<1>4. CASE SizeLands(p)
  <2>1. pushing'[p].pc = "copying" /\ pushing'[p].size = call.size /\ pushing'[p].chunks = Chunks(p)
    BY <1>0, <1>4, Zenon DEF SizeLands, PushCalls
  <2>2. call.size \in Nat /\ local[p].bHead \in Nat
    <3>1. call.pc # "idle"
      BY <1>4, Zenon DEF SizeLands
    <3> QED BY <1>0, <3>1, HolderFacts, Zenon DEF LocalType
  <2>3. \A i \in 0 .. call.size - 1 : \E chunk \in Chunks(p) : i \in chunk
    BY <2>2, ChunksCover, Zenon
  <2>4. Chunks(p) \subseteq SUBSET (0 .. call.size - 1)
    BY Zenon DEF Chunks
  <2> QED BY <2>1, <2>3, <2>4, Zenon DEF Landed
<1>5. ASSUME NEW chunk \in call.chunks, ChunkLands(p, chunk)
      PROVE  Landed(pushing'[p], p, sent'[p], payload', bound', cHead')
  <2>1. /\ call.pc = "copying" /\ pushing'[p].pc = "copying" /\ pushing'[p].size = call.size
        /\ pushing'[p].chunks = call.chunks \ {chunk}
        /\ UNCHANGED <<sent, bound, cHead>>
    BY <1>0, <1>5, Zenon DEF ChunkLands, PushCalls
  <2>2. /\ \A i \in chunk : payload'[Position(bHead + i, PayloadCapacity)] = <<p, sent[p]>>
        /\ \A x \in 0 .. PayloadCapacity - 1 : payload'[x] = payload[x] \/ payload'[x] = <<p, sent[p]>>
        /\ bHead = bound[cHead] /\ call.size \in Nat
    BY <1>5, ChunkFacts, Zenon
  <2>3. ASSUME NEW i \in 0 .. call.size - 1, \A c \in call.chunks \ {chunk} : i \notin c
        PROVE  payload'[Position(bound[cHead] + i, PayloadCapacity)] = <<p, sent[p]>>
    <3>1. CASE i \in chunk
      BY <2>2, <3>1, Zenon
    <3>2. CASE i \notin chunk
      <4>1. \A c \in call.chunks : i \notin c
        BY <2>3, <3>2, Zenon
      <4>2. payload[Position(bound[cHead] + i, PayloadCapacity)] = <<p, sent[p]>>
        BY <1>1, <2>1, <4>1, Zenon DEF Landed, Uncounted
      <4>3. Position(bound[cHead] + i, PayloadCapacity) \in 0 .. PayloadCapacity - 1
        <5>1. bHead + i \in Nat
          BY <1>0, <2>2
        <5>2. Position(bHead + i, PayloadCapacity) \in 0 .. PayloadCapacity - 1
          BY <5>1, PositionInRange, Zenon
        <5> QED BY <2>2, <5>2, Zenon
      <4> QED BY <2>2, <4>2, <4>3, Zenon
    <3> QED BY <3>1, <3>2, Zenon
  <2>4. call.chunks \ {chunk} \subseteq SUBSET (0 .. call.size - 1)
    BY <1>2, Zenon
  <2> HIDE DEF call
  <2> QED BY <2>1, <2>3, <2>4, Zenon DEF Landed
<1>6. CASE PushFence(p)
  <2>1. /\ call.pc = "copying" /\ call.chunks = {} /\ pushing'[p].chunks = {} /\ pushing'[p].size = call.size
        /\ pushing'[p].pc # "copying"
        /\ UNCHANGED <<sent, payload, bound, cHead>>
    BY <1>0, <1>6, Zenon DEF PushFence, PushCalls
  <2> QED BY <1>1, <2>1, Zenon DEF Landed, Uncounted
<1>7. CASE CountHeadLands(p) \/ PushRelease(p)
  <2>1. ~Uncounted(pushing'[p].pc) /\ pushing'[p].chunks = {}
    BY <1>0, <1>2, <1>7 DEF CountHeadLands, PushRelease, Uncounted, PushCalls, IdlePush
  <2> QED BY <2>1, LandedQuiet, Zenon
<1>8. CASE PayloadHeadLands(p)
  <2>1. /\ call.pc \in {"publishing", "countHeadLanded"} /\ pushing'[p].chunks = call.chunks
        /\ call.chunks = {} /\ pushing'[p].size = call.size
        /\ pushing'[p].pc = (IF call.pc = "publishing" THEN "payloadHeadLanded" ELSE "releasing")
        /\ UNCHANGED <<sent, payload, bound, cHead>>
    BY <1>0, <1>2, <1>8, Zenon DEF PayloadHeadLands, PushCalls
  <2> QED BY <1>1, <2>1, Zenon DEF Landed, Uncounted
<1> QED BY <1>3, <1>4, <1>5, <1>6, <1>7, <1>8, Zenon DEF PushCompletes
\* Tokens in flight land and stay.
LEMMA NextLanded ==
  ASSUME IInv, ChunksLanded, [Next]_vars
  PROVE  ChunksLanded'
<1> USE DEF counters, memory
<1>0. pushing \in [Producers -> PushCalls]
  BY Types, Zenon
<1>1. CASE UNCHANGED <<pushing, sent, payload, bound, cHead>>
  BY <1>1, Zenon DEF ChunksLanded
<1>2. ASSUME NEW p \in Producers, (\E size \in Sizes : PushAcquire(p, size)) \/ PushCompletes(p)
      PROVE  ChunksLanded'
  <2>1. lock = p \/ lock = Free
    <3>1. (lock = Free) \/ pushing[p].pc # "idle"
      BY <1>2, Zenon DEF PushAcquire, acquireGlobalLock, PushCompletes, updateDepth, PushCheck, SizeLands, ChunkLands,
                  PushFence, CountHeadLands, PayloadHeadLands, PushRelease
    <3> QED BY <3>1, Zenon DEF IInv, LockHeld
  <2>2. \A q \in Producers \ {p} : pushing'[q] = pushing[q]
    BY <1>0, <1>2, Zenon DEF PushAcquire, PushCompletes, updateDepth, PushCheck, SizeLands, ChunkLands,
                PushFence, CountHeadLands, PayloadHeadLands, PushRelease
  <2>3. ASSUME NEW q \in Producers \ {p} PROVE Landed(pushing'[q], q, sent'[q], payload', bound', cHead')
    <3>1. pushing[q].pc = "idle"
      BY <2>1, Zenon DEF IInv, LockHeld
    <3>2. pushing[q].chunks = {} /\ ~Uncounted(pushing[q].pc)
      BY <3>1, Zenon DEF ChunksLanded, Landed, Uncounted
    <3> QED BY <2>2, <3>2, LandedQuiet, Zenon
  <2>4. Landed(pushing'[p], p, sent'[p], payload', bound', cHead')
    <3>1. ASSUME NEW size \in Sizes, PushAcquire(p, size)
          PROVE  Landed(pushing'[p], p, sent'[p], payload', bound', cHead')
      <4>1. pushing'[p].chunks = {} /\ ~Uncounted(pushing'[p].pc)
        BY <1>0, <3>1, Zenon DEF PushAcquire, Uncounted
      <4> QED BY <4>1, LandedQuiet, Zenon
    <3> QED BY <1>2, <3>1, PushLanded, Zenon
  <2> QED BY <2>3, <2>4, Zenon DEF ChunksLanded
<1> QED
  BY <1>1, <1>2, Zenon DEF Next, vars, PopCompletes, PopAcquire, PopCheck, PopAdvance, PopRelease, Finished

\* The token whose count lands is all there.
LEMMA CountedIsThere ==
  ASSUME IInv, ChunksLanded, NEW p \in Producers, CountHeadLands(p)
  PROVE  /\ cHead' = cHead + 1 /\ UNCHANGED <<cTail, payload, bound>>
         /\ Shown(payload, bound, cHead, <<p, sent[p]>>) /\ <<p, sent[p]>> \in Tokens
         /\ bound[cHead] \in Nat /\ bound[cHead + 1] \in Nat /\ bound[cHead] <= bound[cHead + 1]
         /\ 0 \notin Sizes => bound[cHead] < bound[cHead + 1]
         /\ cHead + 1 - cTail <= Capacity
<1> USE DEF memory
<1>0. cHead \in Nat /\ cTail \in Nat /\ bHead \in Nat /\ bTail \in Nat
  BY Types, Zenon
<1>1. pushing[p].pc \in {"publishing", "payloadHeadLanded"} /\ Uncounted(pushing[p].pc)
  BY Zenon DEF CountHeadLands, Uncounted
<1>2. /\ sent[p] \in Nat /\ pushing[p].size \in Nat /\ pushing[p].size \in Sizes
      /\ Current(pushing[p], local[p], cHead, cTail, bHead, bTail, bound)
      /\ Ledger(pushing[p].pc, cHead, cTail, bHead, bTail, bound)
  <2>1. pushing[p].pc # "idle"
    BY <1>1, Zenon
  <2> QED BY <2>1, HolderFacts, Zenon
<1>3. local[p].cHead = cHead + 1 /\ bound[cHead + 1] = bound[cHead] + pushing[p].size
  BY <1>1, <1>2, Zenon DEF Current
<1>4. /\ bound[cHead] \in Nat /\ bound[cHead + 1] \in Nat /\ bound[cHead] <= bound[cHead + 1]
      /\ 0 \notin Sizes => bound[cHead] < bound[cHead + 1]
      /\ cHead + 1 - cTail <= Capacity
  <2>1. Bounded(pushing[p].pc, cHead) = cHead + 1
    BY <1>1, Zenon DEF Bounded
  <2>2. bound \in [0 .. cHead + 1 -> Nat] /\ cHead + 1 - cTail <= Capacity
    <3>1. /\ bound \in [0 .. Bounded(pushing[p].pc, cHead) -> Nat]
          /\ Bounded(pushing[p].pc, cHead) - cTail <= Capacity
      BY <1>2, Zenon DEF Ledger
    <3>2. bound \in [0 .. cHead + 1 -> Nat] /\ (cHead + 1) - cTail <= Capacity
      BY <2>1, <3>1, Zenon
    <3> QED BY <1>0, <3>2
  <2>3. bound[cHead] \in Nat /\ bound[cHead + 1] \in Nat
    BY <1>0, <2>2
  <2> QED BY <1>2, <1>3, <2>2, <2>3
<1>5. Shown(payload, bound, cHead, <<p, sent[p]>>)
  <2> SUFFICES ASSUME NEW c \in bound[cHead] .. bound[cHead + 1] - 1
               PROVE  payload[Position(c, PayloadCapacity)] = <<p, sent[p]>>
    BY Zenon DEF Shown
  <2> DEFINE i == c - bound[cHead]
  <2>1. i \in 0 .. pushing[p].size - 1 /\ bound[cHead] + i = c
    <3>1. c \in bound[cHead] .. (bound[cHead] + pushing[p].size) - 1
      BY <1>3, Zenon
    <3>2. bound[cHead] \in Nat /\ pushing[p].size \in Nat
      BY <1>2, <1>4, Zenon
    <3> QED BY <3>1, <3>2
  <2>2. pushing[p].chunks = {}
    BY <1>1, Zenon DEF ChunksLanded, Landed
  <2> HIDE DEF i
  <2>3. payload[Position(bound[cHead] + i, PayloadCapacity)] = <<p, sent[p]>>
    BY <1>1, <2>1, <2>2, Zenon DEF ChunksLanded, Landed
  <2> QED BY <2>1, <2>3, Zenon
<1>6. cHead' = cHead + 1 /\ UNCHANGED <<cTail, payload, bound>>
  BY <1>3, Zenon DEF CountHeadLands
<1>7. <<p, sent[p]>> \in Tokens
  BY <1>2, Zenon DEF Tokens
<1> QED BY <1>4, <1>5, <1>6, <1>7, Zenon

\* The bytes of a token that has been counted lie between the tail and the head.
LEMMA CountedBytes ==
  ASSUME IInv, NEW k \in cTail .. cHead - 1
  PROVE  /\ k \in 0 .. cHead /\ k + 1 \in 0 .. cHead
         /\ bound[k] \in Nat /\ bound[k + 1] \in Nat /\ bound[k] <= bound[k + 1]
         /\ 0 \notin Sizes => bound[k] < bound[k + 1]
         /\ bTail <= bound[k] /\ bound[k + 1] <= bound[cHead]
<1>0. cHead \in Nat /\ cTail \in Nat /\ bHead \in Nat /\ bTail \in Nat
  BY Types, Zenon
<1> DEFINE last == Bounded(HolderPc, cHead)
<1>1. Ledger(HolderPc, cHead, cTail, bHead, bTail, bound) /\ bTail = bound[cTail]
  BY Zenon DEF IInv, Ledger
<1>2. /\ last \in {cHead, cHead + 1}
      /\ \A j \in 0 .. last : bound[j] \in Nat
      /\ \A i, j \in 0 .. last : i <= j => bound[i] <= bound[j]
      /\ 0 \notin Sizes => \A i, j \in 0 .. last : i < j => bound[i] < bound[j]
  BY <1>0, <1>1, LedgerFacts, Zenon
<1> HIDE DEF last
<1>3. k \in 0 .. cHead /\ k + 1 \in 0 .. cHead /\ k \in Nat
  BY <1>0
<1>4. /\ k \in 0 .. last /\ k + 1 \in 0 .. last /\ cTail \in 0 .. last /\ cHead \in 0 .. last
      /\ k < k + 1 /\ k <= k + 1 /\ cTail <= k /\ k + 1 <= cHead
  BY <1>0, <1>2, <1>3
<1>5. /\ bound[k] \in Nat /\ bound[k + 1] \in Nat /\ bound[k] <= bound[k + 1]
      /\ 0 \notin Sizes => bound[k] < bound[k + 1]
      /\ bound[cTail] <= bound[k] /\ bound[k + 1] <= bound[cHead]
  BY <1>2, <1>4, Zenon
<1> QED BY <1>1, <1>3, <1>5, Zenon

\* Payloads stay until they are popped.
LEMMA NextWritten ==
  ASSUME IInv, ChunksLanded, PayloadsWritten, [Next]_vars, Pops \subseteq {1}
  PROVE  PayloadsWritten'
<1> USE DEF counters, memory
<1>0. cHead \in Nat /\ cTail \in Nat
  BY Types, Zenon
<1>1. CASE UNCHANGED <<payload, bound, cHead, cTail>>
  BY <1>1, Zenon DEF PayloadsWritten
<1>2. ASSUME NEW p \in Producers, SizeLands(p) PROVE PayloadsWritten'
  <2>1. /\ UNCHANGED <<payload, cHead, cTail>>
        /\ \A k \in 0 .. cHead : bound'[k] = bound[k]
    <3>1. pushing[p].pc = "sizing" /\ pushing[p].pc # "idle"
      BY <1>2, Zenon DEF SizeLands
    <3>2. local[p].cHead = cHead
      BY <3>1, HolderFacts, Zenon DEF Current
    <3> QED BY <1>0, <1>2, <3>2 DEF SizeLands
  <2>2. ASSUME NEW k \in cTail .. cHead - 1 PROVE bound'[k] = bound[k] /\ bound'[k + 1] = bound[k + 1]
    BY <2>1, CountedBytes, Zenon
  <2> QED BY <2>1, <2>2 DEF PayloadsWritten, Shown
<1>3. ASSUME NEW p \in Producers, NEW chunk \in pushing[p].chunks, ChunkLands(p, chunk) PROVE PayloadsWritten'
  <2>1. /\ UNCHANGED <<bound, cHead, cTail>> /\ bHead = bound[cHead] /\ bHead \in Nat
        /\ \A c \in bTail .. bHead - 1 :
              payload'[Position(c, PayloadCapacity)] = payload[Position(c, PayloadCapacity)]
    BY <1>3, ChunkFacts, Zenon DEF ChunkLands
  <2>2. ASSUME NEW k \in cTail .. cHead - 1, NEW tok, Shown(payload, bound, k, tok)
        PROVE  Shown(payload', bound, k, tok)
    <3> SUFFICES ASSUME NEW c \in bound[k] .. bound[k + 1] - 1
                 PROVE  payload'[Position(c, PayloadCapacity)] = tok
      BY Zenon DEF Shown
    <3>1. bTail <= bound[k] /\ bound[k + 1] <= bHead /\ bound[k] \in Nat /\ bound[k + 1] \in Nat /\ bTail \in Nat
      BY <2>1, CountedBytes, Types, Zenon
    <3>2. c \in bTail .. bHead - 1
      BY <2>1, <3>1
    <3>3. payload[Position(c, PayloadCapacity)] = tok
      BY <2>2, Zenon DEF Shown
    <3> QED BY <2>1, <3>2, <3>3, Zenon
  <2> QED BY <2>1, <2>2, Zenon DEF PayloadsWritten
<1>4. ASSUME NEW p \in Producers, CountHeadLands(p) PROVE PayloadsWritten'
  <2>1. /\ cHead' = cHead + 1 /\ UNCHANGED <<cTail, payload, bound>>
        /\ Shown(payload, bound, cHead, <<p, sent[p]>>) /\ <<p, sent[p]>> \in Tokens
    BY <1>4, CountedIsThere, Zenon
  <2>2. \A k \in cTail .. (cHead + 1) - 1 : k = cHead \/ k \in cTail .. cHead - 1
    BY <1>0
  <2> QED BY <2>1, <2>2, Zenon DEF PayloadsWritten
<1>5. CASE PopAdvance
  <2>1. cTail' = cTail + 1 /\ UNCHANGED <<cHead, payload, bound>>
    BY <1>5, PopAdvanceMoves, Zenon
  <2>2. \A k \in cTail + 1 .. cHead - 1 : k \in cTail .. cHead - 1
    BY <1>0
  <2> QED BY <2>1, <2>2, Zenon DEF PayloadsWritten
<1> QED
  BY <1>1, <1>2, <1>3, <1>4, <1>5, Zenon
     DEF Next, vars, PushAcquire, PushCompletes, updateDepth, PushCheck, PushFence, PayloadHeadLands, PushRelease,
         PopCompletes, PopAcquire, PopCheck, PopRelease, Finished

\* Both hold in every behaviour in which callers pop one token at a time.
LEMMA SpecWritten == Pops \subseteq {1} => (Spec => [](ChunksLanded /\ PayloadsWritten))
<1>1. Init => ChunksLanded /\ PayloadsWritten
  <2> SUFFICES ASSUME Init PROVE ChunksLanded /\ PayloadsWritten
    BY Zenon
  <2>1. IdlePush.chunks = {} /\ ~Uncounted(IdlePush.pc)
    BY Zenon DEF IdlePush, Uncounted
  <2>2. ChunksLanded
    BY <2>1, LandedQuiet, Zenon DEF Init, ChunksLanded
  <2>3. PayloadsWritten
    BY DEF Init, PayloadsWritten
  <2> QED BY <2>2, <2>3, Zenon
<1>2. CASE Pops \subseteq {1}
  <2>1. IInv /\ ChunksLanded /\ PayloadsWritten /\ [Next]_vars => (ChunksLanded /\ PayloadsWritten)'
    BY <1>2, NextLanded, NextWritten, Zenon
  <2>2. Spec => []IInv
    BY <1>2, SpecIInv, Zenon
  <2> QED BY <1>1, <2>1, <2>2, PTL DEF Spec
<1> QED BY <1>2, Zenon
\* The two ways to walk over the bytes of a token, from the position of its first
\* byte and from its bound, lead to the same memory.
LEMMA BytesFromPosition ==
  ASSUME NEW x \in Nat, NEW z \in Nat
  PROVE  {((Position(x, PayloadCapacity) % PayloadCapacity) + i) % PayloadCapacity : i \in 0 .. z - 1}
           = {Position(c, PayloadCapacity) : c \in x .. (x + z) - 1}
<1> DEFINE base == Position(x, PayloadCapacity) % PayloadCapacity
           at(i) == (base + i) % PayloadCapacity
<1>1. base = Position(x, PayloadCapacity)
  <2>1. (Position(x, PayloadCapacity) + 0) % PayloadCapacity = Position(x + 0, PayloadCapacity)
    BY PositionOffset, Zenon
  <2>2. Position(x, PayloadCapacity) \in 0 .. PayloadCapacity - 1
    BY PositionInRange, Zenon
  <2>3. Position(x, PayloadCapacity) + 0 = Position(x, PayloadCapacity) /\ x + 0 = x
    BY <2>2
  <2> QED BY <2>1, <2>3, Zenon
<1>2. \A i \in Nat : at(i) = Position(x + i, PayloadCapacity)
  <2> SUFFICES ASSUME NEW i \in Nat PROVE at(i) = Position(x + i, PayloadCapacity)
    BY Zenon
  <2>1. (Position(x, PayloadCapacity) + i) % PayloadCapacity = Position(x + i, PayloadCapacity)
    BY PositionOffset, Zenon
  <2> QED BY <1>1, <2>1, Zenon
<1> HIDE DEF at
<1>3. \A i \in 0 .. z - 1 : i \in Nat /\ x + i \in x .. (x + z) - 1
  OBVIOUS
<1>4. \A c \in x .. (x + z) - 1 : c - x \in 0 .. z - 1 /\ c - x \in Nat /\ x + (c - x) = c
  OBVIOUS
<1>5. \A i \in 0 .. z - 1 : at(i) \in {Position(c, PayloadCapacity) : c \in x .. (x + z) - 1}
  BY <1>2, <1>3, Zenon
<1>6. \A c \in x .. (x + z) - 1 : Position(c, PayloadCapacity) \in {at(i) : i \in 0 .. z - 1}
  <2> SUFFICES ASSUME NEW c \in x .. (x + z) - 1
               PROVE  Position(c, PayloadCapacity) \in {at(i) : i \in 0 .. z - 1}
    BY Zenon
  <2>1. at(c - x) = Position(c, PayloadCapacity)
    BY <1>2, <1>4, Zenon
  <2> QED BY <1>4, <2>1, Zenon
<1>7. {at(i) : i \in 0 .. z - 1} = {Position(c, PayloadCapacity) : c \in x .. (x + z) - 1}
  BY <1>5, <1>6, Zenon
<1> QED BY <1>7, Zenon DEF at

\* What peek returns.
LEMMA PeekFinds ==
  ASSUME IInv, PayloadsWritten, cTail < cHead
  PROVE  /\ {(peekPosition + i) % PayloadCapacity : i \in 0 .. peekSize - 1} = Region(cTail)
         /\ \A b, c \in Region(cTail) : payload[b] = payload[c] /\ payload[b] \in Tokens
<1>0. cHead \in Nat /\ cTail \in Nat /\ bTail \in Nat
  BY Types, Zenon
<1>1. cTail \in cTail .. cHead - 1 /\ cTail \in cTail .. Bounded(HolderPc, cHead) - 1
  BY <1>0 DEF Bounded
<1>2. /\ bound[cTail] \in Nat /\ bound[cTail + 1] \in Nat /\ bound[cTail] <= bound[cTail + 1]
      /\ bTail = bound[cTail]
  BY <1>1, CountedBytes, Zenon DEF IInv, Ledger
<1> DEFINE z == bound[cTail + 1] - bound[cTail]
<1>3. peekSize = z
  <2>1. (Position(cTail, Capacity) + 0) % Capacity = Position(cTail + 0, Capacity)
    BY <1>0, PositionOffset, Zenon
  <2>2. basePeek(0) = Position(cTail, Capacity)
    <3>1. cTail + 0 = cTail
      BY <1>0
    <3> QED BY <2>1, <3>1, Zenon DEF basePeek
  <2>3. sizes[Position(cTail, Capacity)] = z
    BY <1>1, Zenon DEF IInv, SizesIn
  <2> QED BY <2>2, <2>3, Zenon DEF peekSize
<1>4. z \in Nat /\ bTail + z = bound[cTail + 1]
  BY <1>2
<1> HIDE DEF z
<1>5. Region(cTail) = {Position(c, PayloadCapacity) : c \in bTail .. (bTail + z) - 1}
  BY <1>2, <1>4, Zenon DEF Region
<1>6. {(peekPosition + i) % PayloadCapacity : i \in 0 .. z - 1}
        = {Position(c, PayloadCapacity) : c \in bTail .. (bTail + z) - 1}
  BY <1>0, <1>4, BytesFromPosition, Zenon DEF peekPosition
<1>7. PICK tok \in Tokens : Shown(payload, bound, cTail, tok)
  BY <1>1, Zenon DEF PayloadsWritten
<1>8. \A b \in Region(cTail) : payload[b] = tok
  BY <1>7, Zenon DEF Region, Shown
<1> QED BY <1>3, <1>5, <1>6, <1>7, <1>8, Zenon

\* When callers pop one token at a time, peek finds the oldest token and its size
\* in the payload buffer, without the lock and whatever the producer that holds
\* it is doing: for any capacity in tokens and in bytes, also where the payload
\* spills over the end of the buffer and lands in two chunks.
THEOREM PeekIsRight == Pops \subseteq {1} => (Spec => []PeekFindsOldestToken)
<1>1. IInv /\ PayloadsWritten => PeekFindsOldestToken
  BY PeekFinds, Zenon DEF PeekFindsOldestToken
<1> QED BY <1>1, SpecIInv, SpecWritten, PTL
-----------------------------------------------------------------------------
(* Refinement *)

\* The queue of the refinement mapping: the first bytes of the tokens t to h.
FirstBytesOf(pl, b, t, h) ==
  [i \in 1 .. getDepth(h, t) |-> pl[Position(b[t + i - 1], PayloadCapacity)]]

\* They show tokens.
FirstBytesIn(pl, b, t, h, T) == \A k \in t .. h - 1 : pl[Position(b[k], PayloadCapacity)] \in T

\* The queue has as many tokens as the counters say.
LEMMA FirstBytesType ==
  ASSUME NEW pl, NEW b, NEW t \in Nat, NEW h \in Nat, t <= h, NEW T, FirstBytesIn(pl, b, t, h, T)
  PROVE  FirstBytesOf(pl, b, t, h) \in Queues(h - t, T)
<1>1. \A i \in 1 .. h - t : t + i - 1 \in t .. h - 1
  OBVIOUS
<1> QED BY <1>1, Zenon DEF FirstBytesOf, FirstBytesIn, Queues, getDepth

\* A step does not change them.
SameFirstBytes(pl, b, pl2, b2, t, h) ==
  \A k \in t .. h - 1 : pl2[Position(b2[k], PayloadCapacity)] = pl[Position(b[k], PayloadCapacity)]

\* It is the same queue while the first bytes of those tokens are.
LEMMA FirstBytesSame ==
  ASSUME NEW pl, NEW b, NEW pl2, NEW b2, NEW t \in Nat, NEW h \in Nat,
         SameFirstBytes(pl, b, pl2, b2, t, h)
  PROVE  FirstBytesOf(pl2, b2, t, h) = FirstBytesOf(pl, b, t, h)
<1>1. \A i \in 1 .. h - t : t + i - 1 \in t .. h - 1
  OBVIOUS
<1> QED BY <1>1, Zenon DEF FirstBytesOf, SameFirstBytes, getDepth

\* The count of one more token appends it.
LEMMA FirstBytesGrow ==
  ASSUME NEW pl, NEW b, NEW t \in Nat, NEW h \in Nat, t <= h, NEW T, FirstBytesIn(pl, b, t, h, T),
         NEW s \in Queues(1, T), s[1] = pl[Position(b[h], PayloadCapacity)]
  PROVE  Appended(FirstBytesOf(pl, b, t, h), h - t, s, FirstBytesOf(pl, b, t, h + 1))
<1> DEFINE d == h - t
           q == FirstBytesOf(pl, b, t, h)
           r == FirstBytesOf(pl, b, t, h + 1)
<1>1. d \in Nat /\ h + 1 \in Nat /\ t <= h + 1 /\ (h + 1) - t = d + 1 /\ 1 \in Nat
  OBVIOUS
<1>2. FirstBytesIn(pl, b, t, h + 1, T)
  <2>1. s[1] \in T
    BY DEF Queues
  <2>2. \A k \in t .. (h + 1) - 1 : k = h \/ k \in t .. h - 1
    OBVIOUS
  <2> QED BY <2>1, <2>2, Zenon DEF FirstBytesIn
<1>3. q \in Queues(d, T) /\ r \in Queues(d + 1, T)
  <2>1. r \in Queues((h + 1) - t, T)
    BY <1>1, <1>2, FirstBytesType, Zenon
  <2> QED BY <1>1, <2>1, FirstBytesType, Zenon
<1>4. \A i \in 1 .. d : r[i] = q[i]
  BY <1>1 DEF FirstBytesOf, getDepth
<1>5. \A i \in 1 .. 1 : r[d + i] = s[i]
  <2>1. t + (d + 1) - 1 = h /\ d + 1 \in 1 .. getDepth(h + 1, t)
    BY DEF getDepth
  <2>2. r[d + 1] = pl[Position(b[h], PayloadCapacity)]
    BY <2>1, Zenon DEF FirstBytesOf
  <2>3. \A i \in 1 .. 1 : i = 1
    OBVIOUS
  <2> QED BY <2>2, <2>3, Zenon
<1> HIDE DEF d, q, r
<1>6. Appended(q, d, s, r)
  BY <1>1, <1>3, <1>4, <1>5, QueueGrows, Zenon
<1> QED BY <1>6, Zenon DEF d, q, r

\* A pop of one token removes the oldest.
LEMMA FirstBytesShrink ==
  ASSUME NEW pl, NEW b, NEW t \in Nat, NEW h \in Nat, t < h, NEW T, FirstBytesIn(pl, b, t, h, T)
  PROVE  Removed(FirstBytesOf(pl, b, t, h), h - t, 1, FirstBytesOf(pl, b, t + 1, h))
<1> DEFINE d == h - t
           q == FirstBytesOf(pl, b, t, h)
           r == FirstBytesOf(pl, b, t + 1, h)
<1>1. d \in Nat /\ 1 \in 0 .. d /\ t + 1 \in Nat /\ t + 1 <= h /\ t <= h /\ h - (t + 1) = d - 1
  OBVIOUS
<1>2. FirstBytesIn(pl, b, t + 1, h, T)
  BY DEF FirstBytesIn
<1>3. q \in Queues(d, T) /\ r \in Queues(d - 1, T)
  <2>1. r \in Queues(h - (t + 1), T)
    BY <1>1, <1>2, FirstBytesType, Zenon
  <2> QED BY <1>1, <2>1, FirstBytesType, Zenon
<1>4. \A i \in 1 .. d - 1 : r[i] = q[1 + i]
  <2>1. \A i \in 1 .. d - 1 : (t + 1) + i - 1 = t + (1 + i) - 1
    OBVIOUS
  <2> QED BY <1>1, <2>1 DEF FirstBytesOf, getDepth
<1> HIDE DEF d, q, r
<1>5. Removed(q, d, 1, r)
  BY <1>1, <1>3, <1>4, QueueShrinks, Zenon
<1> QED BY <1>5, Zenon DEF d, q, r

\* The first byte of a token that has been counted shows a token.
LEMMA CountedFirstBytes ==
  ASSUME IInv, PayloadsWritten, 0 \notin Sizes
  PROVE  FirstBytesIn(payload, bound, cTail, cHead, Tokens)
<1> SUFFICES ASSUME NEW k \in cTail .. cHead - 1
             PROVE  payload[Position(bound[k], PayloadCapacity)] \in Tokens
  BY Zenon DEF FirstBytesIn
<1>1. bound[k] \in bound[k] .. bound[k + 1] - 1
  BY CountedBytes
<1> QED BY <1>1, Zenon DEF PayloadsWritten, Shown

\* The initial queue is empty.
LEMMA InitRefines == Init => Shared!SharedInit
<1> SUFFICES ASSUME Init PROVE Shared!SharedInit
  BY Zenon
<1>1. getDepth(cHead, cTail) = 0
  BY DEF Init, getDepth
<1>2. [i \in 1 .. getDepth(cHead, cTail) |-> payload[Position(bound[cTail + i - 1], PayloadCapacity)]] = <<>>
  BY <1>1
<1> QED BY <1>2, Zenon DEF Shared!SharedInit, Init

\* Every step is a step of the queue or leaves it alone.
LEMMA StepRefines ==
  ASSUME IInv, ChunksLanded, PayloadsWritten, [Next]_vars, Pops \subseteq {1}, 0 \notin Sizes
  PROVE  Shared!SharedNext \/ UNCHANGED Shared!sharedVars
<1> USE DEF counters, memory
<1> DEFINE queue == [i \in 1 .. getDepth(cHead, cTail) |-> payload[Position(bound[cTail + i - 1], PayloadCapacity)]]
<1>0. cHead \in Nat /\ cTail \in Nat /\ cTail <= cHead /\ sent \in [Producers -> Nat]
  <2>1. cTail <= cHead
    BY Zenon DEF IInv, Ledger
  <2> QED BY <2>1, Types, Zenon
<1>1. queue = FirstBytesOf(payload, bound, cTail, cHead) /\ queue' = FirstBytesOf(payload', bound', cTail', cHead')
  BY Zenon DEF FirstBytesOf
<1> HIDE DEF queue
<1>2. FirstBytesIn(payload, bound, cTail, cHead, Tokens)
  BY CountedFirstBytes, Zenon
<1>3. ASSUME UNCHANGED <<cHead, cTail, sent>>,
             \A k \in cTail .. cHead - 1 :
               payload'[Position(bound'[k], PayloadCapacity)] = payload[Position(bound[k], PayloadCapacity)]
      PROVE  UNCHANGED Shared!sharedVars
  <2>1. FirstBytesOf(payload', bound', cTail, cHead) = FirstBytesOf(payload, bound, cTail, cHead)
    <3>1. SameFirstBytes(payload, bound, payload', bound', cTail, cHead)
      BY <1>3, Zenon DEF SameFirstBytes
    <3>2. cTail \in Nat /\ cHead \in Nat
      BY <1>0, Zenon
    <3> QED BY <3>1, <3>2, FirstBytesSame
  <2>2. queue' = queue
    BY <1>1, <1>3, <2>1, Zenon
  <2> QED BY <1>3, <2>2, Zenon DEF Shared!sharedVars, queue
<1>4. CASE UNCHANGED <<cHead, cTail, sent, payload, bound>>
  BY <1>3, <1>4, Zenon
<1>5. ASSUME NEW p \in Producers, SizeLands(p) PROVE UNCHANGED Shared!sharedVars
  <2>1. /\ UNCHANGED <<payload, cHead, cTail, sent>>
        /\ \A k \in 0 .. cHead : bound'[k] = bound[k]
    <3>1. pushing[p].pc = "sizing" /\ pushing[p].pc # "idle"
      BY <1>5, Zenon DEF SizeLands
    <3>2. local[p].cHead = cHead
      BY <3>1, HolderFacts, Zenon DEF Current
    <3> QED BY <1>0, <1>5, <3>2 DEF SizeLands
  <2>2. \A k \in cTail .. cHead - 1 : k \in 0 .. cHead
    BY <1>0
  <2> QED BY <1>3, <2>1, <2>2, Zenon
<1>6. ASSUME NEW p \in Producers, NEW chunk \in pushing[p].chunks, ChunkLands(p, chunk)
      PROVE  UNCHANGED Shared!sharedVars
  <2>1. /\ UNCHANGED <<bound, cHead, cTail, sent>> /\ bHead = bound[cHead] /\ bHead \in Nat
        /\ \A c \in bTail .. bHead - 1 :
              payload'[Position(c, PayloadCapacity)] = payload[Position(c, PayloadCapacity)]
    BY <1>6, ChunkFacts, Zenon DEF ChunkLands
  <2>2. ASSUME NEW k \in cTail .. cHead - 1 PROVE bound[k] \in bTail .. bHead - 1
    <3>1. /\ bTail <= bound[k] /\ bound[k + 1] <= bHead /\ bound[k] \in Nat /\ bound[k + 1] \in Nat
          /\ bTail \in Nat /\ bound[k] < bound[k + 1]
      BY <2>1, CountedBytes, Types, Zenon
    <3> QED BY <2>1, <3>1
  <2> QED BY <1>3, <2>1, <2>2, Zenon
<1>7. ASSUME NEW p \in Producers, CountHeadLands(p) PROVE Shared!SharedNext
  <2> DEFINE batch == [i \in 1 .. 1 |-> <<p, sent[p] + i - 1>>]
  <2>1. /\ cHead' = cHead + 1 /\ UNCHANGED <<cTail, payload, bound>>
        /\ Shown(payload, bound, cHead, <<p, sent[p]>>) /\ <<p, sent[p]>> \in Tokens
        /\ bound[cHead] \in Nat /\ bound[cHead + 1] \in Nat /\ bound[cHead] < bound[cHead + 1]
        /\ cHead + 1 - cTail <= Capacity
    BY <1>7, CountedIsThere, Zenon
  <2>2. batch \in Queues(1, Tokens) /\ batch[1] = payload[Position(bound[cHead], PayloadCapacity)]
    <3>1. sent[p] + 1 - 1 = sent[p] /\ \A i \in 1 .. 1 : i = 1
      BY <1>0
    <3>2. batch[1] = <<p, sent[p]>>
      BY <3>1
    <3>3. \A i \in 1 .. 1 : <<p, sent[p] + i - 1>> \in Tokens
      BY <2>1, <3>1, Zenon
    <3>4. payload[Position(bound[cHead], PayloadCapacity)] = <<p, sent[p]>>
      <4>1. bound[cHead] \in bound[cHead] .. bound[cHead + 1] - 1
        BY <2>1
      <4> QED BY <2>1, <4>1, Zenon DEF Shown
    <3> QED BY <3>2, <3>3, <3>4, Zenon DEF Queues
  <2> HIDE DEF batch
  <2>3. Appended(FirstBytesOf(payload, bound, cTail, cHead), cHead - cTail, batch,
                 FirstBytesOf(payload, bound, cTail, cHead + 1))
    BY <1>0, <1>2, <2>2, FirstBytesGrow, Zenon
  <2>4. Appended(queue, cHead - cTail, batch, queue')
    BY <1>1, <2>1, <2>3, Zenon
  <2>5. Len(queue) = cHead - cTail /\ queue' = queue \o batch
    BY <2>4, Zenon DEF Appended
  <2>6. Len(queue) + 1 <= Capacity
    <3>1. cHead + 1 - cTail <= Capacity /\ Len(queue) = cHead - cTail
      BY <2>1, <2>5, Zenon
    <3> QED BY <1>0, <3>1
  <2>7. sent' = [sent EXCEPT ![p] = @ + 1]
    BY <1>7, Zenon DEF CountHeadLands
  <2>8. Shared!Arrive(p, 1)
    BY <2>5, <2>6, <2>7, Zenon DEF Shared!Arrive, queue, batch
  <2>9. 1 \in 1 .. 1
    OBVIOUS
  <2> QED BY <2>8, <2>9, Zenon DEF Shared!SharedNext
<1>8. CASE PopAdvance
  <2>1. cTail' = cTail + 1 /\ UNCHANGED <<cHead, payload, bound, sent>> /\ cTail < cHead
    BY <1>8, PopAdvanceMoves, Zenon
  <2>2. Removed(FirstBytesOf(payload, bound, cTail, cHead), cHead - cTail, 1,
                FirstBytesOf(payload, bound, cTail + 1, cHead))
    BY <1>0, <1>2, <2>1, FirstBytesShrink, Zenon
  <2>3. Removed(queue, cHead - cTail, 1, queue')
    BY <1>1, <2>1, <2>2, Zenon
  <2>4. Len(queue) = cHead - cTail /\ queue' = SubSeq(queue, 1 + 1, Len(queue))
    BY <2>3, Zenon DEF Removed
  <2>5. 1 <= Len(queue) /\ 1 \in 1 .. 1
    BY <1>0, <2>1, <2>4
  <2>6. Shared!Leave(1)
    BY <2>1, <2>4, <2>5, Zenon DEF Shared!Leave, queue
  <2> QED BY <2>5, <2>6, Zenon DEF Shared!SharedNext
<1> QED
  BY <1>4, <1>5, <1>6, <1>7, <1>8, Zenon
     DEF Next, vars, PushAcquire, PushCompletes, updateDepth, PushCheck, PushFence, PayloadHeadLands, PushRelease,
         PopCompletes, PopAcquire, PopCheck, PopRelease, Finished

\* When callers pop one token at a time and no token is empty (the payload of an
\* empty one does not say which it is), the payloads behave as one bounded
\* queue that keeps each producer's order, for every set of producers, every
\* capacity in tokens and in bytes and every mix of sizes, whatever the order in
\* which chunks and heads land.
THEOREM TokensRefineSharedFifo ==
  Pops \subseteq {1} /\ 0 \notin Sizes => (Spec => RefinesSharedFifo)
<1> SUFFICES ASSUME Pops \subseteq {1}, 0 \notin Sizes PROVE Spec => RefinesSharedFifo
  BY Zenon
<1>1. IInv /\ ChunksLanded /\ PayloadsWritten /\ [Next]_vars => [Shared!SharedNext]_(Shared!sharedVars)
  BY StepRefines, Zenon
<1> QED
  BY <1>1, InitRefines, SpecIInv, SpecWritten, PTL DEF Spec, RefinesSharedFifo, Shared!SharedSpec

-----------------------------------------------------------------------------
(* The lock *)

\* A pop whose caller asked getDepth first finds its tokens and does not throw.
PopFinds ==
  /\ popping.pc = "idle" => lock # Consumer
  /\ popping.pc = "locked" => popping.n <= cHead - cTail

\* Nobody moves a counter between the caller's getDepth and pop's own check.
LEMMA NextPopFinds ==
  ASSUME IInv, PopFinds, [Next]_vars, Pops \subseteq {1}, ChecksDepth
  PROVE  PopFinds'
<1> USE DEF counters, memory
<1>0. cHead \in Nat /\ cTail \in Nat /\ popping \in PopCalls /\ pushing \in [Producers -> PushCalls]
  BY Types, Zenon
<1>1. CASE UNCHANGED <<popping, cHead, cTail, lock>>
  BY <1>1, Zenon DEF PopFinds
<1>2. ASSUME NEW p \in Producers, (\E size \in Sizes : PushAcquire(p, size)) \/ PushCompletes(p)
      PROVE  PopFinds'
  <2>1. lock = Free \/ pushing[p].pc # "idle"
    BY <1>2, Zenon DEF PushAcquire, acquireGlobalLock, PushCompletes, updateDepth, PushCheck, SizeLands, ChunkLands,
                PushFence, CountHeadLands, PayloadHeadLands, PushRelease
  <2>2. popping.pc = "idle"
    BY <2>1, Zenon DEF IInv, LockHeld
  <2>3. popping' = popping /\ (lock' = lock \/ lock' = p \/ lock' = Free)
    BY <1>2, Zenon DEF PushAcquire, acquireGlobalLock, releaseGlobalLock, PushCompletes, updateDepth, PushCheck, SizeLands,
                ChunkLands, PushFence, CountHeadLands, PayloadHeadLands, PushRelease
  <2> QED BY <2>2, <2>3, Zenon DEF PopFinds
<1>3. ASSUME NEW n \in Pops, PopAcquire(n) PROVE PopFinds'
  BY <1>0, <1>3, Zenon DEF PopAcquire, acquireGlobalLock, PopFinds, getDepth
<1>4. CASE PopCheck
  <2>1. popping.pc = "locked" /\ lock = Consumer /\ cTail <= cHead /\ popping.n \in Pops
    BY <1>4, ConsumerFacts, Zenon DEF PopCheck, IInv, LockHeld, PopFits
  <2>2. ~OutOfOrder(cHead, cTail) /\ ~(popping.n > getDepth(cHead, cTail))
    <3>1. popping.n = 1 /\ popping.n <= cHead - cTail
      BY <2>1, Zenon DEF PopFinds
    <3> QED BY <1>0, <2>1, <3>1 DEF OutOfOrder, getDepth
  <2>3. popping' = [popping EXCEPT !.pc = "popping"]
    BY <1>4, <2>2, Zenon DEF PopCheck
  <2>4. popping'.pc = "popping"
    BY <1>0, <2>3, Zenon DEF PopCalls
  <2> QED BY <2>4, Zenon DEF PopFinds
<1>5. CASE PopAdvance
  <2>1. popping' = [popping EXCEPT !.pc = "releasing"]
    BY <1>5, PopAdvanceMoves, Zenon
  <2>2. popping'.pc = "releasing"
    BY <1>0, <2>1, Zenon DEF PopCalls
  <2> QED BY <2>2, Zenon DEF PopFinds
<1>6. CASE PopRelease
  BY <1>6, Zenon DEF PopRelease, releaseGlobalLock, PopFinds, IdlePop
<1> QED
  BY <1>1, <1>2, <1>3, <1>4, <1>5, <1>6, Zenon DEF Next, vars, PopCompletes, Finished

\* A consumer that asks getDepth before it pops, and pops one token at a time,
\* never returns from pop with the lock: the throw of pop, which keeps the lock
\* for ever, is out of its reach whatever the producers do in between.
THEOREM PopGivesTheLockBack ==
  Pops \subseteq {1} /\ ChecksDepth => (Spec => []ReturnedPopHoldsNoLock)
<1> SUFFICES ASSUME Pops \subseteq {1}, ChecksDepth PROVE Spec => []ReturnedPopHoldsNoLock
  BY Zenon
<1>1. Init => PopFinds
  BY DEF Init, PopFinds, IdlePop
<1>2. IInv /\ PopFinds /\ [Next]_vars => PopFinds'
  BY NextPopFinds, Zenon
<1>3. PopFinds => ReturnedPopHoldsNoLock
  BY Zenon DEF PopFinds, ReturnedPopHoldsNoLock
<1> QED BY <1>1, <1>2, <1>3, SpecIInv, PTL DEF Spec
=============================================================================
