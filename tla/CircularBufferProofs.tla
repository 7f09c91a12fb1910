------------------------ MODULE CircularBufferProofs ------------------------
(***************************************************************************)
(* Arithmetic of circular buffer positions, for every capacity, and what    *)
(* advancing a counter does to the queue of tokens between tail and head.   *)
(***************************************************************************)
EXTENDS CircularBuffer, Sequences, TLAPS

\* A leaf that names no prover goes to the SMT solver, for a minute at most.
USE SMTT(60)

\* A position is an index of the buffer.
LEMMA PositionInRange ==
  ASSUME NEW C \in Nat \ {0}, NEW k \in Nat
  PROVE  Position(k, C) \in 0 .. C - 1
  BY Z3 DEF Position

\* A counter is a whole number of laps plus its position.
LEMMA PositionLap ==
  ASSUME NEW C \in Nat \ {0}, NEW k \in Nat
  PROVE  /\ k \div C \in Int
         /\ k = C * (k \div C) + Position(k, C)
  BY Z3 DEF Position

\* Only one counter of a lap has a given position.
LEMMA PositionUnique ==
  ASSUME NEW C \in Nat \ {0}, NEW k \in Nat, NEW q \in Int, NEW r \in 0 .. C - 1,
         k = C * q + r
  PROVE  Position(k, C) = r
<1> DEFINE p == k \div C
           s == Position(k, C)
<1>1. p \in Int /\ k = C * p + s
  BY PositionLap, Zenon
<1>2. s \in 0 .. C - 1
  BY PositionInRange
<1> HIDE DEF p, s
<1>3. r - s = C * (p - q)
  BY <1>1, <1>2
<1>4. p - q \in Int /\ r - s < C /\ r - s > -C
  BY <1>1, <1>2
<1>5. CASE p - q >= 1
  <2>1. C * (p - q) >= C
    BY <1>4, <1>5
  <2> QED BY <2>1, <1>3, <1>4
<1>6. CASE p - q <= -1
  <2>1. C * (p - q) <= -C
    BY <1>4, <1>6
  <2> QED BY <2>1, <1>3, <1>4
<1>7. CASE p - q = 0
  <2>1. r = s
    BY <1>7, <1>3, <1>2
  <2> QED BY <2>1 DEF s
<1> QED BY <1>4, <1>5, <1>6, <1>7

\* Counters less than a lap apart have different positions: the slots of the
\* tokens in a channel that is not over capacity are distinct.
LEMMA PositionsDistinct ==
  ASSUME NEW C \in Nat \ {0}, NEW j \in Nat, NEW k \in Nat, j < k, k - j < C
  PROVE  Position(j, C) # Position(k, C)
<1> DEFINE p == j \div C
           q == k \div C
           s == Position(j, C)
           t == Position(k, C)
<1>1. p \in Int /\ q \in Int /\ j = C * p + s /\ k = C * q + t
  BY PositionLap, Zenon
<1>2. s \in 0 .. C - 1 /\ t \in 0 .. C - 1
  BY PositionInRange
<1> HIDE DEF p, q, s, t
<1>3. SUFFICES ASSUME s = t PROVE FALSE
  BY DEF s, t
<1>4. k - j = C * (q - p)
  BY <1>1, <1>2, <1>3
<1>5. q - p > 0
  BY <1>1, <1>4
<1>6. C * (q - p) >= C
  BY <1>1, <1>5
<1> QED BY <1>4, <1>6

\* Offsetting a position and wrapping it again, as peek does, gives the
\* position of the offset counter.
LEMMA PositionOffset ==
  ASSUME NEW C \in Nat \ {0}, NEW k \in Nat, NEW i \in Nat
  PROVE  (Position(k, C) + i) % C = Position(k + i, C)
<1> DEFINE m == Position(k, C) + i
           p == k \div C
           q == m \div C
           r == Position(m, C)
<1>1. Position(k, C) \in 0 .. C - 1 /\ p \in Int /\ k = C * p + Position(k, C)
  BY PositionInRange, PositionLap
<1>2. m \in Nat
  BY <1>1
<1>3. r \in 0 .. C - 1 /\ q \in Int /\ m = C * q + r
  BY <1>2, PositionInRange, PositionLap, Zenon
<1>4. k + i = C * p + m
  BY <1>1
<1>5. r = m % C
  BY DEF Position
<1> HIDE DEF m, p, q, r
<1> DEFINE lap == p + q
           n == k + i
<1>6. n = C * lap + r /\ lap \in Int /\ n \in Nat
  BY <1>1, <1>2, <1>3, <1>4
<1> HIDE DEF lap, n
<1>7. Position(n, C) = r
  BY <1>3, <1>6, PositionUnique, Zenon
<1> QED BY <1>5, <1>7 DEF m, n

\* Queues of length d, and contents of a buffer of capacity C.
Queues(d, T) == [1 .. d -> T]
Slots(C, T) == [0 .. C - 1 -> T]

\* r is the queue q of length d without its first n tokens.
Removed(q, d, n, r) == Len(q) = d /\ r = SubSeq(q, n + 1, Len(q))

\* advanceTail(n): the queue whose first token is the n-th one of q is q
\* without its first n tokens.
LEMMA QueueShrinks ==
  ASSUME NEW T, NEW d \in Nat, NEW n \in 0 .. d, NEW q \in Queues(d, T), NEW r \in Queues(d - n, T),
         \A i \in 1 .. d - n : r[i] = q[n + i]
  PROVE  Removed(q, d, n, r)
<1> USE DEF Queues
<1>1. q \in Seq(T) /\ Len(q) = d
  OBVIOUS
<1>2. r \in Seq(T) /\ Len(r) = d - n
  OBVIOUS
<1> QED BY <1>1, <1>2 DEF Removed

\* r is the queue q of length d with the tokens s appended.
Appended(q, d, s, r) == Len(q) = d /\ r = q \o s

\* advanceHead(n): the queue that shows n tokens more is q followed by them.
LEMMA QueueGrows ==
  ASSUME NEW T, NEW d \in Nat, NEW n \in Nat,
         NEW q \in Queues(d, T), NEW s \in Queues(n, T), NEW r \in Queues(d + n, T),
         \A i \in 1 .. d : r[i] = q[i],
         \A i \in 1 .. n : r[d + i] = s[i]
  PROVE  Appended(q, d, s, r)
<1> USE DEF Queues
<1>1. q \in Seq(T) /\ Len(q) = d /\ s \in Seq(T) /\ Len(s) = n
  OBVIOUS
<1>2. r \in Seq(T) /\ Len(r) = d + n
  OBVIOUS
<1> DEFINE t == q \o s
<1>3. t \in Seq(T) /\ Len(t) = d + n
  BY <1>1
<1>4. ASSUME NEW i \in 1 .. d + n PROVE t[i] = r[i]
  <2>1. CASE i \in 1 .. d
    BY <1>1, <2>1
  <2>2. CASE i \notin 1 .. d
    <3>1. t[i] = s[i - d]
      BY <1>1, <2>2
    <3>2. i - d \in 1 .. n /\ d + (i - d) = i
      BY <2>2
    <3> QED BY <3>1, <3>2
  <2> QED BY <2>1, <2>2
<1>5. Len(t) = Len(r) /\ \A i \in 1 .. Len(t) : t[i] = r[i]
  BY <1>2, <1>3, <1>4
<1> HIDE DEF t
<1>6. t = r
  BY <1>2, <1>3, <1>5
<1> QED BY <1>1, <1>6 DEF t, Appended

-----------------------------------------------------------------------------
\* The queue of tokens that a buffer of capacity C holds between the counters t
\* and h, oldest first.
Visible(buf, t, h, C) == [i \in 1 .. h - t |-> buf[Position(t + i - 1, C)]]

\* The visible tokens are as many as the counters say.
LEMMA VisibleType ==
  ASSUME NEW C \in Nat \ {0}, NEW T, NEW buf \in Slots(C, T),
         NEW t \in Nat, NEW h \in Nat, t <= h
  PROVE  Visible(buf, t, h, C) \in Queues(h - t, T)
<1> SUFFICES ASSUME NEW i \in 1 .. h - t PROVE buf[Position(t + i - 1, C)] \in T
  BY DEF Visible, Queues
<1>1. t + i - 1 \in Nat
  OBVIOUS
<1>2. Position(t + i - 1, C) \in 0 .. C - 1
  BY <1>1, PositionInRange
<1> QED BY <1>2 DEF Slots

\* Advancing the head over n written slots appends their contents.
LEMMA VisibleGrows ==
  ASSUME NEW C \in Nat \ {0}, NEW T, NEW buf \in Slots(C, T),
         NEW t \in Nat, NEW h \in Nat, t <= h, NEW n \in Nat, NEW s \in Queues(n, T),
         \A i \in 1 .. n : buf[Position(h + i - 1, C)] = s[i]
  PROVE  Appended(Visible(buf, t, h, C), h - t, s, Visible(buf, t, h + n, C))
<1> DEFINE d == h - t
           q == Visible(buf, t, h, C)
           r == Visible(buf, t, h + n, C)
<1>1. d \in Nat /\ h + n \in Nat /\ t <= h + n /\ (h + n) - t = d + n
  OBVIOUS
<1>2. q \in Queues(d, T) /\ r \in Queues(d + n, T)
  BY <1>1, VisibleType
<1>3. \A i \in 1 .. d : r[i] = q[i]
  BY DEF Visible
<1>4. ASSUME NEW i \in 1 .. n PROVE r[d + i] = s[i]
  <2>1. d + i \in 1 .. (h + n) - t /\ t + (d + i) - 1 = h + i - 1
    OBVIOUS
  <2>2. r[d + i] = buf[Position(t + (d + i) - 1, C)]
    BY <2>1 DEF Visible
  <2> QED BY <2>1, <2>2
<1> HIDE DEF d, q, r
<1>5. Appended(q, d, s, r)
  BY <1>1, <1>2, <1>3, <1>4, QueueGrows
<1> QED BY <1>5 DEF d, q, r

\* Advancing the tail removes as many tokens from the front.
LEMMA VisibleShrinks ==
  ASSUME NEW C \in Nat \ {0}, NEW T, NEW buf \in Slots(C, T),
         NEW t \in Nat, NEW h \in Nat, t <= h, NEW n \in 0 .. h - t
  PROVE  Removed(Visible(buf, t, h, C), h - t, n, Visible(buf, t + n, h, C))
<1> DEFINE d == h - t
           q == Visible(buf, t, h, C)
           r == Visible(buf, t + n, h, C)
<1>1. d \in Nat /\ n \in 0 .. d /\ t + n \in Nat /\ t + n <= h /\ h - (t + n) = d - n
  OBVIOUS
<1>2. q \in Queues(d, T) /\ r \in Queues(d - n, T)
  BY <1>1, VisibleType
<1>3. ASSUME NEW i \in 1 .. d - n PROVE r[i] = q[n + i]
  <2>1. i \in 1 .. h - (t + n) /\ n + i \in 1 .. h - t /\ t + (n + i) - 1 = (t + n) + i - 1
    OBVIOUS
  <2>2. r[i] = buf[Position((t + n) + i - 1, C)] /\ q[n + i] = buf[Position(t + (n + i) - 1, C)]
    BY <2>1 DEF Visible
  <2> QED BY <2>1, <2>2
<1> HIDE DEF d, q, r
<1>4. Removed(q, d, n, r)
  BY <1>1, <1>2, <1>3, QueueShrinks
<1> QED BY <1>4 DEF d, q, r

\* Writing none of the slots in between leaves the queue alone.
LEMMA VisibleSame ==
  ASSUME NEW C, NEW buf, NEW buf2, NEW t \in Nat, NEW h \in Nat,
         \A k \in t .. h - 1 : buf2[Position(k, C)] = buf[Position(k, C)]
  PROVE  Visible(buf2, t, h, C) = Visible(buf, t, h, C)
<1>1. \A i \in 1 .. h - t : t + i - 1 \in t .. h - 1
  OBVIOUS
<1> QED BY <1>1 DEF Visible
=============================================================================
