--------------------------- MODULE CircularBuffer ---------------------------
(***************************************************************************)
(* The logical circular buffer every channel is built on                    *)
(* (frontends/channel/circularBuffer.hpp): a capacity and two counters that *)
(* only ever grow, how often the head and how often the tail was advanced.  *)
(* The counters live in a coordination buffer which the remote side writes  *)
(* with one-sided copies, so an operator takes their current values.        *)
(***************************************************************************)
EXTENDS Integers

\* getHeadPosition and getTailPosition: where an advance counter points.
Position(counter, capacity) == counter % capacity

\* calculateDepth refuses counters that are out of order ("critical bug").
OutOfOrder(head, tail) == head < tail

\* getDepth, isFull and isEmpty, for counters that are in order.
getDepth(head, tail) == head - tail
isFull(head, tail, capacity) == getDepth(head, tail) = capacity
isEmpty(head, tail) == head = tail

\* advanceHead(n) throws a fatal exception in these states ...
AdvanceHeadFatal(head, tail, n, capacity) ==
  OutOfOrder(head, tail) \/ getDepth(head, tail) + n > capacity

\* ... and advanceTail(n) in these.
AdvanceTailFatal(head, tail, n) ==
  OutOfOrder(head, tail) \/ n > getDepth(head, tail)
=============================================================================
