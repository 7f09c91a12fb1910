---------------------------- MODULE MpscNonlocking ----------------------------
(***************************************************************************)
(* The consumer of the nonlocking multiple-producer single-consumer channel *)
(* (frontends/channel/fixedSize/mpsc/nonlocking, and variableSize, which is *)
(* the same but for its constructor).  The channel is one SPSC channel per  *)
(* producer and, at the consumer, a helper FIFO that records from which of  *)
(* them the next token is to be taken.  updateDepth reads the depths one    *)
(* channel at a time while the producers keep pushing.                      *)
(*                                                                          *)
(* An SPSC channel is a bounded FIFO queue (shown by FixedSpsc and          *)
(* VariableSpsc), of which only the depth matters here: popping removes its *)
(* oldest token.                                                            *)
(***************************************************************************)
EXTENDS Integers, Sequences, FiniteSets, Functions

CONSTANTS
  N,          \* number of producers, and of SPSC channels
  ChannelCapacity,   \* capacity of each SPSC channel
  Pops,       \* numbers of tokens callers ask pop to remove
  Word        \* the depths are unsigned machine words, modulo Word

ASSUME MpscNonlockingAssumption ==
  /\ N \in Nat \ {0}
  /\ ChannelCapacity \in Nat \ {0}
  /\ Pops \subseteq Nat \ {0}
  /\ Word \in Nat /\ Word > N * ChannelCapacity

Channels == 0 .. N - 1

VARIABLES
  spsc,            \* depth of each SPSC channel
  depths,          \* _depths: the depths last recorded
  channelPushes,   \* _channelPushes: the helper FIFO
  call,            \* the consumer's call
  peeked           \* channel the last peek returned, or -1

mpscVars == <<spsc, depths, channelPushes, call, peeked>>

NoDepths == [c \in Channels |-> 0]
Idle == [pc |-> "idle", op |-> "none", n |-> 0, i |-> 0, new |-> NoDepths, first |-> 0]

\* The constructor of the variable-size consumer is still to look for messages;
\* that of the fixed-size one has nothing to do.
Constructing == [Idle EXCEPT !.pc = "constructing"]

MpscInit ==
  /\ spsc = NoDepths
  /\ depths = NoDepths
  /\ channelPushes = <<>>
  /\ call \in {Idle, Constructing}
  /\ peeked = -1

\* It records the messages that arrived early, channel by channel.
ConstructChannel ==
  /\ call.pc = "constructing"
  /\ depths' = [depths EXCEPT ![call.i] = spsc[call.i]]
  /\ channelPushes' = channelPushes \o [j \in 1 .. spsc[call.i] |-> call.i]
  /\ call' = IF call.i + 1 = N THEN Idle ELSE [call EXCEPT !.i = @ + 1]
  /\ UNCHANGED <<spsc, peeked>>

-----------------------------------------------------------------------------
\* Producer::push of one token, when its head counter lands.
Push(c) ==
  /\ spsc[c] < ChannelCapacity
  /\ spsc' = [spsc EXCEPT ![c] = @ + 1]
  /\ UNCHANGED <<depths, channelPushes, call, peeked>>

-----------------------------------------------------------------------------
(* updateDepth, which is also the first thing peek and pop do               *)

Start(op, n) ==
  /\ call.pc = "idle"
  /\ call' = [Idle EXCEPT !.pc = "reading", !.op = op, !.n = n]
  /\ UNCHANGED <<spsc, depths, channelPushes, peeked>>

ReadDepth ==
  /\ call.pc = "reading"
  /\ call' = IF call.i < N
               THEN [call EXCEPT !.new[call.i] = spsc[call.i], !.i = @ + 1]
               ELSE [call EXCEPT !.pc = "recording", !.i = 0]
  /\ UNCHANGED <<spsc, depths, channelPushes, peeked>>

\* One entry for each token that arrived since the last snapshot.
NewPushes(c) ==
  [j \in 1 .. (IF depths[c] < call.new[c] THEN call.new[c] - depths[c] ELSE 0) |-> c]

\* Mutant: new entries go to the front of the helper FIFO.
RecordPushesInFront ==
  /\ call.pc = "recording"
  /\ call.i < N
  /\ channelPushes' = NewPushes(call.i) \o channelPushes
  /\ call' = [call EXCEPT !.i = @ + 1]
  /\ UNCHANGED <<spsc, depths, peeked>>

RecordPushes ==
  /\ call.pc = "recording"
  /\ call.i < N
  /\ channelPushes' = channelPushes \o NewPushes(call.i)
  /\ call' = [call EXCEPT !.i = @ + 1]
  /\ UNCHANGED <<spsc, depths, peeked>>

\* getDepth: the sum of the recorded depths, as a machine word.
mpscGetDepth(d) == FoldFunction(LAMBDA x, sum : (x + sum) % Word, 0, d)

\* The snapshot becomes _depths; updateDepth throws when the two disagree.
SwapDepths ==
  /\ call.pc = "recording"
  /\ call.i = N
  /\ depths' = call.new
  /\ call' = IF mpscGetDepth(call.new) # Len(channelPushes) THEN [call EXCEPT !.pc = "outOfSync"]
             ELSE IF call.op = "updateDepth" THEN Idle
             ELSE [call EXCEPT !.pc = call.op, !.i = 0]
  /\ UNCHANGED <<spsc, channelPushes, peeked>>

-----------------------------------------------------------------------------
(* peek and pop                                                             *)

\* peek of an empty helper FIFO, or of an empty SPSC channel, throws.
Peek ==
  /\ call.pc = "peek"
  /\ call' = Idle
  /\ peeked' = IF channelPushes # <<>> /\ spsc[Head(channelPushes)] > 0
                 THEN Head(channelPushes) ELSE -1
  /\ UNCHANGED <<spsc, depths, channelPushes>>

\* pop takes the first channel once, before its loop.
PopFirst ==
  /\ call.pc = "pop"
  /\ call' = IF call.n > mpscGetDepth(depths) THEN Idle
             ELSE [call EXCEPT !.pc = "popping", !.first = Head(channelPushes)]
  /\ UNCHANGED <<spsc, depths, channelPushes, peeked>>

\* Mutant: the recorded depth is not decremented.
PopOneKeepsDepth ==
  /\ call.pc = "popping"
  /\ spsc' = [spsc EXCEPT ![call.first] = @ - 1]
  /\ channelPushes' = Tail(channelPushes)
  /\ call' = IF call.i + 1 = call.n THEN Idle ELSE [call EXCEPT !.i = @ + 1]
  /\ peeked' = -1
  /\ UNCHANGED depths

\* One round of the loop.  The pop of an empty SPSC channel throws.
PopOne ==
  /\ call.pc = "popping"
  /\ IF spsc[call.first] = 0
       THEN call' = Idle /\ UNCHANGED <<spsc, depths, channelPushes>>
       ELSE /\ spsc' = [spsc EXCEPT ![call.first] = @ - 1]
            /\ depths' = [depths EXCEPT ![call.first] = (@ - 1) % Word]
            /\ channelPushes' = Tail(channelPushes)
            /\ call' = IF call.i + 1 = call.n THEN Idle ELSE [call EXCEPT !.i = @ + 1]
  /\ peeked' = -1

-----------------------------------------------------------------------------
CallCompletes == ConstructChannel \/ ReadDepth \/ RecordPushes \/ SwapDepths \/ Peek \/ PopFirst \/ PopOne

MpscNext ==
  \/ \E c \in Channels : Push(c)
  \/ Start("updateDepth", 0)
  \/ Start("peek", 0)
  \/ \E n \in Pops : Start("pop", n)
  \/ CallCompletes

MpscSpec == MpscInit /\ [][MpscNext]_mpscVars

\* The consumer's calls run to their end and its application, whatever else it
\* calls, does not stop popping.  Nothing is assumed of the producers.
MpscFairSpec == MpscSpec /\ WF_mpscVars(CallCompletes) /\ SF_mpscVars(Start("pop", 1))

-----------------------------------------------------------------------------
(* Properties                                                               *)

\* The type invariant.
MpscTypeOK ==
  /\ spsc \in [Channels -> 0 .. ChannelCapacity]
  /\ depths \in [Channels -> 0 .. Word - 1]
  /\ channelPushes \in Seq(Channels)
  /\ call \in [pc : {"idle", "constructing", "reading", "recording", "peek", "pop", "popping", "outOfSync"},
               op : {"none", "updateDepth", "peek", "pop"}, n : Pops \cup {0}, i : 0 .. N + ChannelCapacity * N,
               new : [Channels -> 0 .. ChannelCapacity], first : Channels]
  /\ peeked \in -1 .. N - 1

Entries(c) == Cardinality({j \in DOMAIN channelPushes : channelPushes[j] = c})

\* Between two calls the helper FIFO holds exactly one entry for each token the
\* snapshot counted, and every entry has a token behind it: a producer that
\* pushes while the depths are being read is neither missed nor counted twice.
\* And the variable-size consumer's assertion on the new depths holds.
SnapshotInStep ==
  /\ call.pc = "recording" => \A c \in Channels : depths[c] <= call.new[c]
  /\ call.pc = "idle" => \A c \in Channels : Entries(c) = depths[c] /\ depths[c] <= spsc[c]

\* So updateDepth never finds the helper FIFO and the channels out of sync.
HelperInStep == call.pc # "outOfSync" /\ SnapshotInStep

\* A pop after a peek removes the token that peek returned, although the pop
\* runs updateDepth again and other producers pushed in between.
PopTakesPeekedToken ==
  [][\A c \in Channels : (spsc'[c] < spsc[c] /\ peeked # -1) => c = peeked]_mpscVars

\* The channel of a producer that finds it full gets room again, however much
\* the other producers push: no producer is starved by the order of recording.
FullChannelDrains == \A c \in Channels : spsc[c] = ChannelCapacity ~> spsc[c] < ChannelCapacity

\* pop(n) takes its n tokens in the order recorded in the helper FIFO.
PopsInRecordedOrder ==
  call.pc = "popping" => channelPushes # <<>> /\ call.first = Head(channelPushes)
=============================================================================
