---------------------------- MODULE ChannelPrograms ----------------------------
(***************************************************************************)
(* The programs of examples/channels: what the producer and the consumer of  *)
(* each kind of channel call, and how the main of each backend launches      *)
(* them.  Payload values and printing are left out; message sizes are not.   *)
(***************************************************************************)
EXTENDS Calls

ELEMENT_SIZE == 4               \* sizeof(ELEMENT_TYPE)
MESSAGES_PER_PRODUCER == 3
PAYLOAD_CAPACITY == 32

\* The calls for CHANNEL_TAG, coordination manager first.
T == "CHANNEL_TAG"
Fences == Fence(Coordination, T) \o Fence(Payload, T)
Exchanges(K, L) == Exchange(Coordination, T, K) \o Exchange(Payload, T, L)

InC(K) == Named(Coordination, T, K)
InP(K) == Named(Payload, T, K)

-----------------------------------------------------------------------------
(* Fixed size, one producer                                                 *)

TOKENS == InP({"TOKEN_BUFFER"})
PRODUCER_COORDINATION == InC({"PRODUCER_COORDINATION"})
CONSUMER_COORDINATION == InC({"CONSUMER_COORDINATION"})

FixedSpscProducer ==
  Allocate(PRODUCER_COORDINATION)
    \o Exchanges({"PRODUCER_COORDINATION"}, {}) \o Fences
    \o Get(TOKENS \cup PRODUCER_COORDINATION \cup CONSUMER_COORDINATION)
    \o Open("spsc", "producer", TOKENS, PRODUCER_COORDINATION, CONSUMER_COORDINATION, {})
    \o PushAtOnce("spsc", ELEMENT_SIZE) \o Repeat(2, PushWhenRoom("spsc", ELEMENT_SIZE))
    \o Fences
    \o Deregister(Payload, TOKENS)
    \o Deregister(Coordination, PRODUCER_COORDINATION \cup CONSUMER_COORDINATION)
    \o Destroy(Coordination, CONSUMER_COORDINATION)
    \o Fences
    \o Free(PRODUCER_COORDINATION)

FixedSpscConsumer ==
  Allocate(TOKENS \cup CONSUMER_COORDINATION)
    \o Exchanges({"CONSUMER_COORDINATION"}, {"TOKEN_BUFFER"}) \o Fences
    \o Get(TOKENS \cup PRODUCER_COORDINATION \cup CONSUMER_COORDINATION)
    \o Open("spsc", "consumer", TOKENS, CONSUMER_COORDINATION, PRODUCER_COORDINATION, {})
    \o PopFrom("spsc", 1) \o PopFrom("spsc", 2)
    \o Fences
    \o Deregister(Payload, TOKENS)
    \o Deregister(Coordination, PRODUCER_COORDINATION \cup CONSUMER_COORDINATION)
    \o Destroy(Payload, TOKENS)
    \o Destroy(Coordination, PRODUCER_COORDINATION \cup CONSUMER_COORDINATION)
    \o Fences
    \o Free(TOKENS \cup CONSUMER_COORDINATION)

-----------------------------------------------------------------------------
(* Fixed size, several producers, one lock                                  *)

FixedLockingConsumer(producerCount) ==
  Allocate(TOKENS \cup CONSUMER_COORDINATION)
    \o Exchanges({"CONSUMER_COORDINATION"}, {"TOKEN_BUFFER"}) \o Fences
    \o Get(TOKENS \cup CONSUMER_COORDINATION)
    \o Open("mpsc", "consumer", TOKENS, CONSUMER_COORDINATION, {}, CONSUMER_COORDINATION)
    \o Repeat(MESSAGES_PER_PRODUCER * producerCount, PopFrom("mpsc", 1))
    \o Fences
    \o Deregister(Payload, TOKENS) \o Deregister(Coordination, CONSUMER_COORDINATION)
    \o Destroy(Payload, TOKENS) \o Destroy(Coordination, CONSUMER_COORDINATION)
    \o Fences
    \o Free(TOKENS \cup CONSUMER_COORDINATION)

\* The producers keep their counters in buffers they do not publish.
FixedLockingProducer ==
  Allocate(PRODUCER_COORDINATION)
    \o Exchanges({}, {}) \o Fences
    \o Get(TOKENS \cup CONSUMER_COORDINATION)
    \o Open("mpsc", "producer", TOKENS, PRODUCER_COORDINATION, CONSUMER_COORDINATION, CONSUMER_COORDINATION)
    \o Repeat(MESSAGES_PER_PRODUCER, PushWhenRoom("mpsc", ELEMENT_SIZE))
    \o Fences
    \o Deregister(Payload, TOKENS) \o Deregister(Coordination, CONSUMER_COORDINATION)
    \o Fences
    \o Free(PRODUCER_COORDINATION)

-----------------------------------------------------------------------------
(* Fixed size, several producers, one channel each.  Producer i of n          *)

TokensOf(I) == Named(Payload, "TOKEN_TAG", I)
ProducerCoordinationOf(I) == Named(Coordination, "PRODUCER_COORDINATION_TAG", I)
ConsumerCoordinationOf(I) == Named(Coordination, "CONSUMER_COORDINATION_TAG", I)

NonlockingFences ==
  Fence(Payload, "TOKEN_TAG") \o Fence(Coordination, "PRODUCER_COORDINATION_TAG")
    \o Fence(Coordination, "CONSUMER_COORDINATION_TAG")

\* Every tag is exchanged and fenced before the next.
NonlockingExchanges(tokens, producers, consumers) ==
  Exchange(Payload, "TOKEN_TAG", tokens) \o Fence(Payload, "TOKEN_TAG")
    \o Exchange(Coordination, "PRODUCER_COORDINATION_TAG", producers) \o Fence(Coordination, "PRODUCER_COORDINATION_TAG")
    \o Exchange(Coordination, "CONSUMER_COORDINATION_TAG", consumers) \o Fence(Coordination, "CONSUMER_COORDINATION_TAG")

\* The token slots are deregistered with the payload manager and destroyed with
\* the coordination manager; the buffers are freed before the last fences.
FixedNonlockingConsumer(n) ==
  LET I == 1 .. n IN
  Allocate(TokensOf(I) \cup ConsumerCoordinationOf(I))
    \o NonlockingExchanges(I, {}, I)
    \o Get(TokensOf(I) \cup ProducerCoordinationOf(I))
    \o ForEach(n, LAMBDA i : Open(i, "consumer", TokensOf({i}), ConsumerCoordinationOf({i}), ProducerCoordinationOf({i}), {}))
    \o Repeat(MESSAGES_PER_PRODUCER * n, PopAny(I, 1, {Message}))
    \o NonlockingFences
    \o ForEach(n, LAMBDA i :
         Deregister(Payload, TokensOf({i})) \o Free(TokensOf({i})) \o Destroy(Coordination, TokensOf({i}))
           \o Deregister(Coordination, ProducerCoordinationOf({i})) \o Destroy(Coordination, ProducerCoordinationOf({i}))
           \o Free(ConsumerCoordinationOf({i})))
    \o NonlockingFences

FixedNonlockingProducer(i, n) ==
  Allocate(ProducerCoordinationOf({i}))
    \o NonlockingExchanges({}, {i}, {})
    \o Get(TokensOf(1 .. n) \cup ConsumerCoordinationOf({i}))
    \o Open(i, "producer", TokensOf({i}), ProducerCoordinationOf({i}), ConsumerCoordinationOf({i}), {})
    \o Repeat(MESSAGES_PER_PRODUCER, PushWhenRoom(i, ELEMENT_SIZE))
    \o NonlockingFences \o NonlockingFences
    \o Free(ProducerCoordinationOf({i}))

-----------------------------------------------------------------------------
(* Variable size, one producer                                              *)

SIZES == InC({"SIZES"})
PAYLOADS == InP({"PAYLOAD"})
ProducerKeys == {"PRODUCER_FOR_SIZES", "PRODUCER_FOR_PAYLOADS"}
ConsumerKeys == {"CONSUMER_FOR_SIZES", "CONSUMER_FOR_PAYLOADS"}
SIZE_INFO == InC({"SIZE_INFO"})         \* local to a producer

VariableSpscProducer ==
  Allocate(InC(ProducerKeys) \cup SIZE_INFO)
    \o Exchanges(ProducerKeys, {}) \o Fences
    \o Get(SIZES \cup PAYLOADS \cup InC(ProducerKeys \cup ConsumerKeys))
    \o Open("spsc", "producer", SIZES \cup PAYLOADS, InC(ProducerKeys) \cup SIZE_INFO, InC(ConsumerKeys), {})
    \o PushAtOnce("spsc", 4 * ELEMENT_SIZE) \o AwaitDepthOf("spsc", 0)
    \o PushAtOnce("spsc", 3 * ELEMENT_SIZE) \o AwaitDepthOf("spsc", 0)
    \o PushAtOnce("spsc", 2 * ELEMENT_SIZE)
    \o Fences
    \o Destroy(Coordination, SIZES \cup InC(ProducerKeys))
    \o Fences
    \o Free(InC(ProducerKeys) \cup SIZE_INFO)

VariableSpscConsumer ==
  Allocate(SIZES \cup PAYLOADS \cup InC(ConsumerKeys))
    \o Exchanges({"SIZES"} \cup ConsumerKeys, {"PAYLOAD"}) \o Fences
    \o Get(SIZES \cup PAYLOADS \cup InC(ProducerKeys \cup ConsumerKeys))
    \o Open("spsc", "consumer", SIZES \cup PAYLOADS, InC(ConsumerKeys), InC(ProducerKeys), {})
    \o AwaitDepthOf("spsc", 1) \o Repeat(3, PopFrom("spsc", 1))
    \o Fences
    \o Deregister(Coordination, SIZES \cup InC(ProducerKeys \cup ConsumerKeys))
    \o Destroy(Coordination, InC(ConsumerKeys)) \o Destroy(Payload, PAYLOADS)
    \o Fences
    \o Free(SIZES \cup PAYLOADS \cup InC(ConsumerKeys))

-----------------------------------------------------------------------------
(* Variable size, several producers, one lock                               *)

CountsLock == InC({"CONSUMER_FOR_SIZES"})

\* The payload slot is deregistered with the coordination manager.
VariableLockingConsumer(producerCount) ==
  Allocate(SIZES \cup PAYLOADS \cup InC(ConsumerKeys))
    \o Exchanges({"SIZES"} \cup ConsumerKeys, {"PAYLOAD"}) \o Fences
    \o Get(SIZES \cup PAYLOADS \cup InC(ConsumerKeys))
    \o Open("mpsc", "consumer", SIZES \cup PAYLOADS, InC(ConsumerKeys), {}, CountsLock)
    \o Repeat(MESSAGES_PER_PRODUCER * producerCount, PopFrom("mpsc", 1))
    \o Fences
    \o Deregister(Coordination, SIZES \cup PAYLOADS \cup InC(ConsumerKeys))
    \o Destroy(Coordination, SIZES \cup InC(ConsumerKeys)) \o Destroy(Payload, PAYLOADS)
    \o Fences
    \o Free(SIZES \cup PAYLOADS \cup InC(ConsumerKeys))

VariableLockingProducer ==
  Allocate(InC(ProducerKeys) \cup SIZE_INFO)
    \o Exchanges({}, {}) \o Fences
    \o Get(SIZES \cup PAYLOADS \cup InC(ConsumerKeys))
    \o Open("mpsc", "producer", SIZES \cup PAYLOADS, InC(ProducerKeys) \cup SIZE_INFO, InC(ConsumerKeys), CountsLock)
    \o PushWhenRoom("mpsc", 5 * ELEMENT_SIZE) \o PushWhenRoom("mpsc", 4 * ELEMENT_SIZE)
    \o PushWhenRoom("mpsc", 3 * ELEMENT_SIZE)
    \o Fences
    \o Deregister(Coordination, SIZES \cup InC(ConsumerKeys))
    \o Fences
    \o Free(InC(ProducerKeys) \cup SIZE_INFO)

-----------------------------------------------------------------------------
(* Variable size, several producers, one channel each                        *)

ConsumerTags == <<"CONSUMER_FOR_SIZES", "CONSUMER_FOR_PAYLOADS", "CONSUMER_TOKEN">>
ProducerTags == <<"PRODUCER_FOR_SIZES", "PRODUCER_FOR_PAYLOADS">>

InTags(ts, I) == UNION {Named(Coordination, t, I) : t \in Range(ts)}
PayloadsOf(I) == Named(Payload, "CONSUMER_PAYLOAD", I)
CountersOf(ts, I) == InTags(SubSeq(ts, 1, 2), I)
DataOf(I) == Named(Coordination, "CONSUMER_TOKEN", I) \cup PayloadsOf(I)
AllOf(I) == InTags(ConsumerTags, I) \cup InTags(ProducerTags, I) \cup PayloadsOf(I)

ExchangeTags(ts, K) == FlattenSeq([j \in DOMAIN ts |-> Exchange(Coordination, ts[j], K)])
FenceTags(ts) == FlattenSeq([j \in DOMAIN ts |-> Fence(Coordination, ts[j])])

\* The consumer's four tags are exchanged and then fenced, then the producers' two.
VariableNonlockingExchanges(consumer, producer) ==
  ExchangeTags(ConsumerTags, consumer) \o Exchange(Payload, "CONSUMER_PAYLOAD", consumer)
    \o FenceTags(ConsumerTags) \o Fence(Payload, "CONSUMER_PAYLOAD")
    \o ExchangeTags(ProducerTags, producer) \o FenceTags(ProducerTags)

\* No fence separates the last push and pop from the deregistration.
DeregisterAll(n) ==
  Deregister(Payload, PayloadsOf(1 .. n))
    \o Deregister(Coordination, InTags(ConsumerTags, 1 .. n) \cup InTags(ProducerTags, 1 .. n))

VariableNonlockingFences == Fence(Payload, "CONSUMER_PAYLOAD") \o FenceTags(ConsumerTags) \o FenceTags(ProducerTags)

VariableNonlockingConsumer(n) ==
  LET I == 1 .. n IN
  Allocate(InTags(ConsumerTags, I) \cup PayloadsOf(I))
    \o VariableNonlockingExchanges(I, {})
    \o Get(AllOf(I))
    \o ForEach(n, LAMBDA i : Open(i, "consumer", DataOf({i}), CountersOf(ConsumerTags, {i}), CountersOf(ProducerTags, {i}), {}))
    \o Repeat(5 * n, PopAny(I, 1, {Message}))
    \o DeregisterAll(n)
    \o Destroy(Payload, PayloadsOf(I)) \o Destroy(Coordination, InTags(ConsumerTags, I))
    \o VariableNonlockingFences
    \o Free(InTags(ConsumerTags, I) \cup PayloadsOf(I))

VariableNonlockingProducer(i, n) ==
  LET own == CountersOf(ProducerTags, {i}) \cup SIZE_INFO IN
  Allocate(own)
    \o VariableNonlockingExchanges({}, {i})
    \o Get(AllOf(1 .. n))
    \o Open(i, "producer", DataOf({i}), own, CountersOf(ConsumerTags, {i}), {})
    \o ForEach(5, LAMBDA j : PushWhenRoom(i, (6 - j) * ELEMENT_SIZE))
    \o DeregisterAll(n)
    \o Destroy(Coordination, InTags(ProducerTags, {i}))
    \o VariableNonlockingFences
    \o Free(own)

-----------------------------------------------------------------------------
(* The mains.  processes: MPI processes or the thread pool's size; args: the  *)
(* right number of arguments was given.                                       *)

Channels(C, capacity, bytes) == [c \in C |-> [tokens |-> capacity, bytes |-> bytes]]
Sized(C, capacity) == Channels(C, capacity, capacity * ELEMENT_SIZE)

\* Instance 1 is the consumer, the others are the producers.
OneConsumer(consumer, producer(_), n) == <<consumer>> \o [i \in 1 .. n |-> producer(i)]

SpscMpi(roles, channels, processes, args, capacity) ==
  IF processes # 2 \/ ~args \/ capacity = 0 THEN Refused("mpi")
  ELSE Launched("mpi", FALSE, roles, channels, capacity)

\* The capacity is checked, but the program goes on when it is zero.
SpscLpf(roles, channels, processes, args, capacity) ==
  IF processes # 2 \/ ~args THEN Refused("lpf") ELSE Launched("lpf", FALSE, roles, channels, capacity)

SpscPthreads(roles, channels, args, capacity) ==
  IF ~args \/ capacity = 0 THEN Refused("pthreads") ELSE Launched("pthreads", TRUE, roles, channels, capacity)

FixedSpscRoles == <<FixedSpscProducer, FixedSpscConsumer>>
FixedSpscMpi(n, args, k) == SpscMpi(FixedSpscRoles, Sized({"spsc"}, k), n, args, k)
FixedSpscLpf(n, args, k) == SpscLpf(FixedSpscRoles, Sized({"spsc"}, k), n, args, k)
FixedSpscPthreads(args, k) == SpscPthreads(FixedSpscRoles, Sized({"spsc"}, k), args, k)

VariableSpscRoles == <<VariableSpscProducer, VariableSpscConsumer>>
VariableSpscChannel(k) == Channels({"spsc"}, k, PAYLOAD_CAPACITY)
VariableSpscMpi(n, args, k) == SpscMpi(VariableSpscRoles, VariableSpscChannel(k), n, args, k)
VariableSpscLpf(n, args, k) == SpscLpf(VariableSpscRoles, VariableSpscChannel(k), n, args, k)
VariableSpscPthreads(args, k) == SpscPthreads(VariableSpscRoles, VariableSpscChannel(k), args, k)

MpscMpi(roles, channels, processes, args, capacity) ==
  IF processes < 2 \/ ~args \/ capacity = 0 THEN Refused("mpi")
  ELSE Launched("mpi", FALSE, roles, channels, capacity)

MpscLpf(roles, channels, processes, args, capacity) ==
  IF processes < 2 \/ ~args THEN Refused("lpf") ELSE Launched("lpf", FALSE, roles, channels, capacity)

MpscPthreads(roles, channels, poolSize, args, capacity) ==
  IF ~args \/ capacity = 0 \/ poolSize = 0 THEN Refused("pthreads")
  ELSE Launched("pthreads", TRUE, roles, channels, capacity)

FixedLockingRoles(n) == OneConsumer(FixedLockingConsumer(n - 1), LAMBDA i : FixedLockingProducer, n - 1)
FixedLockingMpi(n, args, k) == MpscMpi(FixedLockingRoles(n), Sized({"mpsc"}, k), n, args, k)
FixedLockingLpf(n, args, k) == MpscLpf(FixedLockingRoles(n), Sized({"mpsc"}, k), n, args, k)
FixedLockingPthreads(n, args, k) == MpscPthreads(FixedLockingRoles(n), Sized({"mpsc"}, k), n, args, k)

FixedNonlockingRoles(n) == OneConsumer(FixedNonlockingConsumer(n - 1), LAMBDA i : FixedNonlockingProducer(i, n - 1), n - 1)
FixedNonlockingMpi(n, args, k) == MpscMpi(FixedNonlockingRoles(n), Sized(1 .. n - 1, k), n, args, k)
FixedNonlockingLpf(n, args, k) == MpscLpf(FixedNonlockingRoles(n), Sized(1 .. n - 1, k), n, args, k)
FixedNonlockingPthreads(n, args, k) == MpscPthreads(FixedNonlockingRoles(n), Sized(1 .. n - 1, k), n, args, k)

VariableLockingRoles(n) == OneConsumer(VariableLockingConsumer(n - 1), LAMBDA i : VariableLockingProducer, n - 1)
VariableLockingMpi(n, args, k) == MpscMpi(VariableLockingRoles(n), Sized({"mpsc"}, k), n, args, k)
VariableLockingLpf(n, args, k) == MpscLpf(VariableLockingRoles(n), Sized({"mpsc"}, k), n, args, k)
VariableLockingPthreads(n, args, k) == MpscPthreads(VariableLockingRoles(n), Sized({"mpsc"}, k), n, args, k)

VariableNonlockingRoles(n) ==
  OneConsumer(VariableNonlockingConsumer(n - 1), LAMBDA i : VariableNonlockingProducer(i, n - 1), n - 1)
VariableNonlockingMpi(n, args, k) == MpscMpi(VariableNonlockingRoles(n), Sized(1 .. n - 1, k), n, args, k)
VariableNonlockingLpf(n, args, k) == MpscLpf(VariableNonlockingRoles(n), Sized(1 .. n - 1, k), n, args, k)
VariableNonlockingPthreads(n, args, k) == MpscPthreads(VariableNonlockingRoles(n), Sized(1 .. n - 1, k), n, args, k)
=============================================================================
