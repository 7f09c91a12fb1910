---------------------------- MODULE ServicePrograms ----------------------------
(***************************************************************************)
(* The other programs that exchange global slots: ping-pong, the remote      *)
(* memcpy, the object store, the RPC engine with the two programs built on   *)
(* it, and instance detection.                                               *)
(***************************************************************************)
EXTENDS ChannelPrograms, Topology

-----------------------------------------------------------------------------
(* examples/pingPong: two SPSC channels in opposite directions               *)

ProducerPing == InC({"PRODUCER_PING"})
ProducerPong == InC({"PRODUCER_PONG"})
ConsumerPing == InC({"CONSUMER_PING"})
ConsumerPong == InC({"CONSUMER_PONG"})
PingTokens == InC({"PING_BUFFER"})
PongTokens == InC({"PONG_BUFFER"})
AllPingPong == ProducerPing \cup ProducerPong \cup ConsumerPing \cup ConsumerPong \cup PingTokens \cup PongTokens

\* Nothing is destroyed, and the buffers are freed with no fence in between.
Pinger(messages) ==
  Allocate(PongTokens \cup ProducerPing \cup ProducerPong)
    \o Exchange(Coordination, T, {"PRODUCER_PING", "PRODUCER_PONG", "PONG_BUFFER"}) \o Fence(Coordination, T)
    \o Get(AllPingPong)
    \o Open("ping", "producer", PingTokens, ProducerPing, ConsumerPing, {})
    \o Open("pong", "consumer", PongTokens, ProducerPong, ConsumerPong, {})
    \o Repeat(messages, PushWhenRoom("ping", 1) \o PopFrom("pong", 1))
    \o Fence(Coordination, T)
    \o Deregister(Coordination, AllPingPong)
    \o Free(PongTokens \cup ProducerPing \cup ProducerPong)

Ponger(messages) ==
  Allocate(PingTokens \cup ConsumerPing \cup ConsumerPong)
    \o Exchange(Coordination, T, {"CONSUMER_PING", "CONSUMER_PONG", "PING_BUFFER"}) \o Fence(Coordination, T)
    \o Get(AllPingPong)
    \o Open("ping", "consumer", PingTokens, ConsumerPing, ProducerPing, {})
    \o Open("pong", "producer", PongTokens, ConsumerPong, ProducerPong, {})
    \o Repeat(messages, PopFrom("ping", 1) \o PushWhenRoom("pong", 1))
    \o Fence(Coordination, T)
    \o Deregister(Coordination, AllPingPong)
    \o Free(PingTokens \cup ConsumerPing \cup ConsumerPong)

PingPongRoles(messages) == <<Pinger(messages), Ponger(messages)>>
PingPongChannels(k) == Channels({"ping", "pong"}, k, k)

PingPongMpi(n, args, k, messages) == SpscMpi(PingPongRoles(messages), PingPongChannels(k), n, args, k)
PingPongLpf(n, args, k, messages) == SpscLpf(PingPongRoles(messages), PingPongChannels(k), n, args, k)

-----------------------------------------------------------------------------
(* examples/memcpy/distributed: the sender puts a greeting into the          *)
(* receiver's slot and gets the slot back                                    *)

SenderBuffer == <<Coordination, "COMM_TAG", "sender">>
ReceiverSlot == <<Coordination, "COMM_TAG", "receiver">>
CommFence == Fence(Coordination, "COMM_TAG")

\* Both sides deregister the slot and ask for its destruction.
LeaveComm(buffer) ==
  Deregister(Coordination, {ReceiverSlot}) \o Destroy(Coordination, {ReceiverSlot}) \o CommFence \o Free({buffer})

\* No fence lies between the receiver's answer and the sender's get: the sender
\* may get either text.
RemoteSender ==
  Allocate({SenderBuffer}) \o Exchange(Coordination, "COMM_TAG", {}) \o CommFence \o Get({ReceiverSlot})
    \o WriteTo(SenderBuffer, "greeting") \o MemcpyTo(ReceiverSlot, SenderBuffer) \o CommFence
    \o MemcpyFrom(SenderBuffer, ReceiverSlot) \o CommFence
    \o ShowOneOf(SenderBuffer, {"greeting", "answer"})
    \o LeaveComm(SenderBuffer)

RemoteReceiver ==
  Allocate({ReceiverSlot}) \o Exchange(Coordination, "COMM_TAG", {"receiver"}) \o CommFence \o Get({ReceiverSlot})
    \o CommFence \o ShowBuffer(ReceiverSlot, "greeting")
    \o WriteTo(ReceiverSlot, "answer") \o CommFence
    \o LeaveComm(ReceiverSlot)

RemoteMemcpy(backend, n) ==
  IF n # 2 THEN Refused(backend) ELSE Launched(backend, FALSE, <<RemoteSender, RemoteReceiver>>, <<>>, 1)

RemoteMemcpyMpi(n) == RemoteMemcpy("mpi", n)
RemoteMemcpyLpf(n) == RemoteMemcpy("lpf", n)

-----------------------------------------------------------------------------
(* The object store: an object is a promoted slot on a block of its owner    *)

ObjectOf(i) == <<Promoted, "OBJECT_STORE", i>>
BlockOf(i) == <<Coordination, "BLOCK", i>>
CopyOf(i) == <<Coordination, "COPY", i>>

\* publish(object), get(object) by the owner and by a reader, destroy(object).
Publish(i, b) == Promote(ObjectOf(i), BlockOf(b))
GetOwn(i, b) == MemcpyFrom(BlockOf(b), ObjectOf(i))
Fetch(i) == Allocate({CopyOf(i)}) \o MemcpyFrom(CopyOf(i), ObjectOf(i))
DestroyOwn(i) == DestroyPromoted(ObjectOf(i))
DestroyFetched(i) == Free({CopyOf(i)}) \o DestroyPromoted(ObjectOf(i))
StoreFence == Fence(Coordination, "OBJECT_STORE")

StoreFenceObject(i) == FenceOn(CopyOf(i))

HANDLE_SIZE == 60       \* sizeof(handle), and the channel of examples/objectStore
CHANNEL_COUNT_CAPACITY == 1024
CHANNEL_PAYLOAD_CAPACITY == 1048576

HandleChannelData == SIZES \cup InC({"PAYLOAD"})

Owner ==
  Allocate(InC(ProducerKeys) \cup SIZE_INFO)
    \o Exchange(Coordination, T, ProducerKeys) \o Fence(Coordination, T)
    \o Get(HandleChannelData \cup InC(ProducerKeys \cup ConsumerKeys))
    \o Open("handles", "producer", HandleChannelData, InC(ProducerKeys) \cup SIZE_INFO, InC(ConsumerKeys), {})
    \o Allocate({BlockOf(1), BlockOf(2)})
    \o WriteTo(BlockOf(1), "block 1") \o Publish(1, 1)
    \o WriteTo(BlockOf(2), "block 2") \o Publish(2, 2)
    \o PushAtOnce("handles", HANDLE_SIZE) \o AwaitDepthOf("handles", 0) \o PushAtOnce("handles", HANDLE_SIZE)
    \o Fence(Coordination, T) \o StoreFence
    \o DestroyOwn(1) \o DestroyOwn(2) \o Free({BlockOf(1), BlockOf(2)})
    \o Deregister(Coordination, SIZES \cup InC(ProducerKeys)) \o Destroy(Coordination, InC(ProducerKeys))
    \o Fence(Coordination, T)
    \o Free(InC(ProducerKeys) \cup SIZE_INFO)

Reader ==
  Allocate(HandleChannelData \cup InC(ConsumerKeys))
    \o Exchange(Coordination, T, {"SIZES", "PAYLOAD"} \cup ConsumerKeys) \o Fence(Coordination, T)
    \o Get(HandleChannelData \cup InC(ProducerKeys \cup ConsumerKeys))
    \o Open("handles", "consumer", HandleChannelData, InC(ConsumerKeys), InC(ProducerKeys), {})
    \o PopFrom("handles", 1) \o Fetch(1) \o StoreFenceObject(1) \o ShowBuffer(CopyOf(1), "block 1")
    \o PopFrom("handles", 1) \o Fence(Coordination, T)
    \o Fetch(2) \o StoreFence \o ShowBuffer(CopyOf(2), "block 2")
    \o DestroyFetched(1) \o DestroyFetched(2)
    \o Deregister(Coordination, SIZES \cup InC(ProducerKeys \cup ConsumerKeys))
    \o Destroy(Coordination, InC(ConsumerKeys \cup {"PAYLOAD"}))
    \o Fence(Coordination, T)
    \o Free(HandleChannelData \cup InC(ConsumerKeys))

PublishReadLpf == Launched("lpf", FALSE, <<Owner, Reader>>, Channels({"handles"}, CHANNEL_COUNT_CAPACITY, CHANNEL_PAYLOAD_CAPACITY), 1)

\* One thread publishes one block twice, under two object ids, and another.
SingleInstance ==
  Allocate({BlockOf(1)})
    \o WriteTo(BlockOf(1), "R") \o Publish(1, 1) \o GetOwn(1, 1) \o ShowBuffer(BlockOf(1), "R")
    \o WriteTo(BlockOf(1), "S") \o Publish(2, 1) \o GetOwn(2, 1) \o ShowBuffer(BlockOf(1), "S")
    \o Free({BlockOf(1)})
    \o Allocate({BlockOf(3)}) \o WriteTo(BlockOf(3), "Test") \o Publish(3, 3) \o GetOwn(3, 3)
    \o ShowBuffer(BlockOf(3), "Test")
    \o DestroyOwn(2)

ObjectStorePthreads == Launched("pthreads", FALSE, <<SingleInstance>>, <<>>, 1)

-----------------------------------------------------------------------------
(* The RPC engine of instance me among n.  Requests travel over one channel   *)
(* per ordered pair of instances, <<"rpc", callee, caller>>; the return       *)
(* values for an instance over one channel all instances push to.            *)

RpcToken(i, j) == Named(Coordination, "RPC_TOKEN", {<<i, j>>})

RpcProducerCoordination(i, j) == Named(Coordination, "RPC_PRODUCER_COORDINATION", {<<i, j>>})
RpcConsumerCoordination(i, j) == Named(Coordination, "RPC_CONSUMER_COORDINATION", {<<i, j>>})

ExchangeAndFence(t, K) == Exchange(Coordination, t, K) \o Fence(Coordination, t)

\* The slot of instance me for instance i has the key me * n + i: the pair.
InitializeRPCChannels(me, n) ==
  LET mine == {<<me, i>> : i \in 1 .. n} IN
  ForEach(n, LAMBDA i : Allocate(RpcToken(me, i) \cup RpcConsumerCoordination(me, i) \cup RpcProducerCoordination(me, i)))
    \o ExchangeAndFence("RPC_TOKEN", mine)
    \o ExchangeAndFence("RPC_PRODUCER_COORDINATION", mine)
    \o ExchangeAndFence("RPC_CONSUMER_COORDINATION", mine)
    \o ForEach(n, LAMBDA i : Get(RpcToken(me, i) \cup RpcProducerCoordination(i, me) \cup RpcConsumerCoordination(me, i)))
    \o ForEach(n, LAMBDA i : Open(<<"rpc", me, i>>, "consumer", RpcToken(me, i),
                                   RpcConsumerCoordination(me, i), RpcProducerCoordination(i, me), {}))
    \o ForEach(n, LAMBDA i : Get(RpcToken(i, me) \cup RpcProducerCoordination(me, i) \cup RpcConsumerCoordination(i, me)))
    \o ForEach(n, LAMBDA i : Open(<<"rpc", i, me>>, "producer", RpcToken(i, me),
                                   RpcProducerCoordination(me, i), RpcConsumerCoordination(i, me), {}))

ReturnData(i) == Named(Coordination, "RETURN_SIZES", {i}) \cup Named(Coordination, "RETURN_PAYLOADS", {i})
ReturnCounts(i) == Named(Coordination, "RETURN_COORDINATION_SIZES", {i})
ReturnCounters(i) == ReturnCounts(i) \cup Named(Coordination, "RETURN_COORDINATION_PAYLOADS", {i})
ReturnProducerBuffers(i) == Named(Coordination, "RETURN_PRODUCER", {i})      \* not published

InitializeReturnValueChannels(me, n) ==
  Allocate(ReturnData(me) \cup ReturnCounters(me))
    \o ExchangeAndFence("RETURN_SIZES", {me}) \o ExchangeAndFence("RETURN_PAYLOADS", {me})
    \o ExchangeAndFence("RETURN_COORDINATION_SIZES", {me}) \o ExchangeAndFence("RETURN_COORDINATION_PAYLOADS", {me})
    \o Get(ReturnData(me) \cup ReturnCounters(me))
    \o Open(<<"return", me>>, "consumer", ReturnData(me), ReturnCounters(me), {}, ReturnCounts(me))
    \o ForEach(n, LAMBDA i :
         Allocate(ReturnProducerBuffers(i)) \o Get(ReturnData(i) \cup ReturnCounters(i))
           \o Open(<<"return", i>>, "producer", ReturnData(i), ReturnProducerBuffers(i), ReturnCounters(i), ReturnCounts(i)))

Initialize(me, n) == InitializeRPCChannels(me, n) \o InitializeReturnValueChannels(me, n)

\* Requests carry the hash of the RPC's name; a full channel throws.
RequestRPC(me, callee, name) == PushWhen("none", <<"rpc", callee, me>>, ELEMENT_SIZE, name)

\* listen, parseAndExecuteRPC, executeRPC: targets are the names of the RPCs that
\* were added.  What the RPC itself calls follows.
Listen(me, n, targets) == PopAny({<<"rpc", me, i>> : i \in 1 .. n}, 1, targets)

TempBuffer(me) == <<Coordination, "TEMP", me>>

\* Whether the push succeeds is not looked at.
SubmitReturnValue(me, requester, size, value) ==
  Allocate({TempBuffer(me)}) \o PushValue("ignore", <<"return", requester>>, size, Message, value) \o Free({TempBuffer(me)})

\* (The buffer is allocated when the message is there, which nobody can tell.)
GetReturnValue(me) ==
  Allocate({TempBuffer(me)}) \o PeekInto(TempBuffer(me), <<"return", me>>) \o PopFrom(<<"return", me>>, 1)

RpcChannels(n) ==
  [c \in ({"rpc"} \X (1 .. n) \X (1 .. n)) \cup ({"return"} \X (1 .. n)) |->
    [tokens |-> CHANNEL_COUNT_CAPACITY, bytes |-> CHANNEL_PAYLOAD_CAPACITY]]

\* examples/RPCEngine: the root requests an RPC of every other instance.
RPCTest(me, n) ==
  Initialize(me, n)
    \o IF me = 1 THEN ForEach(n - 1, LAMBDA i : RequestRPC(1, i + 1, "Test RPC"))
                 ELSE Listen(me, n, {"Test RPC"})

RPCEngineMpi(n) == Launched("mpi", FALSE, [i \in 1 .. n |-> RPCTest(i, n)], RpcChannels(n), 1)

\* examples/topology/distributed: each worker returns its topology to the root.
TOPOLOGY_SIZE == 4096

\* The workers' machines: two NUMA domains of one and two processing units, or
\* one domain and a Huawei device.
MachineOf(i) ==
  LET Object(kind, arity, numa) == [kind |-> kind, arity |-> arity, numa |-> numa]
      Single(node) == <<Object("Core", 1, -1), Object("L1", 1, -1), Object("Package", 1, node)>>
      Twin(node) == <<Object("Core", 2, -1), Object("L1", 2, -1), Object("Package", 1, node)>> IN
  IF i % 2 = 0 THEN [pus |-> <<Single(1), Twin(2), Twin(2)>>, numaSizes |-> <<8, 4>>, binds |-> TRUE, huawei |-> <<>>]
               ELSE [pus |-> <<Single(1)>>, numaSizes |-> <<2>>, binds |-> FALSE, huawei |-> <<16>>]

\* A program built with both backends.
WorkerTopology(i) == HwlocQueryTopology(MachineOf(i)) \o AclQueryTopology(MachineOf(i))

\* (The message is parsed, then freed, then read; nobody can tell the order.)
CoordinatorFc(n) ==
  ForEach(n - 1, LAMBDA i : RequestRPC(1, i + 1, "Topology RPC"))
    \o Repeat(n - 1, GetReturnValue(1)
                       \o ShowTopology(TempBuffer(1), {Summary(HwlocQueryTopology(MachineOf(i))) : i \in 2 .. n})
                       \o Free({TempBuffer(1)}))

WorkerFc(me, n) ==
  Listen(me, n, {"Topology RPC"}) \o SubmitReturnValue(me, 1, TOPOLOGY_SIZE, Serialize(WorkerTopology(me)))

DistributedTopologyMpi(n) ==
  Launched("mpi", FALSE, [i \in 1 .. n |-> Initialize(i, n) \o (IF i = 1 THEN CoordinatorFc(n) ELSE WorkerFc(i, n))],
           RpcChannels(n), 1)

-----------------------------------------------------------------------------
(* examples/detectInstances: every thread constructs an instance manager     *)

InstanceManager == AddThisInstance \o Fence(Coordination, "CORE") \o ListInstances

DetectInstancesPthreads(n) == Launched("pthreads", FALSE, [i \in 1 .. n |-> InstanceManager], <<>>, 1)
=============================================================================
