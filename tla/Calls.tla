-------------------------------- MODULE Calls ---------------------------------
(***************************************************************************)
(* The vocabulary of the programs that GlobalSlots runs: one constructor per *)
(* HiCR call, each a sequence of one statement, so that a role is written as *)
(* the concatenation of its calls.                                           *)
(***************************************************************************)
EXTENDS Integers, Sequences, SequencesExt

Coordination == 1       \* the coordination communication manager
Payload == 2            \* the payload communication manager
Promoted == 0           \* no manager: a slot promoted by its owner alone

Named(m, t, K) == {<<m, t, k>> : k \in K}

Allocate(S) == <<[op |-> "allocate", slots |-> S]>>
Free(S) == <<[op |-> "free", slots |-> S]>>
Exchange(m, t, K) == <<[op |-> "exchange", m |-> m, tag |-> t, keys |-> K]>>
Fence(m, t) == <<[op |-> "fence", m |-> m, tag |-> t]>>
Get(S) == <<[op |-> "get", slots |-> S]>>
Deregister(m, S) == <<[op |-> "deregister", m |-> m, slots |-> S]>>
Destroy(m, S) == <<[op |-> "destroy", m |-> m, slots |-> S]>>

\* A channel end: its data slots, the own buffers it counts in, the coordination
\* slots of the other side, and the slot whose lock it takes.
Open(c, side, shared, own, peer, lock) ==
  <<[op |-> "open", channel |-> c, side |-> side, data |-> shared, own |-> own, peer |-> peer, lock |-> lock]>>

Message == "message"
PushValue(wait, c, n, what, value) ==
  <<[op |-> "push", channel |-> c, bytes |-> n, wait |-> wait, what |-> what, value |-> value]>>
PushWhen(wait, c, n, what) == PushValue(wait, c, n, what, "any")
PushAtOnce(c, n) == PushWhen("none", c, n, Message)
PushWhenRoom(c, n) == PushWhen("room", c, n, Message)
PopAny(Cs, n, targets) == <<[op |-> "pop", channels |-> Cs, count |-> n, targets |-> targets]>>
PopFrom(c, n) == PopAny({c}, n, {Message})
PeekInto(s, c) == <<[op |-> "peek", slot |-> s, channel |-> c]>>
AwaitDepthOf(c, n) == <<[op |-> "await", channel |-> c, depth |-> n]>>

WriteTo(s, v) == <<[op |-> "write", slot |-> s, value |-> v]>>
ShowOneOf(s, V) == <<[op |-> "print", slot |-> s, values |-> V]>>
ShowBuffer(s, v) == ShowOneOf(s, {v})
ShowTopology(s, summaries) == <<[op |-> "showTopology", slot |-> s, values |-> summaries]>>
MemcpyTo(g, l) == <<[op |-> "memcpy", global |-> g, local |-> l, put |-> TRUE]>>
MemcpyFrom(l, g) == <<[op |-> "memcpy", global |-> g, local |-> l, put |-> FALSE]>>
FenceOn(s) == <<[op |-> "fenceSlot", slot |-> s]>>
Promote(s, b) == <<[op |-> "promote", slot |-> s, buffer |-> b]>>
DestroyPromoted(s) == <<[op |-> "destroyPromoted", slot |-> s]>>
AddThisInstance == <<[op |-> "addInstance"]>>
ListInstances == <<[op |-> "getInstances"]>>

Repeat(n, calls) == FlattenSeq([i \in 1 .. n |-> calls])
ForEach(n, calls(_)) == FlattenSeq([i \in 1 .. n |-> calls(i)])

-----------------------------------------------------------------------------
(* A launch: the backend, whether the two managers are two objects, one role *)
(* per instance, and the channels with their capacities.  A refused launch   *)
(* returns from main before any instance has a role.                         *)

Launched(backend, separate, roles, channels, capacity) ==
  [backend |-> backend, separate |-> separate, roles |-> roles, channels |-> channels, capacity |-> capacity]

Refused(backend) == Launched(backend, FALSE, <<>>, <<>>, 1)
=============================================================================
