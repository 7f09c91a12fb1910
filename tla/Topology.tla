------------------------------- MODULE Topology --------------------------------
(***************************************************************************)
(* Topologies: what the hwloc and ACL topology managers detect on a machine, *)
(* how a topology is turned into JSON and back, and the subset test.         *)
(*                                                                          *)
(* A topology is a sequence of devices; its metadata is left out, nothing    *)
(* sets it.  An object is [type, own, ...] with the members of its backend's *)
(* class in own.  A JSON object is a record whose fields are its keys.       *)
(*                                                                          *)
(* A machine is what hwloc and ACL show of the hardware: for each processing *)
(* unit the objects above it, from the core up, [kind, arity, numa] with the *)
(* NUMA node attached to it or -1; the size of each NUMA node; the memory of *)
(* each Huawei device.                                                       *)
(***************************************************************************)
EXTENDS Integers, Sequences, FiniteSets, SequencesExt, TLC

CacheKinds == {"L1", "L2", "L3", "L4", "L5", "L1I", "L2I", "L3I"}

-----------------------------------------------------------------------------
(* Detection                                                                *)

detectThreadPUs(machine) == [i \in DOMAIN machine.pus |-> i]

\* The closest object above with memory attached.  (The root has some at the
\* latest; a unit without any would be an exception.)
getCpuNumaAffinity(machine, id) == SelectSeq(machine.pus[id], LAMBDA o : o.numa # -1)[1].numa

detectCpuCaches(machine, id) ==
  {[level |-> o.kind, shared |-> o.arity > 1] : o \in {o \in ToSet(machine.pus[id]) : o.kind \in CacheKinds}}

\* (The operating system's number of the unit is left out.)
HwlocComputeResource(machine, id) ==
  [type |-> "Processing Unit",
   own |-> [LogicalProcessorId |-> id, NUMAAffinity |-> getCpuNumaAffinity(machine, id),
            Caches |-> detectCpuCaches(machine, id)]]

\* The processing units that belong to the NUMA domain.
queryComputeResources(machine, numaDomainId) ==
  LET ids == SelectSeq(detectThreadPUs(machine), LAMBDA id : getCpuNumaAffinity(machine, id) = numaDomainId) IN
  [i \in DOMAIN ids |-> HwlocComputeResource(machine, ids[i])]

queryMemorySpaces(machine, numaDomainId) ==
  <<[type |-> "RAM", size |-> machine.numaSizes[numaDomainId], own |-> [BindingSupport |-> machine.binds]]>>

HwlocQueryTopology(machine) ==
  [i \in DOMAIN machine.numaSizes |->
    [type |-> "NUMA Domain", own |-> [NUMADomainId |-> i],
     resources |-> queryComputeResources(machine, i), spaces |-> queryMemorySpaces(machine, i)]]

\* The constructor that queryTopology calls gives a Huawei device no type.  (All
\* calls of ACL succeed, and the devices can access each other.)
AclQueryTopology(machine) ==
  [i \in DOMAIN machine.huawei |->
    [type |-> "", own |-> [DeviceIdentifier |-> i],
     resources |-> <<[type |-> "Huawei Processor", own |-> <<>>]>>,
     spaces |-> <<[type |-> "Huawei Device RAM", size |-> machine.huawei[i], own |-> <<>>]>>]]

-----------------------------------------------------------------------------
(* Serialization                                                            *)

SerializeComputeResource(r) == [Type |-> r.type] @@ r.own
SerializeMemorySpace(m) == [Type |-> m.type, Size |-> m.size] @@ m.own

SerializeDevice(d) ==
  [Type |-> d.type,
   ComputeResources |-> [i \in DOMAIN d.resources |-> SerializeComputeResource(d.resources[i])],
   MemorySpaces |-> [i \in DOMAIN d.spaces |-> SerializeMemorySpace(d.spaces[i])]] @@ d.own

Serialize(topology) == [Devices |-> [i \in DOMAIN topology |-> SerializeDevice(topology[i])]]

\* The base classes read the type, and the size of a memory space: what the
\* backend's class had written is not read.
DeserializeComputeResource(json) == [type |-> json.Type, own |-> <<>>]
DeserializeMemorySpace(json) == [type |-> json.Type, size |-> json.Size, own |-> <<>>]

DeserializeDevice(json, own) ==
  [type |-> json.Type, own |-> own,
   resources |-> [i \in DOMAIN json.ComputeResources |-> DeserializeComputeResource(json.ComputeResources[i])],
   spaces |-> [i \in DOMAIN json.MemorySpaces |-> DeserializeMemorySpace(json.MemorySpaces[i])]]

DeserializeHwlocDevice(json) == DeserializeDevice(json, [NUMADomainId |-> json.NUMADomainId])
DeserializeAclDevice(json) == DeserializeDevice(json, [DeviceIdentifier |-> json.DeviceIdentifier])

Recognized(json, type) == SelectSeq(json.Devices, LAMBDA d : d.Type = type)

DeserializeHwlocTopology(json) ==
  LET devices == Recognized(json, "NUMA Domain") IN [i \in DOMAIN devices |-> DeserializeHwlocDevice(devices[i])]

DeserializeAclTopology(json) ==
  LET devices == Recognized(json, "Huawei Device") IN [i \in DOMAIN devices |-> DeserializeAclDevice(devices[i])]

\* Both managers read the document, one after the other.
DeserializeTopology(json) == DeserializeHwlocTopology(json) \o DeserializeAclTopology(json)

\* What is checked on the way; an exception is thrown otherwise.
verify(json) == "Devices" \in DOMAIN json /\ \A d \in ToSet(json.Devices) : "Type" \in DOMAIN d

HasResources(device) ==
  /\ {"ComputeResources", "MemorySpaces"} \subseteq DOMAIN device
  /\ \A c \in ToSet(device.ComputeResources) : "Type" \in DOMAIN c
  /\ \A m \in ToSet(device.MemorySpaces) : {"Type", "Size"} \subseteq DOMAIN m

ReadableHwlocDevice(device) == HasResources(device) /\ "NUMADomainId" \in DOMAIN device

ReadableAclDevice(device) ==
  /\ HasResources(device)
  /\ "DeviceIdentifier" \in DOMAIN device
  /\ \A c \in ToSet(device.ComputeResources) : c.Type = "Huawei Processor"
  /\ \A m \in ToSet(device.MemorySpaces) : m.Type = "Huawei Device RAM"

WellFormed(json) ==
  /\ verify(json)
  /\ \A d \in ToSet(Recognized(json, "NUMA Domain")) : ReadableHwlocDevice(d)
  /\ \A d \in ToSet(Recognized(json, "Huawei Device")) : ReadableAclDevice(d)

\* What is printed of a topology: the type of each device, the number of its
\* compute resources with the type of the first, and its memory spaces.  (A NUMA
\* domain without processing units has no first one, and machines with such a
\* domain are left out.)
Summary(topology) ==
  [i \in DOMAIN topology |->
    LET d == topology[i] IN
    [type |-> d.type, count |-> Len(d.resources), first |-> d.resources[1].type,
     spaces |-> [j \in DOMAIN d.spaces |-> <<d.spaces[j].type, d.spaces[j].size>>]]]

-----------------------------------------------------------------------------
(* The subset test                                                          *)

\* Every wanted element takes the first one left that suits it: suited[k] are
\* the indices of those that suit the k-th.
FirstFit(suited) ==
  LET Take(so, I) ==
        LET left == I \ so.taken IN
        IF ~so.ok \/ left = {} THEN [so EXCEPT !.ok = FALSE] ELSE [so EXCEPT !.taken = @ \cup {Min(left)}]
  IN FoldLeft(Take, [ok |-> TRUE, taken |-> {}], suited).ok

SameType(r1, r2) == r1.type = r2.type
LargeEnough(m1, m2) == m1.type = m2.type /\ m1.size >= m2.size

Compatible(d1, d2) ==
  /\ d1.type = d2.type
  /\ FirstFit([k \in DOMAIN d2.resources |->
                  {i \in DOMAIN d1.resources : SameType(d1.resources[i], d2.resources[k])}])
  /\ FirstFit([k \in DOMAIN d2.spaces |->
                  {i \in DOMAIN d1.spaces : LargeEnough(d1.spaces[i], d2.spaces[k])}])

isSubset(topology1, topology2) ==
  FirstFit([k \in DOMAIN topology2 |->
              {i \in DOMAIN topology1 : Compatible(topology1[i], topology2[k])}])

\* Small topologies: one kind of device, with up to two memory spaces of size 1
\* or 2 and one compute resource for each.
SmallTopologies ==
  LET Space(n) == [type |-> "RAM", size |-> n, own |-> <<>>]
      Device(sizes) == [type |-> "NUMA Domain", own |-> <<>>,
                        resources |-> [i \in DOMAIN sizes |-> [type |-> "Processing Unit", own |-> <<>>]],
                        spaces |-> [i \in DOMAIN sizes |-> Space(sizes[i])]]
      Devices == {Device(s) : s \in {<<1>>, <<2>>, <<1, 2>>, <<2, 1>>}}
  IN {<<>>} \cup {<<d>> : d \in Devices} \cup {<<d, e>> : d, e \in Devices}

\* The reference: distinct elements of have can be given to those of want.
Provides(have, want, Suits(_, _)) ==
  \E f \in [DOMAIN want -> DOMAIN have] :
    /\ \A i, j \in DOMAIN want : f[i] = f[j] => i = j
    /\ \A i \in DOMAIN want : Suits(have[f[i]], want[i])

ContainsDevice(d1, d2) ==
  /\ d1.type = d2.type
  /\ Provides(d1.resources, d2.resources, SameType)
  /\ Provides(d1.spaces, d2.spaces, LargeEnough)

ContainsTopology(topology1, topology2) == Provides(topology1, topology2, ContainsDevice)

\* isSubset accepts only topologies that are contained, and a topology is a
\* subset of itself.  (It does not accept all that are contained: a small
\* request that comes first may take the only large memory.)
ASSUME SubsetIsContained ==
  /\ \A t, u \in SmallTopologies : isSubset(t, u) => ContainsTopology(t, u)
  /\ \A t \in SmallTopologies : isSubset(t, t)
=============================================================================
