---------------------------- MODULE ComputePrograms ----------------------------
(***************************************************************************)
(* The programs that use processing units and device memory: the kernel      *)
(* examples, the neural network, the telephone game, and a unit that is      *)
(* suspended and resumed.                                                    *)
(* A matrix is the term that says how it came about.                         *)
(***************************************************************************)
EXTENDS Integers, Sequences, SequencesExt

Allocate(s) == [op |-> "allocate", slot |-> s]
Register(s, v) == [op |-> "register", slot |-> s, value |-> v]
Deregister(s) == [op |-> "deregister", slot |-> s]
Free(s) == [op |-> "free", slot |-> s]
Populate(s, v) == [op |-> "write", slot |-> s, value |-> v]
MemsetZero(s) == [op |-> "memset", slot |-> s]
CopySlot(d, s) == [op |-> "memcpy", slot |-> d, from |-> s]
PrintMatrix(s, v) == [op |-> "show", slot |-> s, value |-> v]
Do(what) == [op |-> what]
StartUnit(kernels) == [op |-> "start", kernels |-> kernels]

ForEach(S(_), names) == [i \in DOMAIN names |-> S(names[i])]

MemoryKernel(d, s) == [op |-> "copy", out |-> d, args |-> <<s>>]
ComputationKernel(fn, out, args) == [op |-> "compute", fn |-> fn, out |-> out, args |-> args]

\* kernel.hpp: one unit, used once.
ExecuteKernel(kernels) ==
  <<Do("create"), Do("initialize"), StartUnit(kernels), Do("terminate"), Do("await"), Do("destroy")>>

Inputs == <<"input1", "input2", "input3">>
AlphaBeta == <<"alpha", "beta">>
OnHost(name) == name \o "Host"
OnUnit(name) == name \o "Device"
HostSlots(names) == ForEach(OnHost, names)
DeviceSlots(names) == ForEach(OnUnit, names)
PopulateHost(name) == Populate(OnHost(name), <<name>>)
PrintHost(name) == PrintMatrix(OnHost(name), <<name>>)
GemmOf(names) == <<"gemm">> \o names
CopyToDevice(name) == MemoryKernel(OnUnit(name), OnHost(name))
AllocateBoth(name) == <<Allocate(OnHost(name)), Allocate(OnUnit(name))>>
FreeBoth(name) == <<Free(OnHost(name)), Free(OnUnit(name))>>
FlatForEach(S(_), names) == FlattenSeq(ForEach(S, names))

\* The host kernels multiply into the third matrix.
KernelHost ==
  LET all == Inputs \o AlphaBeta IN
  ForEach(Allocate, HostSlots(all) \o <<"outputHost">>) \o ForEach(PopulateHost, all) \o ForEach(PrintHost, Inputs)
  \o ExecuteKernel(<<ComputationKernel("gemm", "input3Host", HostSlots(all))>>)
  \o <<PrintMatrix("input3Host", GemmOf(all))>>
  \o ForEach(Free, HostSlots(all) \o <<"outputHost">>)

KernelPthreads == [backend |-> "pthreads", script |-> KernelHost]
KernelNosv == [backend |-> "nosv", script |-> KernelHost]

\* Two streams: the second one finds three of its inputs on the device.
KernelAcl ==
  LET all == Inputs \o AlphaBeta
      gemm == ComputationKernel("gemm", "outputDevice", DeviceSlots(all))
      back == MemoryKernel("outputHost", "outputDevice") IN
  [backend |-> "acl", script |->
     FlatForEach(AllocateBoth, all \o <<"output">>) \o ForEach(PopulateHost, all) \o ForEach(PrintHost, Inputs)
     \o ExecuteKernel(ForEach(CopyToDevice, all) \o <<gemm, back>>)
     \o <<PrintMatrix("outputHost", GemmOf(all)), Populate("outputHost", <<"zero">>)>>
     \o ExecuteKernel(ForEach(CopyToDevice, <<"input1", "input2">>) \o <<gemm, back>>)
     \o <<PrintMatrix("outputHost", GemmOf(all))>>
     \o FlatForEach(FreeBoth, all \o <<"output">>)]

\* The kernel multiplies into the third matrix; KHost and CDevice stay allocated.
KernelOpencl ==
  LET dims == <<"M", "N", "K">>
      all == dims \o Inputs IN
  [backend |-> "opencl", script |->
     FlatForEach(AllocateBoth, Inputs \o dims) \o <<Allocate("outputHost")>>
     \o ForEach(PopulateHost, Inputs \o dims) \o ForEach(PrintHost, Inputs)
     \o ExecuteKernel(ForEach(CopyToDevice, Inputs \o dims)
                      \o <<ComputationKernel("gemm", "input3Device", DeviceSlots(all)),
                           MemoryKernel("outputHost", "input3Device")>>)
     \o <<PrintMatrix("outputHost", GemmOf(all))>>
     \o FlatForEach(FreeBoth, Inputs \o <<"M", "N">>) \o <<Free("outputHost")>>]

-----------------------------------------------------------------------------
(* The neural network                                                       *)

Tensors ==
  <<"fc1Weight", "fc1Bias", "fc2LeftWeight", "fc2LeftBias", "fc2Left2Weight", "fc2Left2Bias",
    "fc2RightWeight", "fc2RightBias", "fc3Weight", "fc3Bias">>

LoadTensor(name) ==
  <<Register("raw", <<name>>), Allocate(name), CopySlot(name, "raw"), Deregister("raw")>>

LoadPreTrainedData == FlatForEach(LoadTensor, Tensors)

LoadImage(image) ==
  <<Allocate("file"), Populate("file", <<image>>), Allocate("image"), CopySlot("image", "file"), Free("file")>>

\* The network keeps one unit, and initializes it for every operation.
ExecuteOperation(kernel) == <<Do("initialize"), StartUnit(<<kernel>>), Do("terminate"), Do("await")>>

GemmPthreads(a, b, c) == ExecuteOperation(ComputationKernel("gemm", c, <<a, b, c>>))
GemmOpencl(a, b, c) == ExecuteOperation(ComputationKernel("gemm", c, <<a, b, c>>))

\* ACL takes the scalars from device memory, which is not freed.
GemmAcl(a, b, c) ==
  <<Register("alphaHost", <<"alpha">>), Register("betaHost", <<"beta">>),
    Allocate("alphaDevice"), Allocate("betaDevice"),
    CopySlot("alphaDevice", "alphaHost"), CopySlot("betaDevice", "betaHost"),
    Deregister("alphaHost"), Deregister("betaHost")>>
  \o ExecuteOperation(ComputationKernel("gemm", c, <<a, b, c, "alphaDevice", "betaDevice">>))

Relu(t) == ExecuteOperation(ComputationKernel("relu", t, <<t>>))
VectorAdd(a, b) == ExecuteOperation(ComputationKernel("add", a, <<a, b>>))

Clone(s, other) == <<Allocate(s), CopySlot(s, other)>>

\* Every operation overwrites a tensor of the network: a product its bias.
Forward(backend) ==
  LET Gemm(a, b, c) == CASE backend = "pthreads" -> GemmPthreads(a, b, c)
                         [] backend = "acl" -> GemmAcl(a, b, c)
                         [] backend = "opencl" -> GemmOpencl(a, b, c) IN
  Gemm("image", "fc1Weight", "fc1Bias") \o Relu("fc1Bias")
  \o Clone("rightClone", "fc1Bias") \o Clone("leftClone", "fc1Bias")
  \o Gemm("leftClone", "fc2LeftWeight", "fc2LeftBias") \o <<Free("leftClone")>> \o Relu("fc2LeftBias")
  \o Gemm("fc2LeftBias", "fc2Left2Weight", "fc2Left2Bias") \o Relu("fc2Left2Bias")
  \o Gemm("rightClone", "fc2RightWeight", "fc2RightBias") \o <<Free("rightClone")>> \o Relu("fc2RightBias")
  \o VectorAdd("fc2Left2Bias", "fc2RightBias")
  \o Gemm("fc2Left2Bias", "fc3Weight", "fc3Bias")

DestroyNetwork == ForEach(Free, Tensors)

\* What the network should compute for an image; scalars are ACL's two more arguments.
Prediction(image, scalars) ==
  LET Product(x, weight, bias) == <<"gemm">> \o x \o <<weight, bias>> \o scalars
      Positive(x) == <<"relu">> \o x
      hidden == Positive(Product(<<image>>, "fc1Weight", "fc1Bias"))
      left == Positive(Product(Positive(Product(hidden, "fc2LeftWeight", "fc2LeftBias")),
                               "fc2Left2Weight", "fc2Left2Bias"))
      right == Positive(Product(hidden, "fc2RightWeight", "fc2RightBias"))
  IN Product(<<"add">> \o left \o right, "fc3Weight", "fc3Bias")

Images == <<"image0", "image1">>

\* The host reads the network's own output ...
NeuralNetworkPthreads ==
  LET Analyze(image) ==
        LoadPreTrainedData \o LoadImage(image) \o Forward("pthreads")
        \o <<PrintMatrix("fc3Bias", Prediction(image, <<>>)), Free("image")>> \o DestroyNetwork
  IN [backend |-> "pthreads", script |-> <<Do("create")>> \o FlatForEach(Analyze, Images) \o <<Do("destroy")>>]

\* ... a copy of it ...
NeuralNetworkAcl ==
  LET Analyze(image) ==
        LoadPreTrainedData \o LoadImage(image) \o Forward("acl") \o Clone("hostOutput", "fc3Bias")
        \o <<PrintMatrix("hostOutput", Prediction(image, AlphaBeta)), Free("hostOutput"), Free("image")>>
        \o DestroyNetwork
  IN [backend |-> "acl", script |-> <<Do("create")>> \o FlatForEach(Analyze, Images) \o <<Do("destroy")>>]

\* ... or both, the output through the pointer it is mapped to.
NeuralNetworkOpencl ==
  LET Analyze(image) ==
        LoadPreTrainedData \o LoadImage(image) \o Forward("opencl") \o Clone("hostOutput", "fc3Bias")
        \o <<PrintMatrix("fc3Bias", Prediction(image, <<>>)), PrintMatrix("hostOutput", Prediction(image, <<>>)),
              Free("hostOutput"), Free("image")>>
        \o DestroyNetwork
  IN [backend |-> "opencl", script |-> <<Do("create")>> \o FlatForEach(Analyze, Images) \o <<Do("destroy")>>]

-----------------------------------------------------------------------------
ITERATIONS == 3

\* The slots the message goes through, in order: ITERATIONS for each memory space.
TelephoneGame(spaces) ==
  LET n == ITERATIONS * spaces
      Hop(i) == <<MemsetZero(i), CopySlot(i, i - 1)>> IN
  ForEach(Allocate, [i \in 1 .. n |-> i]) \o FlatForEach(Hop, [i \in 1 .. n |-> i])
  \o <<PrintMatrix(0, <<"hello">>), PrintMatrix(n, <<"hello">>)>> \o ForEach(Free, [i \in 1 .. n |-> i])

TelephoneMain(spaces) ==
  <<Allocate(0), Populate(0, <<"hello">>)>> \o TelephoneGame(spaces) \o <<Free(0)>>

\* n NUMA domains, or the host, n device memories, and the host again.
TelephonePthreads(n) == [backend |-> "pthreads", script |-> TelephoneMain(n)]
TelephoneAcl(n) == [backend |-> "acl", script |-> TelephoneMain(n + 2)]
TelephoneOpencl(n) == [backend |-> "opencl", script |-> TelephoneMain(n + 2)]

\* The calls of a client that suspends a unit: the function it runs waits for a
\* flag that is set while the unit is suspended.
SuspendAndResume ==
  LET spin == [op |-> "wait", out |-> 0, args |-> <<>>] IN
  [backend |-> "pthreads", script |->
     <<Do("create"), Do("initialize"), StartUnit(<<spin>>), Do("suspend"), Do("flag"), Do("resume"), Do("terminate"),
       Do("await"), Do("destroy")>>]
=============================================================================
