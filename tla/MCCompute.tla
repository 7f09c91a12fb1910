------------------------------- MODULE MCCompute -------------------------------
(* The programs on one device of each kind, and two NUMA domains.             *)
EXTENDS Compute, ComputePrograms

MCLaunches ==
  {KernelPthreads, KernelNosv, KernelAcl, KernelOpencl, NeuralNetworkPthreads, NeuralNetworkAcl,
   NeuralNetworkOpencl, TelephonePthreads(2), TelephoneAcl(1), TelephoneOpencl(1),
   SuspendAndResume}

\* The programs use their units and slots as the theorem about them requires.
ASSUME ProgramsWellUsed == \A launch \in MCLaunches : WellUsed(launch)

MCSuspending == {SuspendAndResume}
=============================================================================
