------------------------- MODULE MCPthreadScheduler -------------------------
(* Instances of PthreadScheduler for TLC. *)
EXTENDS PthreadSchedulerInv

\* A device of all threads and two sub-devices, of the first thread and of the
\* others.
Start == [d \in Devices |-> IF d = "second" THEN 1 ELSE 0]
Count == [d \in Devices |-> IF d = "first" THEN 1 ELSE NumThreads - 1]
=============================================================================
