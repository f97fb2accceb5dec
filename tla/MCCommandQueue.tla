--------------------------- MODULE MCCommandQueue ---------------------------
(* Instances of CommandQueue for TLC. *)
EXTENDS CommandQueueInv, TLC

\* Every application thread enqueues on every queue.
AllOwners == [q \in Queues |-> Hosts]

\* Each application thread has a queue of its own.
OwnQueues == CHOOSE f \in [Queues -> {{h} : h \in Hosts}] :
               \A q, r \in Queues : f[q] = f[r] => q = r

\* The application threads that never block enqueue.
FreeOwners == [q \in Queues |-> Hosts \ Blocking]

\* What the application sets its user events to.
Success == {COMPLETE}
Either  == {COMPLETE, FAILED}

ThreadSymmetry == Permutations(Drivers) \cup Permutations(Hosts)
DriverSymmetry == Permutations(Drivers)
=============================================================================
