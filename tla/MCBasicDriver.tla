--------------------------- MODULE MCBasicDriver ---------------------------
(* Instances of BasicDriver for TLC. *)
EXTENDS BasicDriverInv

\* Every application thread enqueues on every queue.
AllOwners == [q \in Queues |-> Hosts]

\* What the application sets its user events to.
Success == {COMPLETE}
Either  == {COMPLETE, FAILED}
=============================================================================
