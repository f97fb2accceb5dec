------------------------------- MODULE WorkPool -------------------------------
(***************************************************************************)
(* What a device with worker threads promises: commands are started, the   *)
(* work-groups of a kernel are executed in pieces, each work-group once,   *)
(* and a command completes when all of them have been.  PthreadScheduler   *)
(* implements it.                                                          *)
(***************************************************************************)
EXTENDS Integers

CONSTANTS
  Command,
  Group,       \* the numbers of work-groups
  GroupCounts  \* how many work-groups a command can have; 0: not a kernel

VARIABLES
  state,   \* the progress of each command
  groups,  \* its number of work-groups
  times    \* how often each of its work-groups was executed

pvars == <<state, groups, times>>

Init ==
  /\ state  = [c \in Command |-> "new"]
  /\ groups = [c \in Command |-> 0]
  /\ times  = [c \in Command |-> [g \in Group |-> 0]]

Become(c, s) == state' = [state EXCEPT ![c] = s]

Push(c) ==
  /\ state[c] = "new" /\ Become(c, "queued") /\ UNCHANGED times
  /\ \E n \in GroupCounts : groups' = [groups EXCEPT ![c] = n]

Start(c) == state[c] = "queued" /\ Become(c, "running") /\ UNCHANGED <<groups, times>>

\* The work-groups of the kernel that were never executed.
Left(c) == {g \in Group : g < groups[c] /\ times[c][g] = 0}

Execute(c) ==
  /\ state[c] = "running" /\ UNCHANGED <<state, groups>>
  /\ \E S \in SUBSET Left(c) :
       times' = [times EXCEPT ![c] = [g \in Group |-> IF g \in S THEN 1 ELSE @[g]]]

Complete(c) ==
  /\ state[c] = "running" /\ Left(c) = {}
  /\ Become(c, "done") /\ UNCHANGED <<groups, times>>

Next == \E c \in Command : Push(c) \/ Start(c) \/ Execute(c) \/ Complete(c)

Spec == Init /\ [][Next]_pvars
===============================================================================
