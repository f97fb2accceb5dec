------------------------------ MODULE TaskGraph ------------------------------
(***************************************************************************)
(* What the event layer of the pocl runtime promises the application: a    *)
(* graph of tasks in which a task starts once everything it needs is done, *)
(* and fails only because something it needs has failed.  CommandQueue     *)
(* implements it.                                                          *)
(***************************************************************************)
CONSTANT Task

VARIABLES
  state,  \* the progress of each task
  needs   \* what each task waits for

gvars == <<state, needs>>

\* "open" is a task the application itself completes, a user event.
TaskState == {"none", "open", "waiting", "started", "done", "failed"}

Init ==
  /\ state = [t \in Task |-> "none"]
  /\ needs = [t \in Task |-> {}]

Become(t, s) == state' = [state EXCEPT ![t] = s]

Known == {t \in Task : state[t] # "none"}

Open(t) == state[t] = "none" /\ Become(t, "open") /\ UNCHANGED needs

Resolve(t) ==
  /\ state[t] = "open"
  /\ Become(t, "done") \/ Become(t, "failed")
  /\ UNCHANGED needs

Create(t) ==
  /\ state[t] = "none" /\ Become(t, "waiting")
  /\ \E S \in SUBSET Known : needs' = [needs EXCEPT ![t] = S]

\* A task that has not started may be told to wait for more.
Require(t) ==
  /\ state[t] = "waiting" /\ UNCHANGED state
  /\ \E S \in SUBSET Known : needs' = [needs EXCEPT ![t] = @ \cup S]

Start(t) ==
  /\ state[t] = "waiting" /\ \A d \in needs[t] : state[d] = "done"
  /\ Become(t, "started") /\ UNCHANGED needs

Done(t) == state[t] = "started" /\ Become(t, "done") /\ UNCHANGED needs

Fail(t) ==
  /\ state[t] = "waiting" /\ \E d \in needs[t] : state[d] = "failed"
  /\ Become(t, "failed") /\ UNCHANGED needs

Next == \E t \in Task :
  Open(t) \/ Resolve(t) \/ Create(t) \/ Require(t) \/ Start(t) \/ Done(t) \/ Fail(t)

Spec == Init /\ [][Next]_gvars

\* A task that can make progress does.
Progress == \A t \in Task : WF_gvars(Start(t)) /\ WF_gvars(Done(t)) /\ WF_gvars(Fail(t))

FairSpec == Spec /\ Progress
==============================================================================
