-------------------------- MODULE PthreadSchedulerInv --------------------------
(***************************************************************************)
(* The inductive invariant behind KernelsAlive and ImplementsPool.  It     *)
(* holds when the work-groups of a kernel can be counted in an unsigned.   *)
(***************************************************************************)
EXTENDS PthreadScheduler

SmallKernels == MaxGroups < UINT

InKernel(t)  == pc[t] \in {"deal", "unlink", "groups", "leave", "finalize"}
InCommand(t) == pc[t] \in {"command", "execute", "push"}

\* A thread has a kernel or a command exactly where the code uses it.
Roles ==
  /\ \A t \in Thread : InKernel(t)  <=> run_cmd[t] # None
  /\ \A t \in Thread : InCommand(t) <=> cmd[t] # None
  /\ ~up => \A t \in Thread : pc[t] = "exited"

\* A command is in one place, and its state says in which.
Numbered == \A c \in Command : c > pushed <=> state[c] = "new"
Undealt  == \A c \in Command : state[c] \in {"new", "queued"} => wgs_dealt[c] = 0
Queued   == \A c \in work_queue : state[c] = "queued"
Taken    == \A t \in Thread : pc[t] = "command" => state[cmd[t]] = "queued" /\ cmd[t] \notin work_queue
Executing == \A t \in Thread : pc[t] = "execute" => state[cmd[t]] = "running" /\ groups[cmd[t]] = 0
Pushing ==
  \A t \in Thread : pc[t] = "push" =>
    /\ state[cmd[t]] = "running" /\ groups[cmd[t]] > 0 /\ remaining_wgs[cmd[t]] > 0
    /\ cmd[t] \notin kernel_queue
    /\ \A u \in Thread : run_cmd[u] # cmd[t]
OwnCommand    == \A t, u \in Thread : cmd[t] # None /\ cmd[t] = cmd[u] => t = u
QueuedKernels == \A k \in kernel_queue : state[k] = "running" /\ groups[k] > 0
RunKernels ==
  \A t \in Thread : run_cmd[t] # None => state[run_cmd[t]] = "running" /\ groups[run_cmd[t]] > 0
Places == /\ Numbered /\ Undealt /\ Queued /\ Taken /\ Executing /\ Pushing
          /\ OwnCommand /\ QueuedKernels /\ RunKernels

\* The reference count of a kernel is the number of threads that will come back
\* to count it down.
Users(k) == {t \in Thread : run_cmd[t] = k /\ pc[t] # "finalize"}
Counted == \A k \in Command : ref_count[k] = Cardinality(Users(k))

\* A kernel stays in the queue until one thread, dealt its last work-groups,
\* removes it; the last thread to leave it finds it removed.
LinkedWhileLeft ==
  \A t \in Thread : run_cmd[t] # None /\ remaining_wgs[run_cmd[t]] > 0 => run_cmd[t] \in kernel_queue
OneUnlinks ==
  \A t \in Thread : pc[t] = "unlink" =>
    /\ remaining_wgs[run_cmd[t]] = 0 /\ run_cmd[t] \in kernel_queue
    /\ \A u \in Thread : pc[u] = "unlink" /\ run_cmd[u] = run_cmd[t] => u = t
SomeUnlinks ==
  \A k \in kernel_queue : remaining_wgs[k] = 0 => \E t \in Thread : pc[t] = "unlink" /\ run_cmd[t] = k
LeftDealt == \A t \in Thread : pc[t] \in {"leave", "finalize"} => remaining_wgs[run_cmd[t]] = 0
OneFinalizes ==
  \A t \in Thread : pc[t] = "finalize" =>
    run_cmd[t] \notin kernel_queue /\ \A u \in Thread : run_cmd[u] = run_cmd[t] => u = t
Linked == LinkedWhileLeft /\ OneUnlinks /\ SomeUnlinks /\ LeftDealt /\ OneFinalizes

\* Work-groups are dealt from the first to the last, each to one thread; the
\* ones dealt have been executed, except those that a thread still holds.
Holds(t) == pc[t] \in {"unlink", "groups"}
Held(k, g) == \E t \in Thread : Holds(t) /\ run_cmd[t] = k /\ g \in Dealt(t)
Balanced == \A k \in Command : state[k] = "running" => remaining_wgs[k] + wgs_dealt[k] = groups[k]
HeldDealt ==
  \A t \in Thread : Holds(t) =>
    start_index[t] <= end_index[t] /\ end_index[t] < wgs_dealt[run_cmd[t]]
Disjoint ==
  \A t, u \in Thread : Holds(t) /\ Holds(u) /\ run_cmd[t] = run_cmd[u] /\ t # u =>
    end_index[t] < start_index[u] \/ end_index[u] < start_index[t]
Dealing == Balanced /\ HeldDealt /\ Disjoint
Executed ==
  \A k \in Command, g \in Group :
    times[k][g] = IF g < wgs_dealt[k] /\ ~Held(k, g) THEN 1 ELSE 0

\* The inductive invariant: who holds what, and which work-groups are done
\* (get_wg_index_range, work_group_scheduler and pthread_scheduler_get_work).
IInv == TypeOK /\ Roles /\ Places /\ Counted /\ Linked /\ Dealing /\ Executed
=============================================================================
