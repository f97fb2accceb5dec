--------------------------- MODULE PthreadScheduler ---------------------------
(***************************************************************************)
(* The thread pool of the pthread driver (devices/pthread/                 *)
(* pthread_scheduler.c): worker threads take commands from a work queue,   *)
(* turn kernels into entries of a kernel queue, share the work-groups of a *)
(* kernel among them, and sleep when nothing is left for their device.     *)
(*                                                                         *)
(* A step is what a thread does under one hold of the scheduler's lock     *)
(* wq_lock_fast or of a kernel's lock, or between two of them.  Commands   *)
(* are numbered in the order they are pushed, so that the order of         *)
(* work_queue is their order; that of kernel_queue is left open.  Kernel   *)
(* arguments, local memory, printf and floating-point modes are left out.  *)
(*                                                                         *)
(* A definition X preceded by X<Suffix> with the same parameters is the    *)
(* code; the other is a mistake the code could have made, which a property *)
(* has to notice.                                                          *)
(***************************************************************************)
EXTENDS Integers, FiniteSets

CONSTANTS
  NumThreads,   \* scheduler.num_threads
  Devices,      \* the device and its sub-devices
  SubDevices,   \* those with a parent_device
  core_start, core_count,
  MaxCommands,  \* bound on the commands pushed
  MaxGroups,    \* bound on the work-groups of a kernel
  GroupCounts,  \* how many work-groups a command can have; 0: not a kernel
  MaxWGs,       \* POCL_PTHREAD_MAX_WGS
  MinWGs,       \* POCL_PTHREAD_MIN_WGS
  UINT,         \* the values of an unsigned are 0..UINT-1
  Drained,      \* the devices are shut down only when no command is unfinished
  None          \* no command

Thread  == 0..(NumThreads - 1)
Command == 1..MaxCommands
Group   == 0..(MaxGroups - 1)

ASSUME ConstantsAssumption ==
  /\ NumThreads \in Nat \ {0} /\ MaxCommands \in Nat /\ MaxGroups \in Nat
  /\ MaxWGs \in Nat \ {0} /\ MinWGs \in Nat \ {0}
  /\ UINT \in Nat /\ MaxWGs * NumThreads * NumThreads < UINT /\ MinWGs * NumThreads < UINT
  /\ GroupCounts \subseteq 0..MaxGroups
  /\ SubDevices \subseteq Devices
  /\ core_start \in [Devices -> Nat] /\ core_count \in [Devices -> Nat]
  /\ Drained \in BOOLEAN
  /\ None \notin Command

VARIABLES
  pushed,        \* the number of commands pushed so far
  device,        \* cmd->device
  groups,        \* num_groups of the kernel, 0 for any other command
  state,         \* the progress of a command's event
  times,         \* history: how often each work-group was executed
  work_queue,    \* commands waiting to be started
  kernel_queue,  \* kernels whose work-groups are being dealt
  remaining_wgs, wgs_dealt, ref_count,  \* of a kernel_run_command
  pc,            \* where a thread is
  run_cmd,       \* the kernel a thread works on
  cmd,           \* the command it took
  start_index, end_index,  \* the work-groups it was dealt
  do_exit,       \* its copy of the shutdown flag
  shutdown,      \* scheduler.thread_pool_shutdown_requested
  up             \* the pool exists

cmdVars    == <<pushed, device, groups>>
kernelVars == <<remaining_wgs, wgs_dealt, ref_count>>
queueVars  == <<work_queue, kernel_queue>>
localVars  == <<run_cmd, cmd, start_index, end_index, do_exit>>
poolVars   == <<shutdown, up>>
vars == <<cmdVars, state, times, queueVars, kernelVars, pc, localVars, poolVars>>

-----------------------------------------------------------------------------
(* Helpers *)

shall_we_run_this_inclusive(t, d) ==
  d \in SubDevices => t >= core_start[d] /\ t <= core_start[d] + core_count[d]
shall_we_run_this(t, d) ==
  d \in SubDevices => t >= core_start[d] /\ t < core_start[d] + core_count[d]

\* check_cmd_queue_for_device: the first command of the queue for thread t.
MineHead(t, c) ==
  /\ c \in work_queue /\ \A x \in work_queue : c <= x
  /\ shall_we_run_this(t, device[c])
Mine(t, c) ==
  /\ c \in work_queue /\ shall_we_run_this(t, device[c])
  /\ \A x \in work_queue : shall_we_run_this(t, device[x]) => c <= x

\* check_kernel_queue_for_device
MyKernels(t) == {k \in kernel_queue : shall_we_run_this(t, device[k])}

\* pthread_cond_broadcast on wake_pool: every sleeping thread tries again.
WokenOne(t) == pc[t] = "sleep" /\ \A u \in Thread : pc[u] = "sleep" => t <= u
Woken(t) == pc[t] = "sleep"
PcWoken == [t \in Thread |-> IF Woken(t) THEN "start" ELSE pc[t]]

Smaller(m, n) == IF m <= n THEN m ELSE n

\* get_wg_index_range: how many of r remaining work-groups a thread is dealt.
ChunkFixed(r) == MinWGs * NumThreads
Chunk(r) ==
  LET most  == MaxWGs * NumThreads
      limit == IF r <= most * NumThreads THEN MinWGs * NumThreads ELSE most
      wgs_per_thread == (1 + (r - 1) \div NumThreads) % UINT
  IN  Smaller(Smaller(limit, wgs_per_thread), r)

Goto(t, l) == pc' = [pc EXCEPT ![t] = l]

-----------------------------------------------------------------------------
Init ==
  /\ pushed = 0
  /\ device = [c \in Command |-> None]
  /\ groups = [c \in Command |-> 0]
  /\ state  = [c \in Command |-> "new"]
  /\ times  = [c \in Command |-> [g \in Group |-> 0]]
  /\ work_queue = {} /\ kernel_queue = {}
  /\ remaining_wgs = [c \in Command |-> 0]
  /\ wgs_dealt     = [c \in Command |-> 0]
  /\ ref_count     = [c \in Command |-> 0]
  /\ pc      = [t \in Thread |-> "start"]
  /\ run_cmd = [t \in Thread |-> None]
  /\ cmd     = [t \in Thread |-> None]
  /\ start_index = [t \in Thread |-> 0]
  /\ end_index   = [t \in Thread |-> 0]
  /\ do_exit = [t \in Thread |-> FALSE]
  /\ shutdown = FALSE /\ up = TRUE

\* pthread_scheduler_push_command, by the thread that made the command ready.
PushCommand(d, n) ==
  LET c == pushed + 1 IN
  /\ pushed < MaxCommands
  /\ Drained => up /\ ~shutdown
  /\ pushed' = c
  /\ device' = [device EXCEPT ![c] = d]
  /\ groups' = [groups EXCEPT ![c] = n]
  /\ state'  = [state EXCEPT ![c] = "queued"]
  /\ work_queue' = work_queue \cup {c}
  /\ pc' = PcWoken
  /\ UNCHANGED <<times, kernel_queue, kernelVars, localVars, poolVars>>

-----------------------------------------------------------------------------
(* pthread_scheduler_get_work *)

\* The thread takes part in a kernel.
TakeKernel(t) ==
  /\ pc[t] = "start"
  /\ \E k \in MyKernels(t) :
       /\ run_cmd'   = [run_cmd EXCEPT ![t] = k]
       /\ ref_count' = [ref_count EXCEPT ![k] = @ + 1]
  /\ do_exit' = [do_exit EXCEPT ![t] = shutdown]
  /\ Goto(t, "deal")
  /\ UNCHANGED <<cmdVars, state, times, queueVars, remaining_wgs, wgs_dealt, cmd,
                 start_index, end_index, poolVars>>

\* It looks for a command; having found neither command nor kernel it sleeps,
\* unless it has seen the request to exit.
TakeCommand(t, exit, ran) ==
  \/ \E c \in work_queue :
       /\ Mine(t, c)
       /\ work_queue' = work_queue \ {c}
       /\ cmd' = [cmd EXCEPT ![t] = c]
       /\ Goto(t, "command")
  \/ /\ \A c \in work_queue : ~Mine(t, c)
     /\ Goto(t, IF exit THEN "exited" ELSE IF ran THEN "start" ELSE "sleep")
     /\ UNCHANGED <<work_queue, cmd>>

NoKernel(t) ==
  /\ pc[t] = "start" /\ MyKernels(t) = {}
  /\ do_exit' = [do_exit EXCEPT ![t] = shutdown]
  /\ TakeCommand(t, shutdown, FALSE)
  /\ UNCHANGED <<cmdVars, state, times, kernel_queue, kernelVars, run_cmd,
                 start_index, end_index, poolVars>>

\* work_group_scheduler: under the kernel's lock the thread is dealt the next
\* work-groups; the one that is dealt the last has to remove the kernel.
Deal(t) ==
  LET k == run_cmd[t] r == remaining_wgs[k] n == Chunk(r) IN
  /\ pc[t] = "deal"
  /\ IF r = 0
     THEN Goto(t, "leave") /\ UNCHANGED <<remaining_wgs, wgs_dealt, start_index, end_index>>
     ELSE /\ start_index'   = [start_index EXCEPT ![t] = wgs_dealt[k] % UINT]
          /\ end_index'     = [end_index EXCEPT ![t] = (wgs_dealt[k] + n - 1) % UINT]
          /\ remaining_wgs' = [remaining_wgs EXCEPT ![k] = @ - n]
          /\ wgs_dealt'     = [wgs_dealt EXCEPT ![k] = @ + n]
          /\ Goto(t, IF r = n THEN "unlink" ELSE "groups")
  /\ UNCHANGED <<cmdVars, state, times, queueVars, ref_count, run_cmd, cmd,
                 do_exit, poolVars>>

Unlink(t) ==
  /\ pc[t] = "unlink"
  /\ kernel_queue' = kernel_queue \ {run_cmd[t]}
  /\ Goto(t, "groups")
  /\ UNCHANGED <<cmdVars, state, times, work_queue, kernelVars, localVars, poolVars>>

DealtHalfOpen(t) == start_index[t]..(end_index[t] - 1)
Dealt(t) == start_index[t]..end_index[t]

RunGroups(t) ==
  /\ pc[t] = "groups"
  /\ times' = [times EXCEPT ![run_cmd[t]] =
                 [g \in Group |-> @[g] + IF g \in Dealt(t) THEN 1 ELSE 0]]
  /\ Goto(t, "deal")
  /\ UNCHANGED <<cmdVars, state, queueVars, kernelVars, localVars, poolVars>>

\* Back under the scheduler's lock: the last user of the kernel finalizes it.
LastUserEarly(k) == remaining_wgs[k] = 0
LastUser(k) == ref_count[k] = 1

Leave(t) ==
  LET k == run_cmd[t] IN
  /\ pc[t] = "leave"
  /\ ref_count' = [ref_count EXCEPT ![k] = @ - 1]
  /\ IF LastUser(k)
     THEN Goto(t, "finalize") /\ UNCHANGED <<work_queue, cmd, run_cmd>>
     ELSE TakeCommand(t, do_exit[t], TRUE) /\ run_cmd' = [run_cmd EXCEPT ![t] = None]
  /\ UNCHANGED <<cmdVars, state, times, kernel_queue, remaining_wgs, wgs_dealt,
                 start_index, end_index, do_exit, poolVars>>

\* finalize_kernel_command: the event completes and the kernel is freed.
Finalize(t) ==
  /\ pc[t] = "finalize"
  /\ state'   = [state EXCEPT ![run_cmd[t]] = "done"]
  /\ run_cmd' = [run_cmd EXCEPT ![t] = None]
  /\ Goto(t, "check")
  /\ UNCHANGED <<cmdVars, times, queueVars, kernelVars, cmd, start_index,
                 end_index, do_exit, poolVars>>

Check(t) ==
  /\ pc[t] = "check"
  /\ TakeCommand(t, do_exit[t], TRUE)
  /\ UNCHANGED <<cmdVars, state, times, kernel_queue, kernelVars, run_cmd,
                 start_index, end_index, do_exit, poolVars>>

\* pocl_pthread_prepare_kernel, or the beginning of pocl_exec_command.
StartCommand(t) ==
  LET c == cmd[t] IN
  /\ pc[t] = "command"
  /\ state' = [state EXCEPT ![c] = "running"]
  /\ remaining_wgs' = [remaining_wgs EXCEPT ![c] = groups[c]]
  /\ wgs_dealt'     = [wgs_dealt EXCEPT ![c] = 0]
  /\ ref_count'     = [ref_count EXCEPT ![c] = 0]
  /\ Goto(t, IF groups[c] = 0 THEN "execute" ELSE "push")
  /\ UNCHANGED <<cmdVars, times, queueVars, localVars, poolVars>>

AfterCommand(t) == IF do_exit[t] THEN "exited" ELSE "start"

\* pthread_scheduler_push_kernel, and the end of pthread_scheduler_get_work.
PushKernel(t) ==
  /\ pc[t] = "push"
  /\ kernel_queue' = kernel_queue \cup {cmd[t]}
  /\ cmd' = [cmd EXCEPT ![t] = None]
  /\ pc' = [PcWoken EXCEPT ![t] = AfterCommand(t)]
  /\ UNCHANGED <<cmdVars, state, times, work_queue, kernelVars, run_cmd,
                 start_index, end_index, do_exit, poolVars>>

\* The command has been executed by this thread alone.
ExecCommand(t) ==
  /\ pc[t] = "execute"
  /\ state' = [state EXCEPT ![cmd[t]] = "done"]
  /\ cmd' = [cmd EXCEPT ![t] = None]
  /\ Goto(t, AfterCommand(t))
  /\ UNCHANGED <<cmdVars, times, queueVars, kernelVars, run_cmd, start_index,
                 end_index, do_exit, poolVars>>

-----------------------------------------------------------------------------
(* pthread_scheduler_uninit and pthread_scheduler_init *)

RequestShutdown ==
  /\ up /\ ~shutdown
  /\ Drained => \A c \in Command : state[c] \in {"new", "done"}
  /\ shutdown' = TRUE
  /\ pc' = PcWoken
  /\ UNCHANGED <<cmdVars, state, times, queueVars, kernelVars, localVars, up>>

JoinThreads ==
  /\ shutdown /\ \A t \in Thread : pc[t] = "exited"
  /\ shutdown' = FALSE /\ up' = FALSE
  /\ UNCHANGED <<cmdVars, state, times, queueVars, kernelVars, pc, localVars>>

InitPool ==
  /\ ~up
  /\ up' = TRUE
  /\ pc' = [t \in Thread |-> "start"]
  /\ UNCHANGED <<cmdVars, state, times, queueVars, kernelVars, localVars, shutdown>>

-----------------------------------------------------------------------------
ThreadStep(t) ==
  \/ TakeKernel(t) \/ NoKernel(t) \/ Deal(t) \/ Unlink(t) \/ RunGroups(t)
  \/ Leave(t) \/ Finalize(t) \/ Check(t)
  \/ StartCommand(t) \/ PushKernel(t) \/ ExecCommand(t)

Next ==
  \/ \E d \in Devices, n \in GroupCounts : PushCommand(d, n)
  \/ \E t \in Thread : ThreadStep(t)
  \/ RequestShutdown \/ JoinThreads \/ InitPool

Spec == Init /\ [][Next]_vars

\* Threads keep running, and pthread_join returns once they have exited.
FairSpec == Spec /\ (\A t \in Thread : WF_vars(ThreadStep(t))) /\ WF_vars(JoinThreads)

-----------------------------------------------------------------------------
(* Properties *)

Kernels == {c \in Command : groups[c] > 0}

\* The values of the variables.
TypeOK ==
  /\ pushed \in 0..MaxCommands
  /\ device \in [Command -> Devices \cup {None}]
  /\ groups \in [Command -> 0..MaxGroups]
  /\ state  \in [Command -> {"new", "queued", "running", "done"}]
  /\ times  \in [Command -> [Group -> Nat]]
  /\ work_queue \in SUBSET Command /\ kernel_queue \in SUBSET Command
  /\ remaining_wgs \in [Command -> Nat]
  /\ wgs_dealt \in [Command -> Nat]
  /\ ref_count \in [Command -> Int]
  /\ pc \in [Thread -> {"start", "sleep", "deal", "unlink", "groups", "leave",
                        "finalize", "check", "command", "execute", "push", "exited"}]
  /\ run_cmd \in [Thread -> Command \cup {None}]
  /\ cmd \in [Thread -> Command \cup {None}]
  /\ start_index \in [Thread -> Nat] /\ end_index \in [Thread -> Nat]
  /\ do_exit \in [Thread -> BOOLEAN]
  /\ shutdown \in BOOLEAN /\ up \in BOOLEAN
  /\ \A t \in Thread : pc[t] \in {"deal", "unlink", "groups", "leave", "finalize"} =>
                         run_cmd[t] \in Command
  /\ \A t \in Thread : pc[t] \in {"command", "execute", "push"} => cmd[t] \in Command

\* A kernel_run_command is freed once nobody can reach it: a kernel in the
\* queue or in the hands of a thread is running, and only the thread that
\* finalizes it holds it then (the unlocked work of work_group_scheduler and
\* the removal from kernel_queue against the reference count of get_work).
KernelsAlive ==
  /\ \A k \in kernel_queue : state[k] = "running"
  /\ \A t \in Thread : pc[t] = "unlink" => run_cmd[t] \in kernel_queue
  /\ \A t \in Thread : run_cmd[t] # None => state[run_cmd[t]] = "running"
  /\ \A t \in Thread : pc[t] = "finalize" =>
       /\ run_cmd[t] \notin kernel_queue
       /\ \A u \in Thread : u # t => run_cmd[u] # run_cmd[t]

\* Commands of a sub-device are executed by its own threads only.
OwnCores ==
  \A t \in Thread : \A c \in {run_cmd[t], cmd[t]} \ {None} :
    device[c] \in SubDevices =>
      t \in core_start[device[c]]..(core_start[device[c]] + core_count[device[c]] - 1)

\* Every command pushed is finished: a sleeping thread is woken for commands of
\* its own although other threads skip them, and no kernel is left in the queue
\* (the comment before check_cmd_queue_for_device).
CommandsDone == \A c \in Command : state[c] = "queued" ~> state[c] = "done"

\* The pool goes down when asked to: no thread misses the request between its
\* look at the flag and its sleep.
PoolStops == shutdown ~> ~up

-----------------------------------------------------------------------------
(* Refinement *)

Pool == INSTANCE WorkPool

\* Each work-group of a kernel is executed once, and the kernel's event
\* completes after the last of them (get_wg_index_range, ref_count and
\* finalize_kernel_command as a whole).
ImplementsPool == Pool!Spec
===============================================================================
