# Verification of the pocl runtime

The repository holds OpenCL samples, the ICD loader and pocl, an
implementation of OpenCL. The part of it that is a concurrent program is the
host runtime of pocl (`src/pocl/lib/CL`) with its multi-threaded CPU device,
the pthread driver. This directory models that part in TLA+, checks the models
with TLC on small instances, and proves the most important results with TLAPS
for every value of the constants.

All paths below are relative to `src/pocl/lib/CL` unless they start with `src/`.

## 1. The system

Application threads call the OpenCL API. An enqueue call creates an *event*
and a *command*, synchronizes the event with the events it has to wait for,
puts it on the list of its queue and submits it to the device. Once a command
waits for nothing it goes to the scheduler of the pthread driver, whose worker
threads execute it. The thread that finishes a command completes its event,
*broadcasts* this to the events waiting for it, which may submit them in turn,
and releases the runtime's reference. The parts share the event, queue and
scheduler locks, and take them one after the other in many places.

| Component | State it keeps | Operations | What makes it hard | What makes it correct |
|---|---|---|---|---|
| Events and queues (`pocl_util.c`, `clReleaseEvent.c`, `clFinish.c`, ...) | status, references, `wait_list` and `notify_list` of each event; `events`, `last_event`, `barrier`, `command_count` of each queue | create, synchronize, enqueue, submit, start, finish, fail, wait, finish a queue, release | application and driver threads interleave between critical sections; a notifier may finish at any time | commands run in a legal order, once, and are not forgotten; blocked calls return; nothing is freed while in use |
| Event broadcast (`pocl_broadcast` in `devices/common.c`) | the two lists of every pair of events | unlink and notify every waiting event | lists read without a lock, event unlocked while it is failed | no wake-up lost, each dependant notified once |
| pthread driver: device operations (`devices/pthread/pthread.c`) | `ready` of a command, condition variables of events and queues | submit, notify, join, wait_event, notify_cmdq_finished | submit and notify race for the same command | a command is pushed by exactly one of them |
| pthread driver: scheduler (`devices/pthread/pthread_scheduler.c`) | `work_queue`, `kernel_queue`, work-groups and reference count of each kernel, the shutdown flag | push a command, take work, deal and run work-groups, finalize a kernel, shut down, start again | threads share one kernel, some threads may not run some commands, flag and sleep | every work-group runs once, before the event completes; no command is left to sleeping threads; the pool stops |
| Event callbacks (`clSetEventCallback.c`, `pocl_tracing.c`) | the callback list | register, call | registration races with the status change; the event is unlocked around each call | each callback is called once |
| Contexts and devices (`clCreateContext.c`, `clReleaseContext.c`, `devices/devices.c`) | `cl_context_count`, `devices_active`, `init_in_progress` | create, release, initialize, uninitialize | check-then-act on the counter, an unlocked flag, initialization that calls the library again | the device list is complete when read; devices go down and up in turn; calls return |
| Recycled objects (`pocl_mem_management.c`) | free lists of events and commands | new, free | an object comes back with old contents | a freed object is linked to nothing |
| Memory objects (`clEnqueueMapBuffer.c`, `clReleaseMemObject.c`, ...) | references, mappings, map counters | map, unmap, release | used by commands in flight, mappings found by address | freed after the last use, a mapping unmapped once |
| Buffer allocator (`devices/bufalloc.c`) | chunk lists of a region | allocate, free, coalesce | chunks merge across alignment gaps; an allocation is two critical sections | buffers are disjoint and stay; no byte is lost |
| Kernel binary cache (`devices/common.c`, `pocl_cache.c`) | the list of dlhandles with reference counts | look up, release, evict | eviction while in use | a handle in use is not closed |
| Basic driver (`devices/basic/basic.c`) | ready and pending lists | submit, notify, join | executes in the caller's thread | same promise as the pthread driver |
| Other drivers, kernel compiler, kernel library, ICD loader, samples | - | - | external hardware, LLVM passes, vendored code, straight-line clients | not modelled |

`PROJECT.json` lists the hazards of this code one by one with the line where
each bites and the properties that cover it.

## 2. Modules

| Module | Role |
|---|---|
| `CommandQueue` | events, queues, broadcast and the device operations of the pthread driver |
| `TaskGraph` | what the event layer promises: tasks that wait for tasks |
| `CommandQueueInv` | the inductive invariants: `IInv` behind the order of commands, `SafeInv` behind lists, counts and references |
| `CommandQueue_proofs` | types, the order of commands, the order of locks |
| `CommandQueueSafe_proofs` | lists, counts and references, the refinement of `TaskGraph`, what remains true when user events fail, and that nobody is stuck |
| `MCCommandQueue` | instances for TLC |
| `PthreadScheduler` | the thread pool of the pthread driver |
| `WorkPool` | what the pool promises: work-groups executed once, then completion |
| `PthreadSchedulerInv` | the inductive invariant of the pool |
| `PthreadScheduler_proofs` | its theorems |
| `MCPthreadScheduler` | instances for TLC |
| `EventCallbacks` | callbacks of events: registration, the walk of the list, calls from within a callback |
| `EventCallbacksInv`, `EventCallbacks_proofs` | its inductive invariant and theorems |
| `Contexts`, `MCContexts` | contexts, and the initialization and shutdown of the devices |
| `ContextsInv`, `Contexts_proofs` | its inductive invariant and theorems |
| `BasicDriver`, `BasicDriverInv`, `BasicDriver_proofs`, `MCBasicDriver` | the basic driver on top of the event layer of `CommandQueue` |
| `MemObjects` | buffers, sub-buffers and mappings against commands in flight |
| `MemObjectsInv`, `MemObjects_proofs` | its inductive invariant and theorems |
| `BufferAllocator`, `MCBufferAllocator` | the allocator of device memory |
| `BufferSpace` | what the allocator promises: aligned, disjoint buffers that stay |
| `BufferAllocator_proofs` | the inductive invariant of the allocator, its theorems and the refinement |

In all models a definition `X` that is preceded by `X<Suffix>` with the same
parameters is the code; the other is a mistake the code could have made. The
mutants of `PROJECT.json` exchange the two to show that a property notices.

### CommandQueue

A step is one critical section. The locks a step takes are released in it; the
one exception is the lock of a broadcasting event, which its thread keeps while
a dependant is failed, and which is the variable `held`.

| Action | Code |
|---|---|
| `CreateCommand` | `pocl_create_command` up to its first synchronization: event id, references, wait list |
| `SyncLast`, `SyncListed` | the synchronization with the last event of an in-order queue, and with each event of the wait list |
| `Enqueue` | `pocl_command_enqueue`: synchronization with the barrier or with all unfinished commands, `command_count`, `events`, `last_event`, `barrier` |
| `Submit` | `pocl_pthread_submit` |
| `Take`, `Start` | a driver thread takes the head of the work queue and begins |
| `Finish` | `pocl_update_event_finished` up to the broadcast: status, queue books, wake-up of `clFinish` and `clWaitForEvents` |
| `Notify`, `NotifyFailed`, `Relock`, `BroadcastDone` | one round of `pocl_broadcast`; `pocl_update_event_failed` unlocks the failed event and locks it again |
| `ReleaseFinished` | the runtime gives up its reference |
| `CreateUserEvent`, `SetUserEventStatus`, `UserEventDone` | user events |
| `CallFinish`, `Join`, `CallWait`, `WaitEvent`, `WaitTimeout` | `clFinish` and `clWaitForEvents` with their condition variables |
| `ReleaseEvent`, `ReleaseQueue` | the application gives up its references |

An event stands for its command node too. The list order of `notify_list` and
`events` is abstracted to sets: `pocl_broadcast` always takes the head, and
while it runs other threads only remove or prepend elements, so any order is a
possible one. The work queue is a sequence. `needs` is a history variable: what
a command has to wait for (its wait list, the queue, the barriers), recorded
when it is created and enqueued.

### PthreadScheduler

A step is what a thread does under one hold of `wq_lock_fast` or of a kernel's
lock, or between two of them. Commands are numbered in the order they are
pushed, so that the order of `work_queue` is the order of the numbers. The
order of `kernel_queue` is left open: which kernel a thread takes first is no
part of any property, and leaving it open allows more behaviours than the code.

| Action | Code |
|---|---|
| `PushCommand` | `pthread_scheduler_push_command` |
| `TakeKernel`, `NoKernel` | the first half of `pthread_scheduler_get_work`: a kernel, else a command, else sleep or exit |
| `Deal` | `get_wg_index_range` |
| `Unlink`, `RunGroups` | the loop of `work_group_scheduler` |
| `Leave`, `Finalize`, `Check` | the count-down of `ref_count`, `finalize_kernel_command`, and the look at the work queue after it |
| `StartCommand`, `PushKernel`, `ExecCommand` | `pocl_pthread_prepare_kernel` with `pthread_scheduler_push_kernel`, or `pocl_exec_command` |
| `RequestShutdown`, `JoinThreads`, `InitPool` | `pthread_scheduler_uninit` and `pthread_scheduler_init` |

Sleeping on `wake_pool` is a value of `pc`; a broadcast sends every sleeping
thread back to `RETRY`. `CommandQueue` has a coarser view of the same threads:
there a command is executed in one step and every thread may take every command.

### EventCallbacks

A thread is a stack of calls, because a callback may call the runtime again. A
frame names what is done and for which event; the frames under a running
callback are what its thread does once the callback returns. `held` is the lock
of an event that a thread keeps between steps: `pocl_event_updated` runs with
the event locked and unlocks it around each call, but the notifier of a command
stays locked while the callbacks of that command run. A call of the API is
decided in one step and takes its locks in another, so that a thread can be
seen waiting for a lock it holds.

| Action | Code |
|---|---|
| `SetEventCallback`, `AppendCallback`, `CallImmediately` | `clSetEventCallback`: the status decides under the lock whether the callback is appended or called |
| `CallNext`, `Return`, `Updated` | `pocl_event_updated`: call the next match unlocked, lock again, go on with what the list is then |
| `CallEnqueue`, `Enqueue` | a `clEnqueue` call with its wait list; what happens inside it is in `CommandQueue` |
| `CreateUserEvent`, `SetUserEventStatus`, `UserEventUpdated`, `UnlockEvent` | user events: broadcast first, callbacks after it |
| `Start`, `Finish` | `pocl_update_event_running`, `pocl_update_event_finished` |
| `NotifyWaiting`, `NotifyReady`, `PushCommand`, `Notified`, `BroadcastDone` | one round of `pocl_broadcast` with `pocl_pthread_notify` |

A command has no callbacks while it is enqueued, since the application gets the
event from that call; so the callbacks for `CL_SUBMITTED` that are found on a
list are called by a notifying thread.

### Contexts

The state is the global variables of `devices/devices.c` and
`clCreateContext.c`; a step is what happens between two points at which another
thread can interfere. Creating a context holds `pocl_context_handling_lock`
until the call returns, the initialization takes `pocl_init_lock` inside it.

| Action | Code |
|---|---|
| `Call`, `TestInProgress`, `LockInit` | the entry of `pocl_init_devices`: the test of `init_in_progress` without a lock, then the lock |
| `Probe`, `Allocate`, `InitDevice`, `FirstDone` | the first initialization; `InitDevice` may fail, and calls the library again |
| `ReinitDevice`, `ReinitDone` | `pocl_reinit_devices`; it stops advancing at the first device without the operations |
| `UnlockInit` | the end of both; after an error the caller returns |
| `GetDeviceIDs`, `CreateContext`, `RetainContext`, `ReleaseContext` | the API calls; a dummy context is not counted, a freed one is uncounted twice |
| `CheckUninit`, `LockUninit`, `UninitDevice`, `UninitDone` | `pocl_check_uninit_devices` and `pocl_uninit_devices` |

### BasicDriver

The module extends `CommandQueue` without driver threads. The actions of the
event layer are those of `CommandQueue` (`LayerStep`); those of the driver
replace the ones of the pthread driver. `work` is `ready_list`, `commandList`
is `command_list`.

| Action | Code |
|---|---|
| `BasicSubmit` | `pocl_basic_submit` with `pocl_command_push`, up to the first command it takes |
| `BasicSchedule`, `Schedule` | the loop of `basic_command_scheduler` |
| `BasicNotify`, `BasicDispatch` | `pocl_basic_notify` for a command that still waits, and for one that is ready |
| `BasicJoin` | `pocl_basic_join` and `pocl_basic_flush` |
| `BasicRelease` | the end of an executed command, back to the scheduler |

### MemObjects

A command that maps and its mapping have the same number. The queue is out of
order, and a command that unmaps waits for the one that mapped, which is what an
application has to ask for. A command may fail before it is executed.

| Action | Code |
|---|---|
| `CreateBuffer`, `CreateSubBuffer`, `ReleaseBuffer` | `clCreateBuffer`, `clCreateSubBuffer`, `clReleaseMemObject` |
| `MapBuffer`, `AppendMapping` | `clEnqueueMapBuffer` up to the command, and the list of mappings |
| `UnmapMemObject`, `RetainTarget` | `clEnqueueUnmapMemObject`: the search and `unmap_requested`, then the reference |
| `Enqueue` | `pocl_command_enqueue`: the command may run |
| `ExecMap`, `ExecUnmap`, `Finish`, `Fail` | `pocl_exec_command`, `pocl_mem_objs_cleanup`, `pocl_update_event_failed` |

### BufferAllocator

A step is one critical section of a region's lock. Addresses are numbers, chunks
are numbers of records in `all_chunks`. The records are alike, so the order of
`free_chunks` is abstracted: the least free record is taken. The order in which
C evaluates the arguments of `coalesce_chunks(coalesce_chunks(c->prev, c),
c->next)` is left open, as the language leaves it.

| Action | Code |
|---|---|
| `Call`, `Proceed` | `alloc_buffer`, from region to region |
| `AppendChunk`, `SearchChunks` | `append_new_chunk` and the search in `alloc_buffer_from_region`, in the order of the strategy |
| `FreeChunk`, `FreeBuffer` | `free_chunk`, and `free_buffer` with its search for the address |

## 3. What the runs check

Every run finishes within its bounds; the state spaces are complete.

| Run | What it shows | Instance |
|---|---|---|
| `order` | tasks, markers, barriers and barriers with wait lists from two threads on one out-of-order queue, with and without event handles: legal order, no lost wake-up, dispatched once, right books, no use after free, nothing linked to a freed event; the inductive invariant `SafeInv` | 2 application and 2 driver threads, 3 events, one of them possibly a user event |
| `liveness` | an in-order queue; two threads may block in `clFinish` and `clWaitForEvents`: commands finish, calls return, events are freed, `clFinish` does not return early; the inductive invariant | 3 + 1 threads, 2 events |
| `failure` | user events fail while no call is in progress, two queues: the event layer implements `TaskGraph`, failures included, and kept locks lead to no cycle of waits | 2 + 1 threads, 3 events |
| `pool` | two worker threads, a device and two sub-devices, shutdown and restart: work-groups run once and on their own cores, kernels are freed by the last user, commands are finished, the pool stops, and the scheduler implements `WorkPool`; the inductive invariant, types included | 2 threads, 3 commands of no or 5 work-groups, a share of 2 or 4 |
| `callbacks` | callbacks registered by the application and by callbacks, on a user event and two commands: called once, in order, in the right status, none forgotten; the lock contract of `pocl_event_updated`; every call returns; the inductive invariant, types included | 1 + 1 threads, 3 events, 2 callbacks |
| `contexts` | devices found, initialized with one failure, shut down and initialized again while contexts come and go: the list is as long as its count, devices go down and up in turn, every call returns; the inductive invariant, types included | 2 threads, 2 contexts, 2 devices of which one can be shut down |
| `basic` | the basic driver, user events that complete or fail: every command is where somebody looks, and the event layer implements `TaskGraph` | 2 threads, 4 events |
| `memory` | a buffer and a sub-buffer, mapped and unmapped while commands fail: references, mappings and map counters are right, buffers are freed | 2 threads, 4 commands |
| `buffers` | two regions, one of them starting unaligned and short of records, both strategies: nothing is lost, and the allocator implements `BufferSpace` | 2 threads, 9 and 2 bytes, buffers of 1 and 3, aligned to 2 |
| `in_order_race`, `callback_deadlock`, `basic_notified` | one disagreement each between the code and what it says, see section 6 | 2 or 3 events |

Why the bounds are enough: an event interacts with its notifiers and its
dependants, so three events give a chain, a join of two notifiers and a fork of
two dependants; two driver threads let two of them finish at once; two
application threads let one enqueue while the other does. In `pool`, five
work-groups and shares of at most two make a kernel end with a share smaller
than the limit while other threads hold work-groups; three commands are needed
for the case described in the comment before `check_cmd_queue_for_device`,
where a thread skips a command and finds its own behind it. In `contexts` one
device that can be shut down and one that cannot give both ends of the loops
over the devices. In `memory` four commands let a buffer be
mapped again, directly or through its sub-buffer, while the command that unmaps
the first mapping is still to run or has failed. In `buffers` three
buffers of the first region give every case of a merge: with the chunk before,
with the one after, with both, with the sentinel. Longer chains and more threads
are the business of the proofs.

Constants that restrict the application, and why:

- `Owners`: an in-order queue fed by one thread. With two threads the order of
  commands is lost, which `in_order_race` shows.
- `OrderlyFailure`: a user event fails only while no call is in progress and
  nothing is enqueued afterwards. Without it the code breaks its own
  assertions; see section 6. The runs with failures also bound wait lists to
  one event (`MaxWait`), since two notifiers of which one fails break another.
- `SingleBarrier`: of two unfinished barriers of a queue none has a wait list.
  A barrier with a wait list replaces `cq->barrier` without waiting for the
  barrier before it.
- `Drained`: the devices are shut down only when no command is unfinished.
  Worker threads that have seen the request exit although the queues hold work.
- `OwnEventOnly`: in the run `callbacks` a callback uses the event it is called
  for and no other. Without it a callback may wait for a lock of its own thread,
  which `callback_deadlock` shows.
- `FirstAlone`: nobody else calls the library during the first initialization.
  A second thread would find `init_in_progress` set and be told that the
  devices are there before the list is allocated.
- `SamePointer`: FALSE means that an address is not mapped again before it is
  unmapped, nor left mapped when the command that maps it has failed. Otherwise,
  in an out-of-order queue, the unmap of the younger mapping takes the older
  one, whose command may not have run. A failed command leaves its mapping on
  the list with `unmap_requested` 0, so an address that is mapped again without
  unmapping the failed mapping first is in the same position: the next unmap
  takes the failed mapping, and the one after it takes one that is still to be
  mapped.
- `RegionsApart`: two regions of memory do not touch. Otherwise the empty
  sentinel at the end of one starts where the first buffer of the other does,
  and `free_buffer` takes the sentinel.
- The application releases an event, a queue or a buffer only while no call of
  its own uses it, and a user event only after it has set its status.

CHECK_DEADLOCK is off in the runs of events, commands and mappings: their
number is bounded in an instance, and when they are used up an application has
nothing left to do. It is on in `contexts` and `buffers`, where calls can always
be made.

### Fairness

`CommandQueue!FairSpec` assumes that threads inside the runtime keep running
(weak fairness of the steps of an enqueuing, waiting or driver thread, and of a
thread that finishes an event), and that threads that do not block eventually
set the user events they created. The first is what the operating system's
scheduler gives to threads that hold no lock for ever; the second is an
obligation of the application. Nothing else is assumed: no application thread
has to enqueue, release or wait. `WaitTimeout` is the one-second poll of
`clWaitForEvents`. In `PthreadScheduler!FairSpec` worker threads keep running
and `pthread_join` returns once they have exited; commands, shutdowns and
restarts come as they please. In `EventCallbacks!FairSpec` threads inside the
runtime keep running, callbacks return, and the application sets its user
events. `BasicDriver!BasicFairSpec` is that of `CommandQueue` for threads that
execute their own commands. In `Contexts!FairSpec` fairness is strong: a thread
that waits for a mutex which others take again and again gets it at last. In
`MemObjects!FairSpec` calls return, and commands that may run are executed or
fail.

## 4. What is proved

Every theorem holds for every value of the constants that satisfies the named
assumptions of the module and the hypothesis the theorem states. The pattern is
the same throughout: an inductive invariant in the `...Inv` module (that of the
allocator is in `BufferAllocator_proofs`), preserved action by action, and the
properties as consequences. The runs check the inductive invariants of the
`...Inv` modules too, except those of `MemObjects` and `BasicDriver`; of these and
of the invariants that are stated where they are proved (the allocator's, `LockInv`,
`FailInv`, `Awake`, `SleepersIdle`) the runs check what follows from them. What
follows from `Books` only the proofs state; a circle would show in the run
`callbacks` as a call that does not return.

| Module | Theorems | Hypothesis |
|---|---|---|
| `CommandQueue_proofs` | `TypeCorrect`; `Invariance`, `DependenciesRespected`; `LocksOrdered` | none; `Orderly`; `MayFail` |
| `CommandQueueSafe_proofs` | `SafeInvariance`, `NoWakeupLost`, `CommandsDispatchedOnce`, `QueueAccountsRight`, `PointersLive`, `FreedEventsClean`, `FinishIsSound`, `NobodyIsStuck`; `GraphImplemented` | `NoFailures`; `Orderly` |
| the same, with failures | `DependenciesRespectedFailing`, `NoWakeupLostFailing`, `CommandsDispatchedOnceFailing`, `QueueAccountsRightFailing`, `FinishIsSoundFailing`, `GraphImplementedFailing`, `NobodyIsStuckFailing` | `OneNotifier` |
| `BasicDriver_proofs` | `BasicInvariance`, `PlacesKept`; `BasicGraphImplemented` | `NoFailures`; `Orderly` |
| `PthreadScheduler_proofs` | `Invariant`, `PoolTypeCorrect`, `KernelsStayAlive`, `StaysOnCores`, `SchedulerImplementsPool`, `SleepersHaveNothing`; `SleepMeansDone` | `SmallKernels`; `DevicesServed` too |
| `EventCallbacks_proofs` | `Invariance`, `TypeCorrect`, `CallbacksCalledOnce`, `LocksKept`, `StatusKept`, `CallsInOrder`; `NoThreadHoldsAndWaits`, `NobodyWaitsInACircle`, `OwnEventMayBeEnqueued` | none; `OwnEventOnly` |
| `Contexts_proofs` | `Invariance`, `TypeCorrect`, `DevicesInTurn`; `ListComplete` | none; `FirstAlone` |
| `MemObjects_proofs` | `Invariance`, `TypeCorrect`, `ReferencesCounted`, `MapsCounted`; `MappingsAlive` | none; `~SamePointer` |
| `BufferAllocator_proofs` | `Invariance`, `TypeCorrect`, `ChunksKept`, `SpaceImplemented` | `RegionsApart` (assumed by the module) |

The hypotheses restrict the application or the machine in the way section 3
explains. `NoFailures` says that no user event is set to an error, `Orderly`
adds that an in-order queue is fed by one thread and that `SingleBarrier` holds
unless barriers with wait lists are not used, `SmallKernels` that the
work-groups of a kernel can be counted in an unsigned. `MayFail` says that no user
event fails or that it fails only between calls (`OrderlyFailure`). `OneNotifier`
is the second, for tasks on out-of-order queues with wait lists of one event: with
two notifiers of which one fails the code breaks what the theorems say (section 6).
It is what the run `failure` is an instance of. `DevicesServed` says that every
device has a thread; `clCreateSubDevices` refuses sub-devices without compute
units and more compute units than there are, and the pool has a thread for each.

### Order of commands (`CommandQueue_proofs`)

`DependencyOrder` is not inductive: it says nothing of what a queued command
still waits for. The invariant `IInv` of `CommandQueueInv` adds three layers.
`Dispatch` says where a dispatched command is, so that it is dispatched and
finished by one thread. `Finishers` says that without failures application
threads finish user events only. `Order` says that what a queued command needs
has completed, or is waited for, directly or through a command that needs it,
or is on the list its creator still has to synchronize with (`NeedsCovered`);
and, for the synchronization to cover everything, that the last event of an
in-order queue and the barrier of any queue stand for all commands before them
(`LastCovers`, `BarrierCovers`). The run `liveness` checks the invariant too.

### Order of locks (`CommandQueue_proofs`)

While an event fails, `pocl_broadcast` keeps it locked and fails the commands that
wait for it, each of which may be kept in turn, and finishing a command locks the
other events of its queue. `LocksOrdered` has two parts. A kept event has left its
queue when it is broadcast, so that no lock of a queue's events is asked for while
it is kept (`Gone`, `OnlyCommands`). Between threads, there is an order of the events
in which a command comes after whatever it waits for (`SomeRank`). A thread fails
events along that order (`Stacked`), so that of several threads the one that keeps
the last event asks for none the others keep. The order is not in the program: it
is guessed anew whenever a command synchronizes with an event. The command being
enqueued then becomes the last one, which is possible since nothing waits for it
yet, and nothing is kept since nothing is enqueued once an event has failed
(`NoneFailing`).

### Lists, counts and references (`CommandQueueSafe_proofs`)

`SafeInv` keeps `Dispatch` and `Finishers` and adds what the books of the
runtime rest on: a dispatched command is in the work queue or with a thread
(`Placed`), one thread finishes an event (`OneFinisher`), a `notify_list` and
the wait lists of its members mirror each other (`Mirrored`), a thread's event
belongs to the application while it uses it (`Calls`), and reference counts are
equal to the holders there are (`References`). `LivePointers`, `FreedClean`,
`FinishSound` and `DispatchedOnce` follow; `DispatchedOnce` and `FinishSound`
are properties of steps. `GraphImplemented` shows that the initial state and
every step of `Spec` map to the initial state and a step of `TaskGraph` or to a
stutter; it needs `IInv` as well, since a task of the graph starts only when
everything it needs is done.

### When user events fail (`CommandQueueSafe_proofs`)

`SafeInv` is false once an event fails: a failed command leaves its queue, and may
be freed, while it is still on the notify list of the event that failed. `FailInv`
takes its place. `Finishing` says who may finish an event and in which status: a
driver thread a command it has run, an application thread a queued command whose
notifier has failed. `Linked` weakens the mirror of the lists by the one command
that is being failed. `Covered` says that a queued command waits for what it needs
unless that has completed, or its failure is under way; with `OneNeed`, a single
notifier, nobody else can dispatch it meanwhile. The order of commands, the
wake-ups, the single dispatch and the refinement of `TaskGraph`, where failed tasks
fail what needs them, follow; the counts of the queues and `FinishSound` need an
invariant of their own on top (`FailAccounts`). `LivePointers` and `FreedClean` are
not among these theorems, since the code does not have them there (section 6).

### Nobody is stuck (`CommandQueueSafe_proofs`)

`NobodyStuck` says of every state in which no driver thread has work, no call can go
on by itself and every user event is set (`AtRest`), that every command has finished
and nobody sleeps. It is the part of `CommandsFinish` and `CallsReturn` that fairness
has no share in: no wake-up is missed, no signal is sent before its waiter sleeps,
and no commands wait for each other. Of the unfinished commands take the first in
the order of `LockInv`: it has been submitted (`Submitted`), so it would wait for an
unfinished event before it (`NoLostWakeup`), and there is none. With no unfinished
command the count of every queue is zero (`QueueAccounting`), and a call sleeps only
on a queue whose count is not zero or an event that is not over (`Sleepers`). The
theorem holds without failures and, under `OneNotifier`, with them.

### The basic driver (`BasicDriver_proofs`)

A step of `BasicDriver` is one of the event layer, which is a step of
`CommandQueue` (`LayeredNext`), or one of the driver. So `TypeOK`, `Dispatch`
and `Order`, and the lemmas that preserve them, are those of `CommandQueue`;
`Finishers` and `SafeInv` are not, since here the threads of the application
execute commands. What takes their place is `Scheduling`: the list holds the
submitted commands that are queued, and each waits for something (`Pended`); a
command taken from the ready list belongs to one thread (`Takers`), and what was
dispatched is with somebody (`InHand`). `BasicPlaces` does not say why a thread
that leaves a broadcast for a command comes back to nothing it could do twice:
`Workers` says that both events stay locked by it and that the command stays on
the notify list, so that the broadcast cannot end. That is also the deadlock of
`basic_notified` (section 6). The refinement needs the wait lists (`Order`) and
that the application refers to events that exist (`Known`).

### The pool (`PthreadScheduler_proofs`)

The invariant says that a command is in one place (`Places`), that the
reference count of a kernel is the number of threads that will count it down
(`Counted`), that a kernel with work-groups left is in the queue and that one
thread removes it when there are none (`Linked`), and that the threads hold
disjoint intervals of what was dealt (`Dealing`); a work-group has been
executed exactly if it was dealt and nobody holds it (`Executed`). The last
part makes the refinement work: when the last user leaves, nobody holds
anything, so everything dealt, which is everything, has been executed once.
`ChunkBounds` is the lemma about the share of a thread: at least one
work-group and no more than remain, for every number of threads and limits.

`SleepersHaveNothing` is about `wake_pool`: a thread that sleeps has no kernel and
no command of its own in the queues, and nobody has asked the pool to stop.
`SleepMeansDone` follows: commands are not lost between the queues and the threads
(`Somewhere`), so when all threads sleep everything pushed has been executed. It is
the part of `CommandsDone` and `PoolStops` that fairness has no share in.

### Callbacks (`EventCallbacks_proofs`)

A thread is a stack of calls of any depth, so the invariant describes stacks:
what a frame may lie on (`Shape`), what it says of its event (`FramesMeant`),
and which locks it stands for (`Owner`). `Unique` says that every change of the
status of an event, and every walk of its list, is in the hands of one call.
`Progress` relates a walk to the list: callbacks before its position have
returned or are the one being called, those behind it have not been called,
although callbacks may be appended while the event is unlocked. `CalledOnce` is
a consequence of the two, and `LocksKept` of `Shape` and `Owner`: whatever a
callback calls, the event is locked again when the walk goes on.

The finding `callback_deadlock` has a positive side, under `OwnEventOnly`. `Books`
adds to `IInv` that every lock that is kept is kept for a frame of its thread's
stack (`Holders`), that a notified command is in the work queue before it is
unlocked (`PushedFirst`), and that what a callback calls is about its own event
(`OwnStack`). A thread that keeps a lock while it runs a callback is dispatching
the event the callback is for; `Unique` and the status of that event leave nobody
who could have it locked. So that thread does not wait (`NoHoldAndWait`), whoever
waits for it waits for a thread that can go on (`HoldersCanGo`), and callbacks may
enqueue (`CallbacksMayEnqueue`, which the run refutes without `OwnEventOnly`).

### Contexts (`Contexts_proofs`)

`Locks` ties `pocl_init_lock` and `init_in_progress` to the place of one
thread, `Devices` says how far its loop over the devices has come, `Lists` when
the length of the device list and its count differ: only while the thread that
counted them has not allocated the list. With `FirstAlone` nobody reads it then.

### Memory objects (`MemObjects_proofs`)

`RefsCounted` is close to inductive; it needs `Calls` and `Family`, since the
command that unmaps gets its reference a step after it was created, and until
then the application's reference, to the buffer or to a sub-buffer of it, keeps
the target alive. `Lists` says that what is on the list of a buffer is
allocated, belongs to it, and is there once, and that a command that unmaps has
a mapping of its own which stays on the list until it has run. `Paired` is what
`~SamePointer` adds: the search by address finds the mapping of the call it was
made for, so that the command which frees a mapping waits for the one that
fills it in.

### The allocator (`BufferAllocator_proofs`)

The invariant says of every region that each record is listed or free, once, and
that the clients have exactly the allocated ones; that its list ends with the
sentinel and is in the order of the addresses; and that between two chunks, and
in front of the first one, there is less than an alignment (`Tiled`). The merge
of chunks, in any order of its two calls, is a sequence of three operations on
lists whose lemmas are proved first.

### What the proofs found

Proofs that would not go through changed the models or their descriptions:

- `TaskOf`, the abstraction of `CommandQueue` to `TaskGraph`, was a CASE with
  overlapping guards. TLC takes the first that holds, a proof may not; it is now
  a nested condition.
- `Contexts` needs to say that the index of its loops is 1 where a thread begins
  with the devices (`Devices`), which no property asked for.
- `NothingLost` was not inductive: the gap in front of the sentinel decides
  whether what is left is aligned once chunks are merged into it. `Tiled` now says
  that an unaligned sentinel has no gap in front of it.
- That an address is unmapped before it is mapped again is not enough for
  `MappingAlive` if the first map command has failed: see `SamePointer`.
- `LockOrder` mixed set operators in a way that left its scope to the parser; it is
  parenthesised now.

### Only model-checked

- Liveness (`CommandsFinish`, `CallsReturn`, `EventsFreed`, `ImplementsFairGraph`,
  `CommandsDone`, `PoolStops`, `CallbacksCalled`, `BuffersFreed`): it needs fairness
  and ENABLED, which the prover does not handle. `NobodyIsStuck` and
  `SleepMeansDone` prove the safety part of it.
- What user events that fail do to event handles and references: no run has them
  as properties either, since the code breaks them (section 6).
- `BasicPlaces`, and the refinement of `TaskGraph` by the basic driver, when user
  events fail: the run `basic` checks them then, for wait lists of one event. With
  two notifiers of which one fails `BasicPlaces` is false: the other one may
  dispatch the command that is being failed (section 6).

## 5. What is not modelled

- Recycled objects (`pocl_mem_management.c`): free lists taken from and put back
  under one lock, only with `USE_POCL_MEMMANAGER`. What matters about them is
  that a freed event is linked to nothing, which is `FreedClean`.
- The kernel cache: entries are counted and evicted under one lock held over the
  whole operation; the disk cache is file I/O.
- Images, migration between devices, destructor callbacks of memory objects and
  the contents of buffers; `create_sub_chunk`, which no driver calls.
- What drivers do in `init`, and drivers whose `uninit` or `reinit` fails.
- Argument checks and error returns of the API calls before any state changes,
  profiling timestamps, tracing, messages.
- Out-of-memory paths.
- Kernel arguments, local memory, printf buffers and floating-point modes of
  the worker threads.
- The kernel compiler, the kernel library, the drivers of other devices, the
  ICD loader and the samples.

## 6. Disagreements found

Three are counterexamples of a run; `PROJECT.json` quotes the code.

1. `in_order_race`: two threads that enqueue on one in-order queue may both
   synchronize with the same last event, or with none.
2. `callback_deadlock`: a callback for `CL_SUBMITTED` runs while its thread
   holds the lock of the notifier; if it enqueues a command that waits for that
   notifier, it waits for itself.
3. `basic_notified`: `pocl_basic_notify` executes a command while its event is
   locked by the same thread; executing it locks the event again. A task of the
   basic driver that waits for a user event stops the thread that completes the
   event. For that reason the run `basic` is about safety only.

The others are kept out of the runs by the constants of section 3, or are in the
models without a property that would hold:

- A notifier that fails between the creation of a command and its insertion
  into the queue drives `command_count` to -1, against the assertion at
  `pocl_util.c:1249`.
- A failed command without a handle is freed in `pocl_update_event_failed` and
  locked after it (`pocl_util.c:1286`).
- A command whose wait list holds an event that has already failed is neither
  executed nor failed: `pocl_create_event_sync` skips only completed notifiers.
- Of two notifiers one fails, the other completes: while the first unlocks the
  command to fail it, the second finds its wait list empty and dispatches it.
- `cl_context_count` is decremented twice when a context is freed
  (`clReleaseContext.c:69-70`), and `pocl_check_uninit_devices` acts on it after
  unlocking it, so the devices go down under a live context.
- `pocl_basic_join` executes what is ready and returns; `pocl_cl.h:317-320` says
  that join blocks until all enqueued commands are finished.
- The pending list of the basic driver takes a command behind a barrier that is
  still on the ready list, and nobody would move it. It cannot happen: the ready
  list is empty whenever its lock is free (`BasicPlaces`).
- The mapping of a command that failed stays on the list; a later unmap of the
  same address takes it first (`clEnqueueUnmapMemObject.c:66-78` looks at the
  address and `unmap_requested` only). If the address has been mapped again,
  the mapping that was meant is left for the unmap after it, which may free it
  before its own map command has run.
- After `free_chunk` two unallocated chunks may lie side by side, although its
  comment says that they are merged (`bufalloc.c:373-374`): the compiler may
  read `chunk->next` after the inner call has moved the chunk to the free list.
- An allocation may fail although there was room all the time: what it saw
  unallocated in its second critical section may have been merged into the
  sentinel after its first.

## 7. Plan

All modules that were planned are written. Done, in this order:

1. `CommandQueue` with `TaskGraph`, its runs and the proof of the order.
2. `PthreadScheduler` with `WorkPool`, its run and the proof of the refinement.
3. `EventCallbacks` and its runs.
4. `Contexts`, `BasicDriver`, `MemObjects`, and `BufferAllocator` with
   `BufferSpace`; the lock order and the freed events of `CommandQueue`.
5. The proofs of the safety properties of `CommandQueue`, `EventCallbacks`,
   `Contexts`, `MemObjects`, `BufferAllocator` and `BasicDriver`, and of the
   refinements of `TaskGraph`, with either driver, and `BufferSpace`.
6. The proofs of the order of locks, of what remains true of `CommandQueue` when
   user events fail, that neither calls nor worker threads sleep while there is
   something to do, and that callbacks do not make threads wait in a circle.

Left, in this order:

1. Proofs: `BasicPlaces` and the refinement of `TaskGraph` by the basic driver when
   user events fail.
2. Callbacks of failing events; barriers with wait lists that overlap; kernels
   of 2^32 and more work-groups.
