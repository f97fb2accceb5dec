----------------------------- MODULE CommandQueue -----------------------------
(***************************************************************************)
(* Events and command queues of the pocl runtime (lib/CL/pocl_util.c) with *)
(* the device operations of the pthread driver (devices/pthread/pthread.c) *)
(* and the event broadcast of devices/common.c: application threads create *)
(* and enqueue commands, driver threads execute them, and every command    *)
(* that finishes notifies the commands that wait for it.                   *)
(*                                                                         *)
(* A step is one critical section of the code: the locks an action takes   *)
(* are taken and released inside it.  The one lock that outlives a step,   *)
(* the lock of a broadcasting event while a waiting command is failed, is  *)
(* the variable "held".  An event stands for its command node as well.     *)
(* The list order of notify_list and of cq->events is abstracted to a set; *)
(* the pool of idle driver threads takes commands in work-queue order.     *)
(* Event callbacks, memory objects and profiling are not in this module.   *)
(*                                                                         *)
(* A definition X preceded by X<Suffix> with the same parameters is the    *)
(* code; the other is a mistake the code could have made, which a property *)
(* has to notice.                                                          *)
(***************************************************************************)
EXTENDS Integers, Sequences, FiniteSets

CONSTANTS
  Hosts,          \* application threads
  Blocking,       \* those that may block in clFinish or clWaitForEvents
  Drivers,        \* worker threads of the pthread device
  Queues,         \* command queues
  InOrder,        \* queues without CL_QUEUE_OUT_OF_ORDER_EXEC_MODE_ENABLE
  Owners,         \* [Queues -> SUBSET Hosts]: the threads enqueuing on a queue
  Kinds,          \* the kinds of commands the application enqueues
  Explicit,       \* whether it asks for the event: a subset of BOOLEAN
  UserStatuses,   \* the statuses it gives to user events
  OrderlyFailure, \* it fails a user event only when no call is in progress,
                  \* and enqueues nothing once an event has failed
  SingleBarrier,  \* of two unfinished barriers of a queue none has a wait list
  MaxEvents,      \* bound on the events created
  MaxUser,        \* bound on the ids a user event can have
  MaxWait,        \* bound on the length of a wait list
  None            \* no thread, no queue

QUEUED    == 3
SUBMITTED == 2
RUNNING   == 1
COMPLETE  == 0
FAILED    == -1

CommandKinds == {"task", "marker", "barrier", "waitBarrier"}
Event   == 1..MaxEvents
NoEvent == 0
Thread  == Hosts \cup Drivers

ASSUME ConstantsAssumption ==
  /\ Hosts \cap Drivers = {}
  /\ None \notin Thread \cup Queues
  /\ Blocking \subseteq Hosts
  /\ InOrder \subseteq Queues
  /\ Owners \in [Queues -> SUBSET Hosts]
  /\ Kinds \subseteq CommandKinds
  /\ Explicit \subseteq BOOLEAN
  /\ UserStatuses \subseteq {COMPLETE, FAILED}
  /\ OrderlyFailure \in BOOLEAN /\ SingleBarrier \in BOOLEAN
  /\ MaxEvents \in Nat /\ MaxUser \in Nat /\ MaxWait \in Nat

VARIABLES
  created,  \* event_id_counter
  kind,     \* event->command_type; "none" before the event exists
  queue,    \* event->queue
  status,   \* event->status
  refs,     \* event->pocl_refcount
  waits,    \* event->wait_list
  notify,   \* event->notify_list
  ready,    \* node->ready; also: event->data is allocated
  held,     \* the thread that keeps event->pocl_lock between steps
  count,    \* cq->command_count
  barrier,  \* cq->barrier
  last,     \* cq->last_event.event
  pending,  \* cq->events
  qrefs,    \* cq->pocl_refcount
  work,     \* scheduler.work_queue
  pc,       \* where a thread is in its call
  cur,      \* the event that call is about
  on,       \* the queue clFinish waits for
  todo,     \* wait-list events not synchronized with yet; during clFinish,
            \* history: the commands it has to wait for
  phase,    \* phase[t][e]: where t is in finishing e
  nested,   \* nested[t][e]: the command t is failing while broadcasting e
  app,      \* events the application holds a reference to
  qapp,     \* queues the application holds a reference to
  needs     \* history: the events that must complete before a command runs

identVars == <<created, kind, queue, needs>>
eventVars == <<status, refs, waits, notify, ready, held>>
cqVars    == <<count, barrier, last, pending, qrefs>>
callVars  == <<pc, cur, on, todo>>
finVars   == <<phase, nested>>
appVars   == <<app, qapp>>
vars == <<identVars, eventVars, cqVars, work, callVars, finVars, appVars>>

-----------------------------------------------------------------------------
(* Helpers *)

IsBarrier(k) == k \in {"barrier", "waitBarrier"}
Commands     == {e \in Event : kind[e] \in CommandKinds}
Unlocked(S)  == \A e \in S : held[e] = None

\* Thread t is inside pocl_update_event_failed.
NeverFailing(t) == FALSE
Failing(t) == \E b \in Event : phase[t][b] = "notifying"

Enqueuing(h) == pc[h] \in {"lastSync", "listSync", "submit"}

\* Events whose creating call has returned and that the application still owns.
Usable == {e \in app : \A h \in Hosts : Enqueuing(h) => cur[h] # e}

\* pocl_create_event_sync for every notifier in S: known and COMPLETE notifiers
\* are skipped, the others go on both lists.
NewSyncsUnchecked(e, S) == S \ waits[e]
NewSyncs(e, S) == {n \in S \ waits[e] : status[n] # COMPLETE}
Sync(e, S) ==
  /\ Unlocked(S \cup {e})
  /\ waits'  = [waits EXCEPT ![e] = @ \cup NewSyncs(e, S)]
  /\ notify' = [n \in Event |-> IF n \in NewSyncs(e, S) THEN notify[n] \cup {e}
                                                       ELSE notify[n]]

Goto(t, l) == pc' = [pc EXCEPT ![t] = l]

\* One reference for the runtime, one for the application if it asked for one.
InitialRefsOne(explicit)  == 1
InitialRefsBoth(explicit) == 2
InitialRefs(explicit) == IF explicit THEN 2 ELSE 1

LastRefAny(e) == refs[e] >= 1
LastRef(e) == refs[e] = 1

\* clReleaseEvent: the last reference frees the event, which drops the reference
\* every command's event holds on its queue (clReleaseCommandQueue).
DropRef(e) ==
  /\ Unlocked({e})
  /\ refs' = [refs EXCEPT ![e] = @ - 1]
  /\ qrefs' = IF LastRef(e) /\ queue[e] # None
              THEN [qrefs EXCEPT ![queue[e]] = @ - 1] ELSE qrefs

-----------------------------------------------------------------------------
Init ==
  /\ created = 0
  /\ kind   = [e \in Event |-> "none"]
  /\ queue  = [e \in Event |-> None]
  /\ needs  = [e \in Event |-> {}]
  /\ status = [e \in Event |-> QUEUED]
  /\ refs   = [e \in Event |-> 0]
  /\ waits  = [e \in Event |-> {}]
  /\ notify = [e \in Event |-> {}]
  /\ ready  = [e \in Event |-> FALSE]
  /\ held   = [e \in Event |-> None]
  /\ count   = [q \in Queues |-> 0]
  /\ barrier = [q \in Queues |-> NoEvent]
  /\ last    = [q \in Queues |-> NoEvent]
  /\ pending = [q \in Queues |-> {}]
  /\ qrefs   = [q \in Queues |-> 1]
  /\ work = <<>>
  /\ pc   = [t \in Thread |-> "idle"]
  /\ cur  = [t \in Thread |-> NoEvent]
  /\ on   = [h \in Hosts |-> None]
  /\ todo = [h \in Hosts |-> {}]
  /\ phase  = [t \in Thread |-> [e \in Event |-> "none"]]
  /\ nested = [t \in Thread |-> [e \in Event |-> NoEvent]]
  /\ app  = {}
  /\ qapp = Queues

-----------------------------------------------------------------------------
(* Application calls that enqueue a command: clEnqueue*, in the order      *)
(* pocl_create_command, pocl_command_enqueue, ops->submit.                 *)

\* pocl_create_command up to the first synchronization: the event, its
\* references, the retained queue, the wait list W.
CreateCommand(h, q, k, W, explicit) ==
  LET e == created + 1 IN
  /\ pc[h] = "idle" /\ h \in Owners[q] /\ q \in qapp
  /\ created < MaxEvents
  /\ W \subseteq Usable /\ Cardinality(W) <= MaxWait
  /\ k = "barrier" => W = {}
  /\ k = "waitBarrier" => W # {}
  /\ OrderlyFailure => \A x \in Event : status[x] # FAILED
  /\ SingleBarrier /\ IsBarrier(k) =>
       \A x \in Event : IsBarrier(kind[x]) /\ "waitBarrier" \in {k, kind[x]} =>
         queue[x] # q \/ status[x] <= COMPLETE
  /\ created' = e
  /\ kind'   = [kind EXCEPT ![e] = k]
  /\ queue'  = [queue EXCEPT ![e] = q]
  /\ status' = [status EXCEPT ![e] = QUEUED]
  /\ refs'   = [refs EXCEPT ![e] = InitialRefs(explicit)]
  /\ app'    = IF explicit THEN app \cup {e} ELSE app
  /\ qrefs'  = [qrefs EXCEPT ![q] = @ + 1]
  /\ needs'  = [needs EXCEPT ![e] = W]
  /\ todo'   = [todo EXCEPT ![h] = W]
  /\ cur'    = [cur EXCEPT ![h] = e]
  /\ Goto(h, IF q \in InOrder THEN "lastSync" ELSE "listSync")
  /\ UNCHANGED <<waits, notify, ready, held, count, barrier, last, pending,
                 work, on, finVars, qapp>>

PreviousBarrier(q) == {barrier[q]} \ {NoEvent}
Previous(q) == {last[q]} \ {NoEvent}

\* In an in-order queue: wait for the command enqueued last, under the queue
\* lock, which is released before pocl_command_enqueue takes it again.
SyncLast(h) ==
  LET e == cur[h] q == queue[e] IN
  /\ pc[h] = "lastSync"
  /\ Sync(e, Previous(q))
  /\ Goto(h, "listSync")
  /\ UNCHANGED <<identVars, status, refs, ready, held, cqVars, work, cur, on,
                 todo, finVars, appVars>>

\* One iteration over the caller's wait list.
SyncListed(h) ==
  /\ pc[h] = "listSync"
  /\ \E n \in todo[h] :
       /\ Sync(cur[h], {n})
       /\ todo' = [todo EXCEPT ![h] = @ \ {n}]
  /\ UNCHANGED <<identVars, status, refs, ready, held, cqVars, work, pc, cur,
                 on, finVars, appVars>>

\* What the queue itself makes command e wait for when it is enqueued: a marker
\* never sets has_wait_list, so it waits for everything, like a barrier without
\* a wait list; any command but a barrier waits for cq->barrier.
QueueSyncsMarker(e, q) == IF kind[e] \in {"marker", "barrier"} THEN pending[q] ELSE {}
QueueSyncs(e, q) ==
  (IF kind[e] \in {"marker", "barrier"} THEN pending[q] ELSE {})
    \cup (IF IsBarrier(kind[e]) THEN {} ELSE {barrier[q]} \ {NoEvent})

\* What the application may rely on: an in-order queue runs commands in enqueue
\* order, a barrier holds back every command enqueued after it.
QueueOrder(e, q) ==
  QueueSyncs(e, q)
    \cup (IF q \in InOrder THEN pending[q] ELSE {})
    \cup {b \in pending[q] : IsBarrier(kind[b]) /\ ~IsBarrier(kind[e])}

\* pocl_command_enqueue under the queue lock.
Enqueue(h) ==
  LET e == cur[h] q == queue[e] IN
  /\ pc[h] = "listSync" /\ todo[h] = {}
  /\ Sync(e, QueueSyncs(e, q))
  /\ needs'   = [needs EXCEPT ![e] = @ \cup QueueOrder(e, q)]
  /\ count'   = [count EXCEPT ![q] = @ + 1]
  /\ barrier' = IF IsBarrier(kind[e]) THEN [barrier EXCEPT ![q] = e] ELSE barrier
  /\ pending' = [pending EXCEPT ![q] = @ \cup {e}]
  /\ last'    = [last EXCEPT ![q] = e]
  /\ Goto(h, "submit")
  /\ UNCHANGED <<created, kind, queue, status, refs, ready, held, qrefs, work,
                 cur, on, todo, finVars, appVars>>

\* pocl_update_event_queued and pocl_pthread_submit under the event lock.
Submit(h) ==
  LET e == cur[h] dispatch == waits[e] = {} IN
  /\ pc[h] = "submit" /\ Unlocked({e})
  /\ ready'  = [ready EXCEPT ![e] = TRUE]
  /\ status' = [status EXCEPT ![e] = IF dispatch THEN SUBMITTED ELSE QUEUED]
  /\ work'   = IF dispatch THEN Append(work, e) ELSE work
  /\ cur'    = [cur EXCEPT ![h] = NoEvent]
  /\ Goto(h, "idle")
  /\ UNCHANGED <<identVars, refs, waits, notify, held, cqVars, on, todo,
                 finVars, appVars>>

-----------------------------------------------------------------------------
(* Driver threads *)

\* pthread_scheduler_get_work takes the first command of the work queue.
Take(d) ==
  /\ pc[d] = "idle" /\ work # <<>>
  /\ cur'  = [cur EXCEPT ![d] = Head(work)]
  /\ work' = Tail(work)
  /\ Goto(d, "taken")
  /\ UNCHANGED <<identVars, eventVars, cqVars, on, todo, finVars, appVars>>

\* pocl_update_event_running; then the command executes.
Start(d) ==
  LET e == cur[d] IN
  /\ pc[d] = "taken" /\ Unlocked({e})
  /\ status' = [status EXCEPT ![e] = RUNNING]
  /\ phase'  = [phase EXCEPT ![d][e] = "finish"]
  /\ cur'    = [cur EXCEPT ![d] = NoEvent]
  /\ Goto(d, "finishing")
  /\ UNCHANGED <<identVars, refs, waits, notify, ready, held, cqVars, work, on,
                 todo, nested, appVars>>

\* The threads pocl_pthread_notify_cmdq_finished and ..._event_finished wake.
WaitsAlone(x, q) ==
  pc[x] = "joinWait" /\ on[x] = q /\ x = CHOOSE y \in Hosts : pc[y] = "joinWait" /\ on[y] = q
WaitsForQueue(x, q) == pc[x] = "joinWait" /\ on[x] = q
WaitsForEvent(x, e) == pc[x] = "eventWait" /\ cur[x] = e

\* A pointer of the queue that the finished event leaves.
ClearedNever(ptr, q, e) == ptr
Cleared(ptr, q, e) == [ptr EXCEPT ![q] = IF @ = e THEN NoEvent ELSE @]

\* pocl_update_event_finished under the queue and event locks.  The status is
\* CL_FAILED when it is called through pocl_update_event_failed.  The threads
\* in clFinish are woken when no command is left, those waiting for e always.
Finish(t, e) ==
  LET q == queue[e] IN
  /\ phase[t][e] = "finish" /\ Unlocked({e})
  /\ status'  = [status EXCEPT ![e] = IF Failing(t) THEN FAILED ELSE COMPLETE]
  /\ count'   = [count EXCEPT ![q] = @ - 1]
  /\ barrier' = Cleared(barrier, q, e)
  /\ last'    = Cleared(last, q, e)
  /\ pending' = [pending EXCEPT ![q] = @ \ {e}]
  /\ pc' = [x \in Thread |-> IF WaitsForQueue(x, q) /\ count'[q] = 0 THEN "join"
                              ELSE IF WaitsForEvent(x, e) THEN "wait" ELSE pc[x]]
  /\ phase' = [phase EXCEPT ![t][e] = "broadcast"]
  /\ UNCHANGED <<identVars, refs, waits, notify, ready, held, qrefs, work, cur,
                 on, todo, nested, appVars>>

-----------------------------------------------------------------------------
(* pocl_broadcast and pocl_pthread_notify *)

\* pocl_command_is_ready once e has left the wait list of x, for a command x that
\* was submitted and not dispatched before.
DispatchableUnready(x, e) == waits[x] \subseteq {e} /\ status[x] = QUEUED
DispatchableBefore(x, e)  == waits[x] = {} /\ ready[x] /\ status[x] = QUEUED
Dispatchable(x, e) == waits[x] \subseteq {e} /\ ready[x] /\ status[x] = QUEUED

\* One iteration, with both events locked, when the waiting command x is not
\* failed by it.
Notify(t, e, x) ==
  /\ phase[t][e] = "broadcast" /\ x \in notify[e] /\ Unlocked({e, x})
  /\ status[e] = COMPLETE \/ status[x] \notin {QUEUED, SUBMITTED}
  /\ waits'  = [waits EXCEPT ![x] = @ \ {e}]
  /\ notify' = [notify EXCEPT ![e] = @ \ {x}]
  /\ status' = IF Dispatchable(x, e) THEN [status EXCEPT ![x] = SUBMITTED] ELSE status
  /\ work'   = IF Dispatchable(x, e) THEN Append(work, x) ELSE work
  /\ UNCHANGED <<identVars, refs, ready, held, cqVars, callVars, finVars, appVars>>

\* The notifier has failed: pocl_update_event_failed unlocks x and finishes it,
\* while the lock of e stays taken.
NotifyFailed(t, e, x) ==
  /\ phase[t][e] = "broadcast" /\ x \in notify[e] /\ Unlocked({e, x})
  /\ status[e] = FAILED /\ status[x] \in {QUEUED, SUBMITTED}
  /\ waits'  = [waits EXCEPT ![x] = @ \ {e}]
  /\ held'   = [held EXCEPT ![e] = t]
  /\ nested' = [nested EXCEPT ![t][e] = x]
  /\ phase'  = [phase EXCEPT ![t][e] = "notifying", ![t][x] = "finish"]
  /\ UNCHANGED <<identVars, status, refs, notify, ready, cqVars, work, callVars, appVars>>

\* Back in pocl_update_event_failed: x is locked again, leaves the notify list,
\* and both events are unlocked.
Relock(t, e) ==
  LET x == nested[t][e] IN
  /\ phase[t][e] = "notifying" /\ phase[t][x] = "none" /\ Unlocked({x})
  /\ notify' = [notify EXCEPT ![e] = @ \ {x}]
  /\ held'   = [held EXCEPT ![e] = None]
  /\ nested' = [nested EXCEPT ![t][e] = NoEvent]
  /\ phase'  = [phase EXCEPT ![t][e] = "broadcast"]
  /\ UNCHANGED <<identVars, status, refs, waits, ready, cqVars, work, callVars, appVars>>

BroadcastCut(t, e) ==
  /\ phase[t][e] = "broadcast"
  /\ phase' = [phase EXCEPT ![t][e] = IF kind[e] = "user" THEN "none" ELSE "release"]
  /\ UNCHANGED <<identVars, eventVars, cqVars, work, callVars, nested, appVars>>

\* The notify list is empty: a command's event still has to be released, the
\* broadcast of a user event returns to clSetUserEventStatus.
BroadcastDone(t, e) ==
  /\ phase[t][e] = "broadcast" /\ notify[e] = {}
  /\ phase' = [phase EXCEPT ![t][e] = IF kind[e] = "user" THEN "none" ELSE "release"]
  /\ UNCHANGED <<identVars, eventVars, cqVars, work, callVars, nested, appVars>>

\* The runtime's own reference, dropped last.
ReleaseFinished(t, e) ==
  /\ phase[t][e] = "release"
  /\ DropRef(e)
  /\ phase' = [phase EXCEPT ![t][e] = "none"]
  /\ pc' = IF Failing(t) THEN pc ELSE [pc EXCEPT ![t] = "idle"]
  /\ UNCHANGED <<identVars, status, waits, notify, ready, held, count, barrier,
                 last, pending, work, cur, on, todo, nested, appVars>>

-----------------------------------------------------------------------------
(* The other application calls *)

CreateUserEvent(h) ==
  LET e == created + 1 IN
  /\ pc[h] = "idle" /\ created < MaxEvents /\ e <= MaxUser
  /\ created' = e
  /\ kind'   = [kind EXCEPT ![e] = "user"]
  /\ status' = [status EXCEPT ![e] = SUBMITTED]
  /\ refs'   = [refs EXCEPT ![e] = 1]
  /\ app'    = app \cup {e}
  /\ UNCHANGED <<queue, needs, waits, notify, ready, held, cqVars, work,
                 callVars, finVars, qapp>>

\* clSetUserEventStatus: the status under the event lock, then the broadcast.
SetUserEventStatus(h, e, s) ==
  /\ pc[h] = "idle" /\ e \in app /\ Unlocked({e})
  /\ kind[e] = "user" /\ status[e] > COMPLETE
  /\ s = FAILED /\ OrderlyFailure =>
       \A x \in Hosts : ~Enqueuing(x)
  /\ status' = [status EXCEPT ![e] = s]
  /\ phase'  = [phase EXCEPT ![h][e] = "broadcast"]
  /\ cur'    = [cur EXCEPT ![h] = e]
  /\ Goto(h, "userDone")
  /\ UNCHANGED <<identVars, refs, waits, notify, ready, held, cqVars, work, on,
                 todo, nested, appVars>>

\* ... and after the broadcast the threads waiting for the user event wake up.
UserEventDone(h) ==
  LET e == cur[h] IN
  /\ pc[h] = "userDone" /\ phase[h][e] = "none" /\ Unlocked({e})
  /\ pc' = [x \in Thread |-> IF x = h THEN "idle"
                             ELSE IF WaitsForEvent(x, e) THEN "wait" ELSE pc[x]]
  /\ cur' = [cur EXCEPT ![h] = NoEvent]
  /\ UNCHANGED <<identVars, eventVars, cqVars, work, on, todo, finVars, appVars>>

QueueIdleEarly(q) == count[q] <= 1
QueueIdle(q) == count[q] = 0

\* clFinish: pocl_pthread_join waits on the queue's condition variable.
CallFinish(h, q) ==
  /\ pc[h] = "idle" /\ h \in Blocking /\ q \in qapp
  /\ on'   = [on EXCEPT ![h] = q]
  /\ todo' = [todo EXCEPT ![h] = pending[q]]
  /\ Goto(h, "join")
  /\ UNCHANGED <<identVars, eventVars, cqVars, work, cur, finVars, appVars>>

Join(h) ==
  /\ pc[h] = "join"
  /\ IF QueueIdle(on[h])
     THEN /\ Goto(h, "idle")
          /\ on'   = [on EXCEPT ![h] = None]
          /\ todo' = [todo EXCEPT ![h] = {}]
     ELSE Goto(h, "joinWait") /\ UNCHANGED <<on, todo>>
  /\ UNCHANGED <<identVars, eventVars, cqVars, work, cur, finVars, appVars>>

\* clWaitForEvents on one event.
CallWait(h, e) ==
  /\ pc[h] = "idle" /\ h \in Blocking /\ e \in Usable
  /\ cur' = [cur EXCEPT ![h] = e]
  /\ Goto(h, "wait")
  /\ UNCHANGED <<identVars, eventVars, cqVars, work, on, todo, finVars, appVars>>

WaitEvent(h) ==
  /\ pc[h] = "wait" /\ Unlocked({cur[h]})
  /\ IF status[cur[h]] > COMPLETE
     THEN Goto(h, "eventWait") /\ UNCHANGED cur
     ELSE Goto(h, "idle") /\ cur' = [cur EXCEPT ![h] = NoEvent]
  /\ UNCHANGED <<identVars, eventVars, cqVars, work, on, todo, finVars, appVars>>

\* clWaitForEvents looks at a user event again every second.
WaitTimeout(h) ==
  /\ pc[h] = "eventWait" /\ kind[cur[h]] = "user"
  /\ Goto(h, "wait")
  /\ UNCHANGED <<identVars, eventVars, cqVars, work, cur, on, todo, finVars, appVars>>

\* The application gives up its reference to an event no call of its own uses;
\* a user event only after its status has been set.
ReleaseEvent(h, e) ==
  /\ pc[h] = "idle" /\ e \in Usable
  /\ \A x \in Hosts : e \notin todo[x] /\ cur[x] # e
  /\ kind[e] = "user" => status[e] <= COMPLETE
  /\ DropRef(e)
  /\ app' = app \ {e}
  /\ UNCHANGED <<identVars, status, waits, notify, ready, held, count, barrier,
                 last, pending, work, callVars, finVars, qapp>>

\* clReleaseCommandQueue by the application, with no call on the queue running.
ReleaseQueue(h, q) ==
  /\ pc[h] = "idle" /\ q \in qapp
  /\ \A x \in Hosts : on[x] # q /\ (Enqueuing(x) => queue[cur[x]] # q)
  /\ qapp'  = qapp \ {q}
  /\ qrefs' = [qrefs EXCEPT ![q] = @ - 1]
  /\ UNCHANGED <<identVars, eventVars, count, barrier, last, pending, work,
                 callVars, finVars, app>>

-----------------------------------------------------------------------------
EnqueueStep(h) == SyncLast(h) \/ SyncListed(h) \/ Enqueue(h) \/ Submit(h)
WaitStep(h)    == Join(h) \/ WaitEvent(h) \/ WaitTimeout(h) \/ UserEventDone(h)
DriverStep(d)  == Take(d) \/ Start(d)
FinishStep(t)  == \E e \in Event :
  \/ Finish(t, e) \/ Relock(t, e) \/ BroadcastDone(t, e) \/ ReleaseFinished(t, e)
  \/ \E x \in Event : Notify(t, e, x) \/ NotifyFailed(t, e, x)

SetSomeUserEvent(h) == \E e \in Event, s \in UserStatuses : SetUserEventStatus(h, e, s)
AppStep(h) ==
  \/ CreateUserEvent(h)
  \/ \E q \in Queues : CallFinish(h, q) \/ ReleaseQueue(h, q)
  \/ \E e \in Event  : CallWait(h, e) \/ ReleaseEvent(h, e)
  \/ \E q \in Queues, k \in Kinds, W \in SUBSET Event, x \in Explicit :
       CreateCommand(h, q, k, W, x)

Next ==
  \/ \E h \in Hosts : EnqueueStep(h) \/ WaitStep(h) \/ SetSomeUserEvent(h) \/ AppStep(h)
  \/ \E d \in Drivers : DriverStep(d)
  \/ \E t \in Thread : FinishStep(t)

Spec == Init /\ [][Next]_vars

\* Threads inside the runtime keep running; the application, which owes the
\* runtime nothing else, eventually sets the user events it created.
Fairness ==
  /\ \A h \in Hosts : WF_vars(EnqueueStep(h)) /\ WF_vars(WaitStep(h))
  /\ \A d \in Drivers : WF_vars(DriverStep(d))
  /\ \A t \in Thread : WF_vars(FinishStep(t))
  /\ \A h \in Hosts \ Blocking : WF_vars(SetSomeUserEvent(h))

FairSpec == Spec /\ Fairness

-----------------------------------------------------------------------------
(* Properties *)

\* The values of the variables; "schedule" is a place of BasicDriver.
TypeOK ==
  /\ created \in 0..MaxEvents
  /\ kind   \in [Event -> CommandKinds \cup {"user", "none"}]
  /\ queue  \in [Event -> Queues \cup {None}]
  /\ needs  \in [Event -> SUBSET Event]
  /\ status \in [Event -> FAILED..QUEUED]
  /\ refs   \in [Event -> Int]
  /\ waits  \in [Event -> SUBSET Event]
  /\ notify \in [Event -> SUBSET Event]
  /\ ready  \in [Event -> BOOLEAN]
  /\ held   \in [Event -> Thread \cup {None}]
  /\ count   \in [Queues -> Int]
  /\ barrier \in [Queues -> Event \cup {NoEvent}]
  /\ last    \in [Queues -> Event \cup {NoEvent}]
  /\ pending \in [Queues -> SUBSET Event]
  /\ qrefs   \in [Queues -> Int]
  /\ work \in Seq(Event)
  /\ pc   \in [Thread -> {"idle", "lastSync", "listSync", "submit", "taken",
                        "finishing", "schedule", "userDone", "join", "joinWait", "wait",
                        "eventWait"}]
  /\ cur  \in [Thread -> Event \cup {NoEvent}]
  /\ on   \in [Hosts -> Queues \cup {None}]
  /\ todo \in [Hosts -> SUBSET Event]
  /\ phase  \in [Thread -> [Event -> {"none", "finish", "broadcast", "notifying", "release"}]]
  /\ nested \in [Thread -> [Event -> Event \cup {NoEvent}]]
  /\ app \in SUBSET Event
  /\ qapp \in SUBSET Queues
  /\ \A e \in Event : kind[e] = "none" <=> e > created
  /\ \A h \in Hosts : Enqueuing(h) => cur[h] \in Commands
  /\ \A e \in Commands : queue[e] \in Queues

\* A command reaches a driver thread only after everything it has to wait for
\* has completed: its wait list, its predecessors in an in-order queue, the
\* barriers enqueued before it (pocl_create_command, pocl_command_enqueue,
\* pocl_pthread_submit against pocl_pthread_notify).
DependencyOrder ==
  \A e \in Commands : status[e] \in {SUBMITTED, RUNNING, COMPLETE} =>
    \A d \in needs[e] : status[d] = COMPLETE

\* No wake-up is lost: an event somebody waits for knows the waiting command
\* and has not finished, or its broadcast has not ended; a submitted command
\* that is still queued waits for something or is being failed
\* (create_event_sync's check of the status, pocl_broadcast's unlocked reads).
NoLostWakeup ==
  \A e \in Event :
    /\ \A n \in waits[e] :
         e \in notify[n] /\ (status[n] > COMPLETE \/ \E t \in Thread : phase[t][n] \in {"broadcast", "notifying"})
    /\ (kind[e] \in CommandKinds /\ ready[e] /\ status[e] = QUEUED) =>
         waits[e] # {} \/ \E t \in Thread : phase[t][e] = "finish"

\* A command is in one place of the driver at most: once in the work queue or
\* in the hands of one thread (submit and notify never both push it, and
\* pocl_update_event_finished runs once, as its assertion at :1225 demands).
Holders(e) ==
  {<<"work", i>> : i \in {j \in DOMAIN work : work[j] = e}}
    \cup {<<"taken", t>> : t \in {d \in Drivers : pc[d] = "taken" /\ cur[d] = e}}
    \cup {<<"phase", t>> : t \in {x \in Thread : phase[x][e] # "none"}}
DispatchedOnce ==
  \A e \in Commands :
    /\ Cardinality(Holders(e)) <= 1
    /\ status[e] \in {SUBMITTED, RUNNING} => Cardinality(Holders(e)) = 1
    /\ \A t \in Thread : phase[t][e] = "finish" => status[e] > COMPLETE

\* command_count and cq->events agree with the commands enqueued and not yet
\* finished, barrier and last_event point into cq->events.
Entered(e) == e \in Commands /\ \A h \in Hosts : pc[h] \in {"lastSync", "listSync"} => cur[h] # e
QueueAccounting ==
  \A q \in Queues :
    /\ pending[q] = {e \in Event : Entered(e) /\ queue[e] = q /\ status[e] > COMPLETE}
    /\ count[q] = Cardinality(pending[q])
    /\ {barrier[q], last[q]} \subseteq pending[q] \cup {NoEvent}

\* Whatever the runtime still points to has not been freed: queued, waiting,
\* notified and finishing events hold a reference, their queues too, and a
\* queue is freed with no command left (assertion of clReleaseCommandQueue).
LivePointers ==
  /\ \A e \in Event :
       (\/ \E q \in Queues : e \in pending[q] \cup {barrier[q], last[q]}
        \/ \E n \in Event : e \in notify[n] \/ e \in waits[n]
        \/ \E h \in Hosts : e \in todo[h] /\ pc[h] = "listSync"
        \/ \E t \in Thread : cur[t] = e \/ (phase[t][e] # "none") \/ e \in {nested[t][b] : b \in Event}
        \/ \E i \in DOMAIN work : work[i] = e)
       => refs[e] > 0
  /\ \A e \in Commands : refs[e] > 0 => qrefs[queue[e]] > 0
  /\ \A q \in Queues : qrefs[q] = 0 => count[q] = 0

\* An event that is freed is in nobody's list and has nothing in its own: it
\* is recycled with the lists it has, only its object header is initialized
\* again (pocl_mem_manager_new_event).
FreedClean ==
  \A e \in 1..created : refs[e] = 0 =>
    /\ waits[e] = {} /\ notify[e] = {}
    /\ \A n \in Event : e \notin waits[n] \cup notify[n]

\* A thread that keeps an event locked while it fails another goes on to take
\* queue locks and more event locks.  That is safe: the kept event has left its
\* queue, so no thread that holds a queue lock comes for it, and of the threads
\* that wait for kept events one waits for none of the others (pocl_broadcast,
\* pocl_update_event_failed against pocl_create_event_sync).
Wants(t) ==
  (IF pc[t] \in {"submit", "taken", "wait"} THEN {cur[t]} ELSE {})
    \cup (IF pc[t] = "listSync" THEN {cur[t]} \cup todo[t] ELSE {})
    \cup UNION {CASE phase[t][e] = "broadcast" -> {e} \cup notify[e]
                  [] phase[t][e] = "notifying" /\ phase[t][nested[t][e]] = "none" -> {nested[t][e]}
                  [] phase[t][e] \in {"finish", "release"} -> {e}
                  [] OTHER -> {} : e \in Event}
LockOrder ==
  /\ \A e \in Event : held[e] # None =>
       \A q \in Queues : e \notin pending[q] \cup {barrier[q], last[q]}
  /\ \A S \in (SUBSET Thread) \ {{}} : \E t \in S :
       \A e \in Wants(t) : held[e] \notin S

\* clFinish returns only after every command enqueued before the call has
\* finished (pocl_pthread_join against pocl_update_event_finished).
FinishSound ==
  [][\A h \in Hosts : pc[h] = "join" /\ pc'[h] = "idle" =>
       \A e \in todo[h] : status[e] <= COMPLETE]_vars

\* Every command the application enqueues finishes: driver threads find it,
\* and each of its notifiers tells it.
CommandsFinish ==
  \A e \in Event : kind[e] \in CommandKinds ~> status[e] <= COMPLETE

\* clFinish and clWaitForEvents return: no signal of the condition variables
\* is missed by a thread that goes to sleep.
CallsReturn ==
  \A h \in Hosts : pc[h] \in {"joinWait", "eventWait"} ~> pc[h] = "idle"

\* The runtime gives back its reference to every command's event.
EventsFreed ==
  \A e \in Event : kind[e] \in CommandKinds ~> (refs[e] = 0 \/ (refs[e] = 1 /\ e \in app))

-----------------------------------------------------------------------------
(* Refinement: events and commands are the tasks of a TaskGraph.           *)

TaskOf(e) ==
  IF kind[e] = "none" THEN "none"
  ELSE IF status[e] = COMPLETE THEN "done"
  ELSE IF status[e] = FAILED   THEN "failed"
  ELSE IF kind[e] = "user"     THEN "open"
  ELSE IF status[e] = QUEUED   THEN "waiting" ELSE "started"

Graph == INSTANCE TaskGraph WITH
  Task <- Event, state <- [e \in Event |-> TaskOf(e)], needs <- needs

\* The event layer keeps its promise: commands start once all they need is
\* complete, fail only if something they need has failed, and do both only
\* once (pocl_create_command ... pocl_update_event_finished as a whole).
ImplementsGraph == Graph!Spec

\* ... and does not forget a command that can start or must fail.
ImplementsFairGraph == Graph!Progress

=============================================================================
