---------------------------- MODULE CommandQueueInv ----------------------------
(***************************************************************************)
(* The inductive invariants of CommandQueue.                               *)
(*                                                                         *)
(* SafeInv is behind NoLostWakeup, DispatchedOnce, QueueAccounting,        *)
(* LivePointers, FreedClean and FinishSound.  It holds for an application  *)
(* that fails no user event.                                               *)
(*                                                                         *)
(* IInv is behind DependencyOrder.  It holds for an application that is    *)
(* Orderly: no event fails, an in-order queue is fed by one thread, and of *)
(* two unfinished barriers of a queue none has a wait list.  The run       *)
(* in_order_race shows that the second condition is needed.                *)
(***************************************************************************)
EXTENDS CommandQueue

NoFailures == UserStatuses \subseteq {COMPLETE}

Orderly ==
  /\ NoFailures
  /\ \A q \in InOrder : \A g, h \in Owners[q] : g = h
  /\ SingleBarrier \/ "waitBarrier" \notin Kinds

\* No event fails, and only a completed event is broadcast.
NoFailure ==
  /\ \A e \in Event : status[e] # FAILED
  /\ \A t \in Thread, e \in Event :
       /\ phase[t][e] # "notifying"
       /\ phase[t][e] = "broadcast" => status[e] = COMPLETE

\* What is known of an event before anybody may dispatch it.
Untouched ==
  /\ \A e \in Event : kind[e] = "none" => status[e] = QUEUED
  /\ \A e \in Event : ready[e] => e \in Commands
  /\ \A e \in Event : kind[e] \in Kinds \cup {"user", "none"}
  /\ \A h \in Hosts : Enqueuing(h) => status[cur[h]] = QUEUED /\ ~ready[cur[h]]

\* Two threads never enqueue the same command.
OwnCommand ==
  /\ \A h \in Hosts : Enqueuing(h) =>
       /\ h \in Owners[queue[cur[h]]]
       /\ pc[h] = "lastSync" => queue[cur[h]] \in InOrder
  /\ \A g, h \in Hosts : Enqueuing(g) /\ Enqueuing(h) /\ cur[g] = cur[h] => g = h

\* A dispatched command is in one place, and its status says which.
InWork ==
  /\ \A i \in 1..Len(work) : work[i] \in Commands /\ status[work[i]] = SUBMITTED
  /\ \A i, j \in 1..Len(work) : work[i] = work[j] => i = j
InTaken ==
  \A d \in Drivers : pc[d] = "taken" =>
    /\ cur[d] \in Commands /\ status[cur[d]] = SUBMITTED
    /\ \A i \in 1..Len(work) : work[i] # cur[d]
    /\ \A c \in Drivers : pc[c] = "taken" /\ cur[c] = cur[d] => c = d
InFinish ==
  \A t \in Thread, e \in Event : phase[t][e] = "finish" =>
    /\ e \in Commands /\ status[e] = RUNNING
    /\ \A u \in Thread : phase[u][e] = "finish" => u = t

\* Without failures an application thread finishes nothing, it only broadcasts
\* user events.
Finishers ==
  \A t \in Thread, e \in Event : phase[t][e] # "none" =>
    t \in Drivers \/ (kind[e] = "user" /\ phase[t][e] = "broadcast")

\* The queue's list holds its unfinished commands, and its pointers point there.
PendingUnfinished ==
  \A q \in Queues :
    /\ \A e \in pending[q] : e \in Commands /\ queue[e] = q /\ status[e] # COMPLETE
    /\ {last[q], barrier[q]} \subseteq pending[q] \cup {NoEvent}

\* The last command stands for all others in an in-order queue, the current
\* barrier for all other barriers.
LastCovers ==
  \A q \in InOrder : \A d \in pending[q] :
    last[q] # NoEvent /\ (d = last[q] \/ d \in needs[last[q]])
BarrierCovers ==
  \A q \in Queues : \A d \in pending[q] : IsBarrier(kind[d]) =>
    barrier[q] # NoEvent /\ (d = barrier[q] \/ d \in needs[barrier[q]])
OneBarrier ==
  SingleBarrier =>
    \A x, y \in Commands :
      /\ IsBarrier(kind[x]) /\ IsBarrier(kind[y]) /\ queue[x] = queue[y]
      /\ "waitBarrier" \in {kind[x], kind[y]}
      /\ status[x] # COMPLETE /\ status[y] # COMPLETE
      => x = y

\* e waits for d, or for a command that needs d.
WaitsOn(e, d) == \E m \in waits[e] : m = d \/ (m \in Commands /\ d \in needs[m])

\* Past the first synchronization of an in-order command every unfinished
\* command of the queue is waited for.
SyncedWithLast ==
  \A h \in Hosts : pc[h] = "listSync" /\ queue[cur[h]] \in InOrder =>
    \A d \in pending[queue[cur[h]]] : WaitsOn(cur[h], d)

\* What a queued command needs and has not got is waited for, or is about to be.
NeedsCovered ==
  \A e \in Commands : status[e] = QUEUED =>
    \A d \in needs[e] :
      \/ status[d] = COMPLETE
      \/ WaitsOn(e, d)
      \/ \E h \in Hosts : pc[h] \in {"lastSync", "listSync"} /\ cur[h] = e /\ d \in todo[h]

-----------------------------------------------------------------------------
(* What SafeInv adds to Dispatch and Finishers. *)

\* A dispatched command is somewhere, and whatever finishes an event is alone
\* with it.
Placed ==
  \A e \in Commands :
    /\ status[e] = SUBMITTED =>
         \/ \E i \in 1..Len(work) : work[i] = e
         \/ \E d \in Drivers : pc[d] = "taken" /\ cur[d] = e
    /\ status[e] = RUNNING => \E t \in Thread : phase[t][e] = "finish"
OneFinisher ==
  \A t \in Thread, e \in Event : phase[t][e] # "none" =>
    /\ phase[t][e] # "finish" => status[e] = COMPLETE
    /\ \A u \in Thread : phase[u][e] # "none" => u = t

\* The lists of a notifier and of the command waiting for it mirror each other,
\* and only queued commands wait.
Mirrored ==
  \A e, n \in Event :
    /\ e \in notify[n] => n \in waits[e]
    /\ n \in waits[e] => e \in Commands /\ status[e] = QUEUED /\ kind[n] # "none"

\* What a thread works on is the application's for as long as it does.
HostCall(h) ==
  /\ Enqueuing(h) => todo[h] \subseteq app
  /\ pc[h] \in {"userDone", "wait", "eventWait"} => cur[h] \in app
  /\ pc[h] \in {"idle", "join", "joinWait"} => cur[h] = NoEvent
  /\ pc[h] \notin {"taken", "finishing", "schedule"}
  /\ \A e \in Event : phase[h][e] # "none" => pc[h] = "userDone" /\ cur[h] = e
DriverCall(d) ==
  /\ pc[d] # "taken" => cur[d] = NoEvent
  /\ \A e \in Event : phase[d][e] # "none" =>
       /\ e \in Commands /\ pc[d] = "finishing"
       /\ \A f \in Event : phase[d][f] # "none" => f = e
NotNested ==
  \A t \in Thread, e \in Event : nested[t][e] = NoEvent

\* clFinish waits for commands of its queue that have been enqueued.
Joins ==
  \A h \in Hosts : pc[h] \in {"join", "joinWait"} =>
    on[h] \in Queues /\ \A e \in todo[h] : Entered(e) /\ queue[e] = on[h]

\* The runtime has a reference to a command's event until it has finished with
\* it, the application to every user event it has not set; only commands belong to a queue.
InRuntime(e) ==
  e \in Commands /\ (status[e] > COMPLETE \/ \E t \in Thread : phase[t][e] # "none")
RefsExact ==
  \A e \in Event :
    refs[e] = (IF e \in app THEN 1 ELSE 0) + (IF InRuntime(e) THEN 1 ELSE 0)
AppOwns ==
  \A e \in Event :
    /\ e \in app => kind[e] # "none"
    /\ kind[e] = "user" /\ status[e] > COMPLETE => e \in app
    /\ e \notin Commands => queue[e] = None
Live(q) == {e \in Commands : queue[e] = q /\ refs[e] > 0}
QueueRefs ==
  \A q \in Queues : qrefs[q] = (IF q \in qapp THEN 1 ELSE 0) + Cardinality(Live(q))

Dispatch == Untouched /\ NoFailure /\ OwnCommand /\ InWork /\ InTaken /\ InFinish
Order    == /\ PendingUnfinished /\ LastCovers /\ BarrierCovers /\ OneBarrier
            /\ SyncedWithLast /\ NeedsCovered /\ DependencyOrder

Calls      == /\ \A h \in Hosts : HostCall(h)
              /\ \A d \in Drivers : DriverCall(d)
              /\ NotNested /\ Joins
References == RefsExact /\ AppOwns /\ QueueRefs

\* The inductive invariant of what the runtime does with its own lists and
\* counts: nobody is forgotten, dispatched twice or freed too early
\* (pocl_create_event_sync, pocl_broadcast, pocl_update_event_finished,
\* clReleaseEvent).
SafeInv ==
  /\ TypeOK /\ Dispatch /\ Finishers /\ Placed /\ OneFinisher
  /\ Mirrored /\ NoLostWakeup /\ Calls /\ QueueAccounting /\ References

\* The inductive invariant: dispatched commands are in one place, the queue's
\* pointers cover its unfinished commands, and whatever a queued command needs
\* it waits for (pocl_create_command up to pocl_pthread_notify).
IInv == TypeOK /\ Dispatch /\ Finishers /\ Order
=============================================================================
