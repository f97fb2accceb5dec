---------------------------- MODULE BasicDriver ----------------------------
(***************************************************************************)
(* The device operations of the basic driver (devices/basic/basic.c) under *)
(* the event layer of CommandQueue.  The driver has no threads: whoever    *)
(* submits a command, notifies one, flushes or finishes a queue runs the   *)
(* scheduler, which executes the commands of the ready list.               *)
(*                                                                         *)
(* "work" is data->ready_list, newest command first.  Constants, variables *)
(* and all actions without the prefix Basic are those of CommandQueue,     *)
(* with application threads in the place of driver threads.                *)
(***************************************************************************)
EXTENDS CommandQueue, SequencesExt

VARIABLE commandList   \* data->command_list

ASSUME BasicAssumption == Drivers = {}

bvars == <<vars, commandList>>

BasicInit == Init /\ commandList = {}

-----------------------------------------------------------------------------
\* basic_command_scheduler under data->cq_lock: the thread takes the newest
\* command of a list and goes on to execute it, or returns.
Schedule(t, list) ==
  IF list = <<>>
  THEN work' = list /\ cur' = [cur EXCEPT ![t] = NoEvent] /\ Goto(t, "idle")
  ELSE work' = Tail(list) /\ cur' = [cur EXCEPT ![t] = Head(list)] /\ Goto(t, "taken")

\* pocl_command_push: behind a barrier that is still on the list no command is
\* ready.
BehindBarrier == work # <<>> /\ kind[Last(work)] = "barrier"
PushableAlways(e) == TRUE
Pushable(e) == waits[e] = {} /\ ~BehindBarrier

\* pocl_basic_submit up to the execution of the first command.
BasicSubmit(h) ==
  LET e == cur[h] IN
  /\ pc[h] = "submit" /\ Unlocked({e})
  /\ ready'  = [ready EXCEPT ![e] = TRUE]
  /\ IF Pushable(e)
     THEN /\ status' = [status EXCEPT ![e] = SUBMITTED]
          /\ Schedule(h, <<e>> \o work)
          /\ UNCHANGED commandList
     ELSE /\ commandList' = commandList \cup {e}
          /\ status' = [status EXCEPT ![e] = QUEUED]
          /\ Schedule(h, work)
  /\ UNCHANGED <<identVars, refs, waits, notify, held, cqVars, on, todo, finVars, appVars>>

\* After a command, and for clFlush and clFinish, the list is looked at again.
BasicSchedule(h) ==
  /\ pc[h] = "schedule"
  /\ Schedule(h, work)
  /\ UNCHANGED <<identVars, eventVars, cqVars, on, todo, finVars, appVars, commandList>>

\* pocl_basic_join and pocl_basic_flush; clWaitForEvents calls clFinish too,
\* since the driver has no wait_event.
BasicJoin(h) ==
  /\ pc[h] = "idle" /\ qapp # {}
  /\ Goto(h, "schedule")
  /\ UNCHANGED <<identVars, eventVars, cqVars, work, cur, on, todo, finVars, appVars, commandList>>

\* pocl_basic_notify for a command that is not ready yet.
BasicNotify(t, e, x) == Notify(t, e, x) /\ ~Dispatchable(x, e) /\ UNCHANGED commandList

\* ... and for one that is: the scheduler runs with both events locked, and the
\* command it starts is one of them.
UnlistedNever(x) == commandList
Unlisted(x) == commandList \ {x}
BasicDispatch(t, e, x) ==
  /\ phase[t][e] = "broadcast" /\ x \in notify[e] /\ Unlocked({e, x})
  /\ status[e] = COMPLETE /\ Dispatchable(x, e)
  /\ waits'  = [waits EXCEPT ![x] = @ \ {e}]
  /\ status' = [status EXCEPT ![x] = SUBMITTED]
  /\ held'   = [held EXCEPT ![e] = t, ![x] = t]
  /\ commandList' = Unlisted(x)
  /\ Schedule(t, <<x>> \o work)
  /\ UNCHANGED <<identVars, refs, notify, ready, cqVars, on, todo, finVars, appVars>>

\* The runtime's reference is dropped; an executed command leads back to the
\* scheduler.
BasicRelease(t, e) ==
  /\ phase[t][e] = "release"
  /\ DropRef(e)
  /\ phase' = [phase EXCEPT ![t][e] = "none"]
  /\ pc' = IF Failing(t) THEN pc ELSE [pc EXCEPT ![t] = "schedule"]
  /\ UNCHANGED <<identVars, status, waits, notify, ready, held, count, barrier, last,
                 pending, work, cur, on, todo, nested, appVars, commandList>>

-----------------------------------------------------------------------------
BasicStep(t) ==
  \/ BasicSubmit(t) \/ BasicSchedule(t)
  \/ \E e \in Event :
       \/ BasicRelease(t, e)
       \/ \E x \in Event : BasicNotify(t, e, x) \/ BasicDispatch(t, e, x)

\* The event layer, as in CommandQueue.
LayerStep(t) ==
  /\ \/ SyncLast(t) \/ SyncListed(t) \/ Enqueue(t) \/ Start(t) \/ UserEventDone(t)
     \/ \E e \in Event :
          \/ Finish(t, e) \/ Relock(t, e) \/ BroadcastDone(t, e)
          \/ \E x \in Event : NotifyFailed(t, e, x)
  /\ UNCHANGED commandList

BasicApp(h) ==
  \/ BasicJoin(h)
  \/ /\ \/ CreateUserEvent(h) \/ SetSomeUserEvent(h)
        \/ \E q \in Queues : ReleaseQueue(h, q)
        \/ \E e \in Event : ReleaseEvent(h, e)
        \/ \E q \in Queues, k \in Kinds, W \in SUBSET Event, x \in Explicit :
             CreateCommand(h, q, k, W, x)
     /\ UNCHANGED commandList

BasicNext == \E h \in Hosts : BasicStep(h) \/ LayerStep(h) \/ BasicApp(h)

BasicSpec == BasicInit /\ [][BasicNext]_bvars

\* Threads inside the runtime keep running, user events are set.
BasicFairSpec ==
  /\ BasicSpec
  /\ \A h \in Hosts : WF_bvars(BasicStep(h)) /\ WF_bvars(LayerStep(h))
                      /\ WF_bvars(SetSomeUserEvent(h) /\ UNCHANGED commandList)

-----------------------------------------------------------------------------
(* Properties *)

\* No command is left where nobody looks: the ready list is empty whenever its
\* lock is free, so no command is put behind a barrier there; a command that
\* may not run yet is on the other list and waits for something, and one that
\* was dispatched is off it and in the hands of one thread
\* (pocl_command_push, pocl_basic_notify, basic_command_scheduler).
Executing(e) == {h \in Hosts : (pc[h] = "taken" /\ cur[h] = e) \/ phase[h][e] # "none"}
BasicPlaces ==
  /\ work = <<>>
  /\ \A e \in Commands :
       /\ ready[e] /\ status[e] = QUEUED =>
            e \in commandList /\ (waits[e] # {} \/ Executing(e) # {})
       /\ status[e] \in {SUBMITTED, RUNNING} =>
            e \notin commandList /\ Cardinality(Executing(e)) = 1
=============================================================================
