-------------------------- MODULE BasicDriver_proofs --------------------------
(***************************************************************************)
(* Proofs about the basic driver: BasicPlaces when no user event is        *)
(* failed, and the refinement of TaskGraph for an orderly application.     *)
(* What the event layer does is taken from the proofs about CommandQueue;  *)
(* what is new are the steps of the driver.                                *)
(***************************************************************************)
EXTENDS BasicDriverInv, CommandQueueSafe_proofs

-----------------------------------------------------------------------------
(* The steps of the driver, for a ready list that is empty between them.    *)

LEMMA HostsOnly ==
  Drivers = {} /\ Thread = Hosts /\ None \notin Hosts /\ NoEvent \notin Event
BY BasicAssumption, ConstantsAssumption DEF Thread, NoEvent, Event

LEMMA PushEmpty ==
  ASSUME NEW e \in Event
  PROVE  <<e>> \o <<>> # <<>> /\ Head(<<e>> \o <<>>) = e /\ Tail(<<e>> \o <<>>) = <<>>
OBVIOUS

\* A submitted command is taken at once, or goes on the list.
Taken(h, e) ==
  /\ waits[e] = {} /\ status' = [status EXCEPT ![e] = SUBMITTED] /\ commandList' = commandList
  /\ cur' = [cur EXCEPT ![h] = e] /\ pc' = [pc EXCEPT ![h] = "taken"]
Listing(h, e) ==
  /\ waits[e] # {} /\ status' = [status EXCEPT ![e] = QUEUED] /\ commandList' = commandList \cup {e}
  /\ cur' = [cur EXCEPT ![h] = NoEvent] /\ pc' = [pc EXCEPT ![h] = "idle"]
LEMMA SubmitFacts ==
  ASSUME TypeOK, Dispatch, work = <<>>, NEW h \in Hosts, BasicSubmit(h)
  PROVE  \E e \in Commands :
           /\ e = cur[h] /\ e \in Event /\ pc[h] = "submit" /\ status[e] = QUEUED /\ ~ready[e]
           /\ UNCHANGED <<created, kind, queue, needs, refs, waits, notify, held, cqVars, on, todo, finVars, appVars>>
           /\ ready' = [ready EXCEPT ![e] = TRUE] /\ work' = <<>>
           /\ Taken(h, e) \/ Listing(h, e)
<1> DEFINE e == cur[h]
<1>1. e \in Commands /\ e \in Event /\ pc[h] = "submit" /\ status[e] = QUEUED /\ ~ready[e]
  BY DEF BasicSubmit, TypeOK, Enqueuing, Commands, Dispatch, Untouched
<1>2. /\ UNCHANGED <<created, kind, queue, needs, refs, waits, notify, held, cqVars, on, todo, finVars, appVars>>
      /\ ready' = [ready EXCEPT ![e] = TRUE]
  BY DEF BasicSubmit, identVars
<1>3. CASE waits[e] = {}
  <2>1. /\ status' = [status EXCEPT ![e] = SUBMITTED] /\ commandList' = commandList
        /\ Schedule(h, <<e>> \o <<>>)
    BY <1>3 DEF BasicSubmit, Pushable, BehindBarrier
  <2>2. work' = <<>> /\ Taken(h, e)
    BY <1>1, <1>3, <2>1, PushEmpty DEF Schedule, Goto, Taken
  <2> QED BY <1>1, <1>2, <2>2
<1>4. CASE waits[e] # {}
  <2>1. work' = <<>> /\ Listing(h, e)
    BY <1>4 DEF BasicSubmit, Pushable, Schedule, Goto, Listing
  <2> QED BY <1>1, <1>2, <2>1
<1> QED BY <1>3, <1>4

LEMMA DispatchFacts ==
  ASSUME TypeOK, Dispatch, work = <<>>, NEW t \in Hosts, NEW e \in Event, NEW x \in Event, BasicDispatch(t, e, x)
  PROVE  /\ phase[t][e] = "broadcast" /\ x \in notify[e] /\ held[e] = None /\ held[x] = None
         /\ status[e] = COMPLETE /\ status[x] = QUEUED /\ ready[x] /\ x \in Commands
         /\ waits[x] \subseteq {e}
         /\ UNCHANGED <<created, kind, queue, needs, refs, notify, ready, cqVars, on, todo, finVars, appVars>>
         /\ waits' = [waits EXCEPT ![x] = @ \ {e}] /\ status' = [status EXCEPT ![x] = SUBMITTED]
         /\ held' = [held EXCEPT ![e] = t, ![x] = t] /\ commandList' = commandList \ {x} /\ work' = <<>>
         /\ cur' = [cur EXCEPT ![t] = x] /\ pc' = [pc EXCEPT ![t] = "taken"]
<1>1. /\ phase[t][e] = "broadcast" /\ x \in notify[e] /\ held[e] = None /\ held[x] = None
      /\ status[e] = COMPLETE /\ status[x] = QUEUED /\ ready[x] /\ waits[x] \subseteq {e}
  BY DEF BasicDispatch, Unlocked, Dispatchable
<1>2. x \in Commands
  BY <1>1 DEF Dispatch, Untouched
<1>3. /\ UNCHANGED <<created, kind, queue, needs, refs, notify, ready, cqVars, on, todo, finVars, appVars>>
      /\ waits' = [waits EXCEPT ![x] = @ \ {e}] /\ status' = [status EXCEPT ![x] = SUBMITTED]
      /\ held' = [held EXCEPT ![e] = t, ![x] = t] /\ commandList' = commandList \ {x}
      /\ Schedule(t, <<x>> \o <<>>)
  BY DEF BasicDispatch, Unlisted, identVars
<1>4. work' = <<>> /\ cur' = [cur EXCEPT ![t] = x] /\ pc' = [pc EXCEPT ![t] = "taken"]
  BY <1>3, PushEmpty DEF Schedule, Goto
<1> QED BY <1>1, <1>2, <1>3, <1>4

\* The steps of a thread that goes into the scheduler or leaves it.
LEMMA LoopFacts ==
  ASSUME TypeOK, work = <<>>, NEW h \in Hosts, BasicSchedule(h) \/ BasicJoin(h)
  PROVE  /\ pc[h] \in {"schedule", "idle"} /\ work' = <<>>
         /\ UNCHANGED <<identVars, eventVars, cqVars, on, todo, finVars, appVars, commandList>>
         /\ \E l \in {"schedule", "idle"} : pc' = [pc EXCEPT ![h] = l]
         /\ cur' = cur \/ cur' = [cur EXCEPT ![h] = NoEvent]
BY DEF BasicSchedule, BasicJoin, Schedule, Goto

\* What a thread starts it took from the ready list.
LEMMA StartFacts ==
  ASSUME TypeOK, Takers, NEW h \in Hosts, Start(h)
  PROVE  \E e \in Commands :
           /\ e = cur[h] /\ e \in Event /\ pc[h] = "taken" /\ status[e] = SUBMITTED /\ held[e] = None
           /\ UNCHANGED <<identVars, refs, waits, notify, ready, held, cqVars, work, on, todo, nested, appVars>>
           /\ status' = [status EXCEPT ![e] = RUNNING] /\ phase' = [phase EXCEPT ![h][e] = "finish"]
           /\ cur' = [cur EXCEPT ![h] = NoEvent] /\ pc' = [pc EXCEPT ![h] = "finishing"]
<1>1. pc[h] = "taken" /\ cur[h] \in Commands /\ cur[h] \in Event /\ status[cur[h]] = SUBMITTED
  BY DEF Start, Takers, Commands
<1> QED BY <1>1 DEF Start, Goto, Unlocked
\* A step is one of the driver, or one of the event layer.
Driven(h) ==
  \/ BasicSubmit(h) \/ BasicSchedule(h) \/ BasicJoin(h) \/ (Start(h) /\ UNCHANGED commandList)
  \/ \E e \in Event : BasicRelease(h, e) \/ \E x \in Event : BasicDispatch(h, e, x)
Layered(h) ==
  /\ UNCHANGED commandList
  /\ \/ SyncLast(h) \/ SyncListed(h) \/ Enqueue(h) \/ UserEventDone(h)
     \/ CreateUserEvent(h) \/ SetSomeUserEvent(h)
     \/ \E q \in Queues : ReleaseQueue(h, q)
     \/ \E q \in Queues, k \in Kinds, W \in SUBSET Event, x \in Explicit : CreateCommand(h, q, k, W, x)
     \/ \E e \in Event :
          \/ Finish(h, e) \/ Relock(h, e) \/ BroadcastDone(h, e) \/ ReleaseEvent(h, e)
          \/ \E x \in Event : NotifyFailed(h, e, x) \/ (Notify(h, e, x) /\ ~Dispatchable(x, e))
LEMMA StepCases ==
  ASSUME BasicNext
  PROVE  \E h \in Hosts : Driven(h) \/ Layered(h)
<1>1. PICK h \in Hosts : BasicStep(h) \/ LayerStep(h) \/ BasicApp(h)
  BY DEF BasicNext
<1>2. CASE BasicStep(h)
  BY <1>2 DEF BasicStep, Driven, BasicNotify, Layered
<1>3. CASE LayerStep(h)
  BY <1>3 DEF LayerStep, Driven, Layered
<1>4. CASE BasicApp(h)
  BY <1>4 DEF BasicApp, Driven, Layered
<1> QED BY <1>1, <1>2, <1>3, <1>4

\* What the event layer does is a step of CommandQueue.
LEMMA LayeredNext ==
  ASSUME NEW h \in Hosts, Layered(h)
  PROVE  Next
<1>h. h \in Thread
  BY HostsOnly
<1>1. CASE SyncLast(h) \/ SyncListed(h) \/ Enqueue(h)
  BY <1>1 DEF Next, EnqueueStep
<1>2. CASE UserEventDone(h)
  BY <1>2 DEF Next, WaitStep
<1>3. CASE CreateUserEvent(h) \/ SetSomeUserEvent(h)
  BY <1>3 DEF Next, AppStep
<1>4. ASSUME NEW q \in Queues, ReleaseQueue(h, q) PROVE Next
  BY <1>4 DEF Next, AppStep
<1>5. ASSUME NEW e \in Event, ReleaseEvent(h, e) PROVE Next
  BY <1>5 DEF Next, AppStep
<1>6. ASSUME NEW q \in Queues, NEW k \in Kinds, NEW W \in SUBSET Event, NEW x \in Explicit,
             CreateCommand(h, q, k, W, x)
      PROVE  Next
  BY <1>6 DEF Next, AppStep
<1>7. ASSUME NEW e \in Event,
             \/ Finish(h, e) \/ Relock(h, e) \/ BroadcastDone(h, e)
             \/ \E x \in Event : NotifyFailed(h, e, x) \/ Notify(h, e, x)
      PROVE  Next
  BY <1>h, <1>7 DEF Next, FinishStep
<1> QED BY <1>1, <1>2, <1>3, <1>4, <1>5, <1>6, <1>7 DEF Layered

\* Every variable keeps its type.
LEMMA BasicTypeStep ==
  ASSUME TypeOK, Dispatch, work = <<>>, Takers, NEW h \in Hosts, Driven(h)
  PROVE  TypeOK'
<1>1. CASE BasicSubmit(h)
  <2>1. PICK e \in Commands :
           /\ e = cur[h] /\ e \in Event /\ pc[h] = "submit" /\ status[e] = QUEUED /\ ~ready[e]
           /\ UNCHANGED <<created, kind, queue, needs, refs, waits, notify, held, cqVars, on, todo, finVars, appVars>>
           /\ ready' = [ready EXCEPT ![e] = TRUE] /\ work' = <<>>
           /\ Taken(h, e) \/ Listing(h, e)
    BY <1>1, SubmitFacts
  <2>2. /\ pc' \in [Thread -> PcValues] /\ cur' \in [Thread -> Event \cup {NoEvent}]
        /\ status' \in [Event -> FAILED..QUEUED] /\ ready' \in [Event -> BOOLEAN] /\ work' \in Seq(Event)
    <3>1. pc' = [pc EXCEPT ![h] = "taken"] \/ pc' = [pc EXCEPT ![h] = "idle"]
      BY <2>1 DEF Taken, Listing
    <3>2. pc' \in [Thread -> PcValues]
      BY <3>1 DEF TypeOK, PcValues
    <3>3. cur' = [cur EXCEPT ![h] = e] \/ cur' = [cur EXCEPT ![h] = NoEvent]
      BY <2>1 DEF Taken, Listing
    <3>4. cur' \in [Thread -> Event \cup {NoEvent}]
      BY <2>1, <3>3 DEF TypeOK
    <3>5. PICK v \in {SUBMITTED, QUEUED} : status' = [status EXCEPT ![e] = v]
      BY <2>1 DEF Taken, Listing
    <3>7. v \in FAILED..QUEUED
      BY DEF FAILED, QUEUED, SUBMITTED
    <3>6. status' \in [Event -> FAILED..QUEUED]
      BY <3>5, <3>7 DEF TypeOK
    <3> QED BY <2>1, <3>2, <3>4, <3>6 DEF TypeOK
  <2>3. \A g \in Hosts : Enqueuing(g)' => Enqueuing(g) /\ cur'[g] = cur[g]
    BY <2>1, HostsOnly DEF Taken, Listing, TypeOK, Enqueuing
  <2> QED BY <2>1, <2>2, <2>3 DEF TypeOK, PcValues, Commands, cqVars, finVars, appVars
<1>2. CASE BasicSchedule(h) \/ BasicJoin(h)
  <2>1. /\ work' = <<>>
        /\ UNCHANGED <<identVars, eventVars, cqVars, on, todo, finVars, appVars, commandList>>
        /\ \E l \in {"schedule", "idle"} : pc' = [pc EXCEPT ![h] = l]
        /\ cur' = cur \/ cur' = [cur EXCEPT ![h] = NoEvent]
    BY <1>2, LoopFacts
  <2>2. pc' \in [Thread -> PcValues] /\ cur' \in [Thread -> Event \cup {NoEvent}] /\ work' \in Seq(Event)
    <3>1. pc' = [pc EXCEPT ![h] = "schedule"] \/ pc' = [pc EXCEPT ![h] = "idle"]
      BY <2>1
    <3>2. pc' \in [Thread -> PcValues]
      BY <3>1 DEF TypeOK, PcValues
    <3>3. cur' \in [Thread -> Event \cup {NoEvent}]
      BY <2>1 DEF TypeOK
    <3> QED BY <2>1, <3>2, <3>3
  <2>3. \A g \in Hosts : Enqueuing(g)' => Enqueuing(g) /\ cur'[g] = cur[g]
    BY <2>1, HostsOnly DEF TypeOK, Enqueuing
  <2> QED BY <2>1, <2>2, <2>3 DEF TypeOK, PcValues, Commands, identVars, eventVars, cqVars, finVars, appVars
<1>3. CASE Start(h)
  <2>1. PICK e \in Commands :
           /\ e = cur[h] /\ e \in Event /\ pc[h] = "taken" /\ status[e] = SUBMITTED /\ held[e] = None
           /\ UNCHANGED <<identVars, refs, waits, notify, ready, held, cqVars, work, on, todo, nested, appVars>>
           /\ status' = [status EXCEPT ![e] = RUNNING] /\ phase' = [phase EXCEPT ![h][e] = "finish"]
           /\ cur' = [cur EXCEPT ![h] = NoEvent] /\ pc' = [pc EXCEPT ![h] = "finishing"]
    BY <1>3, StartFacts
  <2>2. pc' \in [Thread -> PcValues] /\ cur' \in [Thread -> Event \cup {NoEvent}]
    BY <2>1 DEF TypeOK, PcValues
  <2>3. status' \in [Event -> FAILED..QUEUED]
    BY <2>1 DEF TypeOK, FAILED, QUEUED, RUNNING
  <2>4. phase' \in [Thread -> [Event -> Phases]]
    BY <2>1 DEF TypeOK, Phases
  <2>5. \A g \in Hosts : Enqueuing(g)' => Enqueuing(g) /\ cur'[g] = cur[g]
    BY <2>1, HostsOnly DEF TypeOK, Enqueuing
  <2> QED BY <2>1, <2>2, <2>3, <2>4, <2>5 DEF TypeOK, PcValues, Phases, Commands, identVars, cqVars, appVars
<1>4. ASSUME NEW e \in Event, BasicRelease(h, e) PROVE TypeOK'
  <2>1. /\ DropRef(e) /\ phase' = [phase EXCEPT ![h][e] = "none"]
        /\ pc' = pc \/ pc' = [pc EXCEPT ![h] = "schedule"]
        /\ UNCHANGED <<identVars, status, waits, notify, ready, held, count, barrier, last,
                 pending, work, cur, on, todo, nested, appVars, commandList>>
    BY <1>4 DEF BasicRelease
  <2>2. pc' \in [Thread -> PcValues]
    BY <2>1 DEF TypeOK, PcValues
  <2>3. phase' \in [Thread -> [Event -> Phases]]
    BY <2>1 DEF TypeOK, Phases
  <2>4. refs' \in [Event -> Int] /\ qrefs' \in [Queues -> Int]
    BY <2>1 DEF DropRef, TypeOK
  <2>5. \A g \in Hosts : Enqueuing(g)' => Enqueuing(g) /\ cur'[g] = cur[g]
    BY <2>1, HostsOnly DEF TypeOK, Enqueuing
  <2> QED BY <2>1, <2>2, <2>3, <2>4, <2>5 DEF TypeOK, PcValues, Phases, Commands, identVars, appVars
<1>5. ASSUME NEW e \in Event, NEW x \in Event, BasicDispatch(h, e, x) PROVE TypeOK'
  <2>1. /\ UNCHANGED <<created, kind, queue, needs, refs, notify, ready, cqVars, on, todo, finVars, appVars>>
        /\ waits' = [waits EXCEPT ![x] = @ \ {e}] /\ status' = [status EXCEPT ![x] = SUBMITTED]
        /\ held' = [held EXCEPT ![e] = h, ![x] = h] /\ work' = <<>>
        /\ cur' = [cur EXCEPT ![h] = x] /\ pc' = [pc EXCEPT ![h] = "taken"]
    BY <1>5, DispatchFacts
  <2>2. /\ pc' \in [Thread -> PcValues] /\ cur' \in [Thread -> Event \cup {NoEvent}]
        /\ status' \in [Event -> FAILED..QUEUED] /\ work' \in Seq(Event)
        /\ waits' \in [Event -> SUBSET Event] /\ held' \in [Event -> Thread \cup {None}]
    <3>1. pc' \in [Thread -> PcValues] /\ cur' \in [Thread -> Event \cup {NoEvent}]
      BY <2>1 DEF TypeOK, PcValues
    <3>2. status' \in [Event -> FAILED..QUEUED]
      BY <2>1 DEF TypeOK, FAILED, QUEUED, SUBMITTED
    <3>3. waits' \in [Event -> SUBSET Event]
      BY <2>1 DEF TypeOK
    <3>4. held' \in [Event -> Thread \cup {None}]
      BY <2>1, HostsOnly DEF TypeOK
    <3> QED BY <2>1, <3>1, <3>2, <3>3, <3>4
  <2>3. \A g \in Hosts : Enqueuing(g)' => Enqueuing(g) /\ cur'[g] = cur[g]
    BY <2>1, HostsOnly DEF TypeOK, Enqueuing
  <2> QED BY <2>1, <2>2, <2>3 DEF TypeOK, PcValues, Commands, cqVars, finVars, appVars
<1> QED BY <1>1, <1>2, <1>3, <1>4, <1>5 DEF Driven
-----------------------------------------------------------------------------
(* Dispatch, which says nothing of driver threads here. *)

LEMMA DriversIdle ==
  ASSUME work = <<>> PROVE InWork /\ InTaken
BY HostsOnly DEF InWork, InTaken

LEMMA BasicDispatchStep ==
  ASSUME TypeOK, Dispatch, Scheduling, NEW h \in Hosts, Driven(h)
  PROVE  Dispatch' /\ work' = <<>>
<1>0. work = <<>> /\ Takers
  BY DEF Scheduling
<1>n. NoFailure /\ Untouched /\ OwnCommand /\ InFinish
  BY DEF Dispatch
<1>d. ASSUME work' = <<>>, NoFailure', Untouched', OwnCommand', InFinish' PROVE Dispatch'
  BY <1>d, HostsOnly DEF Dispatch, InWork, InTaken
<1>1. CASE BasicSubmit(h)
  <2>1. PICK e \in Commands :
           /\ e = cur[h] /\ e \in Event /\ pc[h] = "submit" /\ status[e] = QUEUED /\ ~ready[e]
           /\ UNCHANGED <<created, kind, queue, needs, refs, waits, notify, held, cqVars, on, todo, finVars, appVars>>
           /\ ready' = [ready EXCEPT ![e] = TRUE] /\ work' = <<>>
           /\ Taken(h, e) \/ Listing(h, e)
    BY <1>0, <1>1, SubmitFacts
  <2>2. PICK v \in {SUBMITTED, QUEUED} : status' = [status EXCEPT ![e] = v]
    BY <2>1 DEF Taken, Listing
  <2>3. status'[e] = v /\ \A a \in Event : a # e => status'[a] = status[a] /\ ready'[a] = ready[a]
    BY <2>1, <2>2 DEF TypeOK
  <2>4. Commands' = Commands /\ kind' = kind /\ queue' = queue /\ phase' = phase
    BY <2>1 DEF Commands, finVars
  <2>5. \A g \in Hosts : Enqueuing(g)' => g # h /\ Enqueuing(g) /\ pc'[g] = pc[g] /\ cur'[g] = cur[g]
    BY <2>1, HostsOnly DEF Taken, Listing, TypeOK, Enqueuing
  <2>6. Enqueuing(h)
    BY <2>1 DEF Enqueuing
  <2>7. \A g \in Hosts : Enqueuing(g)' => cur[g] # e /\ cur[g] \in Event
    BY <1>n, <2>1, <2>5, <2>6 DEF OwnCommand, TypeOK, Commands
  <2>8. NoFailure'
    BY <1>n, <2>1, <2>3, <2>4 DEF NoFailure, SUBMITTED, QUEUED, FAILED, COMPLETE
  <2>9. OwnCommand'
    BY <1>n, <2>4, <2>5 DEF OwnCommand
  <2>10. Untouched'
    <3>1. \A a \in Event : kind[a] = "none" => a # e
      BY <2>1 DEF Commands, CommandKinds
    <3>2. \A a \in Event : kind'[a] = "none" => status'[a] = QUEUED
      BY <1>n, <2>3, <2>4, <3>1 DEF Untouched
    <3>3. \A a \in Event : ready'[a] => a \in Commands'
      BY <1>n, <2>1, <2>3, <2>4 DEF Untouched
    <3>4. \A g \in Hosts : Enqueuing(g)' => status'[cur'[g]] = QUEUED /\ ~ready'[cur'[g]]
      BY <1>n, <2>3, <2>5, <2>7 DEF Untouched
    <3> QED BY <1>n, <2>4, <3>2, <3>3, <3>4 DEF Untouched
  <2>11. InFinish'
    BY <1>n, <2>1, <2>3, <2>4 DEF InFinish, QUEUED, RUNNING
  <2> QED BY <1>d, <2>1, <2>8, <2>9, <2>10, <2>11
<1>2. ASSUME work' = <<>>, UNCHANGED <<kind, queue, status, ready>>,
             \A g \in Hosts : Enqueuing(g)' => Enqueuing(g) /\ cur'[g] = cur[g] /\ pc'[g] = pc[g],
             \A t \in Thread, e \in Event :
               phase'[t][e] \in {"finish", "broadcast", "notifying"} => phase'[t][e] = phase[t][e]
      PROVE  Dispatch'
  BY <1>0, <1>2, HostsOnly, QuietStep
<1>3. CASE BasicSchedule(h) \/ BasicJoin(h)
  <2>1. /\ work' = <<>>
        /\ UNCHANGED <<identVars, eventVars, cqVars, on, todo, finVars, appVars, commandList>>
        /\ \E l \in {"schedule", "idle"} : pc' = [pc EXCEPT ![h] = l]
        /\ cur' = cur \/ cur' = [cur EXCEPT ![h] = NoEvent]
    BY <1>0, <1>3, LoopFacts
  <2>2. \A g \in Hosts : Enqueuing(g)' => Enqueuing(g) /\ cur'[g] = cur[g] /\ pc'[g] = pc[g]
    BY <2>1, HostsOnly DEF TypeOK, Enqueuing
  <2> QED BY <1>2, <2>1, <2>2 DEF identVars, eventVars, finVars
<1>4. ASSUME NEW e \in Event, BasicRelease(h, e) PROVE Dispatch' /\ work' = <<>>
  <2>1. /\ phase' = [phase EXCEPT ![h][e] = "none"] /\ work' = <<>>
        /\ pc' = pc \/ pc' = [pc EXCEPT ![h] = "schedule"]
        /\ UNCHANGED <<kind, queue, status, ready, cur>>
    BY <1>0, <1>4 DEF BasicRelease, identVars
  <2>2. \A g \in Hosts : Enqueuing(g)' => Enqueuing(g) /\ cur'[g] = cur[g] /\ pc'[g] = pc[g]
    BY <2>1, HostsOnly DEF TypeOK, Enqueuing
  <2>3. \A t \in Thread, a \in Event : phase'[t][a] # "none" => phase'[t][a] = phase[t][a]
    BY <2>1 DEF TypeOK
  <2> QED BY <1>2, <2>1, <2>2, <2>3
<1>5. CASE Start(h)
  <2>1. PICK e \in Commands :
           /\ e = cur[h] /\ e \in Event /\ pc[h] = "taken" /\ status[e] = SUBMITTED /\ held[e] = None
           /\ UNCHANGED <<identVars, refs, waits, notify, ready, held, cqVars, work, on, todo, nested, appVars>>
           /\ status' = [status EXCEPT ![e] = RUNNING] /\ phase' = [phase EXCEPT ![h][e] = "finish"]
           /\ cur' = [cur EXCEPT ![h] = NoEvent] /\ pc' = [pc EXCEPT ![h] = "finishing"]
    BY <1>0, <1>5, StartFacts
  <2>2. \A g \in Hosts : Enqueuing(g)' => Enqueuing(g) /\ cur'[g] = cur[g] /\ pc'[g] = pc[g]
    BY <2>1, HostsOnly DEF TypeOK, Enqueuing
  <2>3. status'[e] = RUNNING /\ \A a \in Event : a # e => status'[a] = status[a]
    BY <2>1 DEF TypeOK
  <2>4. \A t \in Thread, a \in Event : phase'[t][a] = IF t = h /\ a = e THEN "finish" ELSE phase[t][a]
    BY <2>1, HostsOnly DEF TypeOK
  <2>5. Commands' = Commands /\ kind' = kind /\ queue' = queue /\ ready' = ready
    BY <2>1 DEF Commands, identVars
  <2>6. OwnCommand' /\ Untouched'
    <3>1. \A a \in Event : status[a] = QUEUED => status'[a] = QUEUED
      BY <2>1, <2>3 DEF SUBMITTED, QUEUED
    <3> QED BY <1>n, <2>2, <2>5, <3>1, KeepEnqueuing
  <2>7. NoFailure'
    BY <1>n, <2>1, <2>3, <2>4 DEF NoFailure, RUNNING, SUBMITTED, COMPLETE, FAILED
  <2>8. InFinish'
    <3>1. \A t \in Thread : phase[t][e] # "finish"
      BY <1>n, <2>1 DEF InFinish, SUBMITTED, RUNNING
    <3> QED BY <1>n, <2>3, <2>4, <2>5, <3>1 DEF InFinish
  <2>9. work' = <<>>
    BY <1>0, <2>1
  <2> QED BY <1>d, <2>6, <2>7, <2>8, <2>9
<1>6. ASSUME NEW e \in Event, NEW x \in Event, BasicDispatch(h, e, x) PROVE Dispatch' /\ work' = <<>>
  <2>1. /\ status[x] = QUEUED /\ ready[x] /\ phase' = phase
        /\ UNCHANGED <<kind, queue, ready>> /\ status' = [status EXCEPT ![x] = SUBMITTED]
        /\ cur' = [cur EXCEPT ![h] = x] /\ pc' = [pc EXCEPT ![h] = "taken"] /\ work' = <<>>
    BY <1>0, <1>6, DispatchFacts DEF finVars
  <2>2. \A g \in Hosts : Enqueuing(g)' => Enqueuing(g) /\ cur'[g] = cur[g] /\ pc'[g] = pc[g]
    BY <2>1, HostsOnly DEF TypeOK, Enqueuing
  <2>3. status'[x] = SUBMITTED /\ \A a \in Event : a # x => status'[a] = status[a]
    BY <2>1 DEF TypeOK
  <2>4. OwnCommand' /\ Untouched'
    BY <1>n, <2>1, <2>2, <2>3, KeepEnqueuing
  <2>5. NoFailure'
    BY <1>n, <2>1, <2>3 DEF NoFailure, SUBMITTED, QUEUED, COMPLETE, FAILED
  <2>6. InFinish'
    BY <1>n, <2>1, <2>3 DEF InFinish, Commands, QUEUED, RUNNING
  <2> QED BY <1>d, <2>1, <2>4, <2>5, <2>6
<1>7. CASE BasicSchedule(h) \/ BasicJoin(h)
  BY <1>0, <1>3, <1>7, LoopFacts
<1> QED BY <1>1, <1>3, <1>4, <1>5, <1>6, <1>7 DEF Driven
-----------------------------------------------------------------------------
(* Scheduling. *)

\* A step that leaves alone what a thread has in hand.
LEMMA KeepWorker ==
  ASSUME TypeOK, NEW h \in Hosts, Worker(h),
         \A e \in Event : phase'[h][e] # "none" =>
           phase'[h][e] = phase[h][e] /\ pc'[h] = pc[h] /\ cur'[h] = cur[h],
         \A e \in Event : status[e] = COMPLETE => status'[e] = COMPLETE,
         \A e \in Event : kind[e] = "user" => kind'[e] = "user",
         \A e \in Event : held[e] = h => held'[e] = h /\ notify[e] \subseteq notify'[e]
  PROVE  Worker(h)'
<1>1. ASSUME NEW e \in Event, phase'[h][e] # "none" PROVE Busy(h, e)'
  <2>1. Busy(h, e)
    BY <1>1 DEF Worker
  <2>2. pc[h] = "taken" /\ cur[h] \in notify[e] => cur[h] \in Event
    BY DEF TypeOK
  <2> QED BY <1>1, <2>1, <2>2 DEF Busy
<1>2. \A e \in Event : phase'[h][e] = "release" => status'[e] = COMPLETE
  BY DEF Worker
<1>3. \A e \in Event : phase'[h][e] # "none" => \A f \in Event : phase'[h][f] # "none" => f = e
  BY DEF Worker
<1> QED BY <1>1, <1>2, <1>3 DEF Worker

\* A step that takes nothing from the list and nothing in hand.
LEMMA KeepScheduling ==
  ASSUME TypeOK, Scheduling, work' = <<>>, commandList' = commandList,
         \A e \in Event : e \in Commands' /\ ready'[e] /\ status'[e] = QUEUED <=>
                          e \in Commands /\ ready[e] /\ status[e] = QUEUED,
         \A e \in commandList : waits'[e] # {},
         \A e \in Event, s \in {SUBMITTED, RUNNING} :
           (e \in Commands' /\ status'[e] = s <=> e \in Commands /\ status[e] = s),
         \A h \in Hosts : pc'[h] = "taken" \/ pc[h] = "taken" => pc'[h] = pc[h] /\ cur'[h] = cur[h],
         \A h \in Hosts, e \in Event : phase'[h][e] = "finish" <=> phase[h][e] = "finish"
  PROVE  /\ Pended' /\ Takers' /\ InHand'
         /\ Workers' => Scheduling'
<1>c. \A e \in Commands : e \in Event
  BY DEF Commands
<1>d. \A e \in Commands' : e \in Event
  BY DEF Commands
<1>1. Pended'
  <2>1. {e \in Commands' : ready'[e] /\ status'[e] = QUEUED} = {e \in Commands : ready[e] /\ status[e] = QUEUED}
    BY <1>c, <1>d
  <2> QED BY <2>1 DEF Scheduling, Pended
<1>2. Takers'
  <2>1. ASSUME NEW h \in Hosts, pc'[h] = "taken"
        PROVE  cur'[h] \in Commands' /\ status'[cur'[h]] = SUBMITTED
    <3>1. cur'[h] = cur[h] /\ cur[h] \in Commands /\ status[cur[h]] = SUBMITTED
      BY <2>1 DEF Scheduling, Takers
    <3> QED BY <1>c, <3>1
  <2>2. ASSUME NEW h \in Hosts, NEW g \in Hosts, pc'[h] = "taken", pc'[g] = "taken", cur'[g] = cur'[h]
        PROVE  g = h
    BY <2>2 DEF Scheduling, Takers
  <2> QED BY <2>1, <2>2 DEF Takers
<1>3. InHand'
  BY <1>d DEF Scheduling, InHand
<1> QED BY <1>1, <1>2, <1>3 DEF Scheduling

\* A step that changes the status of one command, which is in hand afterwards.
LEMMA SubmitScheduling ==
  ASSUME TypeOK, Dispatch, Scheduling, NEW h \in Hosts, BasicSubmit(h)
  PROVE  Scheduling'
<1>0. work = <<>> /\ Pended /\ Takers /\ InHand /\ Workers
  BY DEF Scheduling
<1>1. PICK e \in Commands :
         /\ e = cur[h] /\ e \in Event /\ pc[h] = "submit" /\ status[e] = QUEUED /\ ~ready[e]
         /\ UNCHANGED <<created, kind, queue, needs, refs, waits, notify, held, cqVars, on, todo, finVars, appVars>>
         /\ ready' = [ready EXCEPT ![e] = TRUE] /\ work' = <<>>
         /\ Taken(h, e) \/ Listing(h, e)
  BY <1>0, SubmitFacts
<1>2. Commands' = Commands /\ phase' = phase /\ \A a \in Commands : a \in Event
  BY <1>1 DEF Commands, finVars
<1>3. \A g \in Hosts : g # h => pc'[g] = pc[g] /\ cur'[g] = cur[g]
  BY <1>1, HostsOnly DEF Taken, Listing, TypeOK
<1>4. \A a \in Event : a # e => status'[a] = status[a] /\ ready'[a] = ready[a]
  BY <1>1 DEF Taken, Listing, TypeOK
<1>5. ready'[e]
  BY <1>1 DEF TypeOK
<1>6. \A a \in Event : phase[h][a] = "none"
  BY <1>0, <1>1 DEF Workers, Worker, Busy
<1>7. Workers'
  <2>1. ASSUME NEW g \in Hosts PROVE Worker(g)'
    <3>1. \A a \in Event : phase'[g][a] # "none" =>
            phase'[g][a] = phase[g][a] /\ pc'[g] = pc[g] /\ cur'[g] = cur[g]
      BY <1>2, <1>3, <1>6
    <3>2. \A a \in Event : status[a] = COMPLETE => status'[a] = COMPLETE
      BY <1>1, <1>4 DEF QUEUED, COMPLETE
    <3>3. Worker(g)
      BY <1>0 DEF Workers
    <3> QED BY <1>1, <3>1, <3>2, <3>3, KeepWorker
  <2> QED BY <2>1 DEF Workers
<1>8. e \notin commandList
  BY <1>0, <1>1 DEF Pended
<1>9. CASE Taken(h, e)
  <2>1. status'[e] = SUBMITTED /\ pc'[h] = "taken" /\ cur'[h] = e /\ commandList' = commandList
    BY <1>1, <1>9, HostsOnly DEF Taken, TypeOK
  <2>2. Pended'
    <3>1. {a \in Commands : ready'[a] /\ status'[a] = QUEUED} = {a \in Commands : ready[a] /\ status[a] = QUEUED}
      BY <1>1, <1>2, <1>4, <2>1 DEF QUEUED, SUBMITTED
    <3> QED BY <1>0, <1>1, <1>2, <2>1, <3>1 DEF Pended
  <2>3. Takers'
    <3>1. \A g \in Hosts : g # h /\ pc[g] = "taken" => cur[g] \in Commands /\ cur[g] # e /\ status'[cur[g]] = SUBMITTED
      BY <1>0, <1>1, <1>2, <1>4 DEF Takers, QUEUED, SUBMITTED
    <3> QED BY <1>0, <1>2, <1>3, <2>1, <3>1 DEF Takers
  <2>4. InHand'
    <3>1. ASSUME NEW a \in Commands, status'[a] = SUBMITTED PROVE \E g \in Hosts : pc'[g] = "taken" /\ cur'[g] = a
      BY <1>0, <1>1, <1>2, <1>3, <1>4, <2>1, <3>1 DEF InHand
    <3>2. ASSUME NEW a \in Commands, status'[a] = RUNNING PROVE \E g \in Hosts : phase'[g][a] = "finish"
      BY <1>0, <1>2, <1>4, <2>1, <3>2 DEF InHand, SUBMITTED, RUNNING
    <3> QED BY <1>2, <3>1, <3>2 DEF InHand
  <2> QED BY <1>1, <1>7, <2>2, <2>3, <2>4 DEF Scheduling
<1>10. CASE Listing(h, e)
  <2>1. status'[e] = QUEUED /\ pc'[h] = "idle" /\ commandList' = commandList \cup {e} /\ waits[e] # {}
    BY <1>1, <1>10, HostsOnly DEF Listing, TypeOK
  <2>2. Pended'
    <3>1. {a \in Commands : ready'[a] /\ status'[a] = QUEUED} = {a \in Commands : ready[a] /\ status[a] = QUEUED} \cup {e}
      BY <1>1, <1>2, <1>4, <1>5, <2>1
    <3> QED BY <1>0, <1>1, <1>2, <2>1, <3>1 DEF Pended
  <2>3. Takers'
    <3>1. \A g \in Hosts : g # h /\ pc[g] = "taken" => cur[g] \in Commands /\ cur[g] # e /\ status'[cur[g]] = SUBMITTED
      BY <1>0, <1>1, <1>2, <1>4 DEF Takers, QUEUED, SUBMITTED
    <3> QED BY <1>0, <1>2, <1>3, <2>1, <3>1 DEF Takers
  <2>4. InHand'
    <3>1. ASSUME NEW a \in Commands, status'[a] = SUBMITTED PROVE \E g \in Hosts : pc'[g] = "taken" /\ cur'[g] = a
      <4>1. status[a] = SUBMITTED
        BY <1>2, <1>4, <2>1, <3>1 DEF QUEUED, SUBMITTED
      <4> QED BY <1>0, <1>1, <1>3, <4>1 DEF InHand
    <3>2. ASSUME NEW a \in Commands, status'[a] = RUNNING PROVE \E g \in Hosts : phase'[g][a] = "finish"
      BY <1>0, <1>2, <1>4, <2>1, <3>2 DEF InHand, QUEUED, RUNNING
    <3> QED BY <1>2, <3>1, <3>2 DEF InHand
  <2> QED BY <1>1, <1>7, <2>2, <2>3, <2>4 DEF Scheduling
<1> QED BY <1>1, <1>9, <1>10
\* pocl_update_event_running by the thread that took the command.
LEMMA StartScheduling ==
  ASSUME TypeOK, Dispatch, Scheduling, NEW h \in Hosts, Start(h), work' = <<>>, UNCHANGED commandList
  PROVE  Scheduling'
<1>0. work = <<>> /\ Pended /\ Takers /\ InHand /\ Workers
  BY DEF Scheduling
<1>1. PICK e \in Commands :
         /\ e = cur[h] /\ e \in Event /\ pc[h] = "taken" /\ status[e] = SUBMITTED /\ held[e] = None
         /\ UNCHANGED <<identVars, refs, waits, notify, ready, held, cqVars, work, on, todo, nested, appVars>>
         /\ status' = [status EXCEPT ![e] = RUNNING] /\ phase' = [phase EXCEPT ![h][e] = "finish"]
         /\ cur' = [cur EXCEPT ![h] = NoEvent] /\ pc' = [pc EXCEPT ![h] = "finishing"]
  BY <1>0, StartFacts
<1>2. Commands' = Commands /\ kind' = kind /\ \A a \in Commands : a \in Event
  BY <1>1 DEF Commands, identVars
<1>3. /\ pc'[h] = "finishing" /\ status'[e] = RUNNING
      /\ \A g \in Hosts : g # h => pc'[g] = pc[g] /\ cur'[g] = cur[g]
      /\ \A a \in Event : a # e => status'[a] = status[a]
      /\ \A g \in Hosts, a \in Event : phase'[g][a] = IF g = h /\ a = e THEN "finish" ELSE phase[g][a]
  BY <1>1, HostsOnly DEF TypeOK
<1>4. \A a \in Event : phase[h][a] = "none"
  BY <1>0, <1>1, HostsOnly DEF Workers, Worker, Busy
<1>5. Workers'
  <2>1. ASSUME NEW g \in Hosts, g # h PROVE Worker(g)'
    <3>1. \A a \in Event : status[a] = COMPLETE => status'[a] = COMPLETE
      BY <1>1, <1>3 DEF SUBMITTED, COMPLETE
    <3>2. Worker(g)
      BY <1>0 DEF Workers
    <3> QED BY <1>1, <1>2, <1>3, <2>1, <3>1, <3>2, KeepWorker
  <2>2. Worker(h)'
    BY <1>3, <1>4 DEF Worker, Busy
  <2> QED BY <2>1, <2>2 DEF Workers
<1>6. Pended'
  <2>1. {a \in Commands : ready[a] /\ status'[a] = QUEUED} = {a \in Commands : ready[a] /\ status[a] = QUEUED}
    BY <1>1, <1>2, <1>3 DEF QUEUED, SUBMITTED, RUNNING
  <2> QED BY <1>0, <1>1, <1>2, <2>1 DEF Pended
<1>7. Takers'
  <2>1. \A g \in Hosts : g # h /\ pc[g] = "taken" => cur[g] \in Commands /\ cur[g] # e /\ status'[cur[g]] = SUBMITTED
    BY <1>0, <1>1, <1>2, <1>3 DEF Takers
  <2> QED BY <1>0, <1>2, <1>3, <2>1 DEF Takers
<1>8. InHand'
  <2>1. ASSUME NEW a \in Commands, status'[a] = SUBMITTED PROVE \E g \in Hosts : pc'[g] = "taken" /\ cur'[g] = a
    <3>1. a # e /\ status[a] = SUBMITTED
      BY <1>2, <1>3, <2>1 DEF SUBMITTED, RUNNING
    <3> QED BY <1>0, <1>1, <1>3, <3>1 DEF InHand
  <2>2. ASSUME NEW a \in Commands, status'[a] = RUNNING PROVE \E g \in Hosts : phase'[g][a] = "finish"
    <3>1. CASE a = e
      BY <1>3, <3>1, <1>1
    <3>2. CASE a # e
      BY <1>0, <1>2, <1>3, <2>2, <3>2 DEF InHand
    <3> QED BY <3>1, <3>2
  <2> QED BY <1>2, <2>1, <2>2 DEF InHand
<1> QED BY <1>5, <1>6, <1>7, <1>8 DEF Scheduling

\* pocl_basic_notify for a command that is ready: it goes to the thread that
\* broadcasts, which keeps both events locked.
LEMMA DispatchScheduling ==
  ASSUME TypeOK, Dispatch, Scheduling, NEW h \in Hosts, NEW e \in Event, NEW x \in Event, BasicDispatch(h, e, x)
  PROVE  Scheduling'
<1>0. work = <<>> /\ Pended /\ Takers /\ InHand /\ Workers
  BY DEF Scheduling
<1>1. /\ phase[h][e] = "broadcast" /\ x \in notify[e] /\ held[e] = None /\ held[x] = None
      /\ status[e] = COMPLETE /\ status[x] = QUEUED /\ ready[x] /\ x \in Commands
      /\ UNCHANGED <<kind, notify, ready, phase>>
      /\ waits' = [waits EXCEPT ![x] = @ \ {e}] /\ status' = [status EXCEPT ![x] = SUBMITTED]
      /\ held' = [held EXCEPT ![e] = h, ![x] = h] /\ commandList' = commandList \ {x} /\ work' = <<>>
      /\ cur' = [cur EXCEPT ![h] = x] /\ pc' = [pc EXCEPT ![h] = "taken"]
  BY <1>0, DispatchFacts DEF finVars
<1>2. Commands' = Commands /\ \A a \in Commands : a \in Event
  BY <1>1 DEF Commands
<1>3. /\ pc'[h] = "taken" /\ cur'[h] = x /\ status'[x] = SUBMITTED
      /\ \A g \in Hosts : g # h => pc'[g] = pc[g] /\ cur'[g] = cur[g]
      /\ \A a \in Event : a # x => status'[a] = status[a] /\ waits'[a] = waits[a]
  BY <1>1, HostsOnly DEF TypeOK
<1>4. \A a \in Event : held'[a] = IF a \in {e, x} THEN h ELSE held[a]
  BY <1>1 DEF TypeOK
<1>5. pc[h] # "taken"
  BY <1>0, <1>1, HostsOnly DEF Workers, Worker, Busy
<1>6. Workers'
  <2>1. ASSUME NEW g \in Hosts, g # h PROVE Worker(g)'
    <3>1. \A a \in Event : status[a] = COMPLETE => status'[a] = COMPLETE
      BY <1>1, <1>3 DEF QUEUED, COMPLETE
    <3>2. Worker(g)
      BY <1>0 DEF Workers
    <3>3. \A a \in Event : held[a] = g => held'[a] = g
      BY <1>1, <1>4, HostsOnly
    <3> QED BY <1>1, <1>3, <2>1, <3>1, <3>2, <3>3, KeepWorker
  <2>2. ASSUME NEW a \in Event, phase[h][a] # "none"
        PROVE  Busy(h, a)' /\ phase[h][a] # "release" /\ \A f \in Event : phase[h][f] # "none" => f = a
    <3>1. a = e /\ \A f \in Event : phase[h][f] # "none" => f = a
      BY <1>0, <1>1, <2>2 DEF Workers, Worker
    <3>2. Busy(h, a)'
      BY <1>1, <1>3, <1>4, <3>1 DEF Busy
    <3> QED BY <1>1, <3>1, <3>2
  <2>3. Worker(h)'
    BY <1>1, <2>2 DEF Worker
  <2> QED BY <2>1, <2>3 DEF Workers
<1>7. Pended'
  <2>1. {a \in Commands : ready[a] /\ status'[a] = QUEUED} = {a \in Commands : ready[a] /\ status[a] = QUEUED} \ {x}
    BY <1>2, <1>3 DEF QUEUED, SUBMITTED
  <2>2. \A a \in commandList' : a \in commandList /\ a # x /\ a \in Event
    BY <1>0, <1>1, <1>2 DEF Pended
  <2>3. \A a \in commandList' : waits'[a] # {}
    BY <1>0, <1>3, <2>2 DEF Pended
  <2> QED BY <1>0, <1>1, <1>2, <2>1, <2>3 DEF Pended
<1>8. Takers'
  <2>1. \A g \in Hosts : g # h /\ pc[g] = "taken" => cur[g] \in Commands /\ cur[g] # x /\ status'[cur[g]] = SUBMITTED
    BY <1>0, <1>1, <1>2, <1>3 DEF Takers, QUEUED, SUBMITTED
  <2> QED BY <1>0, <1>1, <1>2, <1>3, <2>1 DEF Takers
<1>9. InHand'
  <2>1. ASSUME NEW a \in Commands, status'[a] = SUBMITTED PROVE \E g \in Hosts : pc'[g] = "taken" /\ cur'[g] = a
    <3>1. CASE a = x
      BY <1>3, <3>1
    <3>2. CASE a # x
      BY <1>0, <1>2, <1>3, <1>5, <2>1, <3>2 DEF InHand
    <3> QED BY <3>1, <3>2
  <2>2. ASSUME NEW a \in Commands, status'[a] = RUNNING PROVE \E g \in Hosts : phase'[g][a] = "finish"
    BY <1>0, <1>1, <1>2, <1>3, <2>2 DEF InHand, SUBMITTED, RUNNING
  <2> QED BY <1>2, <2>1, <2>2 DEF InHand
<1> QED BY <1>1, <1>6, <1>7, <1>8, <1>9 DEF Scheduling

\* The steps in and out of the scheduler.
LEMMA LoopScheduling ==
  ASSUME TypeOK, Dispatch, Scheduling, NEW h \in Hosts,
         BasicSchedule(h) \/ BasicJoin(h) \/ \E e \in Event : BasicRelease(h, e)
  PROVE  Scheduling'
<1>0. work = <<>> /\ Workers
  BY DEF Scheduling
<1>r. ASSUME NEW e \in Event, BasicRelease(h, e)
      PROVE  /\ phase[h][e] = "release" /\ phase' = [phase EXCEPT ![h][e] = "none"]
             /\ pc' = [pc EXCEPT ![h] = "schedule"] /\ work' = <<>>
             /\ UNCHANGED <<kind, status, waits, notify, ready, held, cur, commandList>>
             /\ pc[h] = "finishing" /\ \A f \in Event : phase[h][f] # "none" => f = e
  <2>1. /\ phase[h][e] = "release" /\ phase' = [phase EXCEPT ![h][e] = "none"] /\ work' = <<>>
        /\ UNCHANGED <<kind, status, waits, notify, ready, held, cur, commandList>>
    BY <1>0, <1>r DEF BasicRelease, identVars
  <2>2. pc' = [pc EXCEPT ![h] = "schedule"]
    BY <1>r, HostsOnly DEF BasicRelease, Failing, Dispatch, NoFailure
  <2>3. pc[h] = "finishing" /\ \A f \in Event : phase[h][f] # "none" => f = e
    BY <1>0, <2>1 DEF Workers, Worker, Busy
  <2> QED BY <2>1, <2>2, <2>3
<1>l. ASSUME BasicSchedule(h) \/ BasicJoin(h)
      PROVE  /\ pc[h] \in {"schedule", "idle"} /\ work' = <<>>
             /\ UNCHANGED <<kind, status, waits, notify, ready, held, phase, commandList>>
             /\ pc' = [pc EXCEPT ![h] = "schedule"] \/ pc' = [pc EXCEPT ![h] = "idle"]
             /\ cur' = cur \/ cur' = [cur EXCEPT ![h] = NoEvent]
  BY <1>0, <1>l, LoopFacts DEF identVars, eventVars, finVars
<1>1. /\ work' = <<>> /\ UNCHANGED <<kind, status, waits, notify, ready, held, commandList>>
      /\ pc[h] \in {"schedule", "idle", "finishing"} /\ pc'[h] \in {"schedule", "idle"}
      /\ \A g \in Hosts : g # h => pc'[g] = pc[g] /\ cur'[g] = cur[g] /\ phase'[g] = phase[g]
      /\ \A e \in Event : phase'[h][e] = "none"
      /\ \A e \in Event : phase[h][e] # "finish"
  <2>1. ASSUME NEW e \in Event, BasicRelease(h, e) PROVE <1>1!:
    <3>1. \A a \in Event : phase'[h][a] = IF a = e THEN "none" ELSE phase[h][a]
      BY <1>r, <2>1, HostsOnly DEF TypeOK
    <3>2. \A a \in Event : phase'[h][a] = "none" /\ phase[h][a] # "finish"
      BY <1>r, <2>1, <3>1
    <3> QED BY <1>r, <2>1, <3>2, HostsOnly DEF TypeOK
  <2>2. CASE BasicSchedule(h) \/ BasicJoin(h)
    <3>1. \A a \in Event : phase[h][a] = "none"
      BY <1>0, <1>l, <2>2 DEF Workers, Worker, Busy
    <3> QED BY <1>l, <2>2, <3>1, HostsOnly DEF TypeOK
  <2> QED BY <2>1, <2>2
<1>2. Commands' = Commands /\ \A a \in Commands : a \in Event
  BY <1>1 DEF Commands
<1>3. Workers'
  <2>1. ASSUME NEW g \in Hosts, g # h PROVE Worker(g)'
    <3>1. Worker(g)
      BY <1>0 DEF Workers
    <3> QED BY <1>1, <2>1, <3>1, KeepWorker
  <2>2. Worker(h)'
    BY <1>1 DEF Worker
  <2> QED BY <2>1, <2>2 DEF Workers
<1>4. \A g \in Hosts, e \in Event : phase'[g][e] = "finish" <=> phase[g][e] = "finish"
  BY <1>1
<1>5. \A g \in Hosts : pc'[g] = "taken" \/ pc[g] = "taken" => pc'[g] = pc[g] /\ cur'[g] = cur[g]
  BY <1>1
<1>6. \A e \in commandList : waits'[e] # {}
  BY <1>1 DEF Scheduling, Pended
<1> QED BY <1>1, <1>2, <1>3, <1>4, <1>5, <1>6, KeepScheduling
\* A step of the event layer that gives no thread anything to finish.
LEMMA QuietScheduling ==
  ASSUME TypeOK, Dispatch, Scheduling, UNCHANGED <<work, commandList, ready, held>>,
         \A e \in Event : kind[e] # "none" => kind'[e] = kind[e],
         \A e \in Commands : status'[e] = status[e],
         \A e \in Event : kind[e] = "none" /\ e \in Commands' => status'[e] = QUEUED,
         \A e \in Event : status[e] = COMPLETE => status'[e] = COMPLETE,
         \A e \in commandList : waits'[e] # {},
         \A e \in Event : held[e] # None => notify[e] \subseteq notify'[e],
         \A g \in Hosts :
           \/ pc'[g] = pc[g] /\ cur'[g] = cur[g] /\ \A e \in Event : phase'[g][e] = phase[g][e]
           \/ /\ pc[g] # "taken" /\ pc'[g] # "taken"
              /\ \A e \in Event : phase'[g][e] = "none" /\ phase[g][e] # "finish"
  PROVE  Scheduling'
<1>0. work = <<>> /\ Workers /\ Untouched /\ NoFailure
  BY DEF Scheduling, Dispatch
<1>c. \A e \in Event : e \in Commands => e \in Commands'
  BY DEF Commands, CommandKinds
<1>d. \A e \in Event : e \in Commands' => e \in Commands \/ (kind[e] = "none" /\ status'[e] = QUEUED /\ ~ready[e])
  <2>1. ASSUME NEW e \in Event, kind[e] = "none" PROVE ~ready[e]
    BY <1>0, <2>1 DEF Untouched, Commands, CommandKinds
  <2> QED BY <2>1 DEF Commands
<1>1. \A e \in Event : e \in Commands' /\ ready'[e] /\ status'[e] = QUEUED <=>
                       e \in Commands /\ ready[e] /\ status[e] = QUEUED
  BY <1>c, <1>d
<1>2. \A e \in Event, s \in {SUBMITTED, RUNNING} :
        (e \in Commands' /\ status'[e] = s <=> e \in Commands /\ status[e] = s)
  BY <1>c, <1>d DEF QUEUED, SUBMITTED, RUNNING
<1>3. \A g \in Hosts : pc'[g] = "taken" \/ pc[g] = "taken" => pc'[g] = pc[g] /\ cur'[g] = cur[g]
  OBVIOUS
<1>4. \A g \in Hosts, e \in Event : phase'[g][e] = "finish" <=> phase[g][e] = "finish"
  OBVIOUS
<1>5. Workers'
  <2>1. ASSUME NEW g \in Hosts PROVE Worker(g)'
    <3>1. Worker(g)
      BY <1>0 DEF Workers
    <3>2. \A e \in Event : phase'[g][e] # "none" =>
            phase'[g][e] = phase[g][e] /\ pc'[g] = pc[g] /\ cur'[g] = cur[g]
      OBVIOUS
    <3>3. \A e \in Event : kind[e] = "user" => kind'[e] = "user"
      OBVIOUS
    <3>4. \A e \in Event : held[e] = g => held'[e] = g /\ notify[e] \subseteq notify'[e]
      BY HostsOnly
    <3> QED BY <3>1, <3>2, <3>3, <3>4, KeepWorker
  <2> QED BY <2>1 DEF Workers
<1> QED BY <1>0, <1>1, <1>2, <1>3, <1>4, <1>5, KeepScheduling

\* A thread that makes a call of its own finishes nothing.
LEMMA NothingInHand ==
  ASSUME Workers, NEW h \in Hosts, pc[h] \notin {"finishing", "taken", "userDone"}
  PROVE  \A e \in Event : phase[h][e] = "none"
BY DEF Workers, Worker, Busy

LEMMA EnqueueScheduling ==
  ASSUME TypeOK, Dispatch, Scheduling, NEW h \in Hosts, UNCHANGED commandList,
         SyncLast(h) \/ SyncListed(h) \/ Enqueue(h)
  PROVE  Scheduling'
<1>0. Workers /\ Pended /\ commandList \subseteq Event
  BY DEF Scheduling, Pended, Commands
<1>1. /\ UNCHANGED <<kind, status, work, ready, held, cur, phase>> /\ pc[h] \in {"lastSync", "listSync"}
      /\ \E l \in {"listSync", "submit"} : pc' = [pc EXCEPT ![h] = l]
      /\ \E S : Sync(cur[h], S)
  <2>1. CASE SyncLast(h)
    BY <2>1 DEF SyncLast, Goto, identVars, cqVars, finVars, appVars
  <2>2. CASE SyncListed(h)
    <3>1. pc' = [pc EXCEPT ![h] = "listSync"]
      BY <2>2, HostsOnly DEF SyncListed, TypeOK
    <3> QED BY <2>2, <3>1 DEF SyncListed, identVars, cqVars, finVars, appVars
  <2>3. CASE Enqueue(h)
    BY <2>3 DEF Enqueue, Goto, finVars
  <2> QED BY <2>1, <2>2, <2>3
<1>2. \A e \in Event : waits[e] \subseteq waits'[e] /\ notify[e] \subseteq notify'[e]
  BY <1>1 DEF Sync, TypeOK
<1>3. \A e \in commandList : waits'[e] # {}
  BY <1>0, <1>2 DEF Pended
<1>4. \A e \in Event : phase[h][e] = "none"
  BY <1>0, <1>1, NothingInHand
<1>5. \A g \in Hosts :
        \/ pc'[g] = pc[g] /\ cur'[g] = cur[g] /\ \A e \in Event : phase'[g][e] = phase[g][e]
        \/ /\ pc[g] # "taken" /\ pc'[g] # "taken"
           /\ \A e \in Event : phase'[g][e] = "none" /\ phase[g][e] # "finish"
  <2>1. pc'[h] \in {"listSync", "submit"} /\ \A g \in Hosts : g # h => pc'[g] = pc[g]
    BY <1>1, HostsOnly DEF TypeOK
  <2> QED BY <1>1, <1>4, <2>1
<1>6. Commands' = Commands /\ \A e \in Commands : kind[e] # "none"
  BY <1>1 DEF Commands, CommandKinds
<1> QED BY <1>1, <1>2, <1>3, <1>5, <1>6, QuietScheduling

\* The application's own calls.
LEMMA CallScheduling ==
  ASSUME TypeOK, Dispatch, Scheduling, NEW h \in Hosts, UNCHANGED commandList,
         \/ UserEventDone(h) \/ CreateUserEvent(h)
         \/ \E q \in Queues : ReleaseQueue(h, q)
         \/ \E e \in Event : ReleaseEvent(h, e)
         \/ \E q \in Queues, k \in Kinds, W \in SUBSET Event, x \in Explicit : CreateCommand(h, q, k, W, x)
  PROVE  Scheduling'
<1>0. Workers /\ Pended /\ commandList \subseteq Commands
  BY DEF Scheduling, Pended
<1>1. UNCHANGED <<work, ready, held, waits, notify, phase>>
  BY DEF UserEventDone, CreateUserEvent, ReleaseQueue, ReleaseEvent, CreateCommand, eventVars, cqVars, finVars
<1>2. \A e \in Commands : kind[e] # "none"
  BY DEF Commands, CommandKinds
<1>3. /\ \A e \in Event : kind[e] # "none" => kind'[e] = kind[e]
      /\ \A e \in Commands : status'[e] = status[e]
      /\ \A e \in Event : kind[e] = "none" /\ e \in Commands' => status'[e] = QUEUED
      /\ \A e \in Event : status[e] = COMPLETE => status'[e] = COMPLETE
  <2>1. CASE UserEventDone(h) \/ (\E q \in Queues : ReleaseQueue(h, q)) \/ \E e \in Event : ReleaseEvent(h, e)
    <3>1. UNCHANGED <<kind, status>>
      BY <2>1 DEF UserEventDone, ReleaseQueue, ReleaseEvent, identVars, eventVars
    <3> QED BY <1>2, <3>1 DEF Commands
  <2>2. CASE CreateUserEvent(h)
    <3>1. /\ created + 1 \in Event /\ kind[created + 1] = "none" /\ status[created + 1] = QUEUED
          /\ created + 1 \notin Commands
          /\ status' = [status EXCEPT ![created + 1] = SUBMITTED]
          /\ kind' = [kind EXCEPT ![created + 1] = "user"] /\ Commands' = Commands
      BY <2>2, CreateUserFacts
    <3>2. \A e \in Event : e # created + 1 => kind'[e] = kind[e] /\ status'[e] = status[e]
      BY <3>1 DEF TypeOK
    <3> QED BY <1>2, <3>1, <3>2 DEF QUEUED, COMPLETE, Commands
  <2>3. ASSUME NEW q \in Queues, NEW k \in Kinds, NEW W \in SUBSET Event, NEW x \in Explicit,
               CreateCommand(h, q, k, W, x)
        PROVE  <1>3!:
    <3>1. /\ created + 1 \in Event /\ kind[created + 1] = "none" /\ status[created + 1] = QUEUED
          /\ status' = status
          /\ kind' = [kind EXCEPT ![created + 1] = k] /\ Commands' = Commands \cup {created + 1}
      BY <2>3, CreateFacts, ZenonT(60)
    <3>2. \A e \in Event : e # created + 1 => kind'[e] = kind[e]
      BY <3>1 DEF TypeOK
    <3> QED BY <1>2, <3>1, <3>2
  <2> QED BY <2>1, <2>2, <2>3
<1>4. \A g \in Hosts :
        \/ pc'[g] = pc[g] /\ cur'[g] = cur[g] /\ \A e \in Event : phase'[g][e] = phase[g][e]
        \/ /\ pc[g] # "taken" /\ pc'[g] # "taken"
           /\ \A e \in Event : phase'[g][e] = "none" /\ phase[g][e] # "finish"
  <2>1. CASE UserEventDone(h)
    <3>1. pc[h] = "userDone" /\ pc'[h] = "idle" /\ phase[h][cur[h]] = "none"
      BY <2>1, HostsOnly DEF UserEventDone
    <3>2. \A e \in Event : phase[h][e] = "none"
      BY <1>0, <3>1 DEF Workers, Worker, Busy
    <3>3. \A g \in Hosts : g # h =>
            /\ cur'[g] = cur[g]
            /\ pc'[g] = pc[g] \/ (pc[g] = "eventWait" /\ pc'[g] = "wait")
      BY <2>1, HostsOnly DEF UserEventDone, WaitsForEvent, TypeOK
    <3>4. \A g \in Hosts : pc[g] = "eventWait" => \A e \in Event : phase[g][e] = "none"
      BY <1>0, NothingInHand
    <3> QED BY <1>1, <3>1, <3>2, <3>3, <3>4
  <2>2. CASE CreateUserEvent(h) \/ (\E q \in Queues : ReleaseQueue(h, q)) \/ \E e \in Event : ReleaseEvent(h, e)
    BY <1>1, <2>2 DEF CreateUserEvent, ReleaseQueue, ReleaseEvent, callVars
  <2>3. ASSUME NEW q \in Queues, NEW k \in Kinds, NEW W \in SUBSET Event, NEW x \in Explicit,
               CreateCommand(h, q, k, W, x)
        PROVE  <1>4!:
    <3>1. pc[h] = "idle" /\ cur' = [cur EXCEPT ![h] = created + 1]
          /\ pc' = [pc EXCEPT ![h] = IF q \in InOrder THEN "lastSync" ELSE "listSync"]
      BY <2>3, CreateFacts
    <3>2. pc'[h] # "taken" /\ \A g \in Hosts : g # h => pc'[g] = pc[g] /\ cur'[g] = cur[g]
      BY <3>1, HostsOnly DEF TypeOK
    <3>3. \A e \in Event : phase[h][e] = "none"
      BY <1>0, <3>1, NothingInHand
    <3> QED BY <1>1, <3>1, <3>2, <3>3
  <2> QED BY <2>1, <2>2, <2>3
<1>5. \A e \in commandList : waits'[e] # {}
  BY <1>0, <1>1 DEF Pended
<1> QED BY <1>1, <1>3, <1>4, <1>5, QuietScheduling

LEMMA SetUserScheduling ==
  ASSUME TypeOK, Dispatch, Scheduling, NoFailures, NEW h \in Hosts, UNCHANGED commandList, SetSomeUserEvent(h)
  PROVE  Scheduling'
<1>0. Workers /\ Pended
  BY DEF Scheduling
<1>1. PICK e \in Event, s \in UserStatuses : SetUserEventStatus(h, e, s)
  BY DEF SetSomeUserEvent
<1>2. /\ pc[h] = "idle" /\ kind[e] = "user" /\ status' = [status EXCEPT ![e] = COMPLETE]
      /\ phase' = [phase EXCEPT ![h][e] = "broadcast"] /\ cur' = [cur EXCEPT ![h] = e]
      /\ pc' = [pc EXCEPT ![h] = "userDone"]
      /\ UNCHANGED <<kind, ready, waits, notify, held, work>>
  BY <1>1 DEF SetUserEventStatus, NoFailures, Goto, identVars
<1>3. Commands' = Commands /\ e \notin Commands
  BY <1>2 DEF Commands, CommandKinds
<1>4. /\ \A a \in Event : a # e => status'[a] = status[a]
      /\ status'[e] = COMPLETE /\ pc'[h] = "userDone" /\ cur'[h] = e
      /\ \A g \in Hosts : g # h => pc'[g] = pc[g] /\ cur'[g] = cur[g]
      /\ \A g \in Hosts, a \in Event : phase'[g][a] = IF g = h /\ a = e THEN "broadcast" ELSE phase[g][a]
  BY <1>2, HostsOnly DEF TypeOK
<1>5. \A a \in Event : phase[h][a] = "none"
  BY <1>0, <1>2, NothingInHand
<1>6. Workers'
  <2>1. ASSUME NEW g \in Hosts, g # h PROVE Worker(g)'
    <3>1. Worker(g)
      BY <1>0 DEF Workers
    <3>2. \A a \in Event : status[a] = COMPLETE => status'[a] = COMPLETE
      BY <1>4
    <3> QED BY <1>2, <1>4, <2>1, <3>1, <3>2, KeepWorker
  <2>2. Worker(h)'
    BY <1>2, <1>4, <1>5 DEF Worker, Busy
  <2> QED BY <2>1, <2>2 DEF Workers
<1>7. \A a \in Event : a \in Commands => status'[a] = status[a]
  BY <1>3, <1>4
<1>8. \A g \in Hosts, a \in Event : phase'[g][a] = "finish" <=> phase[g][a] = "finish"
  BY <1>4, <1>5
<1>9. \A g \in Hosts : pc'[g] = "taken" \/ pc[g] = "taken" => pc'[g] = pc[g] /\ cur'[g] = cur[g]
  BY <1>2, <1>4
<1>10. \A a \in commandList : waits'[a] # {}
  BY <1>0, <1>2 DEF Pended
<1>11. work' = <<>>
  BY <1>2 DEF Scheduling
<1> QED BY <1>2, <1>3, <1>6, <1>7, <1>8, <1>9, <1>10, <1>11, KeepScheduling

\* pocl_basic_notify for a command that still waits for something else.
LEMMA NotifyScheduling ==
  ASSUME TypeOK, Dispatch, Scheduling, NEW h \in Hosts, UNCHANGED commandList,
         NEW e \in Event, NEW x \in Event, Notify(h, e, x), ~Dispatchable(x, e)
  PROVE  Scheduling'
<1>0. Pended
  BY DEF Scheduling
<1>1. /\ held[e] = None /\ UNCHANGED <<kind, status, ready, held, work, pc, cur, phase>>
      /\ waits' = [waits EXCEPT ![x] = @ \ {e}] /\ notify' = [notify EXCEPT ![e] = @ \ {x}]
  BY DEF Notify, Unlocked, identVars, cqVars, callVars, finVars
<1>2. Commands' = Commands /\ \A a \in Commands : kind[a] # "none"
  BY <1>1 DEF Commands, CommandKinds
<1>3. \A a \in commandList : waits'[a] # {}
  <2>1. ASSUME NEW a \in commandList PROVE waits'[a] # {}
    <3>1. a \in Event /\ ready[a] /\ status[a] = QUEUED /\ waits[a] # {}
      BY <1>0 DEF Pended, Commands
    <3>2. CASE a = x
      <4>1. ~(waits[x] \subseteq {e})
        BY <3>1, <3>2 DEF Dispatchable
      <4> QED BY <1>1, <3>2, <4>1 DEF TypeOK
    <3>3. CASE a # x
      BY <1>1, <3>1, <3>3 DEF TypeOK
    <3> QED BY <3>2, <3>3
  <2> QED BY <2>1
<1>4. \A a \in Event : held[a] # None => notify[a] \subseteq notify'[a]
  BY <1>1 DEF TypeOK
<1> QED BY <1>1, <1>2, <1>3, <1>4, QuietScheduling

\* The end of a broadcast: the thread has not gone into a command.
LEMMA BroadcastScheduling ==
  ASSUME TypeOK, Dispatch, Scheduling, NEW h \in Hosts, UNCHANGED commandList,
         NEW e \in Event, BroadcastDone(h, e)
  PROVE  Scheduling'
<1>0. Workers /\ Pended /\ NoFailure
  BY DEF Scheduling, Dispatch
<1>1. /\ phase[h][e] = "broadcast" /\ notify[e] = {} /\ status[e] = COMPLETE
      /\ phase' = [phase EXCEPT ![h][e] = IF kind[e] = "user" THEN "none" ELSE "release"]
      /\ UNCHANGED <<kind, status, waits, notify, ready, held, work, pc, cur>>
  BY <1>0, HostsOnly DEF BroadcastDone, NoFailure, identVars, eventVars, callVars
<1>2. Commands' = Commands
  BY <1>1 DEF Commands
<1>3. /\ phase'[h][e] = IF kind[e] = "user" THEN "none" ELSE "release"
      /\ \A g \in Hosts, a \in Event : g # h \/ a # e => phase'[g][a] = phase[g][a]
  BY <1>1, HostsOnly DEF TypeOK
<1>4. Workers'
  <2>1. ASSUME NEW g \in Hosts, g # h PROVE Worker(g)'
    <3>1. Worker(g)
      BY <1>0 DEF Workers
    <3> QED BY <1>1, <1>3, <2>1, <3>1, KeepWorker
  <2>2. Busy(h, e) /\ \A a \in Event : phase[h][a] # "none" => a = e
    BY <1>0, <1>1 DEF Workers, Worker
  <2>a. \A a \in Event : a # e => phase'[h][a] = "none"
    BY <1>3, <2>2
  <2>5. Worker(h)'
    <3>1. CASE kind[e] = "user"
      <4>1. \A a \in Event : phase'[h][a] = "none"
        BY <1>3, <2>a, <3>1
      <4> QED BY <4>1 DEF Worker
    <3>2. CASE kind[e] # "user"
      <4>1. pc'[h] = "finishing" /\ status'[e] = COMPLETE
        BY <1>1, <2>2, <3>2 DEF Busy
      <4> QED BY <2>a, <4>1 DEF Worker, Busy
    <3> QED BY <3>1, <3>2
  <2> QED BY <2>1, <2>5 DEF Workers
<1>5. \A g \in Hosts, a \in Event : phase'[g][a] = "finish" <=> phase[g][a] = "finish"
  BY <1>1, <1>3
<1>6. \A a \in commandList : waits'[a] # {}
  BY <1>0, <1>1 DEF Pended
<1>7. work' = <<>>
  BY <1>1 DEF Scheduling
<1> QED BY <1>1, <1>2, <1>4, <1>5, <1>6, <1>7, KeepScheduling

\* pocl_update_event_finished: the command leaves the thread's hands.
LEMMA FinishScheduling ==
  ASSUME TypeOK, Dispatch, Scheduling, NEW h \in Hosts, UNCHANGED commandList,
         NEW e \in Event, Finish(h, e)
  PROVE  Scheduling'
<1>0. work = <<>> /\ Workers /\ Pended /\ Takers /\ InHand /\ NoFailure /\ InFinish
  BY DEF Scheduling, Dispatch
<1>1. /\ phase[h][e] = "finish" /\ status[e] = RUNNING /\ e \in Commands
      /\ status' = [status EXCEPT ![e] = COMPLETE]
      /\ phase' = [phase EXCEPT ![h][e] = "broadcast"]
      /\ UNCHANGED <<kind, waits, notify, ready, held, work, cur>>
  BY <1>0, HostsOnly DEF Finish, NoFailure, Failing, InFinish, identVars
<1>2. \A g \in Hosts : pc'[g] = pc[g] \/ (pc[g] \in {"joinWait", "eventWait"} /\ pc'[g] \in {"join", "wait"})
  BY HostsOnly DEF Finish, WaitsForQueue, WaitsForEvent
<1>3. Commands' = Commands /\ \A a \in Commands : a \in Event
  BY <1>1 DEF Commands
<1>4. /\ status'[e] = COMPLETE /\ \A a \in Event : a # e => status'[a] = status[a]
      /\ \A g \in Hosts, a \in Event : phase'[g][a] = IF g = h /\ a = e THEN "broadcast" ELSE phase[g][a]
  BY <1>1, HostsOnly DEF TypeOK
<1>5. Workers'
  <2>0. \A g \in Hosts, a \in Event : phase[g][a] # "none" => pc'[g] = pc[g]
    BY <1>0, <1>2, NothingInHand
  <2>1. ASSUME NEW g \in Hosts, g # h PROVE Worker(g)'
    <3>1. Worker(g)
      BY <1>0 DEF Workers
    <3>2. \A a \in Event : phase'[g][a] # "none" =>
            phase'[g][a] = phase[g][a] /\ pc'[g] = pc[g] /\ cur'[g] = cur[g]
      BY <1>1, <1>4, <2>0, <2>1
    <3>3. \A a \in Event : status[a] = COMPLETE => status'[a] = COMPLETE
      BY <1>4
    <3> QED BY <1>1, <3>1, <3>2, <3>3, KeepWorker
  <2>2. Worker(h)'
    <3>1. Busy(h, e) /\ \A a \in Event : phase[h][a] # "none" => a = e
      BY <1>0, <1>1 DEF Workers, Worker
    <3>2. pc'[h] = "finishing"
      BY <1>1, <2>0, <3>1 DEF Busy
    <3> QED BY <1>1, <1>4, <3>1, <3>2 DEF Worker, Busy
  <2> QED BY <2>1, <2>2 DEF Workers
<1>6. \A g \in Hosts : pc'[g] = "taken" \/ pc[g] = "taken" => pc'[g] = pc[g]
  BY <1>2
<1>7. Pended'
  <2>1. {a \in Commands : ready[a] /\ status'[a] = QUEUED} = {a \in Commands : ready[a] /\ status[a] = QUEUED}
    BY <1>1, <1>3, <1>4 DEF QUEUED, RUNNING, COMPLETE
  <2> QED BY <1>0, <1>1, <1>3, <2>1 DEF Pended
<1>8. Takers'
  <2>1. \A g \in Hosts : pc[g] = "taken" => cur[g] \in Commands /\ status'[cur[g]] = SUBMITTED
    BY <1>0, <1>1, <1>3, <1>4 DEF Takers, SUBMITTED, RUNNING
  <2> QED BY <1>0, <1>1, <1>3, <1>6, <2>1 DEF Takers
<1>9. InHand'
  <2>1. ASSUME NEW a \in Commands, status'[a] \in {SUBMITTED, RUNNING} PROVE a # e /\ status'[a] = status[a]
    BY <1>3, <1>4, <2>1 DEF SUBMITTED, RUNNING, COMPLETE
  <2>2. ASSUME NEW a \in Commands, status'[a] = SUBMITTED PROVE \E g \in Hosts : pc'[g] = "taken" /\ cur'[g] = a
    BY <1>0, <1>1, <1>6, <2>1, <2>2 DEF InHand
  <2>3. ASSUME NEW a \in Commands, status'[a] = RUNNING PROVE \E g \in Hosts : phase'[g][a] = "finish"
    BY <1>0, <1>3, <1>4, <2>1, <2>3 DEF InHand
  <2> QED BY <1>3, <2>2, <2>3 DEF InHand
<1> QED BY <1>0, <1>1, <1>5, <1>7, <1>8, <1>9 DEF Scheduling

LEMMA SchedulingStep ==
  ASSUME TypeOK, Dispatch, Scheduling, NoFailures, [BasicNext]_bvars
  PROVE  Scheduling'
<1>1. CASE UNCHANGED bvars
  BY <1>1 DEF bvars, vars, identVars, eventVars, cqVars, callVars, finVars, appVars, Scheduling, Pended,
              Takers, InHand, Workers, Worker, Busy, Commands
<1>2. ASSUME NEW h \in Hosts, Driven(h) PROVE Scheduling'
  <2>1. CASE Start(h) /\ UNCHANGED commandList
    <3>1. work' = <<>>
      BY <2>1 DEF Start, Scheduling
    <3> QED BY <2>1, <3>1, StartScheduling
  <2> QED BY <1>2, <2>1, SubmitScheduling, LoopScheduling, DispatchScheduling DEF Driven
<1>3. ASSUME NEW h \in Hosts, Layered(h) PROVE Scheduling'
  <2>1. CASE SyncLast(h) \/ SyncListed(h) \/ Enqueue(h)
    BY <1>3, <2>1, EnqueueScheduling DEF Layered
  <2>2. CASE \/ UserEventDone(h) \/ CreateUserEvent(h)
             \/ \E q \in Queues : ReleaseQueue(h, q)
             \/ \E e \in Event : ReleaseEvent(h, e)
             \/ \E q \in Queues, k \in Kinds, W \in SUBSET Event, x \in Explicit : CreateCommand(h, q, k, W, x)
    BY <1>3, <2>2, CallScheduling DEF Layered
  <2>3. CASE SetSomeUserEvent(h)
    BY <1>3, <2>3, SetUserScheduling DEF Layered
  <2>4. ASSUME NEW e \in Event,
               \/ Finish(h, e) \/ Relock(h, e) \/ BroadcastDone(h, e)
               \/ \E x \in Event : NotifyFailed(h, e, x) \/ (Notify(h, e, x) /\ ~Dispatchable(x, e))
        PROVE  Scheduling'
    <3>1. ~Relock(h, e) /\ \A x \in Event : ~NotifyFailed(h, e, x)
      BY HostsOnly DEF Relock, NotifyFailed, Dispatch, NoFailure
    <3> QED BY <1>3, <2>4, <3>1, FinishScheduling, BroadcastScheduling, NotifyScheduling DEF Layered
  <2> QED BY <1>3, <2>1, <2>2, <2>3, <2>4 DEF Layered
<1> QED BY <1>1, <1>2, <1>3, StepCases
-----------------------------------------------------------------------------
(* The theorem about the driver's lists. *)

LEMMA BasicInitial ==
  ASSUME BasicInit
  PROVE  OrderedInv
<1>1. TypeOK /\ Dispatch /\ Order
  BY InitInvariant DEF BasicInit, IInv
<1>2. work = <<>> /\ commandList = {} /\ app = {} /\ Commands = {}
  BY DEF BasicInit, Init, Commands, CommandKinds
<1>3. \A h \in Hosts : pc[h] = "idle" /\ \A e \in Event : phase[h][e] = "none"
  BY HostsOnly DEF BasicInit, Init
<1>4. Scheduling
  BY <1>2, <1>3 DEF Scheduling, Pended, Takers, InHand, Workers, Worker
<1> QED BY <1>1, <1>2, <1>4 DEF OrderedInv, BasicInv, Known

LEMMA BasicInvStep ==
  ASSUME BasicInv, NoFailures, [BasicNext]_bvars
  PROVE  BasicInv'
<1>0. TypeOK /\ Dispatch /\ work = <<>> /\ Takers
  BY DEF BasicInv, Scheduling
<1>1. TypeOK' /\ Dispatch'
  <2>1. CASE UNCHANGED bvars
    <3>1. UNCHANGED vars
      BY <2>1 DEF bvars
    <3> QED BY <1>0, <3>1, TypeStep, DispatchStep
  <2>2. ASSUME NEW h \in Hosts, Driven(h) PROVE TypeOK' /\ Dispatch'
    BY <1>0, <2>2, BasicTypeStep, BasicDispatchStep DEF BasicInv, Scheduling
  <2>3. ASSUME NEW h \in Hosts, Layered(h) PROVE TypeOK' /\ Dispatch'
    <3>1. Next
      BY <2>3, LayeredNext
    <3> QED BY <1>0, <3>1, TypeStep, DispatchStep
  <2> QED BY <2>1, <2>2, <2>3, StepCases
<1>2. Scheduling'
  BY SchedulingStep DEF BasicInv
<1> QED BY <1>1, <1>2 DEF BasicInv

\* In an application that fails no user event a command is on the list of
\* waiting commands or in the hands of one thread: pocl_basic_submit,
\* pocl_basic_notify and basic_command_scheduler agree on who runs it, although
\* they are called by any application thread.
THEOREM BasicInvariance == NoFailures => (BasicSpec => []BasicInv)
<1> SUFFICES ASSUME NoFailures PROVE BasicSpec => []BasicInv
  OBVIOUS
<1>1. BasicInit => BasicInv
  BY BasicInitial DEF OrderedInv
<1>2. BasicInv /\ [BasicNext]_bvars => BasicInv'
  BY BasicInvStep
<1> QED BY <1>1, <1>2, PTL DEF BasicSpec

LEMMA OneThread ==
  ASSUME NEW S, NEW h \in S, \A g \in S : g = h
  PROVE  Cardinality(S) = 1
<1>1. S = {h}
  OBVIOUS
<1> QED BY <1>1, FS_Singleton

\* The places of the driver (BasicPlaces), for any number of threads, events and queues.
THEOREM PlacesKept == NoFailures => (BasicSpec => []BasicPlaces)
<1> SUFFICES ASSUME NoFailures PROVE BasicSpec => []BasicPlaces
  OBVIOUS
<1>1. BasicInv => BasicPlaces
  <2> SUFFICES ASSUME BasicInv PROVE BasicPlaces
    OBVIOUS
  <2>0. work = <<>> /\ Pended /\ Takers /\ InHand /\ Workers /\ InFinish
    BY DEF BasicInv, Scheduling, Dispatch
  <2>1. ASSUME NEW e \in Commands, ready[e], status[e] = QUEUED PROVE e \in commandList /\ waits[e] # {}
    BY <2>0, <2>1 DEF Pended
  <2>2. ASSUME NEW e \in Commands, status[e] \in {SUBMITTED, RUNNING}
        PROVE  e \notin commandList /\ Cardinality(Executing(e)) = 1
    <3>0. e \in Event
      BY DEF Commands
    <3>1. e \notin commandList
      BY <2>0, <2>2 DEF Pended, QUEUED, SUBMITTED, RUNNING
    <3>2. ASSUME NEW h \in Hosts, phase[h][e] # "none" PROVE phase[h][e] = "finish" /\ status[e] = RUNNING
      <4>1. phase[h][e] \in {"finish", "broadcast", "notifying", "release"}
        BY <3>0, <3>2, HostsOnly DEF BasicInv, TypeOK
      <4>2. status[e] # COMPLETE
        BY <2>2 DEF SUBMITTED, RUNNING, COMPLETE
      <4>3. phase[h][e] \notin {"broadcast", "notifying", "release"}
        BY <2>0, <3>0, <3>2, <4>2, HostsOnly DEF BasicInv, Dispatch, NoFailure, Workers, Worker
      <4>4. phase[h][e] = "finish"
        BY <4>1, <4>3
      <4> QED BY <2>0, <3>0, <4>4, HostsOnly DEF InFinish
    <3>3. CASE status[e] = SUBMITTED
      <4>1. PICK h \in Hosts : pc[h] = "taken" /\ cur[h] = e
        BY <2>0, <3>3 DEF InHand
      <4>2. \A g \in Executing(e) : g = h
        BY <2>0, <3>2, <3>3, <4>1 DEF Executing, Takers, SUBMITTED, RUNNING
      <4>3. h \in Executing(e)
        BY <4>1 DEF Executing
      <4> QED BY <3>1, <4>2, <4>3, OneThread
    <3>4. CASE status[e] = RUNNING
      <4>1. PICK h \in Hosts : phase[h][e] = "finish"
        BY <2>0, <3>4 DEF InHand
      <4>2. \A g \in Hosts : pc[g] = "taken" => cur[g] # e
        BY <2>0, <3>4 DEF Takers, SUBMITTED, RUNNING
      <4>3. \A g \in Hosts : phase[g][e] # "none" => g = h
        BY <2>0, <3>0, <3>2, <4>1, HostsOnly DEF InFinish
      <4>4. h \in Executing(e) /\ \A g \in Executing(e) : g = h
        BY <4>1, <4>2, <4>3 DEF Executing
      <4> QED BY <3>1, <4>4, OneThread
    <3> QED BY <2>2, <3>3, <3>4
  <2> QED BY <2>0, <2>1, <2>2 DEF BasicPlaces
<1>2. BasicSpec => []BasicInv
  BY BasicInvariance
<1> QED BY <1>1, <1>2, PTL
-----------------------------------------------------------------------------
(* The order of commands under this driver. *)

LEMMA OrderBasicSubmit ==
  ASSUME TypeOK, Dispatch, Order, work = <<>>, NEW h \in Hosts, BasicSubmit(h)
  PROVE  Order'
<1>1. PICK e \in Commands :
         /\ e = cur[h] /\ e \in Event /\ pc[h] = "submit" /\ status[e] = QUEUED /\ ~ready[e]
         /\ UNCHANGED <<created, kind, queue, needs, refs, waits, notify, held, cqVars, on, todo, finVars, appVars>>
         /\ ready' = [ready EXCEPT ![e] = TRUE] /\ work' = <<>>
         /\ Taken(h, e) \/ Listing(h, e)
  BY SubmitFacts
<1>2. PICK v \in {SUBMITTED, QUEUED} :
        status' = [status EXCEPT ![e] = v] /\ (v = SUBMITTED => waits[e] = {})
  BY <1>1 DEF Taken, Listing, QUEUED, SUBMITTED
<1>3. status'[e] = v /\ \A a \in Event : a # e => status'[a] = status[a]
  BY <1>1, <1>2 DEF TypeOK
<1>4. /\ pc'[h] \in {"taken", "idle"}
      /\ \A g \in Hosts : g # h => pc'[g] = pc[g] /\ cur'[g] = cur[g]
  BY <1>1, HostsOnly DEF Taken, Listing, TypeOK
<1>5. \A g \in Hosts : pc[g] \in {"lastSync", "listSync"} => cur[g] # e
  BY <1>1 DEF Dispatch, OwnCommand, Enqueuing
<1>6. waits[e] = {} => \A d \in needs[e] : status[d] = COMPLETE
  BY <1>1, <1>5, NeedsMet
<1>7. Commands' = Commands /\ UNCHANGED <<kind, queue, waits, barrier, last, pending, needs, todo>>
  BY <1>1 DEF Commands, cqVars
<1>8. \A a \in Event : /\ status[a] = COMPLETE <=> status'[a] = COMPLETE
                       /\ status'[a] = QUEUED => status[a] = QUEUED
                       /\ status[a] = QUEUED /\ status'[a] # QUEUED => a = e /\ waits[e] = {}
  BY <1>1, <1>2, <1>3 DEF QUEUED, SUBMITTED, COMPLETE
<1>9. \A c \in Commands : c \in Event
  BY DEF Commands
<1> QED BY <1>1, <1>4, <1>6, <1>7, <1>8, <1>9, KeepOrder

LEMMA OrderBasicStart ==
  ASSUME TypeOK, Dispatch, Order, Takers, NEW h \in Hosts, Start(h)
  PROVE  Order'
<1>1. PICK e \in Commands :
         /\ e = cur[h] /\ e \in Event /\ pc[h] = "taken" /\ status[e] = SUBMITTED /\ held[e] = None
         /\ UNCHANGED <<identVars, refs, waits, notify, ready, held, cqVars, work, on, todo, nested, appVars>>
         /\ status' = [status EXCEPT ![e] = RUNNING] /\ phase' = [phase EXCEPT ![h][e] = "finish"]
         /\ cur' = [cur EXCEPT ![h] = NoEvent] /\ pc' = [pc EXCEPT ![h] = "finishing"]
  BY StartFacts
<1>2. status'[e] = RUNNING /\ \A a \in Event : a # e => status'[a] = status[a]
  BY <1>1 DEF TypeOK
<1>3. pc'[h] = "finishing" /\ \A g \in Hosts : g # h => pc'[g] = pc[g] /\ cur'[g] = cur[g]
  BY <1>1, HostsOnly DEF TypeOK
<1>4. \A a \in Event : /\ status[a] = COMPLETE <=> status'[a] = COMPLETE
                       /\ status'[a] = QUEUED <=> status[a] = QUEUED
  BY <1>1, <1>2 DEF SUBMITTED, RUNNING, COMPLETE, QUEUED
<1>5. Commands' = Commands /\ UNCHANGED <<kind, queue, waits, barrier, last, pending, needs, todo>>
  BY <1>1 DEF Commands, identVars, cqVars
<1>6. \A c \in Commands : c \in Event
  BY DEF Commands
<1> QED BY <1>1, <1>3, <1>4, <1>5, <1>6, KeepOrder

\* The same lists and status as in pocl_pthread_notify.
LEMMA OrderBasicDispatch ==
  ASSUME TypeOK, Dispatch, Order, work = <<>>, NEW h \in Hosts, NEW e \in Event, NEW x \in Event,
         BasicDispatch(h, e, x), \A a \in Event : phase[h][a] # "none" => pc[h] \notin {"lastSync", "listSync"}
  PROVE  Order'
<1>1. /\ phase[h][e] = "broadcast" /\ status[e] = COMPLETE /\ status[x] = QUEUED /\ ready[x]
      /\ x \in Commands /\ waits[x] \subseteq {e}
      /\ UNCHANGED <<kind, queue, todo, barrier, last, pending, needs>>
      /\ waits' = [waits EXCEPT ![x] = @ \ {e}] /\ status' = [status EXCEPT ![x] = SUBMITTED]
      /\ cur' = [cur EXCEPT ![h] = x] /\ pc' = [pc EXCEPT ![h] = "taken"]
  BY DispatchFacts DEF cqVars
<1>2. /\ pc[h] \notin {"lastSync", "listSync"} /\ pc'[h] = "taken"
      /\ \A g \in Hosts : g # h => pc'[g] = pc[g] /\ cur'[g] = cur[g]
  BY <1>1, HostsOnly DEF TypeOK
<1>3. \A g \in Hosts : /\ pc'[g] \in {"lastSync", "listSync"} <=> pc[g] \in {"lastSync", "listSync"}
                       /\ pc[g] \in {"lastSync", "listSync"} => pc'[g] = pc[g] /\ cur'[g] = cur[g]
  BY <1>2
<1>4. Commands' = Commands /\ \A c \in Commands : c \in Event
  BY <1>1 DEF Commands
<1>5. /\ status'[x] = SUBMITTED /\ \A a \in Event : a # x => status'[a] = status[a]
      /\ \A a \in Event : waits'[a] = IF a = x THEN waits[a] \ {e} ELSE waits[a]
  BY <1>1 DEF TypeOK
<1>6. \A a \in Event : status[a] = COMPLETE <=> status'[a] = COMPLETE
  BY <1>1, <1>5 DEF QUEUED, SUBMITTED, COMPLETE
<1>7. \A g \in Hosts : pc[g] \in {"lastSync", "listSync"} => cur[g] # x
  BY <1>1 DEF Dispatch, Untouched, Enqueuing
<1>8. \A d \in needs[x] : status[d] = COMPLETE
  BY <1>1, <1>7, NeedsMet
<1>9. \A a \in Event, d \in Event : WaitsOn(a, d) => WaitsOn(a, d)' \/ status[d] = COMPLETE
  <2>1. ASSUME NEW a \in Event, NEW d \in Event, NEW m \in waits[a],
               m = d \/ (m \in Commands /\ d \in needs[m])
        PROVE  m \in waits'[a] \/ status[d] = COMPLETE
    <3>1. CASE m = e
      BY <1>1, <2>1, <3>1 DEF Order, DependencyOrder
    <3>2. CASE m # e
      BY <1>5, <2>1, <3>2
    <3> QED BY <3>1, <3>2
  <2> QED BY <1>1, <1>4, <2>1 DEF WaitsOn
<1>10. PendingUnfinished' /\ LastCovers' /\ BarrierCovers' /\ OneBarrier'
  <2>1. PendingUnfinished'
    BY <1>1, <1>4, <1>6 DEF Order, PendingUnfinished
  <2>2. LastCovers' /\ BarrierCovers'
    BY <1>1 DEF Order, LastCovers, BarrierCovers
  <2>3. OneBarrier'
    BY <1>1, <1>4, <1>6 DEF Order, OneBarrier
  <2> QED BY <2>1, <2>2, <2>3
<1>11. SyncedWithLast'
  <2>1. ASSUME NEW g \in Hosts, pc[g] = "listSync", queue[cur[g]] \in InOrder,
               NEW d \in pending[queue[cur[g]]]
        PROVE  WaitsOn(cur[g], d)'
    <3>1. cur[g] \in Event /\ queue[cur[g]] \in Queues /\ d \in Event /\ cur'[g] = cur[g]
      BY <1>3, <2>1 DEF TypeOK, Enqueuing, Commands
    <3>2. status[d] # COMPLETE
      BY <2>1, <3>1 DEF Order, PendingUnfinished
    <3>3. WaitsOn(cur[g], d)
      BY <2>1 DEF Order, SyncedWithLast
    <3> QED BY <1>9, <3>1, <3>2, <3>3 DEF WaitsOn
  <2>2. \A g \in Hosts : pc'[g] = "listSync" => pc[g] = "listSync" /\ cur'[g] = cur[g]
    BY <1>3
  <2> QED BY <1>1, <2>1, <2>2 DEF SyncedWithLast, WaitsOn
<1>12. NeedsCovered'
  <2>1. ASSUME NEW c \in Commands, status'[c] = QUEUED, NEW d \in needs[c]
        PROVE  \/ status'[d] = COMPLETE
               \/ WaitsOn(c, d)'
               \/ \E g \in Hosts : pc'[g] \in {"lastSync", "listSync"} /\ cur'[g] = c /\ d \in todo[g]
    <3>1. c \in Event /\ d \in Event
      BY DEF Commands, TypeOK
    <3>2. status[c] = QUEUED
      BY <1>1, <1>5, <2>1, <3>1
    <3>3. \/ status[d] = COMPLETE
          \/ WaitsOn(c, d)
          \/ \E g \in Hosts : pc[g] \in {"lastSync", "listSync"} /\ cur[g] = c /\ d \in todo[g]
      BY <2>1, <3>2 DEF Order, NeedsCovered
    <3> QED BY <1>3, <1>6, <1>9, <3>1, <3>3
  <2> QED BY <1>1, <1>4, <2>1 DEF NeedsCovered
<1>13. DependencyOrder'
  <2>1. ASSUME NEW c \in Commands, status'[c] \in {SUBMITTED, RUNNING, COMPLETE}, NEW d \in needs[c]
        PROVE  status'[d] = COMPLETE
    <3>1. c \in Event /\ d \in Event
      BY DEF Commands, TypeOK
    <3>2. CASE c = x
      BY <1>6, <1>8, <2>1, <3>1, <3>2
    <3>3. CASE c # x
      BY <1>5, <1>6, <2>1, <3>1, <3>3 DEF Order, DependencyOrder
    <3> QED BY <3>2, <3>3
  <2> QED BY <1>1, <1>4, <2>1 DEF DependencyOrder
<1> QED BY <1>10, <1>11, <1>12, <1>13 DEF Order

\* A step that touches no list, no status of a command and nobody who enqueues.
LEMMA OrderQuiet ==
  ASSUME TypeOK, Dispatch, Order, UNCHANGED <<kind, queue, status, waits, barrier, last, pending, needs>>,
         \A g \in Hosts : \/ pc'[g] = pc[g] /\ cur'[g] = cur[g] /\ todo'[g] = todo[g]
                          \/ {pc[g], pc'[g]} \cap {"lastSync", "listSync"} = {}
  PROVE  Order'
<1>1. \A g \in Hosts : /\ pc[g] \in {"lastSync", "listSync"} =>
                            pc'[g] = pc[g] /\ cur'[g] = cur[g] /\ todo'[g] = todo[g]
                       /\ pc'[g] = "listSync" => pc[g] = "listSync" /\ cur'[g] = cur[g]
  OBVIOUS
<1> QED BY <1>1, KeepOrderQuiet DEF Commands

LEMMA OrderDriven ==
  ASSUME BasicInv, Order, NEW h \in Hosts, Driven(h)
  PROVE  Order'
<1>0. /\ TypeOK /\ Dispatch /\ work = <<>> /\ Takers /\ Workers
      /\ \A a \in Event : phase[h][a] # "none" => pc[h] \notin {"lastSync", "listSync"}
  BY DEF BasicInv, Scheduling, Workers, Worker, Busy
<1>1. CASE BasicSchedule(h) \/ BasicJoin(h)
  <2>1. /\ pc[h] \in {"schedule", "idle"}
        /\ UNCHANGED <<kind, queue, status, waits, barrier, last, pending, needs, todo>>
        /\ pc' = [pc EXCEPT ![h] = "schedule"] \/ pc' = [pc EXCEPT ![h] = "idle"]
        /\ cur' = cur \/ cur' = [cur EXCEPT ![h] = NoEvent]
    BY <1>0, <1>1, LoopFacts DEF identVars, eventVars, cqVars
  <2>2. pc'[h] \in {"schedule", "idle"} /\ \A g \in Hosts : g # h => pc'[g] = pc[g] /\ cur'[g] = cur[g]
    BY <1>0, <2>1, HostsOnly DEF TypeOK
  <2> QED BY <1>0, <2>1, <2>2, OrderQuiet
<1>2. ASSUME NEW e \in Event, BasicRelease(h, e) PROVE Order'
  <2>1. /\ phase[h][e] = "release"
        /\ pc' = pc \/ pc' = [pc EXCEPT ![h] = "schedule"]
        /\ UNCHANGED <<kind, queue, status, waits, barrier, last, pending, needs, cur, todo>>
    BY <1>2 DEF BasicRelease, identVars
  <2>2. /\ pc[h] \notin {"lastSync", "listSync"} /\ pc'[h] \in {pc[h], "schedule"}
        /\ \A g \in Hosts : g # h => pc'[g] = pc[g]
    <3>1. phase[h][e] # "none"
      BY <2>1
    <3>2. pc[h] \notin {"lastSync", "listSync"}
      BY <1>0, <3>1
    <3>3. CASE pc' = pc
      BY <3>2, <3>3
    <3>4. CASE pc' = [pc EXCEPT ![h] = "schedule"]
      BY <1>0, <3>2, <3>4, HostsOnly DEF TypeOK
    <3> QED BY <2>1, <3>3, <3>4
  <2> QED BY <1>0, <2>1, <2>2, OrderQuiet
<1> QED BY <1>0, <1>1, <1>2, OrderBasicSubmit, OrderBasicStart, OrderBasicDispatch DEF Driven, BasicInv

LEMMA OrderLayered ==
  ASSUME BasicInv, Order, Orderly, NEW h \in Hosts, Layered(h)
  PROVE  Order'
<1>0. TypeOK /\ Dispatch /\ h \in Thread
  BY HostsOnly DEF BasicInv
<1>1. CASE SyncLast(h) \/ SyncListed(h) \/ Enqueue(h)
  BY <1>0, <1>1, OrderSyncLast, OrderSyncListed, OrderEnqueue
<1>2. CASE UserEventDone(h)
  <2>1. UNCHANGED <<kind, queue, status, waits, barrier, last, pending, needs, todo>>
    BY <1>2 DEF UserEventDone, identVars, eventVars, cqVars
  <2>2. \A g \in Hosts : \/ pc'[g] = pc[g] /\ cur'[g] = cur[g]
                         \/ pc[g] \in {"eventWait", "userDone"} /\ pc'[g] \in {"idle", "wait"}
    BY <1>0, <1>2, HostsOnly DEF UserEventDone, WaitsForEvent, TypeOK
  <2> QED BY <1>0, <2>1, <2>2, OrderQuiet
<1>3. ASSUME \/ \E q \in Queues : ReleaseQueue(h, q)
             \/ \E e \in Event : ReleaseEvent(h, e) \/ BroadcastDone(h, e)
      PROVE  Order'
  <2>1. UNCHANGED <<kind, queue, status, waits, barrier, last, pending, needs, pc, cur, todo>>
    BY <1>3 DEF ReleaseQueue, ReleaseEvent, BroadcastDone, identVars, eventVars, cqVars, callVars
  <2> QED BY <1>0, <2>1, OrderQuiet
<1>4. CASE CreateUserEvent(h)
  BY <1>0, <1>4, OrderUser
<1>5. CASE SetSomeUserEvent(h)
  BY <1>0, <1>5, OrderSetUser DEF SetSomeUserEvent
<1>6. ASSUME NEW q \in Queues, NEW k \in Kinds, NEW W \in SUBSET Event, NEW x \in Explicit,
             CreateCommand(h, q, k, W, x)
      PROVE  Order'
  BY <1>0, <1>6, OrderCreate
<1>7. ASSUME NEW e \in Event,
             \/ Finish(h, e) \/ Relock(h, e)
             \/ \E x \in Event : NotifyFailed(h, e, x) \/ Notify(h, e, x)
      PROVE  Order'
  <2>1. ~Relock(h, e) /\ \A x \in Event : ~NotifyFailed(h, e, x)
    BY <1>0 DEF Relock, NotifyFailed, Dispatch, NoFailure
  <2> QED BY <1>0, <1>7, <2>1, OrderFinish, OrderNotify
<1> QED BY <1>1, <1>2, <1>3, <1>4, <1>5, <1>6, <1>7 DEF Layered
\* The application holds references to events that exist.
LEMMA KnownStep ==
  ASSUME TypeOK, Dispatch, work = <<>>, Known, NEW h \in Hosts, Driven(h) \/ Layered(h)
  PROVE  Known'
<1>1. CASE Driven(h)
  <2>1. UNCHANGED <<kind, app>>
    BY <1>1 DEF Driven, BasicSubmit, BasicSchedule, BasicJoin, Start, BasicRelease, BasicDispatch, identVars, appVars
  <2> QED BY <2>1 DEF Known
<1>2. CASE Layered(h)
  <2>0. app \subseteq Event
    BY DEF TypeOK
  <2>1. CASE CreateUserEvent(h)
    <3>1. /\ created + 1 \in Event /\ kind' = [kind EXCEPT ![created + 1] = "user"]
          /\ app' = app \cup {created + 1}
      BY <2>1, CreateUserFacts DEF CreateUserEvent
    <3>2. kind'[created + 1] = "user" /\ \A a \in Event : a # created + 1 => kind'[a] = kind[a]
      BY <3>1 DEF TypeOK
    <3> QED BY <2>0, <3>1, <3>2 DEF Known
  <2>2. ASSUME NEW q \in Queues, NEW k \in Kinds, NEW W \in SUBSET Event, NEW x \in Explicit,
               CreateCommand(h, q, k, W, x)
        PROVE  Known'
    <3>1. /\ created + 1 \in Event /\ k \in CommandKinds /\ kind' = [kind EXCEPT ![created + 1] = k]
          /\ app' \subseteq app \cup {created + 1}
      BY <2>2, CreateFacts DEF CreateCommand
    <3>2. kind'[created + 1] = k /\ \A a \in Event : a # created + 1 => kind'[a] = kind[a]
      BY <3>1 DEF TypeOK
    <3> QED BY <2>0, <3>1, <3>2 DEF Known, CommandKinds
  <2>3. ASSUME NEW e \in Event, ReleaseEvent(h, e) PROVE Known'
    BY <2>3 DEF ReleaseEvent, identVars, Known
  <2>4. CASE \/ SyncLast(h) \/ SyncListed(h) \/ Enqueue(h) \/ UserEventDone(h) \/ SetSomeUserEvent(h)
             \/ \E q \in Queues : ReleaseQueue(h, q)
    BY <2>4 DEF SyncLast, SyncListed, Enqueue, UserEventDone, SetSomeUserEvent, SetUserEventStatus,
                ReleaseQueue, identVars, appVars, Known
  <2>5. ASSUME NEW e \in Event,
               \/ Finish(h, e) \/ Relock(h, e) \/ BroadcastDone(h, e)
               \/ \E x \in Event : NotifyFailed(h, e, x) \/ Notify(h, e, x)
        PROVE  Known'
    BY <2>5 DEF Finish, Relock, BroadcastDone, NotifyFailed, Notify, identVars, appVars, Known
  <2> QED BY <1>2, <2>1, <2>2, <2>3, <2>4, <2>5 DEF Layered
<1> QED BY <1>1, <1>2

LEMMA OrderedInvStep ==
  ASSUME OrderedInv, Orderly, [BasicNext]_bvars
  PROVE  OrderedInv'
<1>0. BasicInv /\ Order /\ Known /\ TypeOK /\ Dispatch /\ work = <<>> /\ NoFailures
  BY DEF OrderedInv, BasicInv, Scheduling, Orderly
<1>1. BasicInv'
  BY <1>0, BasicInvStep
<1>2. Order' /\ Known'
  <2>1. CASE UNCHANGED bvars
    <3>1. UNCHANGED <<kind, queue, status, waits, barrier, last, pending, needs, pc, cur, todo, app>>
      BY <2>1 DEF bvars, vars, identVars, eventVars, cqVars, callVars, appVars
    <3> QED BY <1>0, <3>1, OrderQuiet DEF Known
  <2>2. ASSUME NEW h \in Hosts, Driven(h) \/ Layered(h) PROVE Order' /\ Known'
    BY <1>0, <2>2, OrderDriven, OrderLayered, KnownStep
  <2> QED BY <2>1, <2>2, StepCases
<1> QED BY <1>1, <1>2 DEF OrderedInv

\* Every step under this driver is a step of the graph, or none.
LEMMA BasicGraphStep ==
  ASSUME OrderedInv, OrderedInv', NoFailures, [BasicNext]_bvars
  PROVE  [Graph!Next]_(Graph!gvars)
<1>0. Ordered /\ Ordered' /\ TypeOK /\ Dispatch /\ work = <<>> /\ Takers /\ \A e \in app : kind[e] # "none"
  BY DEF OrderedInv, BasicInv, Scheduling, Ordered, Known
<1>g. ASSUME NEW e \in Event, Graph!Start(e) PROVE Graph!Next
  BY <1>g DEF Graph!Next
<1>1. CASE UNCHANGED bvars
  BY <1>1, TasksSame DEF bvars, vars, identVars, eventVars
<1>2. ASSUME NEW h \in Hosts, Layered(h) PROVE [Graph!Next]_(Graph!gvars)
  <2>1. Next
    BY <1>2, LayeredNext
  <2> QED BY <1>0, <2>1, GraphStep
<1>3. ASSUME NEW h \in Hosts, BasicSubmit(h) PROVE [Graph!Next]_(Graph!gvars)
  <2>1. PICK e \in Commands :
           /\ e = cur[h] /\ e \in Event /\ pc[h] = "submit" /\ status[e] = QUEUED /\ ~ready[e]
           /\ UNCHANGED <<created, kind, queue, needs, refs, waits, notify, held, cqVars, on, todo, finVars, appVars>>
           /\ ready' = [ready EXCEPT ![e] = TRUE] /\ work' = <<>>
           /\ Taken(h, e) \/ Listing(h, e)
    BY <1>0, <1>3, SubmitFacts
  <2>2. CASE status' = [status EXCEPT ![e] = SUBMITTED]
    <3>1. Graph!Start(e)
      BY <1>0, <2>1, <2>2, GraphDispatch
    <3> QED BY <1>g, <2>1, <3>1
  <2>3. CASE status' = [status EXCEPT ![e] = QUEUED]
    <3>1. status' = status
      BY <1>0, <2>1, <2>3 DEF TypeOK
    <3> QED BY <2>1, <3>1, TasksSame
  <2> QED BY <2>1, <2>2, <2>3 DEF Taken, Listing
<1>4. ASSUME NEW h \in Hosts, NEW e \in Event, NEW x \in Event, BasicDispatch(h, e, x) PROVE Graph!Next
  <2>1. /\ x \in Commands /\ status[x] = QUEUED /\ UNCHANGED <<kind, needs>>
        /\ status' = [status EXCEPT ![x] = SUBMITTED]
    BY <1>0, <1>4, DispatchFacts
  <2>2. Graph!Start(x)
    BY <1>0, <2>1, GraphDispatch
  <2> QED BY <1>g, <2>2
<1>5. ASSUME NEW h \in Hosts, Start(h) PROVE UNCHANGED Graph!gvars
  <2>0. PICK e \in Commands :
           /\ e = cur[h] /\ e \in Event /\ pc[h] = "taken" /\ status[e] = SUBMITTED /\ held[e] = None
           /\ UNCHANGED <<identVars, refs, waits, notify, ready, held, cqVars, work, on, todo, nested, appVars>>
           /\ status' = [status EXCEPT ![e] = RUNNING] /\ phase' = [phase EXCEPT ![h][e] = "finish"]
           /\ cur' = [cur EXCEPT ![h] = NoEvent] /\ pc' = [pc EXCEPT ![h] = "finishing"]
    BY <1>0, <1>5, StartFacts
  <2>1. /\ kind' = kind /\ needs' = needs
        /\ status'[e] = RUNNING /\ \A a \in Event : a # e => status'[a] = status[a]
    BY <1>0, <2>0 DEF identVars, TypeOK
  <2>2. TaskOf(e) = "started"
    BY <1>0, <2>0, TaskFacts DEF Dispatch
  <2>3. TaskOf(e)' = "started"
    BY <2>0, <2>1 DEF TaskOf, Commands, CommandKinds, RUNNING, QUEUED, COMPLETE, FAILED
  <2>4. \A a \in Event : TaskOf(a)' = TaskOf(a)
    BY <2>1, <2>2, <2>3, TaskSame
  <2> QED BY <2>1, <2>4 DEF Graph!gvars
<1>6. ASSUME NEW h \in Hosts, BasicSchedule(h) \/ BasicJoin(h) \/ \E e \in Event : BasicRelease(h, e)
      PROVE  UNCHANGED Graph!gvars
  BY <1>6, TasksSame DEF BasicSchedule, BasicJoin, BasicRelease, identVars, eventVars
<1>7. ASSUME NEW h \in Hosts, Driven(h) PROVE [Graph!Next]_(Graph!gvars)
  BY <1>3, <1>4, <1>5, <1>6, <1>7 DEF Driven
<1> QED BY <1>1, <1>2, <1>7, StepCases

\* Under the basic driver too the runtime implements TaskGraph for every
\* orderly application, although commands run inside pocl_basic_submit and
\* pocl_basic_notify, with the events of the notifier still locked.
THEOREM BasicGraphImplemented == Orderly => (BasicSpec => ImplementsGraph)
<1> SUFFICES ASSUME Orderly PROVE BasicSpec => ImplementsGraph
  OBVIOUS
<1>1. BasicInit => OrderedInv
  BY BasicInitial
<1>2. BasicInit => Graph!Init
  <2> SUFFICES ASSUME BasicInit PROVE Graph!Init
    OBVIOUS
  <2>1. \A e \in Event : TaskOf(e) = "none"
    BY DEF BasicInit, Init, TaskOf
  <2> QED BY <2>1 DEF BasicInit, Init, Graph!Init
<1>3. OrderedInv /\ [BasicNext]_bvars => OrderedInv'
  BY OrderedInvStep
<1>4. OrderedInv /\ OrderedInv' /\ [BasicNext]_bvars => [Graph!Next]_(Graph!gvars)
  BY BasicGraphStep DEF Orderly
<1> QED BY <1>1, <1>2, <1>3, <1>4, PTL DEF BasicSpec, ImplementsGraph, Graph!Spec
=============================================================================
