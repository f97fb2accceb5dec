-------------------------- MODULE CommandQueue_proofs --------------------------
(* Theorems about CommandQueue, for every value of its constants. *)
EXTENDS CommandQueueInv, SequenceTheorems, WellFoundedInduction, TLAPS

PcValues == {"idle", "lastSync", "listSync", "submit", "taken", "finishing",
             "schedule", "userDone", "join", "joinWait", "wait", "eventWait"}

Phases == {"none", "finish", "broadcast", "notifying", "release"}

\* Sync keeps the wait and notify lists well typed.
LEMMA SyncType ==
  ASSUME TypeOK, NEW e \in Event, NEW S, S \subseteq Event, Sync(e, S)
  PROVE  waits' \in [Event -> SUBSET Event] /\ notify' \in [Event -> SUBSET Event]
BY DEF TypeOK, Sync, NewSyncs

\* Every variable keeps its type.
LEMMA TypeStep ==
  ASSUME TypeOK, [Next]_vars PROVE TypeOK'
<1>0. created' = created /\ UNCHANGED vars => TypeOK'
  BY DEF TypeOK, vars, identVars, eventVars, cqVars, callVars, finVars, appVars, Enqueuing, Commands
<1>1. ASSUME NEW h \in Hosts, NEW q \in Queues, NEW k \in Kinds, NEW W \in SUBSET Event,
             NEW x \in Explicit, CreateCommand(h, q, k, W, x)
      PROVE  TypeOK'
  <2> DEFINE e == created + 1
  <2>1. e \in Event /\ k \in CommandKinds /\ x \in BOOLEAN
    BY <1>1, ConstantsAssumption DEF CreateCommand, TypeOK, Event
  <2>2. /\ created' \in 0..MaxEvents
        /\ kind' \in [Event -> CommandKinds \cup {"user", "none"}]
        /\ queue' \in [Event -> Queues \cup {None}]
        /\ needs' \in [Event -> SUBSET Event]
        /\ refs' \in [Event -> Int]
        /\ qrefs' \in [Queues -> Int]
    BY <1>1, <2>1, ConstantsAssumption DEF CreateCommand, TypeOK, InitialRefs
  <2>3. status' \in [Event -> FAILED..QUEUED]
    BY <1>1, <2>1 DEF CreateCommand, TypeOK, FAILED, QUEUED
  <2>4. /\ pc' \in [Thread -> PcValues]
        /\ cur' \in [Thread -> Event \cup {NoEvent}]
        /\ todo' \in [Hosts -> SUBSET Event]
        /\ app' \in SUBSET Event
    BY <1>1, <2>1 DEF CreateCommand, TypeOK, PcValues, Goto
  <2>5. \A c \in Commands' : queue'[c] \in Queues
    BY <1>1, <2>1 DEF CreateCommand, TypeOK, Commands
  <2>6. ASSUME NEW g \in Hosts, Enqueuing(g)' PROVE cur'[g] \in Commands'
    <3>1. CASE g = h
      BY <1>1, <2>1, <3>1 DEF CreateCommand, TypeOK, Commands, Thread
    <3>2. CASE g # h
      <4>1. Enqueuing(g) /\ cur'[g] = cur[g]
        BY <1>1, <2>6, <3>2 DEF CreateCommand, TypeOK, Enqueuing, Goto, Thread
      <4> QED BY <1>1, <2>1, <4>1 DEF CreateCommand, TypeOK, Commands
    <3> QED BY <3>1, <3>2
  <2>7. \A a \in Event : kind'[a] = "none" <=> a > created'
    BY <1>1, <2>1 DEF CreateCommand, TypeOK, Event, CommandKinds
  <2> QED BY <1>1, <2>2, <2>3, <2>4, <2>5, <2>6, <2>7 DEF CreateCommand, TypeOK, PcValues, finVars
<1>2. ASSUME NEW h \in Hosts, SyncLast(h) PROVE TypeOK'
  <2>1. Previous(queue[cur[h]]) \subseteq Event
    BY <1>2, ConstantsAssumption DEF SyncLast, TypeOK, Enqueuing, Commands, Previous
  <2>2. cur[h] \in Event
    BY <1>2 DEF SyncLast, TypeOK, Enqueuing, Commands
  <2>3. waits' \in [Event -> SUBSET Event] /\ notify' \in [Event -> SUBSET Event]
    BY <1>2, <2>1, <2>2, SyncType DEF SyncLast
  <2> QED BY <1>2, <2>3 DEF SyncLast, TypeOK, Enqueuing, Commands, identVars, cqVars, finVars, appVars, Goto, Thread
<1>3. ASSUME NEW h \in Hosts, SyncListed(h) PROVE TypeOK'
  <2>1. PICK n \in todo[h] : Sync(cur[h], {n}) /\ todo' = [todo EXCEPT ![h] = @ \ {n}]
    BY <1>3 DEF SyncListed
  <2>2. cur[h] \in Event /\ n \in Event
    BY <1>3 DEF SyncListed, TypeOK, Enqueuing, Commands
  <2>3. waits' \in [Event -> SUBSET Event] /\ notify' \in [Event -> SUBSET Event]
    BY <2>1, <2>2, SyncType
  <2> QED BY <1>3, <2>1, <2>3 DEF SyncListed, TypeOK, Enqueuing, Commands, identVars, cqVars, finVars, appVars
<1>4. ASSUME NEW h \in Hosts, Enqueue(h) PROVE TypeOK'
  <2> DEFINE e == cur[h] q == queue[cur[h]]
  <2>1. e \in Event /\ q \in Queues
    BY <1>4 DEF Enqueue, TypeOK, Enqueuing, Commands
  <2>2. QueueSyncs(e, q) \subseteq Event /\ QueueOrder(e, q) \subseteq Event
    BY <2>1 DEF QueueSyncs, QueueOrder, TypeOK
  <2>3. waits' \in [Event -> SUBSET Event] /\ notify' \in [Event -> SUBSET Event]
    BY <1>4, <2>1, <2>2, SyncType DEF Enqueue
  <2>4. count' \in [Queues -> Int] /\ barrier' \in [Queues -> Event \cup {NoEvent}]
    BY <1>4, <2>1 DEF Enqueue, TypeOK
  <2>5. pending' \in [Queues -> SUBSET Event] /\ last' \in [Queues -> Event \cup {NoEvent}]
    BY <1>4, <2>1 DEF Enqueue, TypeOK
  <2>6. needs' \in [Event -> SUBSET Event]
    BY <1>4, <2>1, <2>2 DEF Enqueue, TypeOK
  <2> QED BY <1>4, <2>3, <2>4, <2>5, <2>6 DEF Enqueue, TypeOK, Enqueuing, Commands, finVars, appVars, Goto, Thread
<1>5. ASSUME NEW h \in Hosts, Submit(h) PROVE TypeOK'
  <2>1. cur[h] \in Event
    BY <1>5 DEF Submit, TypeOK, Enqueuing, Commands
  <2> QED BY <1>5, <2>1, ConstantsAssumption DEF Submit, TypeOK, Enqueuing, Commands, identVars, cqVars, finVars, appVars, Goto, Thread, QUEUED, SUBMITTED, FAILED
<1>6. ASSUME NEW d \in Drivers, Take(d) PROVE TypeOK'
  <2>1. Head(work) \in Event /\ Tail(work) \in Seq(Event)
    BY <1>6 DEF Take, TypeOK
  <2> QED BY <1>6, <2>1, ConstantsAssumption DEF Take, TypeOK, Enqueuing, Commands, identVars, eventVars, cqVars, finVars, appVars, Goto, Thread
<1>7. ASSUME NEW d \in Drivers, Start(d) PROVE TypeOK'
  <2>1. status' \in [Event -> FAILED..QUEUED]
    <3>1. status' = [status EXCEPT ![cur[d]] = RUNNING]
      BY <1>7 DEF Start
    <3>2. status \in [Event -> FAILED..QUEUED] /\ RUNNING \in FAILED..QUEUED
      BY DEF TypeOK, RUNNING, FAILED, QUEUED
    <3> QED BY <3>1, <3>2
  <2>2. /\ phase' \in [Thread -> [Event -> Phases]]
        /\ pc' \in [Thread -> PcValues]
        /\ cur' \in [Thread -> Event \cup {NoEvent}]
    BY <1>7 DEF Start, TypeOK, Goto, PcValues, Phases, Thread
  <2>3. \A h \in Hosts : pc'[h] = pc[h] /\ cur'[h] = cur[h]
    BY <1>7, ConstantsAssumption DEF Start, TypeOK, Goto, Thread
  <2> QED BY <1>7, <2>1, <2>2, <2>3 DEF Start, TypeOK, PcValues, Phases, Enqueuing, Commands,
            identVars, cqVars, appVars
<1>8. ASSUME NEW t \in Thread, NEW e \in Event, Finish(t, e) PROVE TypeOK'
  <2>1. status' \in [Event -> FAILED..QUEUED]
    BY <1>8 DEF Finish, TypeOK, COMPLETE, FAILED, QUEUED
  <2>2. /\ count' \in [Queues -> Int]
        /\ pending' \in [Queues -> SUBSET Event]
    <3>1. /\ count' = [count EXCEPT ![queue[e]] = count[queue[e]] - 1]
          /\ pending' = [pending EXCEPT ![queue[e]] = pending[queue[e]] \ {e}]
      BY <1>8 DEF Finish
    <3>2. \A q \in Queues : count[q] - 1 \in Int /\ pending[q] \ {e} \in SUBSET Event
      BY DEF TypeOK
    <3>3. count' \in [Queues -> Int]
      BY <3>1, <3>2 DEF TypeOK
    <3>4. pending' \in [Queues -> SUBSET Event]
      BY <3>1, <3>2 DEF TypeOK
    <3> QED BY <3>3, <3>4
  <2>6. phase' \in [Thread -> [Event -> Phases]]
    <3>1. phase' = [phase EXCEPT ![t] = [phase[t] EXCEPT ![e] = "broadcast"]]
      BY <1>8 DEF Finish
    <3>2. phase \in [Thread -> [Event -> Phases]]
      BY DEF TypeOK, Phases
    <3> QED BY <3>1, <3>2 DEF Phases
  <2>3. /\ barrier' \in [Queues -> Event \cup {NoEvent}]
        /\ last' \in [Queues -> Event \cup {NoEvent}]
    BY <1>8 DEF Finish, TypeOK, Cleared
  <2>4. pc' \in [Thread -> PcValues]
    BY <1>8 DEF Finish, TypeOK, PcValues
  <2>5. \A h \in Hosts : Enqueuing(h)' => Enqueuing(h) /\ cur'[h] = cur[h]
    BY <1>8 DEF Finish, TypeOK, Enqueuing, Thread
  <2> QED BY <1>8, <2>1, <2>2, <2>3, <2>4, <2>5, <2>6 DEF Finish, TypeOK, PcValues, Phases,
            Commands, identVars, appVars
<1>9. ASSUME NEW t \in Thread, NEW e \in Event, NEW x \in Event, Notify(t, e, x) PROVE TypeOK'
  BY <1>9 DEF Notify, TypeOK, Enqueuing, Commands, identVars, cqVars, callVars, finVars, appVars, SUBMITTED, FAILED, QUEUED
<1>10. ASSUME NEW t \in Thread, NEW e \in Event, NEW x \in Event, NotifyFailed(t, e, x) PROVE TypeOK'
  BY <1>10 DEF NotifyFailed, TypeOK, Enqueuing, Commands, identVars, cqVars, callVars, appVars
<1>11. ASSUME NEW t \in Thread, NEW e \in Event, Relock(t, e) PROVE TypeOK'
  BY <1>11 DEF Relock, TypeOK, Enqueuing, Commands, identVars, cqVars, callVars, appVars
<1>12. ASSUME NEW t \in Thread, NEW e \in Event, BroadcastDone(t, e) PROVE TypeOK'
  BY <1>12 DEF BroadcastDone, TypeOK, Enqueuing, Commands, identVars, eventVars, cqVars, callVars, appVars
<1>13. ASSUME NEW t \in Thread, NEW e \in Event, ReleaseFinished(t, e) PROVE TypeOK'
  BY <1>13 DEF ReleaseFinished, DropRef, TypeOK, Enqueuing, Commands, identVars, appVars, Thread
<1>14. ASSUME NEW h \in Hosts, CreateUserEvent(h) PROVE TypeOK'
  <2> DEFINE e == created + 1
  <2>1. e \in Event
    BY <1>14, ConstantsAssumption DEF CreateUserEvent, TypeOK, Event
  <2>2. /\ created' \in 0..MaxEvents
        /\ kind' \in [Event -> CommandKinds \cup {"user", "none"}]
        /\ refs' \in [Event -> Int]
        /\ app' \in SUBSET Event
    BY <1>14, <2>1, ConstantsAssumption DEF CreateUserEvent, TypeOK
  <2>3. status' \in [Event -> FAILED..QUEUED]
    BY <1>14, <2>1 DEF CreateUserEvent, TypeOK, FAILED, QUEUED, SUBMITTED
  <2>4. \A c \in Commands' : c \in Commands
    BY <1>14, <2>1 DEF CreateUserEvent, TypeOK, Commands, CommandKinds
  <2>5. ASSUME NEW g \in Hosts, Enqueuing(g)' PROVE cur'[g] \in Commands'
    <3>1. pc' = pc /\ cur' = cur
      BY <1>14 DEF CreateUserEvent, callVars
    <3>2. cur[g] \in Commands
      BY <2>5, <3>1 DEF TypeOK, Enqueuing
    <3>3. e \notin Commands
      BY <2>1 DEF TypeOK, Commands, CommandKinds
    <3> QED BY <1>14, <3>1, <3>2, <3>3 DEF CreateUserEvent, TypeOK, Commands
  <2>6. \A a \in Event : kind'[a] = "none" <=> a > created'
    BY <1>14, <2>1 DEF CreateUserEvent, TypeOK, Event
  <2> QED BY <1>14, <2>2, <2>3, <2>4, <2>5, <2>6 DEF CreateUserEvent, TypeOK, PcValues, cqVars, callVars, finVars
<1>15. ASSUME NEW h \in Hosts, NEW e \in Event, NEW s \in UserStatuses, SetUserEventStatus(h, e, s) PROVE TypeOK'
  BY <1>15, ConstantsAssumption DEF SetUserEventStatus, TypeOK, Enqueuing, Commands, identVars, cqVars, appVars, Goto, Thread, COMPLETE, FAILED, QUEUED
<1>16. ASSUME NEW h \in Hosts, UserEventDone(h) \/ Join(h) \/ WaitEvent(h) \/ WaitTimeout(h) PROVE TypeOK'
  <2>1. /\ pc' \in [Thread -> PcValues]
        /\ cur' \in [Thread -> Event \cup {NoEvent}]
        /\ on' \in [Hosts -> Queues \cup {None}]
        /\ todo' \in [Hosts -> SUBSET Event]
    BY <1>16, ZenonT(60) DEF UserEventDone, Join, WaitEvent, WaitTimeout, TypeOK, PcValues, Goto
  <2>2. \A g \in Hosts : Enqueuing(g)' => Enqueuing(g) /\ cur'[g] = cur[g]
    BY <1>16 DEF UserEventDone, Join, WaitEvent, WaitTimeout, TypeOK, Enqueuing, Goto, Thread
  <2> QED BY <1>16, <2>1, <2>2 DEF UserEventDone, Join, WaitEvent, WaitTimeout, TypeOK, PcValues,
            Commands, identVars, eventVars, cqVars, finVars, appVars
<1>17. ASSUME NEW h \in Hosts, NEW q \in Queues, CallFinish(h, q) \/ ReleaseQueue(h, q) PROVE TypeOK'
  <2>1. /\ pc' \in [Thread -> PcValues]
        /\ on' \in [Hosts -> Queues \cup {None}]
        /\ todo' \in [Hosts -> SUBSET Event]
        /\ qapp' \in SUBSET Queues
        /\ qrefs' \in [Queues -> Int]
    <3>1. CASE CallFinish(h, q)
      BY <3>1 DEF CallFinish, TypeOK, PcValues, Goto, cqVars, appVars
    <3>2. CASE ReleaseQueue(h, q)
      BY <3>2 DEF ReleaseQueue, TypeOK, PcValues, callVars
    <3> QED BY <1>17, <3>1, <3>2
  <2>2. \A g \in Hosts : Enqueuing(g)' => Enqueuing(g) /\ cur'[g] = cur[g]
    BY <1>17 DEF CallFinish, ReleaseQueue, TypeOK, Enqueuing, Goto, Thread, callVars
  <2> QED BY <1>17, <2>1, <2>2 DEF CallFinish, ReleaseQueue, TypeOK, PcValues,
            Commands, identVars, eventVars, cqVars, callVars, finVars, appVars
<1>18. ASSUME NEW h \in Hosts, NEW e \in Event, CallWait(h, e) \/ ReleaseEvent(h, e) PROVE TypeOK'
  <2>1. /\ pc' \in [Thread -> PcValues]
        /\ cur' \in [Thread -> Event \cup {NoEvent}]
        /\ app' \in SUBSET Event
    <3>1. CASE CallWait(h, e)
      BY <3>1 DEF CallWait, TypeOK, PcValues, Goto, appVars
    <3>2. CASE ReleaseEvent(h, e)
      BY <3>2 DEF ReleaseEvent, TypeOK, PcValues, callVars
    <3> QED BY <1>18, <3>1, <3>2
  <2>2. refs' \in [Event -> Int] /\ qrefs' \in [Queues -> Int]
    BY <1>18 DEF CallWait, ReleaseEvent, DropRef, TypeOK, eventVars, cqVars
  <2>3. \A g \in Hosts : Enqueuing(g)' => Enqueuing(g) /\ cur'[g] = cur[g]
    BY <1>18 DEF CallWait, ReleaseEvent, TypeOK, Enqueuing, Goto, Thread, callVars
  <2> QED BY <1>18, <2>1, <2>2, <2>3 DEF CallWait, ReleaseEvent, TypeOK, PcValues,
            Commands, identVars, eventVars, cqVars, callVars, finVars, appVars
<1> QED
  BY <1>0, <1>1, <1>2, <1>3, <1>4, <1>5, <1>6, <1>7, <1>8, <1>9, <1>10, <1>11, <1>12,
     <1>13, <1>14, <1>15, <1>16, <1>17, <1>18
  DEF Next, EnqueueStep, WaitStep, DriverStep, FinishStep, SetSomeUserEvent, AppStep,
      vars, identVars

\* Every variable keeps its type, whatever the application does.
THEOREM TypeCorrect == Spec => []TypeOK
<1>1. Init => TypeOK
  BY ConstantsAssumption DEF Init, TypeOK, Event, QUEUED, FAILED, Thread, Enqueuing, Commands, CommandKinds
<1>2. TypeOK /\ [Next]_vars => TypeOK'
  BY TypeStep
<1> QED BY <1>1, <1>2, PTL DEF Spec

-----------------------------------------------------------------------------
(* Dispatch is inductive. *)

\* A step that leaves dispatched commands and the driver threads alone.
LEMMA KeepDispatched ==
  ASSUME TypeOK, InWork, InTaken, InFinish,
         \A e \in Commands : status[e] \in {SUBMITTED, RUNNING} => e \in Commands' /\ status'[e] = status[e],
         work' = work,
         \A d \in Drivers : pc'[d] = "taken" => pc[d] = "taken" /\ cur'[d] = cur[d],
         \A t \in Thread, e \in Event : phase'[t][e] = "finish" => phase[t][e] = "finish"
  PROVE  InWork' /\ InTaken' /\ InFinish'
<1>1. InWork'
  BY DEF InWork, TypeOK
<1>2. InTaken'
  <2>1. ASSUME NEW d \in Drivers, pc'[d] = "taken"
        PROVE  /\ cur'[d] \in Commands' /\ status'[cur'[d]] = SUBMITTED
               /\ \A i \in 1..Len(work') : work'[i] # cur'[d]
    BY <2>1 DEF InTaken
  <2>2. ASSUME NEW d \in Drivers, NEW c \in Drivers, pc'[d] = "taken", pc'[c] = "taken", cur'[c] = cur'[d]
        PROVE  c = d
    BY <2>2 DEF InTaken
  <2> QED BY <2>1, <2>2 DEF InTaken
<1>3. InFinish'
  BY DEF InFinish, TypeOK
<1> QED BY <1>1, <1>2, <1>3

LEMMA AppendFacts ==
  ASSUME NEW s \in Seq(Event), NEW e \in Event
  PROVE  /\ Len(Append(s, e)) = Len(s) + 1
         /\ \A i \in 1..Len(s) : Append(s, e)[i] = s[i]
         /\ Append(s, e)[Len(s) + 1] = e
OBVIOUS

LEMMA TailFacts ==
  ASSUME NEW s \in Seq(Event), s # <<>>
  PROVE  /\ Len(s) \in Nat \ {0} /\ Len(Tail(s)) = Len(s) - 1 /\ Head(s) = s[1]
         /\ \A i \in 1..(Len(s) - 1) : Tail(s)[i] = s[i + 1]
OBVIOUS

\* A queued command is submitted and pushed on the work queue.
LEMMA DispatchOne ==
  ASSUME TypeOK, InWork, InTaken, InFinish,
         NEW e \in Commands, status[e] = QUEUED,
         status' = [status EXCEPT ![e] = SUBMITTED], work' = Append(work, e), kind' = kind,
         \A d \in Drivers : pc'[d] = "taken" => pc[d] = "taken" /\ cur'[d] = cur[d],
         phase' = phase
  PROVE  InWork' /\ InTaken' /\ InFinish'
<1>1. e \in Event /\ work \in Seq(Event) /\ Len(work) \in Nat
  BY DEF Commands, TypeOK
<1>2. /\ Len(work') = Len(work) + 1
      /\ \A i \in 1..Len(work) : work'[i] = work[i]
      /\ work'[Len(work) + 1] = e
  BY <1>1, AppendFacts
<1>3. \A i \in 1..Len(work) : work[i] # e
  BY DEF InWork, QUEUED, SUBMITTED
<1>4. \A i \in 1..Len(work') : i \in 1..Len(work) \/ i = Len(work) + 1
  BY <1>1, <1>2
<1>5. Commands' = Commands /\ \A x \in Event : x # e => status'[x] = status[x]
  BY DEF Commands, TypeOK
<1>6. status'[e] = SUBMITTED
  BY <1>1 DEF TypeOK
<1>7. InWork'
  BY <1>1, <1>2, <1>3, <1>4, <1>5, <1>6 DEF InWork, Commands
<1>8. InTaken'
  <2>1. ASSUME NEW d \in Drivers, pc'[d] = "taken"
        PROVE  /\ cur[d] \in Commands /\ status[cur[d]] = SUBMITTED /\ cur[d] # e
               /\ \A i \in 1..Len(work) : work[i] # cur[d]
    BY <2>1 DEF InTaken, QUEUED, SUBMITTED
  <2> QED BY <1>2, <1>4, <1>5, <1>6, <2>1 DEF InTaken, Commands
<1>9. InFinish'
  BY <1>5 DEF InFinish, Commands, QUEUED, RUNNING
<1> QED BY <1>7, <1>8, <1>9

\* A step after which each thread enqueues what it enqueued before.
LEMMA KeepEnqueuing ==
  ASSUME TypeOK, OwnCommand, Untouched, queue' = queue, kind' = kind, ready' = ready,
         \A h \in Hosts : Enqueuing(h)' => Enqueuing(h) /\ cur'[h] = cur[h] /\ (pc'[h] = "lastSync" => pc[h] = "lastSync"),
         \A e \in Event : status[e] = QUEUED /\ ~ready[e] => status'[e] = QUEUED
  PROVE  OwnCommand' /\ Untouched'
<1>1. OwnCommand'
  BY DEF OwnCommand, TypeOK
<1>2. Untouched'
  <2>1. Commands' = Commands
    BY DEF Commands
  <2>2. ASSUME NEW e \in Event, kind[e] = "none" PROVE status'[e] = QUEUED
    BY <2>2 DEF Untouched, Commands, CommandKinds
  <2>3. ASSUME NEW h \in Hosts, Enqueuing(h)' PROVE status'[cur'[h]] = QUEUED /\ ~ready[cur'[h]]
    BY <2>3 DEF Untouched, TypeOK, Commands
  <2> QED BY <2>1, <2>2, <2>3 DEF Untouched
<1> QED BY <1>1, <1>2

\* A step that changes no status, submits nothing and finishes nothing.
LEMMA QuietStep ==
  ASSUME TypeOK, Dispatch, UNCHANGED <<kind, queue, status, ready, work>>,
         \A h \in Hosts : Enqueuing(h)' => Enqueuing(h) /\ cur'[h] = cur[h] /\ (pc'[h] = "lastSync" => pc[h] = "lastSync"),
         \A d \in Drivers : pc'[d] = "taken" => pc[d] = "taken" /\ cur'[d] = cur[d],
         \A t \in Thread, e \in Event :
           phase'[t][e] \in {"finish", "broadcast", "notifying"} => phase'[t][e] = phase[t][e]
  PROVE  Dispatch'
<1>1. OwnCommand' /\ Untouched'
  BY KeepEnqueuing DEF Dispatch
<1>2. InWork' /\ InTaken' /\ InFinish'
  BY KeepDispatched DEF Dispatch, Commands
<1>3. NoFailure'
  BY DEF Dispatch, NoFailure
<1> QED BY <1>1, <1>2, <1>3 DEF Dispatch

LEMMA DispatchCreate ==
  ASSUME TypeOK, Dispatch, NEW h \in Hosts, NEW q \in Queues, NEW k \in Kinds,
         NEW W \in SUBSET Event, NEW x \in Explicit, CreateCommand(h, q, k, W, x)
  PROVE  Dispatch'
<1> DEFINE e == created + 1
<1>1. e \in Event /\ kind[e] = "none" /\ status[e] = QUEUED /\ ~ready[e] /\ k \in CommandKinds
  <2>1. e \in Event /\ e > created /\ k \in CommandKinds
    BY ConstantsAssumption DEF CreateCommand, TypeOK, Event
  <2>2. kind[e] = "none"
    BY <2>1 DEF TypeOK
  <2> QED BY <2>1, <2>2 DEF Dispatch, Untouched, Commands, CommandKinds
<1>2. e \notin Commands
  BY <1>1 DEF Commands, CommandKinds
<1>3. /\ status' = [status EXCEPT ![e] = QUEUED] /\ kind' = [kind EXCEPT ![e] = k]
      /\ queue' = [queue EXCEPT ![e] = q]
      /\ pc[h] = "idle" /\ h \in Owners[q] /\ ready' = ready /\ work' = work /\ phase' = phase
      /\ pc' = [pc EXCEPT ![h] = IF q \in InOrder THEN "lastSync" ELSE "listSync"]
      /\ cur' = [cur EXCEPT ![h] = e]
  BY DEF CreateCommand, Goto, finVars
<1>4. \A a \in Event : /\ status'[a] = status[a]
                       /\ a # e => kind'[a] = kind[a] /\ queue'[a] = queue[a]
  BY <1>1, <1>3 DEF TypeOK
<1>5. kind'[e] = k /\ queue'[e] = q
  BY <1>1, <1>3 DEF TypeOK
<1>6. pc'[h] = (IF q \in InOrder THEN "lastSync" ELSE "listSync") /\ cur'[h] = e
  BY <1>3 DEF TypeOK, Thread
<1>7. \A g \in Thread : g # h => pc'[g] = pc[g] /\ cur'[g] = cur[g]
  BY <1>3 DEF TypeOK
<1>8. \A g \in Hosts : g # h /\ Enqueuing(g)' => Enqueuing(g) /\ cur[g] \in Commands /\ cur[g] # e /\ cur'[g] = cur[g]
  BY <1>2, <1>7 DEF Enqueuing, TypeOK, Thread
<1>9. Untouched'
  BY <1>1, <1>3, <1>4, <1>5, <1>6, <1>7, <1>8 DEF Dispatch, Untouched, Enqueuing, Commands
<1>10. OwnCommand'
  <2>1. ASSUME NEW g \in Hosts, Enqueuing(g)'
        PROVE  g \in Owners[queue'[cur'[g]]] /\ (pc'[g] = "lastSync" => queue'[cur'[g]] \in InOrder)
    BY <2>1, <1>3, <1>4, <1>5, <1>6, <1>7, <1>8 DEF Dispatch, OwnCommand, Commands, Thread
  <2>2. \A f, g \in Hosts : Enqueuing(f)' /\ Enqueuing(g)' /\ cur'[f] = cur'[g] => f = g
    BY <1>6, <1>8 DEF Dispatch, OwnCommand
  <2> QED BY <2>1, <2>2 DEF OwnCommand
<1>11. InWork' /\ InTaken' /\ InFinish'
  <2>1. \A c \in Commands : c \in Commands' /\ status'[c] = status[c]
    BY <1>2, <1>4 DEF Commands
  <2>2. \A d \in Drivers : d # h
    BY ConstantsAssumption
  <2> QED BY <1>3, <1>7, <2>1, <2>2, KeepDispatched DEF Dispatch, Thread
<1>12. NoFailure'
  BY <1>3, <1>4 DEF Dispatch, NoFailure
<1> QED BY <1>9, <1>10, <1>11, <1>12 DEF Dispatch

LEMMA DispatchUser ==
  ASSUME TypeOK, Dispatch, NEW h \in Hosts, CreateUserEvent(h)
  PROVE  Dispatch'
<1> DEFINE e == created + 1
<1>1. e \in Event /\ kind[e] = "none" /\ status[e] = QUEUED /\ ~ready[e]
  <2>1. e \in Event /\ e > created
    BY ConstantsAssumption DEF CreateUserEvent, TypeOK, Event
  <2>2. kind[e] = "none"
    BY <2>1 DEF TypeOK
  <2> QED BY <2>1, <2>2 DEF Dispatch, Untouched, Commands, CommandKinds
<1>2. e \notin Commands
  BY <1>1 DEF Commands, CommandKinds
<1>3. /\ status' = [status EXCEPT ![e] = SUBMITTED] /\ kind' = [kind EXCEPT ![e] = "user"]
      /\ UNCHANGED <<queue, ready, work, phase, pc, cur>>
  BY DEF CreateUserEvent, finVars, callVars
<1>4. \A a \in Event : a # e => status'[a] = status[a] /\ kind'[a] = kind[a]
  BY <1>3 DEF TypeOK
<1>5. status'[e] = SUBMITTED /\ kind'[e] = "user"
  BY <1>1, <1>3 DEF TypeOK
<1>6. \A g \in Hosts : Enqueuing(g)' => Enqueuing(g) /\ cur[g] \in Commands /\ cur[g] # e
  BY <1>2, <1>3 DEF Enqueuing, TypeOK
<1>7. Untouched'
  BY <1>1, <1>3, <1>4, <1>5, <1>6 DEF Dispatch, Untouched, Commands
<1>8. OwnCommand'
  BY <1>3, <1>6 DEF Dispatch, OwnCommand
<1>9. InWork' /\ InTaken' /\ InFinish'
  <2>1. \A c \in Commands : c \in Commands' /\ status'[c] = status[c]
    BY <1>2, <1>4 DEF Commands
  <2> QED BY <1>3, <2>1, KeepDispatched DEF Dispatch
<1>10. NoFailure'
  BY <1>1, <1>3, <1>4, <1>5 DEF Dispatch, NoFailure, QUEUED, SUBMITTED, FAILED, COMPLETE
<1> QED BY <1>7, <1>8, <1>9, <1>10 DEF Dispatch

LEMMA DispatchSubmit ==
  ASSUME TypeOK, Dispatch, NEW h \in Hosts, Submit(h)
  PROVE  Dispatch'
<1> DEFINE e == cur[h] go == waits[cur[h]] = {}
<1>1. e \in Commands /\ e \in Event /\ status[e] = QUEUED /\ ~ready[e] /\ Enqueuing(h)
  BY DEF Submit, TypeOK, Enqueuing, Commands, Dispatch, Untouched
<1>2. /\ ready' = [ready EXCEPT ![e] = TRUE]
      /\ status' = [status EXCEPT ![e] = IF go THEN SUBMITTED ELSE QUEUED]
      /\ work' = IF go THEN Append(work, e) ELSE work
      /\ UNCHANGED <<kind, queue, phase>>
      /\ cur' = [cur EXCEPT ![h] = NoEvent] /\ pc' = [pc EXCEPT ![h] = "idle"]
  BY DEF Submit, identVars, finVars, Goto
<1>3. \A a \in Event : a # e => status'[a] = status[a] /\ ready'[a] = ready[a]
  BY <1>2 DEF TypeOK
<1>4. \A g \in Hosts : Enqueuing(g)' => g # h /\ Enqueuing(g) /\ cur'[g] = cur[g] /\ pc'[g] = pc[g]
  BY <1>2 DEF Enqueuing, TypeOK, Thread
<1>5. \A g \in Hosts : Enqueuing(g)' => cur[g] # e
  BY <1>1, <1>4 DEF Dispatch, OwnCommand
<1>6. Untouched'
  <2>1. kind[e] # "none"
    BY <1>1 DEF Commands, CommandKinds
  <2>2. Commands' = Commands
    BY <1>2 DEF Commands
  <2>3. \A a \in Event : ready'[a] => a \in Commands
    BY <1>1, <1>3 DEF Dispatch, Untouched
  <2>4. \A a \in Event : kind[a] = "none" => status'[a] = QUEUED
    BY <2>1, <1>3 DEF Dispatch, Untouched
  <2>5. \A g \in Hosts : Enqueuing(g)' => status'[cur'[g]] = QUEUED /\ ~ready'[cur'[g]]
    <3>1. ASSUME NEW g \in Hosts, Enqueuing(g)' PROVE cur'[g] = cur[g] /\ cur[g] \in Event /\ cur[g] # e /\ Enqueuing(g)
      BY <3>1, <1>4, <1>5 DEF TypeOK, Commands
    <3> QED BY <3>1, <1>3 DEF Dispatch, Untouched
  <2> QED BY <1>2, <2>2, <2>3, <2>4, <2>5 DEF Dispatch, Untouched
<1>7. OwnCommand'
  BY <1>2, <1>4 DEF Dispatch, OwnCommand
<1>8. InWork' /\ InTaken' /\ InFinish'
  <2>1. \A d \in Drivers : d # h /\ pc'[d] = pc[d] /\ cur'[d] = cur[d]
    BY <1>2, ConstantsAssumption DEF TypeOK, Thread
  <2>2. CASE go
    BY <1>1, <1>2, <2>1, <2>2, DispatchOne DEF Dispatch
  <2>3. CASE ~go
    <3>1. status' = status
      BY <1>1, <1>2, <2>3 DEF TypeOK
    <3> QED BY <1>2, <2>1, <2>3, <3>1, KeepDispatched DEF Dispatch, Commands
  <2> QED BY <2>2, <2>3
<1>9. NoFailure'
  <2>1. status'[e] \in {SUBMITTED, QUEUED}
    BY <1>1, <1>2 DEF TypeOK
  <2> QED BY <1>1, <1>2, <1>3, <2>1 DEF Dispatch, NoFailure, QUEUED, SUBMITTED, FAILED, COMPLETE
<1> QED BY <1>6, <1>7, <1>8, <1>9 DEF Dispatch

LEMMA DispatchTake ==
  ASSUME TypeOK, Dispatch, NEW d \in Drivers, Take(d)
  PROVE  Dispatch'
<1>1. /\ pc[d] = "idle" /\ work # <<>> /\ work' = Tail(work)
      /\ cur' = [cur EXCEPT ![d] = Head(work)] /\ pc' = [pc EXCEPT ![d] = "taken"]
      /\ UNCHANGED <<kind, queue, status, ready, phase>>
  BY DEF Take, Goto, identVars, eventVars, finVars
<1>2. /\ Len(work) \in Nat \ {0} /\ Len(work') = Len(work) - 1 /\ Head(work) = work[1]
      /\ \A i \in 1..(Len(work) - 1) : work'[i] = work[i + 1]
  BY <1>1, TailFacts DEF TypeOK
<1>3. Commands' = Commands
  BY <1>1 DEF Commands
<1>4. cur'[d] = work[1] /\ pc'[d] = "taken"
  BY <1>1, <1>2 DEF TypeOK, Thread
<1>5. \A t \in Thread : t # d => pc'[t] = pc[t] /\ cur'[t] = cur[t]
  BY <1>1 DEF TypeOK
<1>6. InWork'
  BY <1>1, <1>2, <1>3 DEF Dispatch, InWork
<1>7. InTaken'
  <2>1. /\ work[1] \in Commands /\ status[work[1]] = SUBMITTED
        /\ \A i \in 1..Len(work') : work'[i] # work[1]
    BY <1>2 DEF Dispatch, InWork
  <2>2. ASSUME NEW c \in Drivers, c # d, pc'[c] = "taken"
        PROVE  /\ cur'[c] = cur[c] /\ cur[c] \in Commands /\ status[cur[c]] = SUBMITTED
               /\ \A i \in 1..Len(work') : work'[i] # cur[c]
               /\ cur[c] # work[1]
    BY <2>2, <1>2, <1>5 DEF Dispatch, InTaken, Thread
  <2>3. ASSUME NEW c \in Drivers, NEW b \in Drivers, pc'[c] = "taken", pc'[b] = "taken", cur'[b] = cur'[c]
        PROVE  b = c
    BY <2>3, <2>2, <1>4, <1>5 DEF Dispatch, InTaken, Thread
  <2> QED BY <1>1, <1>3, <1>4, <2>1, <2>2, <2>3 DEF InTaken
<1>8. InFinish' /\ NoFailure'
  BY <1>1, <1>3 DEF Dispatch, InFinish, NoFailure
<1>9. OwnCommand' /\ Untouched'
  <2>1. \A h \in Hosts : h # d
    BY ConstantsAssumption
  <2> QED BY <1>1, <1>5, <2>1, KeepEnqueuing DEF Dispatch, Enqueuing, Thread
<1> QED BY <1>6, <1>7, <1>8, <1>9 DEF Dispatch

LEMMA DispatchStart ==
  ASSUME TypeOK, Dispatch, NEW d \in Drivers, Start(d)
  PROVE  Dispatch'
<1> DEFINE e == cur[d]
<1>1. /\ pc[d] = "taken" /\ status' = [status EXCEPT ![e] = RUNNING]
      /\ phase' = [phase EXCEPT ![d] = [phase[d] EXCEPT ![e] = "finish"]]
      /\ cur' = [cur EXCEPT ![d] = NoEvent] /\ pc' = [pc EXCEPT ![d] = "finishing"]
      /\ UNCHANGED <<kind, queue, ready, work>>
  BY DEF Start, Goto, identVars
<1>2. /\ e \in Commands /\ e \in Event /\ status[e] = SUBMITTED
      /\ \A i \in 1..Len(work) : work[i] # e
  BY <1>1 DEF Dispatch, InTaken, Commands
<1>3. Commands' = Commands
  BY <1>1 DEF Commands
<1>4. \A a \in Event : a # e => status'[a] = status[a]
  BY <1>1 DEF TypeOK
<1>5. status'[e] = RUNNING
  BY <1>1, <1>2 DEF TypeOK
<1>6. \A t \in Thread : t # d => pc'[t] = pc[t] /\ cur'[t] = cur[t]
  BY <1>1 DEF TypeOK
<1>7. pc'[d] = "finishing"
  BY <1>1 DEF TypeOK, Thread
<1>8. \A t \in Thread, a \in Event :
        phase'[t][a] = IF t = d /\ a = e THEN "finish" ELSE phase[t][a]
  BY <1>1 DEF TypeOK
<1>9. InWork'
  BY <1>1, <1>2, <1>3, <1>4 DEF Dispatch, InWork, Commands
<1>10. InTaken'
  <2>1. ASSUME NEW c \in Drivers, pc'[c] = "taken"
        PROVE  /\ c # d /\ pc[c] = "taken" /\ cur'[c] = cur[c] /\ cur[c] # e
               /\ cur[c] \in Commands /\ status[cur[c]] = SUBMITTED
               /\ \A i \in 1..Len(work) : work[i] # cur[c]
    BY <2>1, <1>1, <1>6, <1>7 DEF Dispatch, InTaken, Thread
  <2> QED BY <1>1, <1>3, <1>4, <2>1 DEF Dispatch, InTaken, Commands
<1>11. InFinish'
  <2>1. \A t \in Thread : phase[t][e] # "finish"
    BY <1>2 DEF Dispatch, InFinish, SUBMITTED, RUNNING
  <2> QED BY <1>2, <1>3, <1>4, <1>5, <1>8, <2>1 DEF Dispatch, InFinish
<1>12. NoFailure'
  BY <1>2, <1>4, <1>5, <1>8 DEF Dispatch, NoFailure, RUNNING, FAILED, SUBMITTED, COMPLETE
<1>13. OwnCommand' /\ Untouched'
  <2>1. \A h \in Hosts : h # d
    BY ConstantsAssumption
  <2>2. \A a \in Event : status[a] = QUEUED => status'[a] = QUEUED
    BY <1>2, <1>4 DEF QUEUED, SUBMITTED
  <2> QED BY <1>1, <1>6, <2>1, <2>2, KeepEnqueuing DEF Dispatch, Enqueuing, Thread
<1> QED BY <1>9, <1>10, <1>11, <1>12, <1>13 DEF Dispatch

LEMMA DispatchFinish ==
  ASSUME TypeOK, Dispatch, NEW t \in Thread, NEW e \in Event, Finish(t, e)
  PROVE  Dispatch'
<1>1. /\ phase[t][e] = "finish" /\ status' = [status EXCEPT ![e] = COMPLETE]
      /\ phase' = [phase EXCEPT ![t] = [phase[t] EXCEPT ![e] = "broadcast"]]
      /\ UNCHANGED <<kind, queue, ready, work, cur>>
  BY DEF Finish, Dispatch, NoFailure, Failing, identVars
<1>2. /\ e \in Commands /\ status[e] = RUNNING
      /\ \A u \in Thread : phase[u][e] = "finish" => u = t
  BY <1>1 DEF Dispatch, InFinish
<1>3. \A a \in Event : a # e => status'[a] = status[a]
  BY <1>1 DEF TypeOK
<1>4. status'[e] = COMPLETE
  BY <1>1 DEF TypeOK
<1>5. \A x \in Thread : pc'[x] = pc[x] \/ (pc[x] \in {"joinWait", "eventWait"} /\ pc'[x] \in {"join", "wait"})
  BY DEF Finish, TypeOK, WaitsForQueue, WaitsForEvent
<1>6. \A u \in Thread, a \in Event :
        phase'[u][a] = IF u = t /\ a = e THEN "broadcast" ELSE phase[u][a]
  BY <1>1 DEF TypeOK
<1>7. Commands' = Commands
  BY <1>1 DEF Commands
<1>8. InWork'
  BY <1>1, <1>2, <1>3, <1>7 DEF Dispatch, InWork, Commands, SUBMITTED, RUNNING
<1>9. InTaken'
  <2>1. ASSUME NEW c \in Drivers, pc'[c] = "taken"
        PROVE  pc[c] = "taken" /\ cur[c] # e
    BY <2>1, <1>2, <1>5 DEF Dispatch, InTaken, SUBMITTED, RUNNING, Thread
  <2> QED BY <1>1, <1>3, <1>7, <2>1 DEF Dispatch, InTaken, Commands
<1>10. InFinish'
  BY <1>2, <1>3, <1>6, <1>7 DEF Dispatch, InFinish
<1>11. NoFailure'
  BY <1>2, <1>3, <1>4, <1>6 DEF Dispatch, NoFailure, COMPLETE, FAILED
<1>12. OwnCommand' /\ Untouched'
  <2>1. \A a \in Event : status[a] = QUEUED => status'[a] = QUEUED
    BY <1>2, <1>3 DEF QUEUED, RUNNING
  <2>2. \A h \in Hosts : Enqueuing(h)' => pc'[h] = pc[h] /\ Enqueuing(h)
    BY <1>5 DEF Enqueuing, Thread
  <2> QED BY <1>1, <2>1, <2>2, KeepEnqueuing DEF Dispatch
<1> QED BY <1>8, <1>9, <1>10, <1>11, <1>12 DEF Dispatch

LEMMA DispatchNotify ==
  ASSUME TypeOK, Dispatch, NEW t \in Thread, NEW e \in Event, NEW x \in Event, Notify(t, e, x)
  PROVE  Dispatch'
<1>1. /\ UNCHANGED <<kind, queue, ready, phase, pc, cur>>
      /\ status' = IF Dispatchable(x, e) THEN [status EXCEPT ![x] = SUBMITTED] ELSE status
      /\ work' = IF Dispatchable(x, e) THEN Append(work, x) ELSE work
  BY DEF Notify, identVars, callVars, finVars
<1>2. CASE ~Dispatchable(x, e)
  BY <1>1, <1>2, QuietStep DEF Enqueuing
<1>3. CASE Dispatchable(x, e)
  <2>1. status[x] = QUEUED /\ ready[x] /\ x \in Commands
    BY <1>3 DEF Dispatchable, Dispatch, Untouched
  <2>2. InWork' /\ InTaken' /\ InFinish'
    BY <1>1, <1>3, <2>1, DispatchOne DEF Dispatch
  <2>3. \A a \in Event : (a # x \/ ~ready[a]) => status'[a] = status[a]
    BY <1>1, <1>3, <2>1 DEF TypeOK
  <2>4. status'[x] = SUBMITTED
    BY <1>1, <1>3 DEF TypeOK
  <2>5. NoFailure'
    BY <1>1, <2>1, <2>3, <2>4 DEF Dispatch, NoFailure, SUBMITTED, FAILED, COMPLETE, QUEUED
  <2>6. OwnCommand' /\ Untouched'
    BY <1>1, <2>3, KeepEnqueuing DEF Dispatch, Enqueuing
  <2> QED BY <2>2, <2>5, <2>6 DEF Dispatch
<1> QED BY <1>2, <1>3

LEMMA DispatchSetUser ==
  ASSUME TypeOK, Dispatch, NoFailures, NEW h \in Hosts, NEW e \in Event, NEW s \in UserStatuses,
         SetUserEventStatus(h, e, s)
  PROVE  Dispatch'
<1>1. /\ kind[e] = "user" /\ pc[h] = "idle" /\ status' = [status EXCEPT ![e] = COMPLETE]
      /\ phase' = [phase EXCEPT ![h] = [phase[h] EXCEPT ![e] = "broadcast"]]
      /\ cur' = [cur EXCEPT ![h] = e] /\ pc' = [pc EXCEPT ![h] = "userDone"]
      /\ UNCHANGED <<kind, queue, ready, work>>
  BY DEF SetUserEventStatus, NoFailures, Goto, identVars
<1>2. e \notin Commands
  BY <1>1 DEF Commands, CommandKinds
<1>3. \A a \in Event : a # e => status'[a] = status[a]
  BY <1>1 DEF TypeOK
<1>4. status'[e] = COMPLETE
  BY <1>1 DEF TypeOK
<1>5. \A x \in Thread : x # h => pc'[x] = pc[x] /\ cur'[x] = cur[x]
  BY <1>1 DEF TypeOK
<1>6. pc'[h] = "userDone"
  BY <1>1 DEF TypeOK, Thread
<1>7. \A u \in Thread, a \in Event :
        phase'[u][a] = IF u = h /\ a = e THEN "broadcast" ELSE phase[u][a]
  BY <1>1 DEF TypeOK, Thread
<1>8. \A x \in Hosts : Enqueuing(x)' => x # h /\ Enqueuing(x) /\ cur'[x] = cur[x] /\ pc'[x] = pc[x] /\ cur[x] # e
  BY <1>2, <1>5, <1>6 DEF Enqueuing, TypeOK, Thread
<1>9. Untouched'
  BY <1>1, <1>3, <1>8 DEF Dispatch, Untouched, TypeOK, Commands
<1>10. OwnCommand'
  BY <1>1, <1>8 DEF Dispatch, OwnCommand
<1>11. InWork' /\ InTaken' /\ InFinish'
  <2>1. \A d \in Drivers : d # h
    BY ConstantsAssumption
  <2>2. \A c \in Commands : c \in Commands' /\ status'[c] = status[c]
    BY <1>1, <1>2, <1>3 DEF Commands
  <2> QED BY <1>1, <1>5, <1>7, <2>1, <2>2, KeepDispatched DEF Dispatch, Thread
<1>12. NoFailure'
  BY <1>3, <1>4, <1>7 DEF Dispatch, NoFailure, COMPLETE, FAILED
<1> QED BY <1>9, <1>10, <1>11, <1>12 DEF Dispatch

LEMMA DispatchStep ==
  ASSUME TypeOK, Dispatch, NoFailures, [Next]_vars
  PROVE  Dispatch'
<1>0. CASE UNCHANGED vars
  BY <1>0, QuietStep DEF vars, identVars, eventVars, callVars, finVars, Enqueuing
<1>1. ASSUME NEW h \in Hosts, SyncLast(h) \/ SyncListed(h) \/ Enqueue(h) PROVE Dispatch'
  <2>1. /\ UNCHANGED <<kind, queue, status, ready, work, cur, phase>>
        /\ pc' = pc \/ pc' = [pc EXCEPT ![h] = "listSync"] \/ pc' = [pc EXCEPT ![h] = "submit"]
        /\ Enqueuing(h)
    BY <1>1 DEF SyncLast, SyncListed, Enqueue, identVars, finVars, Goto, Enqueuing
  <2>2. \A t \in Thread : t # h => pc'[t] = pc[t]
    BY <2>1 DEF TypeOK
  <2>3. pc'[h] = "lastSync" => pc[h] = "lastSync"
    BY <2>1 DEF TypeOK, Thread
  <2>4. \A d \in Drivers : d # h
    BY ConstantsAssumption
  <2> QED BY <2>1, <2>2, <2>3, <2>4, QuietStep DEF Enqueuing, Thread
<1>2. ASSUME NEW h \in Hosts, UserEventDone(h) \/ Join(h) \/ WaitEvent(h) \/ WaitTimeout(h) PROVE Dispatch'
  <2>1. UNCHANGED <<kind, queue, status, ready, work, phase>>
    BY <1>2 DEF UserEventDone, Join, WaitEvent, WaitTimeout, identVars, eventVars, finVars
  <2>2. \A t \in Thread : \/ pc'[t] = pc[t] /\ cur'[t] = cur[t]
                          \/ pc'[t] \in {"idle", "joinWait", "eventWait", "wait"}
    BY <1>2 DEF UserEventDone, Join, WaitEvent, WaitTimeout, TypeOK, Goto, WaitsForEvent
  <2> QED BY <2>1, <2>2, QuietStep DEF Enqueuing, Thread
<1>3. ASSUME NEW h \in Hosts, NEW q \in Queues, CallFinish(h, q) \/ ReleaseQueue(h, q) PROVE Dispatch'
  <2>1. UNCHANGED <<kind, queue, status, ready, work, phase>>
    BY <1>3 DEF CallFinish, ReleaseQueue, identVars, eventVars, finVars
  <2>2. \A t \in Thread : (pc'[t] = pc[t] /\ cur'[t] = cur[t]) \/ pc'[t] = "join"
    BY <1>3 DEF CallFinish, ReleaseQueue, TypeOK, Goto, callVars
  <2> QED BY <2>1, <2>2, QuietStep DEF Enqueuing, Thread
<1>4. ASSUME NEW h \in Hosts, NEW e \in Event, CallWait(h, e) \/ ReleaseEvent(h, e) PROVE Dispatch'
  <2>1. UNCHANGED <<kind, queue, status, ready, work, phase>>
    BY <1>4 DEF CallWait, ReleaseEvent, identVars, eventVars, finVars
  <2>2. \A t \in Thread : (pc'[t] = pc[t] /\ cur'[t] = cur[t]) \/ pc'[t] = "wait"
    BY <1>4 DEF CallWait, ReleaseEvent, TypeOK, Goto, callVars
  <2> QED BY <2>1, <2>2, QuietStep DEF Enqueuing, Thread
<1>5. ASSUME NEW t \in Thread, NEW e \in Event, BroadcastDone(t, e) \/ ReleaseFinished(t, e) PROVE Dispatch'
  <2>1. /\ UNCHANGED <<kind, queue, status, ready, work, cur>>
        /\ \E v \in {"none", "release"} : phase' = [phase EXCEPT ![t] = [phase[t] EXCEPT ![e] = v]]
    BY <1>5 DEF BroadcastDone, ReleaseFinished, identVars, eventVars, callVars
  <2>2. \A u \in Thread, a \in Event : phase'[u][a] = phase[u][a] \/ phase'[u][a] \in {"none", "release"}
    BY <2>1 DEF TypeOK
  <2>3. \A u \in Thread : pc'[u] = pc[u] \/ pc'[u] = "idle"
    BY <1>5 DEF BroadcastDone, ReleaseFinished, callVars, TypeOK
  <2> QED BY <2>1, <2>2, <2>3, QuietStep DEF Enqueuing, Thread
<1>6. ASSUME NEW t \in Thread, NEW e \in Event, NEW x \in Event, NotifyFailed(t, e, x) PROVE Dispatch'
  BY <1>6 DEF NotifyFailed, Dispatch, NoFailure
<1>7. ASSUME NEW t \in Thread, NEW e \in Event, Relock(t, e) PROVE Dispatch'
  BY <1>7 DEF Relock, Dispatch, NoFailure
<1> QED
  BY <1>0, <1>1, <1>2, <1>3, <1>4, <1>5, <1>6, <1>7, DispatchCreate, DispatchUser, DispatchSubmit,
     DispatchTake, DispatchStart, DispatchFinish, DispatchNotify, DispatchSetUser
  DEF Next, EnqueueStep, WaitStep, DriverStep, FinishStep, SetSomeUserEvent, AppStep

-----------------------------------------------------------------------------
(* Order is inductive. *)

\* A step that leaves the wait lists, the queues and the needs alone, and
\* dispatches no command whose needs are not complete.
LEMMA KeepOrder ==
  ASSUME TypeOK, Dispatch, Order,
         UNCHANGED <<waits, barrier, last, pending, needs>>,
         Commands' = Commands,
         \A c \in Commands : kind'[c] = kind[c] /\ queue'[c] = queue[c],
         \A e \in Event : status[e] = COMPLETE => status'[e] = COMPLETE,
         \A c \in Commands : status'[c] = COMPLETE => status[c] = COMPLETE,
         \A c \in Commands : status'[c] = QUEUED => status[c] = QUEUED,
         \A c \in Commands : status[c] = QUEUED /\ status'[c] # QUEUED =>
           \A d \in needs[c] : status[d] = COMPLETE,
         \A h \in Hosts : pc[h] \in {"lastSync", "listSync"} =>
           pc'[h] = pc[h] /\ cur'[h] = cur[h] /\ todo'[h] = todo[h],
         \A h \in Hosts : pc'[h] = "listSync" => pc[h] = "listSync" /\ cur'[h] = cur[h]
  PROVE  Order'
<1>1. PendingUnfinished'
  BY DEF Order, PendingUnfinished
<1>2. LastCovers'
  BY DEF Order, LastCovers
<1>3. BarrierCovers'
  BY DEF Order, BarrierCovers, PendingUnfinished
<1>4. OneBarrier'
  BY DEF Order, OneBarrier, Commands
<1>5. \A e \in Event, d \in Event : WaitsOn(e, d)' <=> WaitsOn(e, d)
  BY DEF WaitsOn
<1>6. SyncedWithLast'
  <2>1. ASSUME NEW h \in Hosts, pc'[h] = "listSync", queue'[cur'[h]] \in InOrder,
               NEW d \in pending'[queue'[cur'[h]]]
        PROVE  WaitsOn(cur[h], d)'
    <3>1. /\ pc[h] = "listSync" /\ cur'[h] = cur[h] /\ cur[h] \in Commands /\ cur[h] \in Event
          /\ queue'[cur[h]] = queue[cur[h]] /\ queue[cur[h]] \in Queues
      BY <2>1 DEF TypeOK, Enqueuing, Commands
    <3>2. WaitsOn(cur[h], d) /\ d \in Event
      BY <2>1, <3>1 DEF Order, SyncedWithLast, TypeOK
    <3> QED BY <3>1, <3>2 DEF WaitsOn
  <2> QED BY <2>1 DEF SyncedWithLast
<1>7. NeedsCovered'
  <2>1. ASSUME NEW e \in Commands, status'[e] = QUEUED, NEW d \in needs[e]
        PROVE  \/ status'[d] = COMPLETE
               \/ WaitsOn(e, d)'
               \/ \E h \in Hosts : pc'[h] \in {"lastSync", "listSync"} /\ cur'[h] = e /\ d \in todo'[h]
    <3>1. e \in Event /\ d \in Event /\ status[e] = QUEUED
      BY <2>1 DEF Commands, TypeOK
    <3>2. CASE status[d] = COMPLETE
      BY <3>1, <3>2
    <3>3. CASE WaitsOn(e, d)
      BY <3>1, <3>3, <1>5
    <3>4. CASE \E h \in Hosts : pc[h] \in {"lastSync", "listSync"} /\ cur[h] = e /\ d \in todo[h]
      BY <3>4
    <3> QED BY <2>1, <3>1, <3>2, <3>3, <3>4 DEF Order, NeedsCovered
  <2> QED BY <2>1 DEF NeedsCovered
<1>8. DependencyOrder'
  <2>1. ASSUME NEW e \in Commands, status'[e] \in {SUBMITTED, RUNNING, COMPLETE}, NEW d \in needs[e]
        PROVE  status'[d] = COMPLETE
    <3>1. e \in Event /\ d \in Event /\ status[e] \in {QUEUED, SUBMITTED, RUNNING, COMPLETE}
      BY <2>1 DEF Commands, TypeOK, Dispatch, NoFailure, QUEUED, SUBMITTED, RUNNING, COMPLETE, FAILED
    <3>2. status[d] = COMPLETE
      BY <2>1, <3>1 DEF Order, DependencyOrder, QUEUED, SUBMITTED, RUNNING, COMPLETE
    <3> QED BY <3>1, <3>2
  <2> QED BY <2>1 DEF DependencyOrder
<1> QED BY <1>1, <1>2, <1>3, <1>4, <1>6, <1>7, <1>8 DEF Order

\* A command with an empty wait list that no thread is creating has all it needs.
LEMMA NeedsMet ==
  ASSUME TypeOK, Order, NEW e \in Commands, status[e] = QUEUED,
         \A h \in Hosts : pc[h] \in {"lastSync", "listSync"} => cur[h] # e,
         \A m \in waits[e] : status[m] = COMPLETE,
         NEW d \in needs[e]
  PROVE  status[d] = COMPLETE
<1>1. status[d] = COMPLETE \/ WaitsOn(e, d)
  BY DEF Order, NeedsCovered
<1>2. ASSUME NEW m \in waits[e], m \in Commands, d \in needs[m] PROVE status[d] = COMPLETE
  BY <1>2 DEF Order, DependencyOrder
<1> QED BY <1>1, <1>2 DEF WaitsOn

LEMMA OrderSubmit ==
  ASSUME TypeOK, Dispatch, Order, NEW h \in Hosts, Submit(h)
  PROVE  Order'
<1> DEFINE e == cur[h]
<1>1. e \in Commands /\ e \in Event /\ status[e] = QUEUED /\ Enqueuing(h) /\ pc[h] = "submit"
  BY DEF Submit, TypeOK, Enqueuing, Commands, Dispatch, Untouched
<1>2. /\ status' = [status EXCEPT ![e] = IF waits[e] = {} THEN SUBMITTED ELSE QUEUED]
      /\ UNCHANGED <<kind, queue, waits, barrier, last, pending, needs, todo>>
      /\ cur' = [cur EXCEPT ![h] = NoEvent] /\ pc' = [pc EXCEPT ![h] = "idle"]
  BY DEF Submit, identVars, cqVars, Goto
<1>3. \A a \in Event : a # e => status'[a] = status[a]
  BY <1>2 DEF TypeOK
<1>4. status'[e] = IF waits[e] = {} THEN SUBMITTED ELSE QUEUED
  BY <1>1, <1>2 DEF TypeOK
<1>5. \A g \in Hosts : g # h => pc'[g] = pc[g] /\ cur'[g] = cur[g]
  BY <1>2 DEF TypeOK, Thread
<1>6. pc'[h] = "idle"
  BY <1>2 DEF TypeOK, Thread
<1>7. \A g \in Hosts : pc[g] \in {"lastSync", "listSync"} => cur[g] # e
  BY <1>1 DEF Dispatch, OwnCommand, Enqueuing
<1>8. waits[e] = {} => \A d \in needs[e] : status[d] = COMPLETE
  BY <1>1, <1>7, NeedsMet
<1>9. Commands' = Commands
  BY <1>2 DEF Commands
<1>10. \A c \in Commands : c \in Event
  BY DEF Commands
<1>11. \A a \in Event : /\ status[a] = COMPLETE <=> status'[a] = COMPLETE
                        /\ status'[a] = QUEUED => status[a] = QUEUED
                        /\ status[a] = QUEUED /\ status'[a] # QUEUED => a = e /\ waits[e] = {}
  BY <1>1, <1>3, <1>4 DEF QUEUED, SUBMITTED, COMPLETE
<1> QED BY <1>1, <1>2, <1>5, <1>6, <1>8, <1>9, <1>10, <1>11, KeepOrder

\* A step that touches no list and no status of a command.
LEMMA KeepOrderQuiet ==
  ASSUME TypeOK, Dispatch, Order, UNCHANGED <<waits, barrier, last, pending, needs>>,
         Commands' = Commands,
         \A c \in Commands : kind'[c] = kind[c] /\ queue'[c] = queue[c] /\ status'[c] = status[c],
         \A e \in Event : status[e] = COMPLETE => status'[e] = COMPLETE,
         \A h \in Hosts : pc[h] \in {"lastSync", "listSync"} =>
           pc'[h] = pc[h] /\ cur'[h] = cur[h] /\ todo'[h] = todo[h],
         \A h \in Hosts : pc'[h] = "listSync" => pc[h] = "listSync" /\ cur'[h] = cur[h]
  PROVE  Order'
BY KeepOrder

LEMMA OrderStart ==
  ASSUME TypeOK, Dispatch, Order, NEW d \in Drivers, Start(d)
  PROVE  Order'
<1> DEFINE e == cur[d]
<1>1. /\ pc[d] = "taken" /\ status' = [status EXCEPT ![e] = RUNNING]
      /\ cur' = [cur EXCEPT ![d] = NoEvent] /\ pc' = [pc EXCEPT ![d] = "finishing"]
      /\ UNCHANGED <<kind, queue, waits, barrier, last, pending, needs, todo>>
  BY DEF Start, Goto, identVars, cqVars
<1>2. e \in Commands /\ e \in Event /\ status[e] = SUBMITTED
  BY <1>1 DEF Dispatch, InTaken, Commands
<1>3. Commands' = Commands
  BY <1>1 DEF Commands
<1>4. \A a \in Event : a # e => status'[a] = status[a]
  BY <1>1 DEF TypeOK
<1>5. status'[e] = RUNNING
  BY <1>1, <1>2 DEF TypeOK
<1>6. \A h \in Hosts : pc'[h] = pc[h] /\ cur'[h] = cur[h]
  BY <1>1, ConstantsAssumption DEF TypeOK, Thread
<1>7. \A a \in Event : /\ status[a] = COMPLETE <=> status'[a] = COMPLETE
                       /\ status'[a] = QUEUED <=> status[a] = QUEUED
  BY <1>2, <1>4, <1>5 DEF SUBMITTED, RUNNING, COMPLETE, QUEUED
<1>8. \A c \in Commands : c \in Event
  BY DEF Commands
<1> QED BY <1>1, <1>3, <1>6, <1>7, <1>8, KeepOrder

LEMMA OrderUser ==
  ASSUME TypeOK, Dispatch, Order, NEW h \in Hosts, CreateUserEvent(h)
  PROVE  Order'
<1> DEFINE e == created + 1
<1>1. e \in Event /\ kind[e] = "none" /\ status[e] = QUEUED
  <2>1. e \in Event /\ e > created
    BY ConstantsAssumption DEF CreateUserEvent, TypeOK, Event
  <2>2. kind[e] = "none"
    BY <2>1 DEF TypeOK
  <2> QED BY <2>1, <2>2 DEF Dispatch, Untouched
<1>2. /\ status' = [status EXCEPT ![e] = SUBMITTED] /\ kind' = [kind EXCEPT ![e] = "user"]
      /\ UNCHANGED <<queue, waits, barrier, last, pending, needs, pc, cur, todo>>
  BY DEF CreateUserEvent, callVars, cqVars
<1>3. \A a \in Event : a # e => status'[a] = status[a] /\ kind'[a] = kind[a]
  BY <1>2 DEF TypeOK
<1>4. e \notin Commands /\ e \notin Commands'
  BY <1>1, <1>2 DEF TypeOK, Commands, CommandKinds
<1>5. Commands' = Commands
  BY <1>3, <1>4 DEF Commands
<1>6. \A c \in Commands : c \in Event /\ c # e
  BY <1>4 DEF Commands
<1> QED BY <1>1, <1>2, <1>3, <1>5, <1>6, KeepOrderQuiet DEF QUEUED, COMPLETE

LEMMA OrderSetUser ==
  ASSUME TypeOK, Dispatch, Order, Orderly, NEW h \in Hosts, NEW e \in Event,
         NEW s \in UserStatuses, SetUserEventStatus(h, e, s)
  PROVE  Order'
<1>1. /\ kind[e] = "user" /\ pc[h] = "idle" /\ status' = [status EXCEPT ![e] = COMPLETE]
      /\ cur' = [cur EXCEPT ![h] = e] /\ pc' = [pc EXCEPT ![h] = "userDone"]
      /\ UNCHANGED <<kind, queue, waits, barrier, last, pending, needs, todo>>
  BY DEF SetUserEventStatus, Orderly, NoFailures, Goto, identVars, cqVars
<1>2. e \notin Commands
  BY <1>1 DEF Commands, CommandKinds
<1>3. \A a \in Event : a # e => status'[a] = status[a]
  BY <1>1 DEF TypeOK
<1>4. status'[e] = COMPLETE
  BY <1>1 DEF TypeOK
<1>5. \A x \in Hosts : x # h => pc'[x] = pc[x] /\ cur'[x] = cur[x]
  BY <1>1 DEF TypeOK, Thread
<1>6. pc'[h] = "userDone"
  BY <1>1 DEF TypeOK, Thread
<1>7. Commands' = Commands
  BY <1>1 DEF Commands
<1>8. \A c \in Commands : c \in Event /\ c # e
  BY <1>2 DEF Commands
<1> QED BY <1>1, <1>3, <1>4, <1>5, <1>6, <1>7, <1>8, KeepOrderQuiet

LEMMA OrderNotify ==
  ASSUME TypeOK, Dispatch, Order, NEW t \in Thread, NEW e \in Event, NEW x \in Event, Notify(t, e, x)
  PROVE  Order'
<1>1. /\ UNCHANGED <<kind, queue, ready, pc, cur, todo, barrier, last, pending, needs>>
      /\ waits' = [waits EXCEPT ![x] = @ \ {e}]
      /\ status' = IF Dispatchable(x, e) THEN [status EXCEPT ![x] = SUBMITTED] ELSE status
      /\ status[e] = COMPLETE
  BY DEF Notify, identVars, callVars, cqVars, Dispatch, NoFailure
<1>2. Commands' = Commands
  BY <1>1 DEF Commands
<1>3. \A a \in Event : waits'[a] = IF a = x THEN waits[a] \ {e} ELSE waits[a]
  BY <1>1 DEF TypeOK
<1>4. ASSUME Dispatchable(x, e)
      PROVE  /\ x \in Commands /\ status[x] = QUEUED /\ waits[x] \subseteq {e}
             /\ \A h \in Hosts : pc[h] \in {"lastSync", "listSync"} => cur[h] # x
  BY <1>4 DEF Dispatchable, Dispatch, Untouched, Enqueuing
<1>5. \A a \in Event : status'[a] # status[a] =>
        Dispatchable(x, e) /\ a = x /\ status[a] = QUEUED /\ status'[a] = SUBMITTED
  BY <1>1, <1>4 DEF TypeOK
<1>6. \A a \in Event : status[a] = COMPLETE <=> status'[a] = COMPLETE
  BY <1>5 DEF QUEUED, SUBMITTED, COMPLETE
<1>7. ASSUME Dispatchable(x, e), NEW d \in needs[x] PROVE status[d] = COMPLETE
  BY <1>1, <1>4, <1>7, NeedsMet
<1>8. \A a \in Event, d \in Event : WaitsOn(a, d) => WaitsOn(a, d)' \/ status[d] = COMPLETE
  <2>1. ASSUME NEW a \in Event, NEW d \in Event, NEW m \in waits[a],
               m = d \/ (m \in Commands /\ d \in needs[m])
        PROVE  m \in waits'[a] \/ status[d] = COMPLETE
    <3>1. CASE m = e
      BY <1>1, <2>1, <3>1 DEF Order, DependencyOrder
    <3>2. CASE m # e
      BY <1>3, <2>1, <3>2
    <3> QED BY <3>1, <3>2
  <2> QED BY <1>1, <1>2, <2>1 DEF WaitsOn
<1>9. PendingUnfinished' /\ LastCovers' /\ BarrierCovers' /\ OneBarrier'
  <2>1. PendingUnfinished'
    BY <1>1, <1>2, <1>6 DEF Order, PendingUnfinished, Commands
  <2>2. LastCovers' /\ BarrierCovers'
    BY <1>1 DEF Order, LastCovers, BarrierCovers
  <2>3. OneBarrier'
    BY <1>1, <1>2, <1>6 DEF Order, OneBarrier, Commands
  <2> QED BY <2>1, <2>2, <2>3
<1>10. SyncedWithLast'
  <2>1. ASSUME NEW h \in Hosts, pc[h] = "listSync", queue[cur[h]] \in InOrder,
               NEW d \in pending[queue[cur[h]]]
        PROVE  WaitsOn(cur[h], d)'
    <3>1. cur[h] \in Event /\ queue[cur[h]] \in Queues /\ d \in Event
      BY <2>1 DEF TypeOK, Enqueuing, Commands
    <3>2. status[d] # COMPLETE
      BY <2>1, <3>1 DEF Order, PendingUnfinished
    <3>3. WaitsOn(cur[h], d)
      BY <2>1 DEF Order, SyncedWithLast
    <3> QED BY <1>1, <1>8, <3>1, <3>2, <3>3 DEF WaitsOn
  <2> QED BY <1>1, <2>1 DEF SyncedWithLast
<1>11. NeedsCovered'
  <2>1. ASSUME NEW c \in Commands, status'[c] = QUEUED, NEW d \in needs[c]
        PROVE  \/ status'[d] = COMPLETE
               \/ WaitsOn(c, d)'
               \/ \E h \in Hosts : pc[h] \in {"lastSync", "listSync"} /\ cur[h] = c /\ d \in todo[h]
    <3>1. c \in Event /\ d \in Event
      BY DEF Commands, TypeOK
    <3>2. status[c] = QUEUED
      BY <1>5, <2>1, <3>1
    <3> QED BY <1>6, <1>8, <2>1, <3>1, <3>2 DEF Order, NeedsCovered
  <2> QED BY <1>1, <1>2, <2>1 DEF NeedsCovered
<1>12. DependencyOrder'
  <2>1. ASSUME NEW c \in Commands, status'[c] \in {SUBMITTED, RUNNING, COMPLETE}, NEW d \in needs[c]
        PROVE  status'[d] = COMPLETE
    <3>1. c \in Event /\ d \in Event
      BY DEF Commands, TypeOK
    <3>2. CASE status'[c] # status[c]
      BY <1>5, <1>6, <1>7, <3>1, <3>2
    <3>3. CASE status'[c] = status[c]
      BY <1>6, <2>1, <3>1, <3>3 DEF Order, DependencyOrder
    <3> QED BY <3>2, <3>3
  <2> QED BY <1>1, <1>2, <2>1 DEF DependencyOrder
<1> QED BY <1>9, <1>10, <1>11, <1>12 DEF Order

LEMMA OrderCreate ==
  ASSUME TypeOK, Dispatch, Order, NEW h \in Hosts, NEW q \in Queues, NEW k \in Kinds,
         NEW W \in SUBSET Event, NEW x \in Explicit, CreateCommand(h, q, k, W, x)
  PROVE  Order'
<1> DEFINE e == created + 1
<1>1. e \in Event /\ status[e] = QUEUED /\ e \notin Commands
  <2>1. e \in Event /\ e > created
    BY ConstantsAssumption DEF CreateCommand, TypeOK, Event
  <2>2. kind[e] = "none"
    BY <2>1 DEF TypeOK
  <2> QED BY <2>1, <2>2 DEF Dispatch, Untouched, Commands, CommandKinds
<1>2. /\ status' = [status EXCEPT ![e] = QUEUED] /\ kind' = [kind EXCEPT ![e] = k]
      /\ queue' = [queue EXCEPT ![e] = q] /\ needs' = [needs EXCEPT ![e] = W]
      /\ pc[h] = "idle" /\ UNCHANGED <<waits, barrier, last, pending>>
      /\ pc' = [pc EXCEPT ![h] = IF q \in InOrder THEN "lastSync" ELSE "listSync"]
      /\ cur' = [cur EXCEPT ![h] = e] /\ todo' = [todo EXCEPT ![h] = W]
  BY DEF CreateCommand, Goto
<1>3. \A a \in Event : status'[a] = status[a]
  BY <1>1, <1>2 DEF TypeOK
<1>4. \A a \in Event : a # e => kind'[a] = kind[a] /\ queue'[a] = queue[a] /\ needs'[a] = needs[a]
  BY <1>2 DEF TypeOK
<1>5. kind'[e] = k /\ queue'[e] = q /\ needs'[e] = W
  BY <1>1, <1>2 DEF TypeOK
<1>6. pc'[h] = (IF q \in InOrder THEN "lastSync" ELSE "listSync") /\ cur'[h] = e /\ todo'[h] = W
  BY <1>2 DEF TypeOK, Thread
<1>7. \A g \in Hosts : g # h => pc'[g] = pc[g] /\ cur'[g] = cur[g] /\ todo'[g] = todo[g]
  BY <1>2 DEF TypeOK, Thread
<1>8. \A c \in Commands : c \in Event /\ c # e /\ c \in Commands'
  BY <1>1, <1>4 DEF Commands
<1>9. \A c \in Commands' : c = e \/ c \in Commands
  BY <1>4 DEF Commands
<1>10. \A a \in Event, d \in Event : WaitsOn(a, d) => WaitsOn(a, d)'
  BY <1>2, <1>4, <1>8 DEF WaitsOn
<1>11. PendingUnfinished'
  BY <1>2, <1>3, <1>4, <1>8 DEF Order, PendingUnfinished
<1>12. LastCovers'
  <2>1. ASSUME NEW r \in InOrder, NEW d \in pending[r]
        PROVE  last[r] # NoEvent /\ (d = last[r] \/ d \in needs'[last[r]])
    <3>1. r \in Queues /\ last[r] # NoEvent /\ (d = last[r] \/ d \in needs[last[r]])
      BY <2>1, ConstantsAssumption DEF Order, LastCovers
    <3>2. last[r] \in Commands
      BY <3>1 DEF Order, PendingUnfinished
    <3> QED BY <3>1, <3>2, <1>4, <1>8
  <2> QED BY <1>2, <2>1 DEF LastCovers
<1>13. BarrierCovers'
  <2>1. ASSUME NEW r \in Queues, NEW d \in pending[r], IsBarrier(kind'[d])
        PROVE  barrier[r] # NoEvent /\ (d = barrier[r] \/ d \in needs'[barrier[r]])
    <3>1. d \in Commands
      BY <2>1 DEF Order, PendingUnfinished
    <3>2. barrier[r] # NoEvent /\ (d = barrier[r] \/ d \in needs[barrier[r]])
      BY <2>1, <3>1, <1>4, <1>8 DEF Order, BarrierCovers
    <3>3. barrier[r] \in Commands
      BY <3>2 DEF Order, PendingUnfinished
    <3> QED BY <3>2, <3>3, <1>4, <1>8
  <2> QED BY <1>2, <2>1 DEF BarrierCovers
<1>14. OneBarrier'
  <2>1. ASSUME SingleBarrier, IsBarrier(k), NEW y \in Commands, IsBarrier(kind[y]), queue[y] = q,
               "waitBarrier" \in {k, kind[y]}
        PROVE  status[y] = COMPLETE
    <3>1. y \in Event /\ status[y] <= COMPLETE
      BY <2>1 DEF CreateCommand, Commands
    <3>2. status[y] \in FAILED..QUEUED /\ status[y] # FAILED
      BY <3>1 DEF TypeOK, Dispatch, NoFailure
    <3> QED BY <3>1, <3>2 DEF COMPLETE, FAILED, QUEUED
  <2>2. ASSUME SingleBarrier, NEW y \in Commands', NEW z \in Commands',
               IsBarrier(kind'[y]), IsBarrier(kind'[z]), queue'[y] = queue'[z],
               "waitBarrier" \in {kind'[y], kind'[z]},
               status'[y] # COMPLETE, status'[z] # COMPLETE
        PROVE  y = z
    <3>1. CASE y = e
      BY <2>1, <2>2, <3>1, <1>3, <1>4, <1>5, <1>8, <1>9
    <3>2. CASE z = e
      BY <2>1, <2>2, <3>2, <1>3, <1>4, <1>5, <1>8, <1>9
    <3>3. CASE y # e /\ z # e
      BY <2>2, <3>3, <1>3, <1>4, <1>8, <1>9 DEF Order, OneBarrier
    <3> QED BY <3>1, <3>2, <3>3
  <2> QED BY <2>2 DEF OneBarrier
<1>15. SyncedWithLast'
  <2>1. ASSUME NEW g \in Hosts, pc'[g] = "listSync", queue'[cur'[g]] \in InOrder,
               NEW d \in pending[queue'[cur'[g]]]
        PROVE  WaitsOn(cur[g], d)'
    <3>1. g # h
      BY <2>1, <1>5, <1>6
    <3>2. cur'[g] = cur[g] /\ cur[g] \in Commands /\ pc[g] = "listSync"
      BY <2>1, <3>1, <1>7 DEF TypeOK, Enqueuing
    <3>3. queue'[cur[g]] = queue[cur[g]] /\ queue[cur[g]] \in Queues /\ cur[g] \in Event
      BY <3>2, <1>4, <1>8 DEF TypeOK
    <3>4. WaitsOn(cur[g], d) /\ d \in Event
      BY <2>1, <3>2, <3>3 DEF Order, SyncedWithLast, TypeOK
    <3> QED BY <3>2, <3>3, <3>4, <1>10 DEF WaitsOn
  <2> QED BY <1>2, <2>1 DEF SyncedWithLast
<1>16. NeedsCovered'
  <2>1. ASSUME NEW c \in Commands, status[c] = QUEUED, NEW d \in needs[c]
        PROVE  \/ status[d] = COMPLETE /\ d \in Event
               \/ WaitsOn(c, d)'
               \/ \E g \in Hosts : pc'[g] \in {"lastSync", "listSync"} /\ cur'[g] = c /\ d \in todo'[g]
    <3>1. c \in Event /\ d \in Event
      BY DEF Commands, TypeOK
    <3>2. \A g \in Hosts : pc[g] \in {"lastSync", "listSync"} => g # h
      BY <1>2
    <3> QED BY <1>7, <1>10, <2>1, <3>1, <3>2 DEF Order, NeedsCovered
  <2>2. \A d \in needs'[e] : pc'[h] \in {"lastSync", "listSync"} /\ cur'[h] = e /\ d \in todo'[h]
    BY <1>5, <1>6
  <2> QED BY <1>3, <1>4, <1>8, <1>9, <2>1, <2>2 DEF NeedsCovered
<1>17. DependencyOrder'
  <2>1. ASSUME NEW c \in Commands', status'[c] \in {SUBMITTED, RUNNING, COMPLETE}, NEW d \in needs'[c]
        PROVE  status'[d] = COMPLETE
    <3>1. c # e
      BY <2>1, <1>1, <1>3 DEF QUEUED, SUBMITTED, RUNNING, COMPLETE
    <3>2. c \in Commands /\ d \in needs[c] /\ d \in Event /\ status[c] \in {SUBMITTED, RUNNING, COMPLETE}
      BY <2>1, <3>1, <1>3, <1>4, <1>8, <1>9 DEF TypeOK
    <3> QED BY <3>2, <1>3 DEF Order, DependencyOrder
  <2> QED BY <2>1 DEF DependencyOrder
<1> QED BY <1>11, <1>12, <1>13, <1>14, <1>15, <1>16, <1>17 DEF Order

\* A step of the thread h that only adds to wait lists, and goes on with its call.
LEMMA KeepOrderSync ==
  ASSUME TypeOK, Dispatch, Order, NEW h \in Hosts, Enqueuing(h),
         UNCHANGED <<kind, queue, status, needs, cur>>,
         \A a \in Event : waits[a] \subseteq waits'[a],
         \A g \in Hosts : g # h => pc'[g] = pc[g] /\ todo'[g] = todo[g]
  PROVE  /\ \A a \in Event, d \in Event : WaitsOn(a, d) => WaitsOn(a, d)'
         /\ DependencyOrder' /\ OneBarrier'
         /\ \A c \in Commands, d \in Event :
              status[c] = QUEUED /\ d \in needs[c] /\ c # cur[h] =>
                \/ status[d] = COMPLETE
                \/ WaitsOn(c, d)'
                \/ \E g \in Hosts : pc'[g] \in {"lastSync", "listSync"} /\ cur[g] = c /\ d \in todo'[g]
<1>1. Commands' = Commands
  BY DEF Commands
<1>2. \A a \in Event, d \in Event : WaitsOn(a, d) => WaitsOn(a, d)'
  BY <1>1 DEF WaitsOn
<1>3. DependencyOrder' /\ OneBarrier'
  BY <1>1 DEF Order, DependencyOrder, OneBarrier
<1>4. ASSUME NEW c \in Commands, NEW d \in Event, status[c] = QUEUED, d \in needs[c], c # cur[h]
      PROVE  \/ status[d] = COMPLETE
             \/ WaitsOn(c, d)'
             \/ \E g \in Hosts : pc'[g] \in {"lastSync", "listSync"} /\ cur[g] = c /\ d \in todo'[g]
  <2>1. c \in Event
    BY DEF Commands
  <2> QED BY <1>2, <1>4, <2>1 DEF Order, NeedsCovered
<1> QED BY <1>2, <1>3, <1>4

LEMMA OrderSyncLast ==
  ASSUME TypeOK, Dispatch, Order, NEW h \in Hosts, SyncLast(h)
  PROVE  Order'
<1> DEFINE e == cur[h] q == queue[cur[h]]
<1>1. /\ pc[h] = "lastSync" /\ Enqueuing(h) /\ e \in Commands /\ e \in Event /\ q \in InOrder /\ q \in Queues
      /\ status[e] = QUEUED
  BY ConstantsAssumption DEF SyncLast, Enqueuing, TypeOK, Commands, Dispatch, OwnCommand, Untouched
<1>2. /\ UNCHANGED <<kind, queue, status, needs, cur, todo, barrier, last, pending>>
      /\ waits' = [waits EXCEPT ![e] = @ \cup NewSyncs(e, Previous(q))]
      /\ pc' = [pc EXCEPT ![h] = "listSync"]
  BY DEF SyncLast, Sync, Goto, identVars, cqVars
<1>3. \A a \in Event : waits[a] \subseteq waits'[a]
  BY <1>2 DEF TypeOK
<1>4. waits'[e] = waits[e] \cup NewSyncs(e, Previous(q))
  BY <1>1, <1>2 DEF TypeOK
<1>5. \A g \in Hosts : g # h => pc'[g] = pc[g]
  BY <1>2 DEF TypeOK, Thread
<1>6. pc'[h] = "listSync" /\ Commands' = Commands
  BY <1>2 DEF TypeOK, Thread, Commands
<1>7. /\ \A a \in Event, d \in Event : WaitsOn(a, d) => WaitsOn(a, d)'
      /\ DependencyOrder' /\ OneBarrier'
  BY <1>1, <1>2, <1>3, <1>5, KeepOrderSync
<1>8. PendingUnfinished' /\ LastCovers' /\ BarrierCovers'
  BY <1>2, <1>6 DEF Order, PendingUnfinished, LastCovers, BarrierCovers
<1>9. SyncedWithLast'
  <2>1. ASSUME NEW d \in pending[q] PROVE WaitsOn(e, d)'
    <3>1. last[q] # NoEvent /\ (d = last[q] \/ d \in needs[last[q]])
      BY <1>1, <2>1 DEF Order, LastCovers
    <3>2. last[q] \in Commands /\ status[last[q]] # COMPLETE
      BY <1>1, <3>1 DEF Order, PendingUnfinished
    <3>3. last[q] \in waits'[e]
      BY <1>4, <3>1, <3>2 DEF NewSyncs, Previous
    <3> QED BY <1>2, <1>6, <3>1, <3>2, <3>3 DEF WaitsOn
  <2>2. ASSUME NEW g \in Hosts, g # h, pc[g] = "listSync", queue[cur[g]] \in InOrder,
               NEW d \in pending[queue[cur[g]]]
        PROVE  WaitsOn(cur[g], d)'
    <3>1. cur[g] \in Event /\ d \in Event
      BY <2>2 DEF TypeOK, Enqueuing, Commands
    <3>2. WaitsOn(cur[g], d)
      BY <2>2 DEF Order, SyncedWithLast
    <3> QED BY <1>2, <1>7, <3>1, <3>2 DEF WaitsOn
  <2> QED BY <1>2, <1>5, <2>1, <2>2 DEF SyncedWithLast
<1>10. NeedsCovered'
  <2>1. ASSUME NEW c \in Commands, status[c] = QUEUED, NEW d \in needs[c]
        PROVE  \/ status[d] = COMPLETE
               \/ WaitsOn(c, d)'
               \/ \E g \in Hosts : pc'[g] \in {"lastSync", "listSync"} /\ cur[g] = c /\ d \in todo[g]
    <3>1. c \in Event /\ d \in Event
      BY DEF Commands, TypeOK
    <3> QED BY <1>5, <1>6, <1>7, <2>1, <3>1 DEF Order, NeedsCovered
  <2> QED BY <1>2, <1>6, <2>1 DEF NeedsCovered
<1> QED BY <1>7, <1>8, <1>9, <1>10 DEF Order

LEMMA OrderSyncListed ==
  ASSUME TypeOK, Dispatch, Order, NEW h \in Hosts, SyncListed(h)
  PROVE  Order'
<1> DEFINE e == cur[h]
<1>1. /\ pc[h] = "listSync" /\ Enqueuing(h) /\ e \in Commands /\ e \in Event
  BY DEF SyncListed, Enqueuing, TypeOK, Commands
<1>2. PICK n \in todo[h] : Sync(e, {n}) /\ todo' = [todo EXCEPT ![h] = @ \ {n}]
  BY DEF SyncListed
<1>3. /\ UNCHANGED <<kind, queue, status, needs, cur, pc, barrier, last, pending>>
      /\ waits' = [waits EXCEPT ![e] = @ \cup NewSyncs(e, {n})]
  BY <1>2 DEF SyncListed, Sync, identVars, cqVars
<1>4. \A a \in Event : waits[a] \subseteq waits'[a]
  BY <1>3 DEF TypeOK
<1>5. n \in waits'[e] \/ status[n] = COMPLETE
  BY <1>1, <1>3 DEF TypeOK, NewSyncs
<1>6. \A g \in Hosts : g # h => todo'[g] = todo[g]
  BY <1>2 DEF TypeOK
<1>7. todo'[h] = todo[h] \ {n} /\ Commands' = Commands
  BY <1>2, <1>3 DEF TypeOK, Commands
<1>8. /\ \A a \in Event, d \in Event : WaitsOn(a, d) => WaitsOn(a, d)'
      /\ DependencyOrder' /\ OneBarrier'
  BY <1>1, <1>3, <1>4, <1>6, KeepOrderSync
<1>9. PendingUnfinished' /\ LastCovers' /\ BarrierCovers'
  BY <1>3, <1>7 DEF Order, PendingUnfinished, LastCovers, BarrierCovers
<1>10. SyncedWithLast'
  <2>1. ASSUME NEW g \in Hosts, pc[g] = "listSync", queue[cur[g]] \in InOrder,
               NEW d \in pending[queue[cur[g]]]
        PROVE  WaitsOn(cur[g], d)'
    <3>1. cur[g] \in Event /\ d \in Event
      BY <2>1 DEF TypeOK, Enqueuing, Commands
    <3>2. WaitsOn(cur[g], d)
      BY <2>1 DEF Order, SyncedWithLast
    <3> QED BY <1>3, <1>8, <3>1, <3>2 DEF WaitsOn
  <2> QED BY <1>3, <2>1 DEF SyncedWithLast
<1>11. NeedsCovered'
  <2>1. ASSUME NEW c \in Commands, status[c] = QUEUED, NEW d \in needs[c]
        PROVE  \/ status[d] = COMPLETE
               \/ WaitsOn(c, d)'
               \/ \E g \in Hosts : pc[g] \in {"lastSync", "listSync"} /\ cur[g] = c /\ d \in todo'[g]
    <3>1. c \in Event /\ d \in Event
      BY DEF Commands, TypeOK
    <3>2. CASE \E g \in Hosts : pc[g] \in {"lastSync", "listSync"} /\ cur[g] = c /\ d \in todo[g]
      <4>1. PICK g \in Hosts : pc[g] \in {"lastSync", "listSync"} /\ cur[g] = c /\ d \in todo[g]
        BY <3>2
      <4>2. CASE g = h /\ d = n
        BY <1>5, <4>1, <4>2 DEF WaitsOn
      <4>3. CASE ~(g = h /\ d = n)
        BY <1>6, <1>7, <4>1, <4>3
      <4> QED BY <4>2, <4>3
    <3>3. CASE status[d] = COMPLETE \/ WaitsOn(c, d)
      BY <1>8, <3>1, <3>3
    <3> QED BY <2>1, <3>2, <3>3 DEF Order, NeedsCovered
  <2> QED BY <1>3, <1>7, <2>1 DEF NeedsCovered
<1> QED BY <1>8, <1>9, <1>10, <1>11 DEF Order

LEMMA OrderEnqueue ==
  ASSUME TypeOK, Dispatch, Order, Orderly, NEW h \in Hosts, Enqueue(h)
  PROVE  Order'
<1> DEFINE e == cur[h] q == queue[cur[h]]
<1>1. /\ pc[h] = "listSync" /\ todo[h] = {} /\ Enqueuing(h)
      /\ e \in Commands /\ e \in Event /\ q \in Queues
      /\ status[e] = QUEUED /\ h \in Owners[q] /\ kind[e] \in Kinds
  BY DEF Enqueue, Enqueuing, TypeOK, Commands, Dispatch, OwnCommand, Untouched, CommandKinds
<1>2. /\ UNCHANGED <<kind, queue, status, cur, todo>>
      /\ waits' = [waits EXCEPT ![e] = @ \cup NewSyncs(e, QueueSyncs(e, q))]
      /\ needs' = [needs EXCEPT ![e] = @ \cup QueueOrder(e, q)]
      /\ barrier' = IF IsBarrier(kind[e]) THEN [barrier EXCEPT ![q] = e] ELSE barrier
      /\ pending' = [pending EXCEPT ![q] = @ \cup {e}]
      /\ last' = [last EXCEPT ![q] = e]
      /\ pc' = [pc EXCEPT ![h] = "submit"]
  BY DEF Enqueue, Sync, Goto
<1>3. /\ waits'[e] = waits[e] \cup NewSyncs(e, QueueSyncs(e, q))
      /\ needs'[e] = needs[e] \cup QueueOrder(e, q)
      /\ pending'[q] = pending[q] \cup {e} /\ last'[q] = e
      /\ IsBarrier(kind[e]) => barrier'[q] = e
      /\ ~IsBarrier(kind[e]) => barrier' = barrier
      /\ pc'[h] = "submit"
  BY <1>1, <1>2 DEF TypeOK, Thread
<1>4. \A a \in Event : a # e => waits'[a] = waits[a] /\ needs'[a] = needs[a]
  BY <1>2 DEF TypeOK
<1>5. \A r \in Queues : r # q => pending'[r] = pending[r] /\ last'[r] = last[r] /\ barrier'[r] = barrier[r]
  BY <1>2 DEF TypeOK
<1>6. \A g \in Hosts : g # h => pc'[g] = pc[g]
  BY <1>2 DEF TypeOK, Thread
<1>7. Commands' = Commands /\ \A c \in Commands : c \in Event
  BY <1>2 DEF Commands
<1>8. \A a \in Event : waits[a] \subseteq waits'[a] /\ needs[a] \subseteq needs'[a]
  BY <1>3, <1>4
<1>9. \A a \in Event, d \in Event : WaitsOn(a, d) => WaitsOn(a, d)'
  BY <1>7, <1>8 DEF WaitsOn
<1>10. \A r \in Queues : \A d \in pending[r] : d \in Commands /\ queue[d] = r /\ status[d] # COMPLETE /\ d \in Event
  BY <1>7 DEF Order, PendingUnfinished
<1>11. PendingUnfinished'
  <2>1. status[e] # COMPLETE
    BY <1>1 DEF QUEUED, COMPLETE
  <2>2. ASSUME NEW r \in Queues, NEW d \in pending'[r]
        PROVE  d \in Commands /\ queue[d] = r /\ status[d] # COMPLETE
    BY <1>1, <1>3, <1>5, <1>10, <2>1, <2>2
  <2>3. ASSUME NEW r \in Queues PROVE {last'[r], barrier'[r]} \subseteq pending'[r] \cup {NoEvent}
    BY <1>3, <1>5 DEF Order, PendingUnfinished
  <2> QED BY <1>2, <1>7, <2>2, <2>3 DEF PendingUnfinished
<1>12. ASSUME q \in InOrder, NEW d \in pending[q] PROVE d \in needs'[e] /\ WaitsOn(e, d)
  <2>1. d \in QueueOrder(e, q)
    BY <1>12 DEF QueueOrder
  <2>2. WaitsOn(e, d)
    BY <1>1, <1>12 DEF Order, SyncedWithLast
  <2> QED BY <1>3, <2>1, <2>2
<1>13. LastCovers'
  <2>1. ASSUME NEW r \in InOrder, NEW d \in pending'[r]
        PROVE  last'[r] # NoEvent /\ (d = last'[r] \/ d \in needs'[last'[r]])
    <3>1. r \in Queues
      BY ConstantsAssumption
    <3>2. CASE r = q
      <4>1. e # NoEvent
        BY <1>1 DEF Event, NoEvent
      <4> QED BY <2>1, <3>2, <4>1, <1>3, <1>12
    <3>3. CASE r # q
      <4>1. d \in pending[r] /\ last'[r] = last[r]
        BY <1>5, <2>1, <3>1, <3>3
      <4>2. last[r] # NoEvent /\ (d = last[r] \/ d \in needs[last[r]])
        BY <2>1, <4>1 DEF Order, LastCovers
      <4>3. last[r] \in Event
        BY <3>1, <4>2 DEF TypeOK
      <4> QED BY <1>8, <4>1, <4>2, <4>3
    <3> QED BY <3>2, <3>3
  <2> QED BY <2>1 DEF LastCovers
<1>14. ASSUME IsBarrier(kind[e]), NEW d \in pending[q], IsBarrier(kind[d])
       PROVE  d = e \/ d \in needs'[e]
  <2>1. d \in Commands /\ queue[d] = q /\ status[d] # COMPLETE
    BY <1>1, <1>10, <1>14
  <2>2. CASE kind[e] = "waitBarrier" /\ SingleBarrier
    BY <1>1, <1>14, <2>1, <2>2 DEF Order, OneBarrier, QUEUED, COMPLETE
  <2>3. CASE kind[e] = "barrier"
    BY <1>3, <1>14, <2>3 DEF QueueOrder, QueueSyncs
  <2> QED BY <1>1, <1>14, <2>2, <2>3 DEF Orderly, IsBarrier
<1>15. BarrierCovers'
  <2>1. ASSUME NEW r \in Queues, NEW d \in pending'[r], IsBarrier(kind[d])
        PROVE  barrier'[r] # NoEvent /\ (d = barrier'[r] \/ d \in needs'[barrier'[r]])
    <3>1. CASE r = q /\ IsBarrier(kind[e])
      <4>1. e # NoEvent
        BY <1>1 DEF Event, NoEvent
      <4> QED BY <1>3, <1>14, <2>1, <3>1, <4>1
    <3>2. CASE ~(r = q /\ IsBarrier(kind[e]))
      <4>1. d \in pending[r] /\ barrier'[r] = barrier[r]
        BY <1>3, <1>5, <2>1, <3>2
      <4>2. barrier[r] # NoEvent /\ (d = barrier[r] \/ d \in needs[barrier[r]])
        BY <2>1, <4>1 DEF Order, BarrierCovers
      <4>3. barrier[r] \in Event
        BY <4>2 DEF TypeOK
      <4> QED BY <1>8, <4>1, <4>2, <4>3
    <3> QED BY <3>1, <3>2
  <2> QED BY <1>2, <2>1 DEF BarrierCovers
<1>16. OneBarrier'
  BY <1>2, <1>7 DEF Order, OneBarrier
<1>17. SyncedWithLast'
  <2>1. ASSUME NEW g \in Hosts, pc'[g] = "listSync", queue[cur[g]] \in InOrder,
               NEW d \in pending'[queue[cur[g]]]
        PROVE  WaitsOn(cur[g], d)'
    <3>1. g # h /\ pc[g] = "listSync" /\ Enqueuing(g)
      BY <1>3, <1>6, <2>1 DEF Enqueuing
    <3>2. cur[g] \in Event /\ queue[cur[g]] \in Queues /\ g \in Owners[queue[cur[g]]]
      BY <3>1 DEF TypeOK, Commands, Dispatch, OwnCommand
    <3>3. queue[cur[g]] # q
      BY <1>1, <2>1, <3>1, <3>2 DEF Orderly
    <3>4. d \in pending[queue[cur[g]]] /\ d \in Event
      BY <1>5, <1>10, <2>1, <3>2, <3>3
    <3>5. WaitsOn(cur[g], d)
      BY <2>1, <3>1, <3>4 DEF Order, SyncedWithLast
    <3> QED BY <1>2, <1>9, <3>2, <3>4, <3>5 DEF WaitsOn
  <2> QED BY <1>2, <2>1 DEF SyncedWithLast
<1>18. ASSUME NEW d \in QueueOrder(e, q) PROVE status[d] = COMPLETE \/ WaitsOn(e, d)'
  <2>1. CASE d \in QueueSyncs(e, q)
    <3>1. status[d] = COMPLETE \/ d \in waits'[e]
      BY <1>3, <2>1 DEF NewSyncs
    <3> QED BY <1>2, <3>1 DEF WaitsOn
  <2>2. CASE q \in InOrder /\ d \in pending[q]
    BY <1>1, <1>2, <1>9, <1>10, <1>12, <2>2 DEF WaitsOn
  <2>3. CASE d \in pending[q] /\ IsBarrier(kind[d]) /\ ~IsBarrier(kind[e])
    <3>1. barrier[q] # NoEvent /\ (d = barrier[q] \/ d \in needs[barrier[q]])
      BY <1>1, <2>3 DEF Order, BarrierCovers
    <3>2. barrier[q] \in Commands /\ status[barrier[q]] # COMPLETE /\ barrier[q] \in Event
      BY <1>1, <1>7, <3>1 DEF Order, PendingUnfinished
    <3>3. barrier[q] \in waits'[e]
      BY <1>3, <2>3, <3>1, <3>2 DEF NewSyncs, QueueSyncs
    <3> QED BY <1>2, <1>7, <1>8, <3>1, <3>2, <3>3 DEF WaitsOn
  <2> QED BY <1>18, <2>1, <2>2, <2>3 DEF QueueOrder
<1>19. NeedsCovered'
  <2>1. ASSUME NEW c \in Commands, status[c] = QUEUED, NEW d \in needs[c]
        PROVE  \/ status[d] = COMPLETE
               \/ WaitsOn(c, d)'
               \/ \E g \in Hosts : pc'[g] \in {"lastSync", "listSync"} /\ cur[g] = c /\ d \in todo[g]
    <3>1. c \in Event /\ d \in Event
      BY DEF Commands, TypeOK
    <3>2. \A g \in Hosts : d \in todo[g] => g # h
      BY <1>1
    <3> QED BY <1>6, <1>9, <2>1, <3>1, <3>2 DEF Order, NeedsCovered
  <2>2. ASSUME NEW c \in Commands, NEW d \in needs'[c], d \notin needs[c]
        PROVE  status[d] = COMPLETE \/ WaitsOn(c, d)'
    <3>1. c = e /\ d \in QueueOrder(e, q)
      BY <1>3, <1>4, <1>7, <2>2
    <3> QED BY <1>2, <1>18, <3>1 DEF WaitsOn
  <2>3. ASSUME NEW c \in Commands, status[c] = QUEUED, NEW d \in needs'[c]
        PROVE  \/ status[d] = COMPLETE
               \/ WaitsOn(c, d)'
               \/ \E g \in Hosts : pc'[g] \in {"lastSync", "listSync"} /\ cur[g] = c /\ d \in todo[g]
    BY <2>1, <2>2, <2>3
  <2> QED BY <1>2, <1>7, <2>3 DEF NeedsCovered
<1>20. DependencyOrder'
  <2>1. ASSUME NEW c \in Commands, status[c] \in {SUBMITTED, RUNNING, COMPLETE}, NEW d \in needs'[c]
        PROVE  status[d] = COMPLETE
    <3>1. c # e
      BY <2>1, <1>1 DEF QUEUED, SUBMITTED, RUNNING, COMPLETE
    <3> QED BY <1>4, <1>7, <2>1, <3>1 DEF Order, DependencyOrder
  <2> QED BY <1>2, <1>7, <2>1 DEF DependencyOrder
<1> QED BY <1>11, <1>13, <1>15, <1>16, <1>17, <1>19, <1>20 DEF Order

LEMMA OrderFinish ==
  ASSUME TypeOK, Dispatch, Order, NEW t \in Thread, NEW e \in Event, Finish(t, e)
  PROVE  Order'
<1> DEFINE q == queue[e]
<1>1. /\ phase[t][e] = "finish" /\ status' = [status EXCEPT ![e] = COMPLETE]
      /\ barrier' = Cleared(barrier, q, e) /\ last' = Cleared(last, q, e)
      /\ pending' = [pending EXCEPT ![q] = @ \ {e}]
      /\ UNCHANGED <<kind, queue, needs, waits, cur, todo>>
  BY DEF Finish, Dispatch, NoFailure, Failing, identVars
<1>2. e \in Commands /\ status[e] = RUNNING /\ q \in Queues
  BY <1>1 DEF Dispatch, InFinish, TypeOK
<1>3. Commands' = Commands /\ \A c \in Commands : c \in Event
  BY <1>1 DEF Commands
<1>4. status'[e] = COMPLETE /\ \A a \in Event : a # e => status'[a] = status[a]
  BY <1>1 DEF TypeOK
<1>5. \A a \in Event : /\ status[a] = COMPLETE => status'[a] = COMPLETE
                       /\ status'[a] = QUEUED => status[a] = QUEUED
  BY <1>4 DEF COMPLETE, QUEUED
<1>6. \A h \in Hosts : pc'[h] = pc[h] \/ (pc[h] \in {"joinWait", "eventWait"} /\ pc'[h] \in {"join", "wait"})
  BY DEF Finish, TypeOK, WaitsForQueue, WaitsForEvent, Thread
<1>7. \A r \in Queues : /\ pending'[r] = pending[r] \ (IF r = q THEN {e} ELSE {})
                        /\ last'[r] = IF r = q /\ last[q] = e THEN NoEvent ELSE last[r]
                        /\ barrier'[r] = IF r = q /\ barrier[q] = e THEN NoEvent ELSE barrier[r]
  BY <1>1 DEF TypeOK, Cleared
<1>8. \A r \in Queues : \A d \in pending[r] : d \in Commands /\ queue[d] = r /\ status[d] # COMPLETE
  BY DEF Order, PendingUnfinished
<1>9. \A d \in needs[e] : status[d] = COMPLETE
  BY <1>2 DEF Order, DependencyOrder
<1>10. \A r \in Queues : \A d \in pending'[r] : d \in pending[r] /\ d # e
  BY <1>7, <1>8
<1>11. PendingUnfinished'
  <2>1. ASSUME NEW r \in Queues, NEW d \in pending'[r]
        PROVE  d \in Commands /\ queue[d] = r /\ status'[d] # COMPLETE
    BY <1>3, <1>4, <1>8, <1>10, <2>1
  <2>2. ASSUME NEW r \in Queues PROVE {last'[r], barrier'[r]} \subseteq pending'[r] \cup {NoEvent}
    BY <1>7 DEF Order, PendingUnfinished
  <2> QED BY <1>1, <1>3, <2>1, <2>2 DEF PendingUnfinished
<1>12. LastCovers'
  <2>1. ASSUME NEW r \in InOrder, NEW d \in pending'[r]
        PROVE  last'[r] # NoEvent /\ (d = last'[r] \/ d \in needs[last'[r]])
    <3>1. r \in Queues /\ d \in pending[r] /\ d # e /\ status[d] # COMPLETE
      BY <1>8, <1>10, <2>1, ConstantsAssumption
    <3>2. last[r] # NoEvent /\ (d = last[r] \/ d \in needs[last[r]])
      BY <3>1 DEF Order, LastCovers
    <3>3. last[r] # e
      BY <1>9, <3>1, <3>2
    <3> QED BY <1>7, <3>1, <3>2, <3>3
  <2> QED BY <1>1, <2>1 DEF LastCovers
<1>13. BarrierCovers'
  <2>1. ASSUME NEW r \in Queues, NEW d \in pending'[r], IsBarrier(kind[d])
        PROVE  barrier'[r] # NoEvent /\ (d = barrier'[r] \/ d \in needs[barrier'[r]])
    <3>1. d \in pending[r] /\ d # e /\ status[d] # COMPLETE
      BY <1>8, <1>10, <2>1
    <3>2. barrier[r] # NoEvent /\ (d = barrier[r] \/ d \in needs[barrier[r]])
      BY <2>1, <3>1 DEF Order, BarrierCovers
    <3>3. barrier[r] # e
      BY <1>9, <3>1, <3>2
    <3> QED BY <1>7, <3>2, <3>3
  <2> QED BY <1>1, <2>1 DEF BarrierCovers
<1>14. OneBarrier'
  BY <1>1, <1>3, <1>5 DEF Order, OneBarrier
<1>15. \A a \in Event, d \in Event : WaitsOn(a, d) => WaitsOn(a, d)'
  BY <1>1, <1>3 DEF WaitsOn
<1>16. SyncedWithLast'
  <2>1. ASSUME NEW h \in Hosts, pc'[h] = "listSync", queue[cur[h]] \in InOrder,
               NEW d \in pending'[queue[cur[h]]]
        PROVE  WaitsOn(cur[h], d)'
    <3>1. pc[h] = "listSync"
      BY <1>6, <2>1
    <3>2. cur[h] \in Event /\ queue[cur[h]] \in Queues
      BY <3>1 DEF TypeOK, Enqueuing, Commands
    <3>3. d \in pending[queue[cur[h]]] /\ d \in Event
      BY <1>3, <1>8, <1>10, <2>1, <3>2
    <3>4. WaitsOn(cur[h], d)
      BY <2>1, <3>1, <3>3 DEF Order, SyncedWithLast
    <3> QED BY <1>1, <1>15, <3>2, <3>3, <3>4 DEF WaitsOn
  <2> QED BY <1>1, <2>1 DEF SyncedWithLast
<1>17. NeedsCovered'
  <2>1. ASSUME NEW c \in Commands, status'[c] = QUEUED, NEW d \in needs[c]
        PROVE  \/ status'[d] = COMPLETE
               \/ WaitsOn(c, d)'
               \/ \E h \in Hosts : pc'[h] \in {"lastSync", "listSync"} /\ cur[h] = c /\ d \in todo[h]
    <3>1. c \in Event /\ d \in Event /\ status[c] = QUEUED
      BY <1>3, <1>5, <2>1 DEF TypeOK
    <3>2. \A h \in Hosts : pc[h] \in {"lastSync", "listSync"} => pc'[h] = pc[h]
      BY <1>6
    <3> QED BY <1>5, <1>15, <2>1, <3>1, <3>2 DEF Order, NeedsCovered
  <2> QED BY <1>1, <1>3, <2>1 DEF NeedsCovered
<1>18. DependencyOrder'
  <2>1. ASSUME NEW c \in Commands, status'[c] \in {SUBMITTED, RUNNING, COMPLETE}, NEW d \in needs[c]
        PROVE  status'[d] = COMPLETE
    <3>1. c \in Event /\ d \in Event
      BY <1>3 DEF TypeOK
    <3>2. status[c] \in {SUBMITTED, RUNNING, COMPLETE}
      BY <1>2, <1>4, <2>1, <3>1
    <3> QED BY <1>5, <2>1, <3>1, <3>2 DEF Order, DependencyOrder
  <2> QED BY <1>1, <1>3, <2>1 DEF DependencyOrder
<1> QED BY <1>11, <1>12, <1>13, <1>14, <1>16, <1>17, <1>18 DEF Order

LEMMA FinishersStep ==
  ASSUME TypeOK, Dispatch, Finishers, [Next]_vars
  PROVE  Finishers'
<1>1. ASSUME UNCHANGED phase, \A e \in Event : kind[e] = "user" => kind'[e] = "user" PROVE Finishers'
  BY <1>1 DEF Finishers
<1>2. ASSUME NEW h \in Hosts, NEW q \in Queues, NEW k \in Kinds, NEW W \in SUBSET Event,
             NEW x \in Explicit, CreateCommand(h, q, k, W, x)
      PROVE  Finishers'
  <2>1. \A e \in Event : kind[e] = "user" => e <= created
    BY DEF TypeOK, Event
  <2>2. \A e \in Event : e # created + 1 => kind'[e] = kind[e]
    BY <1>2 DEF CreateCommand, TypeOK
  <2>3. created \in Nat
    BY ConstantsAssumption DEF TypeOK
  <2>4. \A e \in Event : kind[e] = "user" => kind'[e] = "user"
    BY <2>1, <2>2, <2>3 DEF Event
  <2> QED BY <1>1, <1>2, <2>4 DEF CreateCommand, finVars
<1>3. ASSUME NEW h \in Hosts, CreateUserEvent(h) PROVE Finishers'
  BY <1>1, <1>3 DEF CreateUserEvent, finVars, TypeOK
<1>4. ASSUME NEW d \in Drivers, Start(d) PROVE Finishers'
  BY <1>4 DEF Start, identVars, Finishers, TypeOK, Thread
<1>5. ASSUME NEW t \in Thread, NEW e \in Event, Finish(t, e) PROVE Finishers'
  <2>1. t \in Drivers
    BY <1>5 DEF Finish, Finishers
  <2> QED BY <1>5, <2>1 DEF Finish, identVars, Finishers, TypeOK
<1>6. ASSUME NEW t \in Thread, NEW e \in Event, BroadcastDone(t, e) PROVE Finishers'
  <2>1. /\ UNCHANGED <<kind>> /\ phase[t][e] = "broadcast"
        /\ phase' = [phase EXCEPT ![t][e] = IF kind[e] = "user" THEN "none" ELSE "release"]
    BY <1>6 DEF BroadcastDone, identVars
  <2>2. t \in Drivers \/ kind[e] = "user"
    BY <2>1 DEF Finishers
  <2>3. CASE kind[e] = "user"
    <3>1. phase' = [phase EXCEPT ![t][e] = "none"]
      BY <2>1, <2>3
    <3> QED BY <2>1, <3>1 DEF Finishers, TypeOK
  <2>4. CASE t \in Drivers
    <3>1. \A x \in Thread : x # t => phase'[x] = phase[x]
      BY <2>1 DEF TypeOK
    <3> QED BY <2>1, <2>4, <3>1 DEF Finishers
  <2> QED BY <2>2, <2>3, <2>4
<1>16. ASSUME NEW t \in Thread, NEW e \in Event, ReleaseFinished(t, e) PROVE Finishers'
  <2>1. UNCHANGED kind /\ phase' = [phase EXCEPT ![t][e] = "none"]
    BY <1>16 DEF ReleaseFinished, identVars
  <2> QED BY <2>1 DEF Finishers, TypeOK
<1>7. ASSUME NEW h \in Hosts, NEW e \in Event, NEW s \in UserStatuses, SetUserEventStatus(h, e, s) PROVE Finishers'
  BY <1>7 DEF SetUserEventStatus, identVars, Finishers, TypeOK, Thread
<1>8. ASSUME NEW t \in Thread, NEW e \in Event, NEW x \in Event, NotifyFailed(t, e, x) PROVE Finishers'
  BY <1>8 DEF NotifyFailed, Dispatch, NoFailure
<1>9. ASSUME NEW t \in Thread, NEW e \in Event, Relock(t, e) PROVE Finishers'
  BY <1>9 DEF Relock, Dispatch, NoFailure
<1>10. CASE UNCHANGED vars
  BY <1>1, <1>10 DEF vars, identVars, finVars
<1>11. ASSUME NEW h \in Hosts, EnqueueStep(h) \/ WaitStep(h) PROVE Finishers'
  BY <1>1, <1>11 DEF EnqueueStep, WaitStep, SyncLast, SyncListed, Enqueue, Submit,
       Join, WaitEvent, WaitTimeout, UserEventDone, identVars, finVars
<1>12. ASSUME NEW h \in Hosts, NEW q \in Queues, CallFinish(h, q) \/ ReleaseQueue(h, q) PROVE Finishers'
  BY <1>1, <1>12 DEF CallFinish, ReleaseQueue, identVars, finVars
<1>13. ASSUME NEW h \in Hosts, NEW e \in Event, CallWait(h, e) \/ ReleaseEvent(h, e) PROVE Finishers'
  BY <1>1, <1>13 DEF CallWait, ReleaseEvent, identVars, finVars
<1>14. ASSUME NEW d \in Drivers, Take(d) PROVE Finishers'
  BY <1>1, <1>14 DEF Take, identVars, finVars
<1>15. ASSUME NEW t \in Thread, NEW e \in Event, NEW x \in Event, Notify(t, e, x) PROVE Finishers'
  BY <1>1, <1>15 DEF Notify, identVars, finVars
<1> QED
  BY <1>2, <1>3, <1>4, <1>5, <1>6, <1>7, <1>8, <1>9, <1>10, <1>11, <1>12, <1>13, <1>14, <1>15, <1>16
  DEF Next, DriverStep, FinishStep, SetSomeUserEvent, AppStep

LEMMA OrderStep ==
  ASSUME TypeOK, Dispatch, Finishers, Order, Orderly, [Next]_vars
  PROVE  Order'
<1>0. CASE UNCHANGED vars
  BY <1>0, KeepOrderQuiet DEF vars, identVars, eventVars, cqVars, callVars, Commands
<1>1. ASSUME NEW d \in Drivers, Take(d) PROVE Order'
  <2>1. UNCHANGED <<kind, queue, status, waits, barrier, last, pending, needs, todo>>
    BY <1>1 DEF Take, identVars, eventVars, cqVars
  <2>2. \A h \in Hosts : pc'[h] = pc[h] /\ cur'[h] = cur[h]
    BY <1>1, ConstantsAssumption DEF Take, TypeOK, Goto, Thread
  <2> QED BY <2>1, <2>2, KeepOrderQuiet DEF Commands
<1>2. ASSUME NEW h \in Hosts, UserEventDone(h) \/ Join(h) \/ WaitEvent(h) \/ WaitTimeout(h) PROVE Order'
  <2>1. UNCHANGED <<kind, queue, status, waits, barrier, last, pending, needs>>
    BY <1>2 DEF UserEventDone, Join, WaitEvent, WaitTimeout, identVars, eventVars, cqVars
  <2>2. \A g \in Hosts : \/ pc'[g] = pc[g] /\ cur'[g] = cur[g] /\ todo'[g] = todo[g]
                         \/ /\ pc[g] \in {"join", "joinWait", "wait", "eventWait", "userDone"}
                            /\ pc'[g] \in {"idle", "joinWait", "eventWait", "wait"}
    BY <1>2 DEF UserEventDone, Join, WaitEvent, WaitTimeout, TypeOK, Goto, WaitsForEvent, Thread
  <2> QED BY <2>1, <2>2, KeepOrderQuiet DEF Commands
<1>3. ASSUME NEW h \in Hosts, NEW q \in Queues, CallFinish(h, q) \/ ReleaseQueue(h, q) PROVE Order'
  <2>1. UNCHANGED <<kind, queue, status, waits, barrier, last, pending, needs>>
    BY <1>3 DEF CallFinish, ReleaseQueue, identVars, eventVars, cqVars
  <2>2. \A g \in Hosts : \/ pc'[g] = pc[g] /\ cur'[g] = cur[g] /\ todo'[g] = todo[g]
                         \/ pc[g] = "idle" /\ pc'[g] = "join"
    BY <1>3 DEF CallFinish, ReleaseQueue, TypeOK, Goto, callVars, Thread
  <2> QED BY <2>1, <2>2, KeepOrderQuiet DEF Commands
<1>4. ASSUME NEW h \in Hosts, NEW e \in Event, CallWait(h, e) \/ ReleaseEvent(h, e) PROVE Order'
  <2>1. UNCHANGED <<kind, queue, status, waits, barrier, last, pending, needs>>
    BY <1>4 DEF CallWait, ReleaseEvent, identVars, eventVars, cqVars
  <2>2. \A g \in Hosts : \/ pc'[g] = pc[g] /\ cur'[g] = cur[g] /\ todo'[g] = todo[g]
                         \/ pc[g] = "idle" /\ pc'[g] = "wait"
    BY <1>4 DEF CallWait, ReleaseEvent, TypeOK, Goto, callVars, Thread
  <2> QED BY <2>1, <2>2, KeepOrderQuiet DEF Commands
<1>5. ASSUME NEW t \in Thread, NEW e \in Event, BroadcastDone(t, e) PROVE Order'
  BY <1>5, KeepOrderQuiet DEF BroadcastDone, identVars, eventVars, cqVars, callVars, Commands
<1>6. ASSUME NEW t \in Thread, NEW e \in Event, ReleaseFinished(t, e) PROVE Order'
  <2>1. /\ UNCHANGED <<kind, queue, status, waits, barrier, last, pending, needs, cur, todo>>
        /\ phase[t][e] = "release"
    BY <1>6 DEF ReleaseFinished, identVars
  <2>2. t \in Drivers
    BY <2>1 DEF Finishers
  <2>3. \A g \in Hosts : pc'[g] = pc[g]
    BY <1>6, <2>2, ConstantsAssumption DEF ReleaseFinished, TypeOK, Thread
  <2> QED BY <2>1, <2>2, <2>3, KeepOrderQuiet DEF Commands
<1>7. ASSUME NEW t \in Thread, NEW e \in Event, NEW x \in Event, NotifyFailed(t, e, x) PROVE Order'
  BY <1>7 DEF NotifyFailed, Dispatch, NoFailure
<1>8. ASSUME NEW t \in Thread, NEW e \in Event, Relock(t, e) PROVE Order'
  BY <1>8 DEF Relock, Dispatch, NoFailure
<1> QED
  BY <1>0, <1>1, <1>2, <1>3, <1>4, <1>5, <1>6, <1>7, <1>8, OrderCreate, OrderUser, OrderSubmit,
     OrderStart, OrderFinish, OrderNotify, OrderSetUser, OrderSyncLast, OrderSyncListed, OrderEnqueue
  DEF Next, EnqueueStep, WaitStep, DriverStep, FinishStep, SetSomeUserEvent, AppStep

LEMMA InitInvariant ==
  ASSUME Init PROVE IInv
<1>1. TypeOK
  BY ConstantsAssumption DEF Init, TypeOK, Event, QUEUED, FAILED, Thread, Enqueuing, Commands, CommandKinds
<1>2. Commands = {}
  BY DEF Init, Commands, CommandKinds
<1>3. Dispatch
  <2>1. Untouched /\ OwnCommand
    BY DEF Init, Untouched, OwnCommand, Enqueuing, Thread
  <2>2. NoFailure
    BY DEF Init, NoFailure, QUEUED, FAILED
  <2>3. InWork /\ InTaken /\ InFinish
    BY DEF Init, InWork, InTaken, InFinish, Thread
  <2> QED BY <2>1, <2>2, <2>3 DEF Dispatch
<1>4. Finishers
  BY DEF Init, Finishers
<1>5. Order
  <2>1. PendingUnfinished /\ LastCovers /\ BarrierCovers
    BY ConstantsAssumption DEF Init, PendingUnfinished, LastCovers, BarrierCovers
  <2>2. OneBarrier /\ NeedsCovered /\ DependencyOrder
    BY <1>2 DEF OneBarrier, NeedsCovered, DependencyOrder
  <2>3. SyncedWithLast
    BY DEF Init, SyncedWithLast, Thread
  <2> QED BY <2>1, <2>2, <2>3 DEF Order
<1> QED BY <1>1, <1>3, <1>4, <1>5 DEF IInv

\* What a queued command needs it waits for, and a queue's pointers cover its
\* unfinished commands, for every orderly application (pocl_create_command up
\* to pocl_pthread_notify).
THEOREM Invariance ==
  Orderly => (Spec => []IInv)
<1> SUFFICES ASSUME Orderly PROVE Spec => []IInv
  OBVIOUS
<1>1. Init => IInv
  BY InitInvariant
<1>2. IInv /\ [Next]_vars => IInv'
  BY TypeStep, DispatchStep, FinishersStep, OrderStep DEF IInv, Orderly
<1> QED BY <1>1, <1>2, PTL DEF Spec

\* For an orderly application no command reaches a driver thread before
\* everything it has to wait for has completed: pocl_create_event_sync,
\* pocl_command_enqueue, pocl_pthread_submit and pocl_pthread_notify together
\* enforce the wait lists, the order of in-order queues and the barriers.
THEOREM DependenciesRespected == Orderly => (Spec => []DependencyOrder)
<1>1. IInv => DependencyOrder
  BY DEF IInv, Order
<1> QED BY <1>1, Invariance, PTL
-----------------------------------------------------------------------------
(* The order of the event locks.                                           *)

SyncingNow(h) == pc[h] \in {"lastSync", "listSync"}

\* Events with no synchronization of their own to come, and those that have
\* been submitted.
Reached == {e \in Event : kind[e] # "none" /\ \A h \in Hosts : SyncingNow(h) => cur[h] # e}
Settled == {e \in Event : kind[e] # "none" /\ \A h \in Hosts : Enqueuing(h) => cur[h] # e}

\* Nothing points to an event before its thread has synchronized it, or works
\* on it before it has been submitted.
PointsReached ==
  /\ \A q \in Queues : pending[q] \cup ({barrier[q], last[q]} \ {NoEvent}) \subseteq Reached
  /\ \A n \in Event : notify[n] # {} => n \in Reached
  /\ \A h \in Hosts : Enqueuing(h) => todo[h] \subseteq Settled
  /\ \A e \in app : kind[e] # "none"
PointsSettled ==
  /\ \A e \in Event : ready[e] => e \in Settled
  /\ \A i \in 1..Len(work) : work[i] \in Settled
  /\ \A d \in Drivers : pc[d] = "taken" => cur[d] \in Settled
  /\ \A t \in Thread, e \in Event : phase[t][e] # "none" => e \in Settled
  /\ \A g, h \in Hosts : Enqueuing(g) /\ Enqueuing(h) /\ cur[g] = cur[h] => g = h

\* Once an event has failed nothing is enqueued.
NoneFailing ==
  \A e \in Event : status[e] = FAILED => OrderlyFailure /\ \A h \in Hosts : ~Enqueuing(h)

\* Commands alone are in queues and wait.
OnlyCommands ==
  /\ \A q \in Queues : \A e \in pending[q] \cup ({barrier[q], last[q]} \ {NoEvent}) :
       e \in Commands /\ queue[e] = q
  /\ \A n \in Event : notify[n] \subseteq Commands

\* A kept lock is that of a failed event whose broadcast fails a command.
Kept ==
  \A e \in Event :
    /\ \A t \in Thread : held[e] = t <=> phase[t][e] = "notifying"
    /\ held[e] # None => status[e] = FAILED

LockBase == PointsReached /\ PointsSettled /\ NoneFailing /\ OnlyCommands /\ Kept

\* A broadcast event has left its queue.
Gone ==
  \A t \in Thread, e \in Event : phase[t][e] \in {"broadcast", "notifying"} =>
    \A q \in Queues : e \notin pending[q] \cup {barrier[q], last[q]}

\* What a thread is at, in particular while it finishes events.
Works ==
  /\ \A d \in Drivers : pc[d] \in {"idle", "taken", "finishing"}
  /\ \A h \in Hosts : pc[h] # "taken" /\ (pc[h] \in {"wait", "eventWait"} => cur[h] \in Event)
  /\ \A d \in Drivers, e \in Event : phase[d][e] # "none" => pc[d] = "finishing"
  /\ \A h \in Hosts, e \in Event : phase[h][e] # "none" =>
       /\ pc[h] = "userDone" /\ cur[h] \in Event /\ kind[cur[h]] = "user"
       /\ phase[h][cur[h]] \in {"broadcast", "notifying"}

\* There is an order of the events in which a command comes after all it waits
\* for; a thread fails events along that order, and the last one only is not
\* kept locked.
Stacked(t, r) ==
  \A e, f \in Event : phase[t][e] # "none" /\ phase[t][f] # "none" /\ e # f =>
    /\ r[e] # r[f]
    /\ r[e] < r[f] => /\ phase[t][e] = "notifying" /\ phase[t][nested[t][e]] # "none"
                      /\ r[nested[t][e]] <= r[f] /\ f \in Commands
Ranked(r) ==
  /\ \A n \in Event : \A e \in notify[n] : r[n] < r[e]
  /\ \A t \in Thread, e \in Event : phase[t][e] = "notifying" =>
       nested[t][e] \in Commands /\ r[e] < r[nested[t][e]]
  /\ \A t \in Thread : Stacked(t, r)
SomeRank == \E N \in Nat : \E r \in [Event -> 0..N] : Ranked(r)

LockInv == LockBase /\ Gone /\ Works /\ SomeRank

MayFail == OrderlyFailure \/ NoFailures

\* A set of natural numbers with an upper bound has a greatest element.
LEMMA Greatest ==
  ASSUME NEW N \in Nat, NEW S \in SUBSET (0..N), S # {}
  PROVE  \E m \in S : \A k \in S : k <= m
<1>1. PICK R : R = OpToRel(<, Nat)
  OBVIOUS
<1>2. \A a, b \in Nat : <<a, b>> \in R <=> a < b
  BY <1>1 DEF OpToRel
<1>3. IsWellFoundedOn(R, Nat)
  BY <1>1, NatLessThanWellFounded
<1>4. PICK T \in SUBSET Nat : \A k \in Nat : k \in T <=> k \in 0..N /\ N - k \in S
  <2> DEFINE U == {k \in 0..N : N - k \in S}
  <2>1. U \in SUBSET Nat /\ \A k \in Nat : k \in U <=> k \in 0..N /\ N - k \in S
    OBVIOUS
  <2> QED BY <2>1
<1>5. \A k \in S : N - k \in T /\ N - k \in Nat /\ k \in Nat
  BY <1>4
<1>6. PICK m \in T : \A k \in T : ~(<<k, m>> \in R)
  <2>1. T # {}
    BY <1>5
  <2> QED BY <1>3, <2>1, WFMin
<1>7. PICK i \in S : m = N - i
  BY <1>4
<1>8. ASSUME NEW k \in S PROVE k <= i
  <2>1. N - k \in T /\ N - k \in Nat /\ m \in Nat
    BY <1>5
  <2>2. ~(N - k < m)
    BY <1>2, <1>6, <2>1
  <2> QED BY <1>7, <2>2
<1> QED BY <1>8

\* Among threads that keep events locked, the one with the last of these events
\* waits for none of them.
LEMMA LocksFree ==
  ASSUME TypeOK, LockInv PROVE LockOrder
<1>1. ASSUME NEW e \in Event, held[e] # None, NEW q \in Queues
      PROVE  e \notin pending[q] \cup {barrier[q], last[q]}
  <2>1. PICK t \in Thread : held[e] = t
    BY <1>1 DEF TypeOK
  <2>2. phase[t][e] = "notifying"
    BY <2>1 DEF LockInv, LockBase, Kept
  <2> QED BY <2>2 DEF LockInv, Gone
<1>2. ASSUME NEW S \in (SUBSET Thread) \ {{}}
      PROVE  \E t \in S : \A e \in Wants(t) : held[e] \notin S
  <2>w. ASSUME NEW t \in Thread, NEW e \in Wants(t)
        PROVE  e \in Event
    <3>0. /\ cur[t] \in Event \cup {NoEvent} /\ \A f \in Event : notify[f] \subseteq Event
          /\ Commands \subseteq Event
      BY DEF TypeOK, Commands
    <3>1. pc[t] \in {"submit", "taken", "wait", "listSync"} => cur[t] \in Event
      <4>1. CASE t \in Hosts
        BY <3>0, <4>1 DEF LockInv, Works, TypeOK, Enqueuing
      <4>2. CASE t \in Drivers
        BY <4>2 DEF LockInv, LockBase, PointsSettled, Works, Settled
      <4> QED BY <4>1, <4>2 DEF Thread
    <3>2. pc[t] = "listSync" => todo[t] \subseteq Event
      <4>1. pc[t] = "listSync" => t \in Hosts
        BY DEF LockInv, Works, Thread
      <4> QED BY <4>1 DEF TypeOK
    <3>3. \A f \in Event : phase[t][f] = "notifying" => nested[t][f] \in Event
      BY <3>0 DEF LockInv, SomeRank, Ranked
    <3> QED BY <3>0, <3>1, <3>2, <3>3 DEF Wants
  <2>r. PICK N \in Nat : \E r \in [Event -> 0..N] : Ranked(r)
    BY DEF LockInv, SomeRank
  <2>s. PICK r \in [Event -> 0..N] : Ranked(r)
    BY <2>r
  <2>1. CASE \A e \in Event : held[e] \notin S
    <3>1. PICK t \in S : t \in Thread
      BY <1>2
    <3>2. \A e \in Wants(t) : held[e] \notin S
      BY <2>1, <2>w, <3>1
    <3> QED BY <3>2
  <2>2. ASSUME NEW c \in Event, held[c] \in S
        PROVE  \E t \in S : \A e \in Wants(t) : held[e] \notin S
    <3> DEFINE R == {k \in 0..N : \E e \in Event : held[e] \in S /\ r[e] = k}
    <3>1. R \in SUBSET (0..N) /\ r[c] \in R
      BY <2>2, <2>s
    <3>2. PICK m \in R : \A k \in R : k <= m
      BY <2>r, <3>1, Greatest
    <3>3. PICK e \in Event : held[e] \in S /\ r[e] = m
      BY <3>2
    <3>4. \A f \in Event : held[f] \in S => r[f] <= r[e]
      BY <2>s, <3>2, <3>3
    <3> HIDE DEF R
    <3>5. PICK t \in S : t = held[e]
      BY <3>3
    <3>6. t \in Thread /\ phase[t][e] = "notifying"
      BY <1>2, <3>5 DEF LockInv, LockBase, Kept
    <3>7. pc[t] \in {"finishing", "userDone"}
      BY <3>6 DEF LockInv, Works, Thread
    <3>a. \A a \in Event : r[a] \in Nat /\ notify[a] \subseteq Event /\ nested[t][a] \in Event \cup {NoEvent}
      BY <2>s, <3>6 DEF TypeOK
    <3>8. ASSUME NEW f \in Event, phase[t][f] \in {"broadcast", "finish", "release"}
          PROVE  r[e] < r[f]
      BY <2>s, <3>6, <3>8, <3>a DEF Ranked, Stacked
    <3>9. ASSUME NEW f \in Event, phase[t][f] = "broadcast", NEW x \in notify[f]
          PROVE  r[e] < r[x]
      BY <2>s, <3>8, <3>9, <3>a DEF Ranked
    <3>10. ASSUME NEW f \in Event, phase[t][f] = "notifying", phase[t][nested[t][f]] = "none"
           PROVE  r[e] < r[nested[t][f]]
      <4>0. r[f] < r[nested[t][f]] /\ nested[t][f] \in Event
        BY <2>s, <3>6, <3>10 DEF Ranked, Commands
      <4>1. CASE f = e
        BY <4>0, <4>1
      <4>2. CASE f # e
        <5>1. held[f] = t
          BY <3>6, <3>10 DEF LockInv, LockBase, Kept
        <5>2. r[f] <= r[e] /\ r[f] # r[e]
          BY <2>s, <3>4, <3>5, <3>6, <3>10, <4>2, <5>1 DEF Ranked, Stacked
        <5>3. r[f] < r[e]
          BY <3>a, <5>2
        <5> QED BY <2>s, <3>6, <3>10, <4>2, <5>3 DEF Ranked, Stacked
      <4> QED BY <4>1, <4>2
    <3>11. ASSUME NEW x \in Wants(t) PROVE r[e] < r[x]
      <4>1. \E f \in Event : x \in (CASE phase[t][f] = "broadcast" -> {f} \cup notify[f]
                  [] phase[t][f] = "notifying" /\ phase[t][nested[t][f]] = "none" -> {nested[t][f]}
                  [] phase[t][f] \in {"finish", "release"} -> {f}
                  [] OTHER -> {})
        BY <3>7, <3>11 DEF Wants
      <4>2. PICK f \in Event : x \in (CASE phase[t][f] = "broadcast" -> {f} \cup notify[f]
                  [] phase[t][f] = "notifying" /\ phase[t][nested[t][f]] = "none" -> {nested[t][f]}
                  [] phase[t][f] \in {"finish", "release"} -> {f}
                  [] OTHER -> {})
        BY <4>1
      <4> QED BY <4>2, <3>8, <3>9, <3>10
    <3>12. ASSUME NEW x \in Wants(t) PROVE held[x] \notin S
      <4>1. x \in Event /\ r[e] < r[x]
        BY <2>w, <3>6, <3>11
      <4> QED BY <3>4, <3>a, <4>1
    <3> QED BY <3>12
  <2> QED BY <2>1, <2>2
<1> QED BY <1>1, <1>2 DEF LockOrder

\* Settled events stay settled.
LEMMA PointsGrow ==
  ASSUME \A e \in Event : kind[e] # "none" => kind'[e] = kind[e],
         \A h \in Hosts : Enqueuing(h)' =>
           (Enqueuing(h) /\ cur'[h] = cur[h] /\ (SyncingNow(h)' => SyncingNow(h))) \/ kind[cur'[h]] = "none"
  PROVE  Reached \subseteq Reached' /\ Settled \subseteq Settled'
<1>1. Reached \subseteq Reached'
  BY DEF Reached, SyncingNow, Enqueuing
<1>2. Settled \subseteq Settled'
  BY DEF Settled
<1> QED BY <1>1, <1>2

\* A step that points to nothing new and fails nothing.
LEMMA BaseQuiet ==
  ASSUME TypeOK, LockBase,
         \A e \in Event : kind[e] # "none" => kind'[e] = kind[e] /\ queue'[e] = queue[e],
         \A h \in Hosts : Enqueuing(h)' =>
           Enqueuing(h) /\ cur'[h] = cur[h] /\ (SyncingNow(h)' => SyncingNow(h)) /\ todo'[h] \subseteq todo[h],
         UNCHANGED <<pending, barrier, last, held>>,
         \A n \in Event : notify'[n] \subseteq notify[n],
         \A e \in app' : e \in app \/ kind'[e] # "none",
         \A e \in Event : ready'[e] => ready[e],
         \A i \in 1..Len(work') : work'[i] \in Settled,
         \A d \in Drivers : pc'[d] = "taken" => cur'[d] \in Settled,
         \A t \in Thread, e \in Event : phase'[t][e] # "none" => e \in Settled,
         \A t \in Thread, e \in Event : phase'[t][e] = "notifying" <=> phase[t][e] = "notifying",
         \A e \in Event : status[e] = FAILED /\ held[e] # None => status'[e] = FAILED,
         \A e \in Event : status'[e] = FAILED => OrderlyFailure /\ \A h \in Hosts : ~Enqueuing(h)'
  PROVE  LockBase'
<1>1. Reached \subseteq Reached' /\ Settled \subseteq Settled'
  BY PointsGrow
<1>2. PointsReached'
  <2>1. \A h \in Hosts : Enqueuing(h)' => todo'[h] \subseteq Settled'
    BY <1>1 DEF LockBase, PointsReached
  <2>2. \A n \in Event : notify'[n] # {} => n \in Reached'
    BY <1>1 DEF LockBase, PointsReached
  <2>3. \A e \in app' : kind'[e] # "none"
    BY DEF LockBase, PointsReached, TypeOK
  <2> QED BY <1>1, <2>1, <2>2, <2>3 DEF LockBase, PointsReached
<1>3. PointsSettled'
  BY <1>1 DEF LockBase, PointsSettled
<1>4. OnlyCommands'
  BY DEF LockBase, OnlyCommands, Commands, CommandKinds
<1>5. Kept' /\ NoneFailing'
  BY DEF LockBase, Kept, NoneFailing
<1> QED BY <1>2, <1>3, <1>4, <1>5 DEF LockBase

\* An enqueuing thread's command is not yet settled, so nobody works on it.
LEMMA EnqueuingFacts ==
  ASSUME TypeOK, LockBase, NEW h \in Hosts, Enqueuing(h)
  PROVE  /\ cur[h] \in Event /\ cur[h] \in Commands /\ cur[h] \notin Settled
         /\ ~ready[cur[h]] /\ \A t \in Thread : phase[t][cur[h]] = "none"
         /\ \A e \in Event : status[e] # FAILED /\ held[e] = None
         /\ \A t \in Thread, e \in Event : phase[t][e] # "notifying"
         /\ SyncingNow(h) => cur[h] \notin Reached /\ notify[cur[h]] = {}
<1>1. cur[h] \in Event /\ cur[h] \in Commands /\ cur[h] \notin Settled
  BY DEF TypeOK, Commands, Settled
<1>2. SyncingNow(h) => cur[h] \notin Reached /\ notify[cur[h]] = {}
  BY <1>1 DEF LockBase, PointsReached, Reached
<1>3. \A e \in Event : status[e] # FAILED /\ held[e] = None
  BY DEF LockBase, NoneFailing, Kept
<1>4. \A t \in Thread, e \in Event : phase[t][e] # "notifying"
  BY <1>3, ConstantsAssumption DEF LockBase, Kept, Thread
<1> QED BY <1>1, <1>2, <1>3, <1>4 DEF LockBase, PointsSettled

\* Adding synchronizations with events that are reached.
LEMMA BaseSync ==
  ASSUME TypeOK, LockBase, NEW h \in Hosts, SyncingNow(h), NEW S, S \subseteq Reached, Sync(cur[h], S),
         UNCHANGED <<kind, queue, status, ready, held, work, cur, phase, app>>,
         \A x \in Thread : x # h => pc'[x] = pc[x],
         Enqueuing(h)', todo'[h] \subseteq todo[h], \A g \in Hosts : g # h => todo'[g] = todo[g],
         \A q \in Queues :
           pending'[q] \cup ({barrier'[q], last'[q]} \ {NoEvent}) \subseteq
             pending[q] \cup ({barrier[q], last[q]} \ {NoEvent}) \cup (Reached' \cap {e \in Commands : queue[e] = q})
  PROVE  LockBase'
<1> USE DEF LockBase
<1>0. PICK e \in Event : e = cur[h] /\ e \in Commands /\ Enqueuing(h)
  BY EnqueuingFacts DEF SyncingNow, Enqueuing
<1>1. \A g \in Hosts : Enqueuing(g)' => Enqueuing(g) /\ cur'[g] = cur[g] /\ (SyncingNow(g)' => SyncingNow(g)) /\ todo'[g] \subseteq todo[g]
  BY <1>0 DEF Enqueuing, SyncingNow, Thread
<1>2. Reached \subseteq Reached' /\ Settled \subseteq Settled'
  BY <1>1, PointsGrow
<1>3. \A n \in Event : notify'[n] = (IF n \in NewSyncs(e, S) THEN notify[n] \cup {e} ELSE notify[n])
  BY <1>0 DEF Sync
<1>4. \A n \in NewSyncs(e, S) : n \in Reached
  BY DEF NewSyncs
<1>5. PointsReached'
  <2>1. \A n \in Event : notify'[n] # {} => n \in Reached'
    BY <1>2, <1>3, <1>4 DEF PointsReached
  <2>2. \A g \in Hosts : Enqueuing(g)' => todo'[g] \subseteq Settled'
    BY <1>1, <1>2 DEF PointsReached
  <2>3. \A q \in Queues : pending'[q] \cup ({barrier'[q], last'[q]} \ {NoEvent}) \subseteq Reached'
    BY <1>2 DEF PointsReached
  <2> QED BY <2>1, <2>2, <2>3 DEF PointsReached
<1>6. PointsSettled'
  <2>1. \A d \in Drivers : pc'[d] = pc[d]
    BY ConstantsAssumption DEF Thread
  <2>2. \A g, x \in Hosts : Enqueuing(g)' /\ Enqueuing(x)' /\ cur'[g] = cur'[x] => g = x
    BY <1>1 DEF PointsSettled
  <2> QED BY <1>2, <2>1, <2>2 DEF PointsSettled
<1>7. OnlyCommands'
  <2>1. \A n \in Event : notify'[n] \subseteq Commands'
    <3> TAKE n \in Event
    <3>1. notify[n] \subseteq Commands /\ Commands' = Commands
      BY DEF OnlyCommands, Commands
    <3>2. notify'[n] = notify[n] \cup {e} \/ notify'[n] = notify[n]
      BY <1>3
    <3> QED BY <1>0, <3>1, <3>2
  <2>2. \A q \in Queues : \A a \in pending'[q] \cup ({barrier'[q], last'[q]} \ {NoEvent}) :
          a \in Commands' /\ queue'[a] = q
    BY DEF OnlyCommands, Commands
  <2> QED BY <2>1, <2>2 DEF OnlyCommands
<1>8. Kept' /\ NoneFailing'
  BY <1>1 DEF Kept, NoneFailing
<1> QED BY <1>5, <1>6, <1>7, <1>8

\* What a step does to the events that exist.
LEMMA BaseCreate ==
  ASSUME TypeOK, LockBase, NEW h \in Hosts, NEW q \in Queues, NEW k \in Kinds, NEW W \in SUBSET Event,
         NEW x \in Explicit, CreateCommand(h, q, k, W, x)
  PROVE  LockBase'
<1> USE DEF LockBase
<1>0. PICK n \in Event : n = created + 1 /\ kind[n] = "none" /\ n \notin Commands
  <2>1. created + 1 \in Event /\ ~(created + 1 <= created)
    BY ConstantsAssumption DEF CreateCommand, TypeOK, Event
  <2> QED BY <2>1 DEF TypeOK, Commands, CommandKinds
<1>k. k \in CommandKinds /\ k # "none" /\ pc[h] = "idle"
  BY ConstantsAssumption DEF CommandKinds, CreateCommand
<1>1. /\ kind' = [kind EXCEPT ![n] = k] /\ queue' = [queue EXCEPT ![n] = q]
      /\ status' = [status EXCEPT ![n] = QUEUED]
      /\ app' \in {app, app \cup {n}} /\ todo' = [todo EXCEPT ![h] = W] /\ cur' = [cur EXCEPT ![h] = n]
      /\ pc' = [pc EXCEPT ![h] = IF q \in InOrder THEN "lastSync" ELSE "listSync"]
      /\ W \subseteq Usable /\ (OrderlyFailure => \A e \in Event : status[e] # FAILED)
      /\ UNCHANGED <<notify, ready, held, barrier, last, pending, work, phase>>
  BY <1>0 DEF CreateCommand, Goto, finVars
<1>2. /\ \A e \in Event : kind[e] # "none" => kind'[e] = kind[e] /\ queue'[e] = queue[e]
      /\ \A e \in Event : status'[e] = FAILED => status[e] = FAILED
      /\ kind'[n] = k
  BY <1>0, <1>1 DEF TypeOK, QUEUED, FAILED
<1>3. /\ Enqueuing(h)' /\ cur'[h] = n /\ todo'[h] = W
      /\ \A t \in Thread : t # h => pc'[t] = pc[t] /\ cur'[t] = cur[t]
      /\ \A g \in Hosts : g # h => todo'[g] = todo[g]
  BY <1>1 DEF TypeOK, Enqueuing, Thread
<1>4. \A g \in Hosts : g # h /\ Enqueuing(g)' => Enqueuing(g) /\ cur'[g] = cur[g] /\ cur'[g] # n /\ (SyncingNow(g)' => SyncingNow(g))
  BY <1>0, <1>3 DEF Enqueuing, SyncingNow, TypeOK, Thread
<1>5. Reached \subseteq Reached' /\ Settled \subseteq Settled'
  BY <1>0, <1>2, <1>3, <1>4, PointsGrow
<1>6. W \subseteq Settled
  <2>1. W \subseteq app /\ \A e \in W : \A g \in Hosts : Enqueuing(g) => cur[g] # e
    BY <1>1 DEF Usable
  <2> QED BY <2>1 DEF PointsReached, Settled
<1>7. PointsReached'
  <2>1. \A g \in Hosts : Enqueuing(g)' => todo'[g] \subseteq Settled'
    BY <1>3, <1>4, <1>5, <1>6 DEF PointsReached
  <2>2. \A e \in app' : kind'[e] # "none"
    BY <1>1, <1>2, <1>k DEF PointsReached, TypeOK
  <2>3. \A e \in Event : notify'[e] # {} => e \in Reached'
    BY <1>1, <1>5 DEF PointsReached
  <2>4. \A p \in Queues : pending'[p] \cup ({barrier'[p], last'[p]} \ {NoEvent}) \subseteq Reached'
    BY <1>1, <1>5 DEF PointsReached
  <2> QED BY <2>1, <2>2, <2>3, <2>4 DEF PointsReached
<1>8. PointsSettled'
  <2>1. \A d \in Drivers : pc'[d] = pc[d] /\ cur'[d] = cur[d]
    BY <1>3, ConstantsAssumption DEF Thread
  <2>2. \A g, y \in Hosts : Enqueuing(g)' /\ Enqueuing(y)' /\ cur'[g] = cur'[y] => g = y
    BY <1>3, <1>4 DEF PointsSettled
  <2>3. UNCHANGED <<ready, work, phase>>
    BY <1>1
  <2> QED BY <1>5, <2>1, <2>2, <2>3 DEF PointsSettled
<1>9. OnlyCommands'
  <2>1. Commands \subseteq Commands' /\ \A e \in Commands : queue'[e] = queue[e]
    BY <1>2 DEF Commands, CommandKinds
  <2> QED BY <1>1, <2>1 DEF OnlyCommands
<1>10. NoneFailing'
  <2>1. \A e \in Event : status[e] # FAILED
    BY <1>1 DEF NoneFailing
  <2> QED BY <1>2, <2>1 DEF NoneFailing
<1>11. Kept'
  <2>1. \A e \in Event : status[e] # FAILED
    BY <1>1 DEF NoneFailing
  <2> QED BY <1>1, <2>1 DEF Kept
<1> QED BY <1>7, <1>8, <1>9, <1>10, <1>11

\* The base of the lock invariant, for every step but the creation of a command.
LEMMA BaseStep ==
  ASSUME TypeOK, LockBase, SomeRank, MayFail,
         \/ \E h \in Hosts : EnqueueStep(h) \/ WaitStep(h) \/ SetSomeUserEvent(h) \/ CreateUserEvent(h)
         \/ \E h \in Hosts : \/ \E q \in Queues : CallFinish(h, q) \/ ReleaseQueue(h, q)
                            \/ \E e \in Event : CallWait(h, e) \/ ReleaseEvent(h, e)
         \/ \E d \in Drivers : DriverStep(d)
         \/ \E t \in Thread : FinishStep(t)
  PROVE  LockBase'
<1> USE DEF LockBase
<1>w. /\ work \in Seq(Event) /\ Len(work) \in Nat /\ \A i \in 1..Len(work) : work[i] \in Settled
      /\ \A d \in Drivers : pc[d] = "taken" => cur[d] \in Settled
      /\ \A t \in Thread, e \in Event : phase[t][e] # "none" => e \in Settled
  BY DEF PointsSettled, TypeOK
<1>n. \A e \in Event : status[e] = FAILED => OrderlyFailure /\ \A h \in Hosts : ~Enqueuing(h)
  BY DEF NoneFailing
<1>d. /\ \A h \in Hosts : h \in Thread /\ \A d \in Drivers : h # d
      /\ \A d \in Drivers : d \in Thread
  BY ConstantsAssumption DEF Thread
<1>1. ASSUME NEW h \in Hosts, SyncLast(h) PROVE LockBase'
  <2>1. PICK q \in Queues : q = queue[cur[h]]
    BY <1>1 DEF SyncLast, TypeOK, Enqueuing
  <2>2. Previous(q) \subseteq Reached
    BY DEF Previous, PointsReached
  <2>3. SyncingNow(h) /\ Enqueuing(h)' /\ Sync(cur[h], Previous(q)) /\ \A x \in Thread : x # h => pc'[x] = pc[x]
    BY <1>1, <1>d, <2>1 DEF SyncLast, SyncingNow, Enqueuing, Goto, TypeOK
  <2>4. /\ UNCHANGED <<kind, queue, status, ready, held, work, cur, phase, app>>
        /\ UNCHANGED <<todo, pending, barrier, last>>
    BY <1>1 DEF SyncLast, identVars, cqVars, finVars, appVars
  <2> QED BY <2>2, <2>3, <2>4, BaseSync
<1>2. ASSUME NEW h \in Hosts, SyncListed(h) PROVE LockBase'
  <2>1. PICK n \in todo[h] : Sync(cur[h], {n}) /\ todo' = [todo EXCEPT ![h] = @ \ {n}]
    BY <1>2 DEF SyncListed
  <2>2. SyncingNow(h) /\ Enqueuing(h) /\ Enqueuing(h)' /\ pc' = pc
    BY <1>2 DEF SyncListed, SyncingNow, Enqueuing
  <2>3. {n} \subseteq Reached
    BY <2>1, <2>2 DEF PointsReached, Settled, Reached, SyncingNow, Enqueuing
  <2>4. /\ UNCHANGED <<kind, queue, status, ready, held, work, cur, phase, app>>
        /\ UNCHANGED <<pending, barrier, last>>
    BY <1>2 DEF SyncListed, identVars, cqVars, finVars, appVars
  <2>5. todo'[h] \subseteq todo[h] /\ \A g \in Hosts : g # h => todo'[g] = todo[g]
    BY <2>1 DEF TypeOK
  <2> QED BY <2>1, <2>2, <2>3, <2>4, <2>5, BaseSync
<1>3. ASSUME NEW h \in Hosts, Enqueue(h) PROVE LockBase'
  <2>0. PICK e \in Event : e = cur[h] /\ e \in Commands /\ Enqueuing(h) /\ SyncingNow(h)
    BY <1>3 DEF Enqueue, TypeOK, Enqueuing, SyncingNow, Commands
  <2>1. PICK q \in Queues : q = queue[e]
    BY <2>0 DEF TypeOK
  <2>2. QueueSyncs(e, q) \subseteq Reached
    BY DEF QueueSyncs, PointsReached
  <2>3. Sync(cur[h], QueueSyncs(e, q)) /\ Enqueuing(h)' /\ ~SyncingNow(h)' /\ \A x \in Thread : x # h => pc'[x] = pc[x]
    BY <1>3, <1>d, <2>0, <2>1 DEF Enqueue, SyncingNow, Enqueuing, Goto, TypeOK
  <2>4. UNCHANGED <<kind, queue, status, ready, held, work, cur, phase, app, todo>>
    BY <1>3 DEF Enqueue, finVars, appVars
  <2>5. e \in Reached'
    <3>1. ASSUME NEW g \in Hosts, SyncingNow(g)' PROVE cur'[g] # e
      <4>1. g # h /\ Enqueuing(g)
        BY <1>d, <2>3, <3>1 DEF SyncingNow, Enqueuing
      <4> QED BY <2>0, <2>4, <4>1 DEF PointsSettled
    <3> QED BY <2>0, <2>4, <3>1 DEF Reached, SyncingNow, Commands, CommandKinds
  <2>6. \A p \in Queues : /\ pending'[p] \subseteq pending[p] \cup (IF p = q THEN {e} ELSE {})
                          /\ barrier'[p] = barrier[p] \/ (p = q /\ barrier'[p] = e)
                          /\ last'[p] = last[p] \/ (p = q /\ last'[p] = e)
    BY <1>3, <2>0, <2>1 DEF Enqueue, TypeOK
  <2>7. \A p \in Queues :
           pending'[p] \cup ({barrier'[p], last'[p]} \ {NoEvent}) \subseteq
             pending[p] \cup ({barrier[p], last[p]} \ {NoEvent}) \cup (Reached' \cap {c \in Commands : queue[c] = p})
    <3> TAKE p \in Queues
    <3>1. CASE p = q
      <4>1. e \in Reached' \cap {c \in Commands : queue[c] = p}
        BY <2>0, <2>1, <2>5, <3>1
      <4> QED BY <2>6, <3>1, <4>1
    <3>2. CASE p # q
      BY <2>6, <3>2
    <3> QED BY <3>1, <3>2
  <2> QED BY <2>0, <2>2, <2>3, <2>4, <2>7, BaseSync
<1>4. ASSUME NEW h \in Hosts, Submit(h) PROVE LockBase'
  <2>0. PICK e \in Event : e = cur[h] /\ e \in Commands /\ Enqueuing(h) /\ pc[h] = "submit"
    BY <1>4 DEF Submit, TypeOK, Enqueuing, Commands
  <2>1. /\ ready' = [ready EXCEPT ![e] = TRUE]
        /\ status' = [status EXCEPT ![e] = IF waits[e] = {} THEN SUBMITTED ELSE QUEUED]
        /\ work' = work \/ work' = Append(work, e)
        /\ ~Enqueuing(h)' /\ pc'[h] = "idle"
        /\ \A x \in Thread : x # h => pc'[x] = pc[x] /\ cur'[x] = cur[x]
        /\ UNCHANGED <<kind, queue, notify, held, barrier, last, pending, todo, phase, app>>
    BY <1>4, <1>d, <2>0 DEF Submit, Enqueuing, Goto, identVars, cqVars, finVars, appVars, TypeOK
  <2>2. \A g \in Hosts : Enqueuing(g)' => g # h /\ Enqueuing(g) /\ cur'[g] = cur[g] /\ cur[g] # e /\ (SyncingNow(g)' => SyncingNow(g))
    BY <1>d, <2>0, <2>1 DEF Enqueuing, SyncingNow, PointsSettled
  <2>3. Reached \subseteq Reached' /\ Settled \subseteq Settled'
    BY <2>1, <2>2, PointsGrow
  <2>4. e \in Settled'
    BY <2>0, <2>1, <2>2 DEF Settled, Commands, CommandKinds
  <2>5. PointsReached'
    <3>1. \A g \in Hosts : Enqueuing(g)' => todo'[g] \subseteq Settled'
      BY <2>1, <2>2, <2>3 DEF PointsReached
    <3> QED BY <2>1, <2>3, <3>1 DEF PointsReached
  <2>6. PointsSettled'
    <3>1. \A a \in Event : ready'[a] => a \in Settled'
      BY <2>1, <2>3, <2>4 DEF PointsSettled, TypeOK
    <3>2. \A i \in 1..Len(work') : work'[i] \in Settled'
      <4>1. CASE work' = work
        BY <1>w, <2>3, <4>1
      <4>2. CASE work' = Append(work, e)
        BY <1>w, <2>3, <2>4, <4>2, AppendFacts
      <4> QED BY <2>1, <4>1, <4>2
    <3>3. \A d \in Drivers : pc'[d] = pc[d] /\ cur'[d] = cur[d]
      BY <1>d, <2>1
    <3>4. \A t \in Thread, a \in Event : phase'[t][a] # "none" => a \in Settled'
      BY <1>w, <2>1, <2>3
    <3>5. \A g, x \in Hosts : Enqueuing(g)' /\ Enqueuing(x)' /\ cur'[g] = cur'[x] => g = x
      BY <2>2 DEF PointsSettled
    <3> QED BY <1>w, <2>3, <3>1, <3>2, <3>3, <3>4, <3>5 DEF PointsSettled
  <2>7. OnlyCommands'
    BY <2>1 DEF OnlyCommands, Commands
  <2>8. \A a \in Event : status[a] # FAILED /\ status'[a] # FAILED
    BY <1>n, <2>0, <2>1 DEF TypeOK, SUBMITTED, QUEUED, FAILED
  <2>9. Kept' /\ NoneFailing'
    BY <2>1, <2>8 DEF Kept, NoneFailing
  <2> QED BY <2>5, <2>6, <2>7, <2>9
<1>5. ASSUME NEW d \in Drivers, Take(d) PROVE LockBase'
  <2>1. /\ work # <<>> /\ work' = Tail(work) /\ cur' = [cur EXCEPT ![d] = Head(work)] /\ pc' = [pc EXCEPT ![d] = "taken"]
        /\ UNCHANGED <<kind, queue, status, notify, ready, held, barrier, last, pending, todo, phase, app>>
    BY <1>5 DEF Take, Goto, identVars, eventVars, cqVars, finVars, appVars
  <2>2. Head(work) \in Settled /\ \A i \in 1..Len(work') : work'[i] \in Settled
    BY <1>w, <2>1, TailFacts
  <2>3. \A c \in Drivers : pc'[c] = "taken" => cur'[c] \in Settled
    BY <1>w, <1>d, <2>1, <2>2 DEF TypeOK
  <2>4. \A g \in Hosts : pc'[g] = pc[g] /\ cur'[g] = cur[g]
    BY <1>d, <2>1 DEF TypeOK
  <2> QED BY <1>w, <1>n, <2>1, <2>2, <2>3, <2>4, BaseQuiet DEF Enqueuing, SyncingNow
<1>p. ASSUME NEW t \in Thread, NEW e \in Event, NEW v, phase' = [phase EXCEPT ![t][e] = v], v # "notifying", phase[t][e] # "notifying"
      PROVE  /\ \A u \in Thread, f \in Event : phase'[u][f] # "none" => f = e \/ phase[u][f] # "none"
             /\ \A u \in Thread, f \in Event : phase'[u][f] = "notifying" <=> phase[u][f] = "notifying"
  BY <1>p DEF TypeOK
<1>6. ASSUME NEW d \in Drivers, Start(d) PROVE LockBase'
  <2>0. PICK e \in Event : e = cur[d] /\ e \in Settled
    BY <1>w, <1>6 DEF Start, Settled
  <2>1. /\ status' = [status EXCEPT ![e] = RUNNING] /\ cur' = [cur EXCEPT ![d] = NoEvent]
        /\ pc' = [pc EXCEPT ![d] = "finishing"] /\ phase' = [phase EXCEPT ![d][e] = "finish"]
        /\ held[e] = None
        /\ UNCHANGED <<kind, queue, notify, ready, held, barrier, last, pending, todo, app, work>>
    BY <1>6, <2>0 DEF Start, Goto, Unlocked, identVars, cqVars, appVars
  <2>2. phase[d][e] # "notifying"
    BY <1>d, <2>1, ConstantsAssumption DEF Kept, Thread
  <2>3. /\ \A u \in Thread, f \in Event : phase'[u][f] # "none" => f \in Settled
        /\ \A u \in Thread, f \in Event : phase'[u][f] = "notifying" <=> phase[u][f] = "notifying"
    BY <1>d, <1>p, <1>w, <2>0, <2>1, <2>2
  <2>4. \A c \in Drivers : pc'[c] = "taken" => cur'[c] \in Settled
    BY <1>w, <1>d, <2>1 DEF TypeOK
  <2>5. \A g \in Hosts : pc'[g] = pc[g] /\ cur'[g] = cur[g]
    BY <1>d, <2>1 DEF TypeOK
  <2>6. /\ \A a \in Event : status[a] = FAILED /\ held[a] # None => status'[a] = FAILED
        /\ \A a \in Event : status'[a] = FAILED => status[a] = FAILED
    BY <2>1 DEF TypeOK, RUNNING, FAILED
  <2> QED BY <1>w, <1>n, <2>1, <2>3, <2>4, <2>5, <2>6, BaseQuiet DEF Enqueuing, SyncingNow
<1>7. ASSUME NEW t \in Thread, NEW e \in Event, Finish(t, e) PROVE LockBase'
  <2>1. /\ status' = [status EXCEPT ![e] = IF Failing(t) THEN FAILED ELSE COMPLETE]
        /\ phase[t][e] = "finish" /\ phase' = [phase EXCEPT ![t][e] = "broadcast"]
        /\ held[e] = None
        /\ barrier' = Cleared(barrier, queue[e], e) /\ last' = Cleared(last, queue[e], e)
        /\ pending' = [pending EXCEPT ![queue[e]] = @ \ {e}]
        /\ UNCHANGED <<kind, queue, notify, ready, held, cur, todo, app, work>>
    BY <1>7 DEF Finish, Unlocked, identVars, appVars
  <2>2. \A x \in Thread : pc'[x] = pc[x] \/ (pc[x] \in {"joinWait", "eventWait"} /\ pc'[x] \in {"join", "wait"})
    BY <1>7 DEF Finish, WaitsForQueue, WaitsForEvent
  <2>3. /\ \A u \in Thread, f \in Event : phase'[u][f] # "none" => f \in Settled
        /\ \A u \in Thread, f \in Event : phase'[u][f] = "notifying" <=> phase[u][f] = "notifying"
    BY <1>p, <1>w, <2>1
  <2>4. \A g \in Hosts : Enqueuing(g)' => Enqueuing(g) /\ (SyncingNow(g)' => SyncingNow(g))
    BY <1>d, <2>2 DEF Enqueuing, SyncingNow
  <2>5. \A c \in Drivers : pc'[c] = "taken" => pc[c] = "taken"
    BY <1>d, <2>2
  <2>6. Reached \subseteq Reached' /\ Settled \subseteq Settled'
    BY <2>1, <2>4, PointsGrow
  <2>7. \A q \in Queues : /\ pending'[q] \subseteq pending[q]
                          /\ barrier'[q] \in {barrier[q], NoEvent} /\ last'[q] \in {last[q], NoEvent}
    BY <2>1 DEF Cleared, TypeOK
  <2>8. \A q \in Queues : pending'[q] \cup ({barrier'[q], last'[q]} \ {NoEvent})
                            \subseteq pending[q] \cup ({barrier[q], last[q]} \ {NoEvent})
    BY <2>7
  <2>9. PointsReached'
    <3>1. \A q \in Queues : pending'[q] \cup ({barrier'[q], last'[q]} \ {NoEvent}) \subseteq Reached'
      BY <2>6, <2>8 DEF PointsReached
    <3> QED BY <2>1, <2>4, <2>6, <3>1 DEF PointsReached
  <2>10. PointsSettled'
    <3>1. \A g, x \in Hosts : Enqueuing(g)' /\ Enqueuing(x)' /\ cur'[g] = cur'[x] => g = x
      BY <2>1, <2>4 DEF PointsSettled
    <3> QED BY <1>w, <2>1, <2>3, <2>5, <2>6, <3>1 DEF PointsSettled
  <2>11. OnlyCommands'
    BY <2>1, <2>8 DEF OnlyCommands, Commands
  <2>12. Kept'
    <3>1. \A a \in Event : held[a] # None /\ status[a] = FAILED => status'[a] = FAILED
      BY <2>1 DEF TypeOK
    <3> QED BY <2>1, <2>3, <3>1 DEF Kept
  <2>13. NoneFailing'
    <3>1. ASSUME NEW a \in Event, status'[a] = FAILED PROVE \E f \in Event : status[f] = FAILED
      <4>1. CASE a # e
        BY <2>1, <3>1, <4>1 DEF TypeOK
      <4>2. CASE a = e
        <5>1. Failing(t)
          BY <2>1, <3>1, <4>2 DEF TypeOK, COMPLETE, FAILED
        <5>2. PICK b \in Event : phase[t][b] = "notifying"
          BY <5>1 DEF Failing
        <5> QED BY <5>2, ConstantsAssumption DEF Kept
      <4> QED BY <4>1, <4>2
    <3> QED BY <1>n, <2>4, <3>1 DEF NoneFailing
  <2> QED BY <2>9, <2>10, <2>11, <2>12, <2>13
<1>8. ASSUME NEW t \in Thread, NEW e \in Event, NEW x \in Event, Notify(t, e, x) PROVE LockBase'
  <2>1. /\ status' \in {status, [status EXCEPT ![x] = SUBMITTED]} /\ held[x] = None
        /\ notify' = [notify EXCEPT ![e] = @ \ {x}]
        /\ UNCHANGED <<kind, queue, ready, held, barrier, last, pending, pc, cur, todo, app, phase>>
    BY <1>8 DEF Notify, Unlocked, identVars, cqVars, callVars, finVars, appVars
  <2>2. \A i \in 1..Len(work') : work'[i] \in Settled
    <3>1. CASE Dispatchable(x, e)
      <4>1. work' = Append(work, x) /\ x \in Settled
        BY <1>8, <3>1 DEF Notify, Dispatchable, PointsSettled
      <4> QED BY <1>w, <4>1, AppendFacts
    <3>2. CASE ~Dispatchable(x, e)
      BY <1>8, <1>w, <3>2 DEF Notify
    <3> QED BY <3>1, <3>2
  <2>3. /\ \A a \in Event : status[a] = FAILED /\ held[a] # None => status'[a] = FAILED
        /\ \A a \in Event : status'[a] = FAILED => status[a] = FAILED
        /\ \A a \in Event : notify'[a] \subseteq notify[a]
    BY <2>1 DEF TypeOK, SUBMITTED, FAILED
  <2> QED BY <1>w, <1>n, <2>1, <2>2, <2>3, BaseQuiet DEF Enqueuing, SyncingNow
<1>9. ASSUME NEW t \in Thread, NEW e \in Event, NEW x \in Event, NotifyFailed(t, e, x) PROVE LockBase'
  <2>1. /\ phase[t][e] = "broadcast" /\ x \in notify[e] /\ held[e] = None /\ held[x] = None /\ status[e] = FAILED
        /\ held' = [held EXCEPT ![e] = t]
        /\ phase' = [phase EXCEPT ![t] = [phase[t] EXCEPT ![e] = "notifying", ![x] = "finish"]]
        /\ UNCHANGED <<kind, queue, status, notify, ready, barrier, last, pending, work, pc, cur, todo, app>>
    BY <1>9 DEF NotifyFailed, Unlocked, identVars, cqVars, callVars, appVars
  <2>2. \A h \in Hosts : ~Enqueuing(h)
    BY <1>n, <2>1
  <2>3. x \in Settled /\ e \in Settled
    <3>1. x \in Commands
      BY <2>1 DEF OnlyCommands
    <3> QED BY <1>w, <2>1, <2>2, <3>1 DEF Settled, Commands, CommandKinds
  <2>4. Reached' = Reached /\ Settled' = Settled
    BY <2>1 DEF Reached, Settled, Enqueuing, SyncingNow
  <2>5. \A u \in Thread, f \in Event : phase'[u][f] # "none" => f \in {e, x} \/ phase[u][f] # "none"
    BY <2>1 DEF TypeOK
  <2>6. PointsReached' /\ OnlyCommands' /\ NoneFailing'
    BY <2>1, <2>4 DEF PointsReached, OnlyCommands, NoneFailing, Enqueuing, Commands
  <2>7. PointsSettled'
    BY <2>1, <2>3, <2>4, <2>5 DEF PointsSettled, Enqueuing
  <2>8. Kept'
    <3>0. \A u \in Thread, f \in Event : held[f] = u <=> phase[u][f] = "notifying"
      BY DEF Kept
    <3>1. e # x
      BY <2>1 DEF SomeRank, Ranked
    <3>2. \A u \in Thread : phase[u][e] # "notifying" /\ phase[u][x] # "notifying"
      BY <2>1, <3>0, ConstantsAssumption
    <3>3. ASSUME NEW u \in Thread, NEW f \in Event PROVE held'[f] = u <=> phase'[u][f] = "notifying"
      <4>1. CASE f = e
        BY <2>1, <3>1, <3>2, <4>1 DEF TypeOK
      <4>2. CASE f = x
        BY <2>1, <3>1, <3>2, <4>2, ConstantsAssumption DEF TypeOK
      <4>3. CASE f # e /\ f # x
        <5>1. held'[f] = held[f] /\ phase'[u][f] = phase[u][f]
          BY <2>1, <4>3 DEF TypeOK
        <5> QED BY <3>0, <5>1
      <4> QED BY <4>1, <4>2, <4>3
    <3>4. \A f \in Event : held'[f] # None => status'[f] = FAILED
      BY <2>1 DEF Kept, TypeOK
    <3> QED BY <3>3, <3>4 DEF Kept
  <2> QED BY <2>6, <2>7, <2>8
<1>10. ASSUME NEW t \in Thread, NEW e \in Event, Relock(t, e) PROVE LockBase'
  <2>1. /\ phase[t][e] = "notifying" /\ notify' = [notify EXCEPT ![e] = @ \ {nested[t][e]}]
        /\ held' = [held EXCEPT ![e] = None] /\ phase' = [phase EXCEPT ![t][e] = "broadcast"]
        /\ UNCHANGED <<kind, queue, status, ready, barrier, last, pending, work, pc, cur, todo, app>>
    BY <1>10 DEF Relock, identVars, cqVars, callVars, appVars
  <2>2. Reached' = Reached /\ Settled' = Settled
    BY <2>1 DEF Reached, Settled, Enqueuing, SyncingNow
  <2>3. \A a \in Event : notify'[a] \subseteq notify[a]
    BY <2>1 DEF TypeOK
  <2>4. /\ \A u \in Thread, f \in Event : (u # t \/ f # e) => phase'[u][f] = phase[u][f]
        /\ phase'[t][e] = "broadcast"
    BY <2>1 DEF TypeOK
  <2>5. PointsReached'
    BY <2>1, <2>2, <2>3 DEF PointsReached, Enqueuing
  <2>6. OnlyCommands' /\ NoneFailing'
    <3>1. OnlyCommands'
      BY <2>1, <2>3 DEF OnlyCommands, Commands
    <3> QED BY <2>1, <3>1 DEF NoneFailing, Enqueuing
  <2>7. PointsSettled'
    BY <2>1, <2>2, <2>4 DEF PointsSettled, Enqueuing
  <2>8. Kept'
    <3>1. held[e] = t
      BY <2>1 DEF Kept
    <3>2. \A u \in Thread : u # t => phase[u][e] # "notifying"
      BY <3>1 DEF Kept
    <3>3. ASSUME NEW u \in Thread, NEW f \in Event PROVE held'[f] = u <=> phase'[u][f] = "notifying"
      <4>1. CASE f = e
        BY <2>1, <2>4, <3>2, <4>1, ConstantsAssumption DEF TypeOK
      <4>2. CASE f # e
        BY <2>1, <2>4, <4>2 DEF TypeOK, Kept
      <4> QED BY <4>1, <4>2
    <3>4. \A f \in Event : held'[f] # None => status'[f] = FAILED
      BY <2>1 DEF Kept, TypeOK
    <3> QED BY <3>3, <3>4 DEF Kept
  <2> QED BY <2>5, <2>6, <2>7, <2>8
<1>11. ASSUME NEW t \in Thread, NEW e \in Event, BroadcastDone(t, e) \/ ReleaseFinished(t, e) PROVE LockBase'
  <2>1. /\ phase[t][e] \in {"broadcast", "release"}
        /\ \E v \in {"none", "release"} : phase' = [phase EXCEPT ![t][e] = v]
        /\ UNCHANGED <<kind, queue, status, notify, ready, held, barrier, last, pending, work, cur, todo, app>>
    BY <1>11 DEF BroadcastDone, ReleaseFinished, identVars, eventVars, cqVars, callVars, appVars
  <2>2. \A u \in Thread : pc'[u] = pc[u] \/ pc'[u] = "idle"
    BY <1>11 DEF BroadcastDone, ReleaseFinished, callVars, TypeOK
  <2>3. /\ \A u \in Thread, f \in Event : phase'[u][f] # "none" => f \in Settled
        /\ \A u \in Thread, f \in Event : phase'[u][f] = "notifying" <=> phase[u][f] = "notifying"
    BY <1>p, <1>w, <2>1
  <2>4. \A g \in Hosts : Enqueuing(g)' => Enqueuing(g) /\ (SyncingNow(g)' => SyncingNow(g))
    BY <1>d, <2>2 DEF Enqueuing, SyncingNow
  <2>5. \A c \in Drivers : pc'[c] = "taken" => cur'[c] \in Settled
    BY <1>d, <1>w, <2>1, <2>2
  <2> QED BY <1>w, <1>n, <2>1, <2>3, <2>4, <2>5, BaseQuiet
<1>12. ASSUME NEW h \in Hosts, NEW e \in Event, NEW s \in UserStatuses, SetUserEventStatus(h, e, s) PROVE LockBase'
  <2>1. /\ pc[h] = "idle" /\ kind[e] = "user" /\ held[e] = None /\ status' = [status EXCEPT ![e] = s]
        /\ phase' = [phase EXCEPT ![h][e] = "broadcast"] /\ cur' = [cur EXCEPT ![h] = e]
        /\ pc' = [pc EXCEPT ![h] = "userDone"]
        /\ UNCHANGED <<kind, queue, notify, ready, held, barrier, last, pending, work, todo, app>>
    BY <1>12 DEF SetUserEventStatus, Goto, Unlocked, identVars, cqVars, appVars
  <2>2. e \in Settled
    BY <2>1 DEF Settled, TypeOK, Commands, CommandKinds
  <2>3. phase[h][e] # "notifying"
    BY <1>d, <2>1, ConstantsAssumption DEF Kept, Thread
  <2>4. /\ \A u \in Thread, f \in Event : phase'[u][f] # "none" => f \in Settled
        /\ \A u \in Thread, f \in Event : phase'[u][f] = "notifying" <=> phase[u][f] = "notifying"
    BY <1>d, <1>p, <1>w, <2>1, <2>2, <2>3
  <2>5. \A g \in Hosts : Enqueuing(g)' => Enqueuing(g) /\ cur'[g] = cur[g] /\ (SyncingNow(g)' => SyncingNow(g))
    BY <1>d, <2>1 DEF TypeOK, Enqueuing, SyncingNow
  <2>6. \A c \in Drivers : pc'[c] = "taken" => cur'[c] \in Settled
    BY <1>w, <1>d, <2>1 DEF TypeOK
  <2>7. \A a \in Event : status[a] = FAILED /\ held[a] # None => status'[a] = FAILED
    BY <2>1 DEF TypeOK
  <2>8. ASSUME NEW a \in Event, status'[a] = FAILED PROVE OrderlyFailure /\ \A g \in Hosts : ~Enqueuing(g)'
    <3>1. CASE a # e
      BY <1>n, <2>1, <2>5, <2>8, <3>1 DEF TypeOK
    <3>2. CASE a = e
      <4>1. s = FAILED
        BY <2>1, <2>8, <3>2 DEF TypeOK
      <4>2. OrderlyFailure
        BY <4>1 DEF MayFail, NoFailures, FAILED, COMPLETE
      <4> QED BY <1>12, <2>5, <4>1, <4>2 DEF SetUserEventStatus
    <3> QED BY <3>1, <3>2
  <2> QED BY <1>w, <2>1, <2>4, <2>5, <2>6, <2>7, <2>8, BaseQuiet
<1>13. ASSUME NEW h \in Hosts, CreateUserEvent(h) PROVE LockBase'
  <2>0. PICK n \in Event : n = created + 1 /\ kind[n] = "none"
    <3>1. created + 1 \in Event /\ ~(created + 1 <= created)
      BY <1>13, ConstantsAssumption DEF CreateUserEvent, TypeOK, Event
    <3> QED BY <3>1 DEF TypeOK
  <2>1. /\ kind' = [kind EXCEPT ![n] = "user"] /\ status' = [status EXCEPT ![n] = SUBMITTED] /\ app' = app \cup {n}
        /\ UNCHANGED <<queue, notify, ready, held, barrier, last, pending, work, pc, cur, todo, phase>>
    BY <1>13, <2>0 DEF CreateUserEvent, cqVars, callVars, finVars
  <2>2. /\ \A a \in Event : kind[a] # "none" => kind'[a] = kind[a]
        /\ \A a \in app' : a \in app \/ kind'[a] # "none"
    BY <2>0, <2>1 DEF TypeOK
  <2>3. held[n] = None
    BY <1>w, <2>0 DEF Kept, Settled, TypeOK
  <2>4. /\ \A a \in Event : status[a] = FAILED /\ held[a] # None => status'[a] = FAILED
        /\ \A a \in Event : status'[a] = FAILED => status[a] = FAILED
    BY <2>1, <2>3 DEF TypeOK, SUBMITTED, FAILED
  <2> QED BY <1>w, <1>n, <2>1, <2>2, <2>4, BaseQuiet DEF Enqueuing, SyncingNow
<1>14. ASSUME NEW h \in Hosts, WaitStep(h) PROVE LockBase'
  <2>1. /\ UNCHANGED <<kind, queue, status, notify, ready, held, barrier, last, pending, work, phase, app>>
        /\ \A g \in Hosts : todo'[g] \subseteq todo[g]
    BY <1>14 DEF WaitStep, Join, WaitEvent, WaitTimeout, UserEventDone, identVars, eventVars, cqVars, callVars, finVars, appVars, TypeOK
  <2>2. \A u \in Thread : \/ pc'[u] = pc[u] /\ cur'[u] = cur[u]
                          \/ pc'[u] \in {"idle", "joinWait", "eventWait", "wait"}
    BY <1>14 DEF WaitStep, Join, WaitEvent, WaitTimeout, UserEventDone, callVars, Goto, WaitsForEvent, TypeOK
  <2>3. \A g \in Hosts : Enqueuing(g)' => Enqueuing(g) /\ cur'[g] = cur[g] /\ (SyncingNow(g)' => SyncingNow(g))
    BY <1>d, <2>2 DEF Enqueuing, SyncingNow
  <2>4. \A c \in Drivers : pc'[c] = "taken" => cur'[c] \in Settled
    BY <1>d, <1>w, <2>2
  <2> QED BY <1>w, <1>n, <2>1, <2>3, <2>4, BaseQuiet
<1>15. ASSUME NEW h \in Hosts, NEW q \in Queues, CallFinish(h, q) \/ ReleaseQueue(h, q) PROVE LockBase'
  <2>1. UNCHANGED <<kind, queue, status, notify, ready, held, barrier, last, pending, work, phase, app, cur>>
    BY <1>15 DEF CallFinish, ReleaseQueue, identVars, eventVars, cqVars, callVars, finVars, appVars
  <2>2. \A u \in Thread : pc'[u] = pc[u] \/ pc'[u] = "join"
    BY <1>15 DEF CallFinish, ReleaseQueue, callVars, Goto, TypeOK
  <2>3. \A g \in Hosts : Enqueuing(g)' => pc'[g] = pc[g] /\ todo'[g] = todo[g]
    BY <1>15, <1>d DEF CallFinish, ReleaseQueue, callVars, Goto, TypeOK, Enqueuing
  <2>4. \A c \in Drivers : pc'[c] = "taken" => cur'[c] \in Settled
    BY <1>d, <1>w, <2>1, <2>2
  <2> QED BY <1>w, <1>n, <2>1, <2>3, <2>4, BaseQuiet DEF Enqueuing, SyncingNow
<1>16. ASSUME NEW h \in Hosts, NEW e \in Event, CallWait(h, e) \/ ReleaseEvent(h, e) PROVE LockBase'
  <2>1. UNCHANGED <<kind, queue, status, notify, ready, held, barrier, last, pending, work, phase, todo>> /\ app' \subseteq app
    BY <1>16 DEF CallWait, ReleaseEvent, identVars, eventVars, cqVars, callVars, finVars, appVars
  <2>2. \A u \in Thread : (pc'[u] = pc[u] /\ cur'[u] = cur[u]) \/ pc'[u] = "wait"
    BY <1>16 DEF CallWait, ReleaseEvent, callVars, Goto, TypeOK
  <2>3. \A g \in Hosts : Enqueuing(g)' => pc'[g] = pc[g] /\ cur'[g] = cur[g]
    BY <1>d, <2>2 DEF Enqueuing
  <2>4. \A c \in Drivers : pc'[c] = "taken" => cur'[c] \in Settled
    BY <1>d, <1>w, <2>2
  <2> QED BY <1>w, <1>n, <2>1, <2>3, <2>4, BaseQuiet DEF Enqueuing, SyncingNow
<1> QED
  BY <1>1, <1>2, <1>3, <1>4, <1>5, <1>6, <1>7, <1>8, <1>9, <1>10, <1>11, <1>12, <1>13, <1>14, <1>15, <1>16
  DEF EnqueueStep, DriverStep, FinishStep, SetSomeUserEvent

-----------------------------------------------------------------------------
(* The order itself. *)

\* A step that finishes nothing keeps the order.
LEMMA RankQuiet ==
  ASSUME TypeOK, TypeOK', SomeRank, Commands \subseteq Commands',
         \A n \in Event : notify'[n] \subseteq notify[n], UNCHANGED <<phase, nested>>
  PROVE  SomeRank'
<1>1. PICK N \in Nat : \E r \in [Event -> 0..N] : Ranked(r)
  BY DEF SomeRank
<1>2. PICK r \in [Event -> 0..N] : Ranked(r)
  BY <1>1
<1>3. \A t \in Thread : Stacked(t, r)'
  BY <1>2 DEF Ranked, Stacked
<1>4. Ranked(r)'
  BY <1>2, <1>3 DEF Ranked
<1> QED BY <1>2, <1>4 DEF SomeRank

\* New synchronizations: the command being enqueued comes last.
LEMMA RankSync ==
  ASSUME TypeOK, LockBase, SomeRank, NEW h \in Hosts, SyncingNow(h), NEW S, S \subseteq Reached,
         Sync(cur[h], S), UNCHANGED <<kind, phase, nested>>
  PROVE  SomeRank'
<1>1. PICK N \in Nat : \E r \in [Event -> 0..N] : Ranked(r)
  BY DEF SomeRank
<1>2. PICK r \in [Event -> 0..N] : Ranked(r)
  BY <1>1
<1>3. PICK e \in Event : e = cur[h]
  BY EnqueuingFacts DEF SyncingNow, Enqueuing
<1>4. /\ e \notin Reached /\ notify[e] = {}
      /\ \A t \in Thread : phase[t][e] = "none"
      /\ \A t \in Thread, f \in Event : phase[t][f] # "notifying"
  BY <1>3, EnqueuingFacts DEF SyncingNow, Enqueuing
<1>5. PICK s \in [Event -> 0..(N + 1)] : s[e] = N + 1 /\ \A f \in Event : f # e => s[f] = r[f]
  <2>1. [r EXCEPT ![e] = N + 1] \in [Event -> 0..(N + 1)]
    BY <1>1
  <2> QED BY <2>1
<1>6. ASSUME NEW n \in Event, NEW x \in notify'[n] PROVE s[n] < s[x]
  <2>1. x \in Event /\ notify'[n] = (IF n \in NewSyncs(e, S) THEN notify[n] \cup {e} ELSE notify[n])
    BY <1>3 DEF Sync, TypeOK
  <2>2. CASE x = e
    <3>1. n # e
      BY <1>4, <2>1 DEF NewSyncs
    <3> QED BY <1>5, <2>2, <3>1
  <2>3. CASE x # e
    <3>1. x \in notify[n]
      BY <2>1, <2>3
    <3>2. n # e
      BY <1>4, <3>1
    <3> QED BY <1>2, <1>5, <2>1, <2>3, <3>1, <3>2 DEF Ranked
  <2> QED BY <2>2, <2>3
<1>7. \A t \in Thread : Stacked(t, s)'
  <2>1. \A t \in Thread, f, g \in Event : phase[t][f] # "none" /\ phase[t][g] # "none" /\ f # g =>
          r[f] # r[g] /\ ~(r[f] < r[g])
    BY <1>2, <1>4 DEF Ranked, Stacked
  <2> QED BY <1>4, <1>5, <2>1 DEF Stacked
<1>8. Ranked(s)'
  BY <1>4, <1>6, <1>7 DEF Ranked
<1> QED BY <1>8 DEF SomeRank

\* Of a thread's events the one whose lock is not kept is the last.
LEMMA LastFacts ==
  ASSUME TypeOK, NEW N \in Nat, NEW r \in [Event -> 0..N], Ranked(r),
         NEW t \in Thread, NEW e \in Event, phase[t][e] \in {"finish", "broadcast", "release"}
  PROVE  \A f \in Event : phase[t][f] # "none" /\ f # e =>
           /\ phase[t][f] = "notifying" /\ r[f] < r[e] /\ e \in Commands
           /\ nested[t][f] \in Commands /\ phase[t][nested[t][f]] # "none" /\ r[nested[t][f]] <= r[e]
<1> SUFFICES ASSUME NEW f \in Event, phase[t][f] # "none", f # e
             PROVE  /\ phase[t][f] = "notifying" /\ r[f] < r[e] /\ e \in Commands
                    /\ nested[t][f] \in Commands /\ phase[t][nested[t][f]] # "none" /\ r[nested[t][f]] <= r[e]
  OBVIOUS
<1>1. r[f] # r[e] /\ ~(r[e] < r[f]) /\ r[e] \in Nat /\ r[f] \in Nat
  BY DEF Ranked, Stacked
<1>2. r[f] < r[e]
  BY <1>1
<1>3. /\ phase[t][f] = "notifying" /\ phase[t][nested[t][f]] # "none"
      /\ r[nested[t][f]] <= r[e] /\ e \in Commands
  BY <1>2 DEF Ranked, Stacked
<1> QED BY <1>2, <1>3 DEF Ranked

\* The same, once an order has been chosen.
LEMMA TopFacts ==
  ASSUME TypeOK, SomeRank, NEW t \in Thread, NEW e \in Event, phase[t][e] \in {"finish", "broadcast", "release"}
  PROVE  \A f \in Event : phase[t][f] # "none" /\ f # e => phase[t][f] = "notifying" /\ e \in Commands
BY LastFacts DEF SomeRank

LEMMA RankStep ==
  ASSUME TypeOK, TypeOK', LockInv, MayFail, [Next]_vars
  PROVE  SomeRank'
<1> USE DEF LockInv
<1>r. PICK N \in Nat : \E r \in [Event -> 0..N] : Ranked(r)
  BY DEF SomeRank
<1>s. PICK r \in [Event -> 0..N] : Ranked(r)
  BY <1>r
<1>q. ASSUME Ranked(r)' PROVE SomeRank'
  BY <1>q DEF SomeRank
<1>n. \A e \in Event : r[e] \in Nat
  OBVIOUS
<1>p. ASSUME NEW t \in Thread, NEW e \in Event, NEW v, phase' = [phase EXCEPT ![t][e] = v], v # "notifying", phase[t][e] # "notifying",
             kind' = kind, nested' = nested, \A n \in Event : notify'[n] \subseteq notify[n], Stacked(t, r)'
      PROVE  SomeRank'
  <2>1. \A u \in Thread, f \in Event : (u # t \/ f # e) => phase'[u][f] = phase[u][f]
    BY <1>p DEF TypeOK
  <2>2. phase'[t][e] = v
    BY <1>p DEF TypeOK
  <2>3. \A u \in Thread, f \in Event : phase'[u][f] = "notifying" => nested'[u][f] \in Commands' /\ r[f] < r[nested'[u][f]]
    BY <1>p, <1>s, <2>1, <2>2 DEF Ranked, Commands
  <2>4. \A u \in Thread : u # t => phase'[u] = phase[u]
    BY <1>p DEF TypeOK
  <2>5. ASSUME NEW u \in Thread PROVE Stacked(u, r)'
    <3>1. CASE u = t
      BY <1>p, <3>1
    <3>2. CASE u # t
      BY <1>p, <1>s, <2>4, <3>2 DEF Ranked, Stacked, Commands
    <3> QED BY <3>1, <3>2
  <2>6. \A n \in Event : \A x \in notify'[n] : r[n] < r[x]
    BY <1>p, <1>s DEF Ranked
  <2> QED BY <1>q, <2>3, <2>5, <2>6 DEF Ranked
<1>1. ASSUME NEW h \in Hosts, SyncLast(h) PROVE SomeRank'
  <2>1. PICK q \in Queues : q = queue[cur[h]]
    BY <1>1 DEF SyncLast, TypeOK, Enqueuing
  <2>2. Previous(q) \subseteq Reached
    BY DEF Previous, LockBase, PointsReached
  <2> QED BY <1>1, <2>1, <2>2, RankSync DEF SyncLast, SyncingNow, identVars, finVars
<1>2. ASSUME NEW h \in Hosts, SyncListed(h) PROVE SomeRank'
  <2>1. PICK n \in todo[h] : Sync(cur[h], {n})
    BY <1>2 DEF SyncListed
  <2>2. {n} \subseteq Reached
    BY <1>2, <2>1 DEF SyncListed, LockBase, PointsReached, Settled, Reached, SyncingNow, Enqueuing
  <2> QED BY <1>2, <2>1, <2>2, RankSync DEF SyncListed, SyncingNow, identVars, finVars
<1>3. ASSUME NEW h \in Hosts, Enqueue(h) PROVE SomeRank'
  <2>1. PICK q \in Queues : q = queue[cur[h]]
    BY <1>3 DEF Enqueue, TypeOK, Enqueuing
  <2>2. QueueSyncs(cur[h], q) \subseteq Reached
    BY DEF QueueSyncs, LockBase, PointsReached
  <2> QED BY <1>3, <2>1, <2>2, RankSync DEF Enqueue, SyncingNow, finVars
<1>4. ASSUME NEW h \in Hosts, NEW q \in Queues, NEW k \in Kinds, NEW W \in SUBSET Event,
             NEW x \in Explicit, CreateCommand(h, q, k, W, x)
      PROVE  SomeRank'
  <2>1. kind[created + 1] = "none" /\ kind' = [kind EXCEPT ![created + 1] = k]
    <3>1. created + 1 \in Event /\ ~(created + 1 <= created)
      BY <1>4, ConstantsAssumption DEF CreateCommand, TypeOK, Event
    <3> QED BY <1>4, <3>1 DEF CreateCommand, TypeOK
  <2>2. \A a \in Event : kind[a] # "none" => kind'[a] = kind[a]
    BY <2>1 DEF TypeOK
  <2>3. Commands \subseteq Commands'
    BY <2>2 DEF Commands, CommandKinds
  <2> QED BY <1>4, <2>3, RankQuiet DEF CreateCommand, finVars
<1>5. ASSUME NEW h \in Hosts, CreateUserEvent(h) PROVE SomeRank'
  <2>1. kind[created + 1] = "none" /\ kind' = [kind EXCEPT ![created + 1] = "user"]
    <3>1. created + 1 \in Event /\ ~(created + 1 <= created)
      BY <1>5, ConstantsAssumption DEF CreateUserEvent, TypeOK, Event
    <3> QED BY <1>5, <3>1 DEF CreateUserEvent, TypeOK
  <2>2. \A a \in Event : kind[a] # "none" => kind'[a] = kind[a]
    BY <2>1 DEF TypeOK
  <2>3. Commands \subseteq Commands'
    BY <2>2 DEF Commands, CommandKinds
  <2> QED BY <1>5, <2>3, RankQuiet DEF CreateUserEvent, finVars
<1>6. ASSUME NEW h \in Hosts, WaitStep(h) \/ Submit(h) PROVE SomeRank'
  BY <1>6, RankQuiet DEF WaitStep, Join, WaitEvent, WaitTimeout, UserEventDone, Submit, identVars, eventVars, finVars, Commands
<1>7. ASSUME NEW h \in Hosts, NEW q \in Queues, CallFinish(h, q) \/ ReleaseQueue(h, q) PROVE SomeRank'
  BY <1>7, RankQuiet DEF CallFinish, ReleaseQueue, identVars, eventVars, finVars, Commands
<1>8. ASSUME NEW h \in Hosts, NEW e \in Event, CallWait(h, e) \/ ReleaseEvent(h, e) PROVE SomeRank'
  BY <1>8, RankQuiet DEF CallWait, ReleaseEvent, identVars, eventVars, finVars, Commands
<1>9. ASSUME NEW d \in Drivers, Take(d) PROVE SomeRank'
  BY <1>9, RankQuiet DEF Take, identVars, eventVars, finVars, Commands
<1>10. ASSUME NEW t \in Thread, NEW e \in Event, NEW x \in Event, Notify(t, e, x) PROVE SomeRank'
  <2>1. notify' = [notify EXCEPT ![e] = @ \ {x}] /\ UNCHANGED <<kind, phase, nested>>
    BY <1>10 DEF Notify, identVars, finVars
  <2>2. \A n \in Event : notify'[n] \subseteq notify[n]
    BY <2>1 DEF TypeOK
  <2> QED BY <2>1, <2>2, RankQuiet DEF Commands
<1>11. ASSUME NEW d \in Drivers, Start(d) PROVE SomeRank'
  <2>0. PICK e \in Event : e = cur[d]
    BY <1>11 DEF Start, LockBase, PointsSettled, Settled
  <2>1. /\ pc[d] = "taken" /\ phase' = [phase EXCEPT ![d][e] = "finish"] /\ d \in Thread
        /\ UNCHANGED <<kind, nested, notify>>
    BY <1>11, <2>0 DEF Start, identVars, Thread
  <2>2. \A f \in Event : phase[d][f] = "none"
    BY <2>1 DEF Works
  <2>3. Stacked(d, r)'
    BY <2>1, <2>2 DEF Stacked, TypeOK
  <2> QED BY <1>p, <2>1, <2>2, <2>3
<1>12. ASSUME NEW h \in Hosts, NEW e \in Event, NEW s \in UserStatuses, SetUserEventStatus(h, e, s) PROVE SomeRank'
  <2>1. /\ pc[h] = "idle" /\ phase' = [phase EXCEPT ![h][e] = "broadcast"] /\ h \in Thread
        /\ UNCHANGED <<kind, nested, notify>>
    BY <1>12 DEF SetUserEventStatus, identVars, Thread
  <2>2. \A f \in Event : phase[h][f] = "none"
    BY <2>1 DEF Works
  <2>3. Stacked(h, r)'
    BY <2>1, <2>2 DEF Stacked, TypeOK
  <2> QED BY <1>p, <2>1, <2>2, <2>3
<1>13. ASSUME NEW t \in Thread, NEW e \in Event, Finish(t, e) PROVE SomeRank'
  <2>1. /\ phase[t][e] = "finish" /\ phase' = [phase EXCEPT ![t][e] = "broadcast"]
        /\ UNCHANGED <<kind, nested, notify>>
    BY <1>13 DEF Finish, identVars
  <2>2. /\ \A f \in Event : f # e => phase'[t][f] = phase[t][f]
        /\ phase'[t][e] = "broadcast"
    BY <2>1 DEF TypeOK
  <2>3. Stacked(t, r)'
    <3>1. ASSUME NEW f \in Event, NEW g \in Event, phase'[t][f] # "none", phase'[t][g] # "none", f # g
          PROVE  r[f] # r[g] /\ (r[f] < r[g] => /\ phase'[t][f] = "notifying" /\ phase'[t][nested[t][f]] # "none"
                                               /\ r[nested[t][f]] <= r[g] /\ g \in Commands)
      <4>1. phase[t][f] # "none" /\ phase[t][g] # "none"
        BY <2>1, <2>2, <3>1
      <4>2. phase[t][f] = "notifying" => nested[t][f] \in Event
        BY <1>s DEF Ranked, Commands
      <4> QED BY <1>s, <2>1, <2>2, <3>1, <4>1, <4>2 DEF Ranked, Stacked
    <3> QED BY <2>1, <3>1 DEF Stacked, Commands
  <2> QED BY <1>p, <2>1, <2>3
<1>14. ASSUME NEW t \in Thread, NEW e \in Event, BroadcastDone(t, e) \/ ReleaseFinished(t, e) PROVE SomeRank'
  <2>1. /\ phase[t][e] \in {"broadcast", "release"} /\ UNCHANGED <<kind, nested, notify>>
        /\ \/ phase' = [phase EXCEPT ![t][e] = "release"]
           \/ phase' = [phase EXCEPT ![t][e] = "none"]
    BY <1>14 DEF BroadcastDone, ReleaseFinished, identVars, eventVars
  <2>2. PICK v \in {"release", "none"} : phase' = [phase EXCEPT ![t][e] = v]
    BY <2>1
  <2>3. /\ \A f \in Event : f # e => phase'[t][f] = phase[t][f]
        /\ phase'[t][e] = v
    BY <2>2 DEF TypeOK
  <2>4. ASSUME NEW f \in Event, NEW g \in Event, phase'[t][f] # "none", phase'[t][g] # "none", f # g
        PROVE  r[f] # r[g] /\ (r[f] < r[g] => /\ phase'[t][f] = "notifying" /\ phase'[t][nested[t][f]] # "none"
                                             /\ r[nested[t][f]] <= r[g] /\ g \in Commands)
    <3>1. phase[t][f] # "none" /\ phase[t][g] # "none"
      BY <2>1, <2>3, <2>4
    <3>2. r[f] # r[g] /\ (r[f] < r[g] => /\ phase[t][f] = "notifying" /\ phase[t][nested[t][f]] # "none"
                                         /\ r[nested[t][f]] <= r[g] /\ g \in Commands /\ nested[t][f] \in Event)
      BY <1>s, <2>4, <3>1 DEF Ranked, Stacked, Commands
    <3>3. CASE v = "release" \/ ~(r[f] < r[g])
      BY <2>1, <2>3, <3>2, <3>3
    <3>4. CASE v = "none" /\ r[f] < r[g]
      <4>1. f # e /\ g # e
        BY <2>3, <2>4, <3>4
      <4>2. r[g] < r[e]
        BY <1>r, <1>s, <2>1, <3>1, <4>1, LastFacts
      <4>3. nested[t][f] # e
        BY <3>2, <3>4, <4>2, <1>n
      <4> QED BY <2>3, <3>2, <3>4, <4>1, <4>3
    <3> QED BY <2>2, <3>3, <3>4
  <2>5. Stacked(t, r)'
    BY <2>1, <2>4 DEF Stacked, Commands
  <2> QED BY <1>p, <2>1, <2>2, <2>5
<1>15. ASSUME NEW t \in Thread, NEW e \in Event, NEW x \in Event, NotifyFailed(t, e, x) PROVE SomeRank'
  <2>1. /\ phase[t][e] = "broadcast" /\ x \in notify[e]
        /\ nested' = [nested EXCEPT ![t][e] = x]
        /\ phase' = [phase EXCEPT ![t] = [phase[t] EXCEPT ![e] = "notifying", ![x] = "finish"]]
        /\ UNCHANGED <<kind, notify>>
    BY <1>15 DEF NotifyFailed, identVars
  <2>2. r[e] < r[x] /\ x \in Commands /\ x # e
    BY <1>s, <2>1, <1>n DEF Ranked, LockBase, OnlyCommands
  <2>3. phase[t][x] = "none"
    BY <1>r, <1>s, <1>n, <2>1, <2>2, LastFacts
  <2>4. /\ \A f \in Event : f # e /\ f # x => phase'[t][f] = phase[t][f]
        /\ phase'[t][e] = "notifying" /\ phase'[t][x] = "finish"
        /\ \A f \in Event : f # e => nested'[t][f] = nested[t][f]
        /\ nested'[t][e] = x
        /\ \A u \in Thread : u # t => phase'[u] = phase[u] /\ nested'[u] = nested[u]
    BY <2>1, <2>2 DEF TypeOK
  <2>5. \A f \in Event : phase[t][f] # "none" /\ f # e =>
           /\ phase[t][f] = "notifying" /\ r[f] < r[e] /\ e \in Commands
           /\ nested[t][f] \in Commands /\ phase[t][nested[t][f]] # "none" /\ r[nested[t][f]] <= r[e]
    BY <1>r, <1>s, <2>1, LastFacts
  <2>6. ASSUME NEW f \in Event, NEW g \in Event, phase'[t][f] # "none", phase'[t][g] # "none", f # g
        PROVE  r[f] # r[g] /\ (r[f] < r[g] => /\ phase'[t][f] = "notifying" /\ phase'[t][nested'[t][f]] # "none"
                                             /\ r[nested'[t][f]] <= r[g] /\ g \in Commands)
    <3>0. Commands \subseteq Event
      BY DEF Commands
    <3>1. CASE f = x
      <4>1. g = e \/ r[g] < r[e]
        BY <2>4, <2>5, <2>6, <3>1
      <4>2. r[g] < r[x]
        BY <1>n, <2>2, <4>1
      <4> QED BY <1>n, <3>1, <4>2
    <3>2. CASE f = e
      <4>1. CASE g = x
        BY <1>n, <2>2, <2>4, <3>2, <4>1
      <4>2. CASE g # x
        <5>1. r[g] < r[e]
          BY <2>4, <2>5, <2>6, <3>2, <4>2
        <5> QED BY <1>n, <3>2, <5>1
      <4> QED BY <4>1, <4>2
    <3>3. CASE f # x /\ f # e
      <4>0. phase[t][f] # "none" /\ nested'[t][f] = nested[t][f]
        BY <2>4, <2>6, <3>3
      <4>1. /\ phase[t][f] = "notifying" /\ r[f] < r[e] /\ e \in Commands
            /\ nested[t][f] \in Event /\ phase[t][nested[t][f]] # "none" /\ r[nested[t][f]] <= r[e]
        BY <2>5, <3>0, <3>3, <4>0
      <4>2. phase'[t][f] = "notifying" /\ phase'[t][nested[t][f]] # "none"
        BY <2>4, <3>3, <4>1
      <4>3. CASE g = e
        BY <1>n, <4>0, <4>1, <4>2, <4>3
      <4>4. CASE g = x
        BY <1>n, <2>2, <4>0, <4>1, <4>2, <4>4
      <4>5. CASE g # e /\ g # x
        <5>1. phase[t][g] # "none"
          BY <2>4, <2>6, <4>5
        <5> QED BY <1>s, <2>6, <4>0, <4>2, <5>1 DEF Ranked, Stacked
      <4> QED BY <4>3, <4>4, <4>5
    <3> QED BY <3>1, <3>2, <3>3
  <2>7. Commands' = Commands
    BY <2>1 DEF Commands
  <2>8. ASSUME NEW u \in Thread PROVE Stacked(u, r)'
    <3>1. CASE u = t
      BY <2>6, <2>7, <3>1 DEF Stacked
    <3>2. CASE u # t
      BY <1>s, <2>4, <2>7, <3>2 DEF Ranked, Stacked
    <3> QED BY <3>1, <3>2
  <2>9. ASSUME NEW u \in Thread, NEW f \in Event, phase'[u][f] = "notifying"
        PROVE  nested'[u][f] \in Commands' /\ r[f] < r[nested'[u][f]]
    <3>1. CASE u = t /\ f = e
      BY <2>2, <2>4, <2>7, <3>1
    <3>2. CASE u # t \/ f # e
      <4>1. phase[u][f] = "notifying" /\ nested'[u][f] = nested[u][f]
        BY <2>4, <2>9, <3>2
      <4> QED BY <1>s, <2>7, <4>1 DEF Ranked
    <3> QED BY <3>1, <3>2
  <2>10. \A n \in Event : \A y \in notify'[n] : r[n] < r[y]
    BY <1>s, <2>1 DEF Ranked
  <2> QED BY <1>q, <2>8, <2>9, <2>10 DEF Ranked
<1>16. ASSUME NEW t \in Thread, NEW e \in Event, Relock(t, e) PROVE SomeRank'
  <2>1. /\ phase[t][e] = "notifying" /\ phase[t][nested[t][e]] = "none"
        /\ nested' = [nested EXCEPT ![t][e] = NoEvent]
        /\ phase' = [phase EXCEPT ![t][e] = "broadcast"]
        /\ notify' = [notify EXCEPT ![e] = @ \ {nested[t][e]}] /\ kind' = kind
    BY <1>16 DEF Relock, identVars
  <2>4. /\ \A f \in Event : f # e => phase'[t][f] = phase[t][f]
        /\ phase'[t][e] = "broadcast"
        /\ \A f \in Event : f # e => nested'[t][f] = nested[t][f]
        /\ \A u \in Thread : u # t => phase'[u] = phase[u] /\ nested'[u] = nested[u]
    BY <2>1 DEF TypeOK
  <2>6. ASSUME NEW f \in Event, NEW g \in Event, phase'[t][f] # "none", phase'[t][g] # "none", f # g
        PROVE  r[f] # r[g] /\ (r[f] < r[g] => /\ phase'[t][f] = "notifying" /\ phase'[t][nested'[t][f]] # "none"
                                             /\ r[nested'[t][f]] <= r[g] /\ g \in Commands)
    <3>1. phase[t][f] # "none" /\ phase[t][g] # "none"
      BY <2>1, <2>4, <2>6
    <3>2. r[f] # r[g] /\ (r[f] < r[g] => /\ phase[t][f] = "notifying" /\ phase[t][nested[t][f]] # "none"
                                         /\ r[nested[t][f]] <= r[g] /\ g \in Commands /\ nested[t][f] \in Event)
      BY <1>s, <2>6, <3>1 DEF Ranked, Stacked, Commands
    <3>3. CASE f = e
      BY <2>1, <3>2, <3>3
    <3>4. CASE f # e
      BY <2>4, <3>2, <3>4
    <3> QED BY <3>3, <3>4
  <2>7. Commands' = Commands
    BY <2>1 DEF Commands
  <2>8. ASSUME NEW u \in Thread PROVE Stacked(u, r)'
    <3>1. CASE u = t
      BY <2>6, <2>7, <3>1 DEF Stacked
    <3>2. CASE u # t
      BY <1>s, <2>4, <2>7, <3>2 DEF Ranked, Stacked
    <3> QED BY <3>1, <3>2
  <2>9. ASSUME NEW u \in Thread, NEW f \in Event, phase'[u][f] = "notifying"
        PROVE  nested'[u][f] \in Commands' /\ r[f] < r[nested'[u][f]]
    <3>1. phase[u][f] = "notifying" /\ nested'[u][f] = nested[u][f]
      BY <2>4, <2>9
    <3> QED BY <1>s, <2>7, <3>1 DEF Ranked
  <2>10. \A n \in Event : \A y \in notify'[n] : r[n] < r[y]
    BY <1>s, <2>1 DEF Ranked, TypeOK
  <2> QED BY <1>q, <2>8, <2>9, <2>10 DEF Ranked
<1>17. CASE UNCHANGED vars
  BY <1>17, RankQuiet DEF vars, identVars, eventVars, finVars, Commands
<1> QED
  BY <1>1, <1>2, <1>3, <1>4, <1>5, <1>6, <1>7, <1>8, <1>9, <1>10, <1>11, <1>12, <1>13, <1>14, <1>15, <1>16, <1>17
  DEF Next, EnqueueStep, DriverStep, FinishStep, SetSomeUserEvent, AppStep

\* A broadcast event stays out of the queues.
LEMMA GoneStep ==
  ASSUME TypeOK, TypeOK', LockInv, [Next]_vars
  PROVE  Gone'
<1> USE DEF LockInv
<1>1. ASSUME UNCHANGED <<barrier, last, pending>>,
             \A t \in Thread, e \in Event : phase'[t][e] \in {"broadcast", "notifying"} =>
               phase[t][e] \in {"broadcast", "notifying"} \/ kind[e] = "user"
      PROVE  Gone'
  <2>1. ASSUME NEW e \in Event, kind[e] = "user", NEW q \in Queues PROVE e \notin pending[q] \cup {barrier[q], last[q]}
    BY <2>1 DEF LockBase, OnlyCommands, Commands, CommandKinds, NoEvent, Event
  <2> QED BY <1>1, <2>1 DEF Gone
<1>2. ASSUME NEW h \in Hosts, Enqueue(h) PROVE Gone'
  <2>0. PICK e \in Event : e = cur[h] /\ Enqueuing(h) /\ \A t \in Thread : phase[t][e] = "none"
    BY <1>2, EnqueuingFacts DEF Enqueue, Enqueuing
  <2>1. PICK q \in Queues : q = queue[e]
    BY <2>0 DEF TypeOK
  <2>2. \A p \in Queues : /\ pending'[p] \subseteq pending[p] \cup {e}
                          /\ barrier'[p] \in {barrier[p], e} /\ last'[p] \in {last[p], e}
    BY <1>2, <2>0, <2>1 DEF Enqueue, TypeOK
  <2>3. phase' = phase
    BY <1>2 DEF Enqueue, finVars
  <2> QED BY <2>0, <2>2, <2>3 DEF Gone
<1>3. ASSUME NEW t \in Thread, NEW e \in Event, Finish(t, e) PROVE Gone'
  <2>1. /\ phase' = [phase EXCEPT ![t][e] = "broadcast"]
        /\ barrier' = Cleared(barrier, queue[e], e) /\ last' = Cleared(last, queue[e], e)
        /\ pending' = [pending EXCEPT ![queue[e]] = @ \ {e}]
    BY <1>3 DEF Finish
  <2>2. \A q \in Queues : /\ pending'[q] \subseteq pending[q]
                          /\ barrier'[q] \in {barrier[q], NoEvent} /\ last'[q] \in {last[q], NoEvent}
    BY <2>1 DEF Cleared, TypeOK
  <2>3. ASSUME NEW q \in Queues PROVE e \notin pending'[q] \cup {barrier'[q], last'[q]}
    <3>1. CASE queue[e] = q
      BY <2>1, <3>1 DEF Cleared, TypeOK, NoEvent, Event
    <3>2. CASE queue[e] # q
      <4>1. e \notin pending[q] \cup ({barrier[q], last[q]} \ {NoEvent})
        BY <3>2 DEF LockBase, OnlyCommands
      <4>2. e # NoEvent
        BY DEF NoEvent, Event
      <4> QED BY <2>2, <4>1, <4>2
    <3> QED BY <3>1, <3>2
  <2>4. \A u \in Thread, f \in Event : phase'[u][f] \in {"broadcast", "notifying"} =>
          f = e \/ phase[u][f] \in {"broadcast", "notifying"}
    BY <2>1 DEF TypeOK
  <2>5. ASSUME NEW f \in Event, NEW u \in Thread, phase[u][f] \in {"broadcast", "notifying"}, NEW q \in Queues
        PROVE  f \notin pending'[q] \cup {barrier'[q], last'[q]}
    <3>1. f # NoEvent /\ f \notin pending[q] \cup {barrier[q], last[q]}
      BY <2>5 DEF NoEvent, Event, Gone
    <3> QED BY <2>2, <3>1
  <2> QED BY <2>3, <2>4, <2>5 DEF Gone
<1>4. ASSUME NEW d \in Drivers, Start(d) PROVE Gone'
  <2>0. PICK e \in Event : e = cur[d]
    BY <1>4 DEF Start, LockBase, PointsSettled, Settled
  <2> QED BY <1>1, <1>4, <2>0 DEF Start, cqVars, TypeOK
<1>5. ASSUME NEW h \in Hosts, NEW e \in Event, NEW s \in UserStatuses, SetUserEventStatus(h, e, s) PROVE Gone'
  BY <1>1, <1>5 DEF SetUserEventStatus, cqVars, TypeOK
<1>6. ASSUME NEW t \in Thread, NEW e \in Event, BroadcastDone(t, e) \/ ReleaseFinished(t, e) \/ Relock(t, e) PROVE Gone'
  <2>1. UNCHANGED <<barrier, last, pending>>
    BY <1>6 DEF BroadcastDone, ReleaseFinished, Relock, cqVars
  <2>2. \E v \in {"broadcast", "release", "none"} :
          phase' = [phase EXCEPT ![t][e] = v] /\ (v = "broadcast" => phase[t][e] = "notifying")
    BY <1>6 DEF BroadcastDone, ReleaseFinished, Relock
  <2>3. PICK v \in {"broadcast", "release", "none"} :
          phase' = [phase EXCEPT ![t][e] = v] /\ (v = "broadcast" => phase[t][e] = "notifying")
    BY <2>2
  <2>4. \A u \in Thread, f \in Event : phase'[u][f] \in {"broadcast", "notifying"} => phase[u][f] \in {"broadcast", "notifying"}
    BY <2>3 DEF TypeOK
  <2> QED BY <1>1, <2>1, <2>4
<1>7. ASSUME NEW t \in Thread, NEW e \in Event, NEW x \in Event, NotifyFailed(t, e, x) PROVE Gone'
  <2>1. UNCHANGED <<barrier, last, pending>>
    BY <1>7 DEF NotifyFailed, cqVars
  <2>2. phase[t][e] = "broadcast" /\ phase' = [phase EXCEPT ![t] = [phase[t] EXCEPT ![e] = "notifying", ![x] = "finish"]]
    BY <1>7 DEF NotifyFailed
  <2>4. \A u \in Thread, f \in Event : phase'[u][f] \in {"broadcast", "notifying"} => phase[u][f] \in {"broadcast", "notifying"}
    BY <2>2 DEF TypeOK
  <2> QED BY <1>1, <2>1, <2>4
<1>8. ASSUME NEW t \in Thread, NEW e \in Event, NEW x \in Event, Notify(t, e, x) PROVE Gone'
  BY <1>1, <1>8 DEF Notify, cqVars, finVars
<1>9. ASSUME NEW h \in Hosts, SyncLast(h) \/ SyncListed(h) \/ Submit(h) \/ WaitStep(h) \/ CreateUserEvent(h) PROVE Gone'
  BY <1>1, <1>9 DEF SyncLast, SyncListed, Submit, WaitStep, Join, WaitEvent, WaitTimeout, UserEventDone, CreateUserEvent, cqVars, finVars
<1>10. ASSUME NEW h \in Hosts, NEW q \in Queues, CallFinish(h, q) \/ ReleaseQueue(h, q) PROVE Gone'
  BY <1>1, <1>10 DEF CallFinish, ReleaseQueue, cqVars, finVars
<1>11. ASSUME NEW h \in Hosts, NEW e \in Event, CallWait(h, e) \/ ReleaseEvent(h, e) PROVE Gone'
  BY <1>1, <1>11 DEF CallWait, ReleaseEvent, cqVars, finVars
<1>12. ASSUME NEW h \in Hosts, NEW q \in Queues, NEW k \in Kinds, NEW W \in SUBSET Event,
             NEW x \in Explicit, CreateCommand(h, q, k, W, x)
      PROVE  Gone'
  BY <1>1, <1>12 DEF CreateCommand, finVars
<1>13. ASSUME NEW d \in Drivers, Take(d) PROVE Gone'
  BY <1>1, <1>13 DEF Take, cqVars, finVars
<1>14. CASE UNCHANGED vars
  BY <1>1, <1>14 DEF vars, cqVars, finVars
<1> QED
  BY <1>2, <1>3, <1>4, <1>5, <1>6, <1>7, <1>8, <1>9, <1>10, <1>11, <1>12, <1>13, <1>14
  DEF Next, EnqueueStep, DriverStep, FinishStep, SetSomeUserEvent, AppStep

\* A thread that finishes events does nothing else.
LEMMA WorksStep ==
  ASSUME TypeOK, TypeOK', LockInv, [Next]_vars
  PROVE  Works'
<1> USE DEF LockInv
<1>d. /\ \A h \in Hosts : h \in Thread /\ \A d \in Drivers : h # d
      /\ \A d \in Drivers : d \in Thread
  BY ConstantsAssumption DEF Thread
<1>1. ASSUME \A t \in Thread : pc'[t] = pc[t] /\ cur'[t] = cur[t], phase' = phase,
             \A e \in Event : kind[e] = "user" => kind'[e] = "user"
      PROVE  Works'
  BY <1>1, <1>d DEF Works
<1>2. ASSUME NEW h \in Hosts, \A e \in Event : phase[h][e] = "none",
             \A t \in Thread : t # h => (pc'[t] = pc[t] /\ cur'[t] = cur[t]) \/ (pc[t] = "eventWait" /\ pc'[t] = "wait" /\ cur'[t] = cur[t]),
             phase' = phase, \A e \in Event : kind[e] = "user" => kind'[e] = "user",
             pc'[h] # "taken", pc'[h] \in {"wait", "eventWait"} => cur'[h] \in Event
      PROVE  Works'
  BY <1>2, <1>d DEF Works
<1>3. ASSUME NEW h \in Hosts, pc[h] \notin {"userDone"} PROVE \A e \in Event : phase[h][e] = "none"
  BY <1>3 DEF Works
<1>4. ASSUME NEW h \in Hosts, EnqueueStep(h) PROVE Works'
  <2>1. pc[h] # "userDone" /\ phase' = phase /\ kind' = kind
    BY <1>4 DEF EnqueueStep, SyncLast, SyncListed, Enqueue, Submit, identVars, finVars
  <2>2. \A t \in Thread : t # h => pc'[t] = pc[t] /\ cur'[t] = cur[t]
    BY <1>4 DEF EnqueueStep, SyncLast, SyncListed, Enqueue, Submit, Goto, TypeOK
  <2>3. pc'[h] \in {"listSync", "submit", "idle"}
    BY <1>4, <1>d DEF EnqueueStep, SyncLast, SyncListed, Enqueue, Submit, Goto, TypeOK
  <2> QED BY <1>2, <1>3, <2>1, <2>2, <2>3
<1>5. ASSUME NEW h \in Hosts, NEW q \in Queues, NEW k \in Kinds, NEW W \in SUBSET Event,
             NEW x \in Explicit, CreateCommand(h, q, k, W, x)
      PROVE  Works'
  <2>1. kind[created + 1] = "none" /\ kind' = [kind EXCEPT ![created + 1] = k]
    <3>1. created + 1 \in Event /\ ~(created + 1 <= created)
      BY <1>5, ConstantsAssumption DEF CreateCommand, TypeOK, Event
    <3> QED BY <1>5, <3>1 DEF CreateCommand, TypeOK
  <2>2. /\ pc[h] = "idle" /\ phase' = phase /\ pc' = [pc EXCEPT ![h] = IF q \in InOrder THEN "lastSync" ELSE "listSync"]
        /\ cur' = [cur EXCEPT ![h] = created + 1]
    BY <1>5 DEF CreateCommand, Goto, finVars
  <2>3. \A t \in Thread : t # h => pc'[t] = pc[t] /\ cur'[t] = cur[t]
    BY <2>2 DEF TypeOK
  <2>4. pc'[h] \in {"lastSync", "listSync"}
    BY <1>d, <2>2 DEF TypeOK
  <2>5. \A e \in Event : kind[e] = "user" => kind'[e] = "user"
    BY <2>1 DEF TypeOK
  <2> QED BY <1>2, <1>3, <2>2, <2>3, <2>4, <2>5
<1>6. ASSUME NEW h \in Hosts, CreateUserEvent(h) PROVE Works'
  <2>1. kind' = [kind EXCEPT ![created + 1] = "user"] /\ UNCHANGED <<pc, cur, phase>>
    BY <1>6 DEF CreateUserEvent, callVars, finVars
  <2>2. \A e \in Event : kind[e] = "user" => kind'[e] = "user"
    BY <2>1 DEF TypeOK
  <2> QED BY <1>1, <2>1, <2>2
<1>7. ASSUME NEW h \in Hosts, NEW q \in Queues, CallFinish(h, q) \/ ReleaseQueue(h, q) PROVE Works'
  <2>1. CASE CallFinish(h, q)
    <3>1. pc[h] = "idle" /\ UNCHANGED <<phase, cur, kind>> /\ pc' = [pc EXCEPT ![h] = "join"]
      BY <2>1 DEF CallFinish, Goto, finVars, identVars
    <3>2. pc'[h] = "join" /\ \A t \in Thread : t # h => pc'[t] = pc[t]
      BY <1>d, <3>1 DEF TypeOK
    <3> QED BY <1>2, <1>3, <3>1, <3>2
  <2>2. CASE ReleaseQueue(h, q)
    BY <1>1, <2>2 DEF ReleaseQueue, callVars, finVars, identVars
  <2> QED BY <1>7, <2>1, <2>2
<1>8. ASSUME NEW h \in Hosts, NEW e \in Event, CallWait(h, e) \/ ReleaseEvent(h, e) PROVE Works'
  <2>1. CASE CallWait(h, e)
    <3>1. pc[h] = "idle" /\ UNCHANGED <<phase, kind>> /\ pc' = [pc EXCEPT ![h] = "wait"] /\ cur' = [cur EXCEPT ![h] = e]
      BY <2>1 DEF CallWait, Goto, finVars, identVars
    <3>2. pc'[h] = "wait" /\ cur'[h] = e /\ \A t \in Thread : t # h => pc'[t] = pc[t] /\ cur'[t] = cur[t]
      BY <1>d, <3>1 DEF TypeOK
    <3> QED BY <1>2, <1>3, <3>1, <3>2
  <2>2. CASE ReleaseEvent(h, e)
    BY <1>1, <2>2 DEF ReleaseEvent, callVars, finVars, identVars
  <2> QED BY <1>8, <2>1, <2>2
<1>9. ASSUME NEW h \in Hosts, Join(h) \/ WaitEvent(h) \/ WaitTimeout(h) PROVE Works'
  <2>1. pc[h] \in {"join", "wait", "eventWait"} /\ UNCHANGED <<phase, kind>>
    BY <1>9 DEF Join, WaitEvent, WaitTimeout, finVars, identVars
  <2>2. \A t \in Thread : t # h => pc'[t] = pc[t] /\ cur'[t] = cur[t]
    BY <1>9 DEF Join, WaitEvent, WaitTimeout, Goto, TypeOK
  <2>3. pc'[h] \in {"idle", "joinWait", "eventWait", "wait"}
    BY <1>9, <1>d DEF Join, WaitEvent, WaitTimeout, Goto, TypeOK
  <2>4. pc'[h] \in {"eventWait", "wait"} => cur'[h] \in Event
    <3>1. pc'[h] \in {"eventWait", "wait"} => pc[h] \in {"eventWait", "wait"} /\ cur'[h] = cur[h]
      BY <1>9, <1>d DEF Join, WaitEvent, WaitTimeout, Goto, TypeOK
    <3> QED BY <3>1 DEF Works
  <2> QED BY <1>2, <1>3, <2>1, <2>2, <2>3, <2>4
<1>10. ASSUME NEW h \in Hosts, UserEventDone(h) PROVE Works'
  <2>1. /\ pc[h] = "userDone" /\ phase[h][cur[h]] = "none" /\ UNCHANGED <<phase, kind>>
        /\ cur' = [cur EXCEPT ![h] = NoEvent]
        /\ pc' = [x \in Thread |-> IF x = h THEN "idle" ELSE IF WaitsForEvent(x, cur[h]) THEN "wait" ELSE pc[x]]
    BY <1>10 DEF UserEventDone, finVars, identVars
  <2>2. \A e \in Event : phase[h][e] = "none"
    BY <2>1 DEF Works
  <2>3. pc'[h] = "idle" /\ \A t \in Thread : t # h => cur'[t] = cur[t] /\ (pc'[t] = pc[t] \/ (pc[t] = "eventWait" /\ pc'[t] = "wait"))
    BY <1>d, <2>1 DEF TypeOK, WaitsForEvent
  <2> QED BY <1>2, <2>1, <2>2, <2>3
<1>11. ASSUME NEW h \in Hosts, NEW e \in Event, NEW s \in UserStatuses, SetUserEventStatus(h, e, s) PROVE Works'
  <2>1. /\ pc[h] = "idle" /\ kind[e] = "user" /\ phase' = [phase EXCEPT ![h][e] = "broadcast"] /\ cur' = [cur EXCEPT ![h] = e]
        /\ pc' = [pc EXCEPT ![h] = "userDone"] /\ kind' = kind
    BY <1>11 DEF SetUserEventStatus, Goto, identVars
  <2>2. pc'[h] = "userDone" /\ cur'[h] = e /\ phase'[h][e] = "broadcast"
    BY <1>d, <2>1 DEF TypeOK
  <2>3. \A t \in Thread : t # h => pc'[t] = pc[t] /\ cur'[t] = cur[t] /\ phase'[t] = phase[t]
    BY <1>d, <2>1 DEF TypeOK
  <2> QED BY <1>d, <2>1, <2>2, <2>3 DEF Works
<1>12. ASSUME NEW d \in Drivers, Take(d) PROVE Works'
  <2>1. /\ pc[d] = "idle" /\ UNCHANGED <<phase, kind>> /\ pc' = [pc EXCEPT ![d] = "taken"]
        /\ cur' = [cur EXCEPT ![d] = Head(work)]
    BY <1>12 DEF Take, Goto, finVars, identVars
  <2>2. pc'[d] = "taken" /\ \A t \in Thread : t # d => pc'[t] = pc[t] /\ cur'[t] = cur[t]
    BY <1>d, <2>1 DEF TypeOK
  <2>3. \A e \in Event : phase[d][e] = "none"
    BY <2>1 DEF Works
  <2> QED BY <1>d, <2>1, <2>2, <2>3 DEF Works
<1>13. ASSUME NEW d \in Drivers, Start(d) PROVE Works'
  <2>0. PICK e \in Event : e = cur[d]
    BY <1>13 DEF Start, LockBase, PointsSettled, Settled
  <2>1. /\ pc[d] = "taken" /\ kind' = kind /\ phase' = [phase EXCEPT ![d][e] = "finish"]
        /\ pc' = [pc EXCEPT ![d] = "finishing"] /\ cur' = [cur EXCEPT ![d] = NoEvent]
    BY <1>13, <2>0 DEF Start, Goto, identVars
  <2>2. pc'[d] = "finishing" /\ \A t \in Thread : t # d => pc'[t] = pc[t] /\ cur'[t] = cur[t] /\ phase'[t] = phase[t]
    BY <1>d, <2>1 DEF TypeOK
  <2> QED BY <1>d, <2>1, <2>2 DEF Works
<1>14. ASSUME NEW t \in Thread, NEW e \in Event, Finish(t, e) PROVE Works'
  <2>1. /\ phase[t][e] = "finish" /\ phase' = [phase EXCEPT ![t][e] = "broadcast"] /\ UNCHANGED <<cur, kind>>
    BY <1>14 DEF Finish, identVars
  <2>2. \A u \in Thread : pc'[u] = pc[u] \/ (pc[u] = "joinWait" /\ pc'[u] = "join") \/ (pc[u] = "eventWait" /\ pc'[u] = "wait")
    BY <1>14 DEF Finish, WaitsForQueue, WaitsForEvent
  <2>3. \A u \in Thread, f \in Event : phase'[u][f] # "none" => phase[u][f] # "none"
    BY <2>1 DEF TypeOK
  <2>4. \A u \in Thread, f \in Event : phase[u][f] \in {"broadcast", "notifying"} => phase'[u][f] = phase[u][f]
    BY <2>1 DEF TypeOK
  <2>5. \A d \in Drivers, f \in Event : phase'[d][f] # "none" => pc'[d] = "finishing"
    BY <1>d, <2>2, <2>3 DEF Works
  <2>6. \A d \in Drivers : pc'[d] \in {"idle", "taken", "finishing"}
    BY <1>d, <2>2 DEF Works
  <2>7. ASSUME NEW h \in Hosts
        PROVE  /\ pc'[h] # "taken" /\ (pc'[h] \in {"wait", "eventWait"} => cur'[h] \in Event)
               /\ \A f \in Event : phase'[h][f] # "none" =>
                    /\ pc'[h] = "userDone" /\ cur'[h] \in Event /\ kind'[cur'[h]] = "user"
                    /\ phase'[h][cur'[h]] \in {"broadcast", "notifying"}
    <3>1. pc'[h] # "taken" /\ (pc'[h] \in {"wait", "eventWait"} => cur'[h] \in Event)
      BY <1>d, <2>1, <2>2 DEF Works
    <3>2. ASSUME NEW f \in Event, phase'[h][f] # "none"
          PROVE  /\ pc'[h] = "userDone" /\ cur'[h] \in Event /\ kind'[cur'[h]] = "user"
                 /\ phase'[h][cur'[h]] \in {"broadcast", "notifying"}
      BY <1>d, <2>1, <2>2, <2>3, <2>4, <3>2 DEF Works
    <3> QED BY <3>1, <3>2
  <2> QED BY <2>5, <2>6, <2>7 DEF Works
<1>15. ASSUME NEW t \in Thread, NEW e \in Event, BroadcastDone(t, e) \/ ReleaseFinished(t, e) PROVE Works'
  <2>1. /\ phase[t][e] \in {"broadcast", "release"} /\ UNCHANGED <<cur, kind>>
        /\ \E v \in {"none", "release"} : phase' = [phase EXCEPT ![t][e] = v] /\ (phase[t][e] = "broadcast" /\ kind[e] = "user" => v = "none")
    BY <1>15 DEF BroadcastDone, ReleaseFinished, callVars, identVars
  <2>2. \A u \in Thread, f \in Event : (u # t \/ f # e) => phase'[u][f] = phase[u][f]
    BY <2>1 DEF TypeOK
  <2>a. phase[t][e] = "broadcast" /\ kind[e] = "user" => phase'[t][e] = "none"
    BY <2>1 DEF TypeOK
  <2>b. phase'[t][e] # "none" => phase[t][e] # "none"
    BY <2>1
  <2>3. \A f \in Event : phase[t][f] # "none" /\ f # e => phase[t][f] = "notifying" /\ e \in Commands
    BY <2>1, TopFacts
  <2>4. \/ pc' = pc
        \/ phase' = [phase EXCEPT ![t][e] = "none"] /\ ~Failing(t) /\ pc' = [pc EXCEPT ![t] = "idle"]
    BY <1>15 DEF BroadcastDone, ReleaseFinished, callVars
  <2>5. CASE pc' = pc
    <3>1. ASSUME NEW h \in Hosts, NEW f \in Event, phase'[h][f] # "none"
          PROVE  /\ pc[h] = "userDone" /\ cur[h] \in Event /\ kind[cur[h]] = "user"
                 /\ phase'[h][cur[h]] \in {"broadcast", "notifying"}
      <4>1. phase[h][f] # "none"
        BY <1>d, <2>2, <2>b, <3>1
      <4>2. /\ pc[h] = "userDone" /\ cur[h] \in Event /\ kind[cur[h]] = "user"
            /\ phase[h][cur[h]] \in {"broadcast", "notifying"}
        BY <4>1 DEF Works
      <4>3. ~(h = t /\ cur[h] = e)
        <5> SUFFICES ASSUME h = t, cur[h] = e PROVE FALSE
          OBVIOUS
        <5>1. phase[t][e] = "broadcast" /\ kind[e] = "user"
          BY <2>1, <4>2
        <5>2. phase'[t][e] = "none" /\ e \notin Commands
          BY <2>a, <5>1 DEF Commands, CommandKinds
        <5>3. f = e
          BY <2>3, <4>1, <5>2
        <5> QED BY <3>1, <5>2, <5>3
      <4>4. phase'[h][cur[h]] = phase[h][cur[h]]
        BY <1>d, <2>2, <4>2, <4>3
      <4> QED BY <4>2, <4>4
    <3>2. \A d \in Drivers, f \in Event : phase'[d][f] # "none" => pc[d] = "finishing"
      BY <1>d, <2>2, <2>b DEF Works
    <3> QED BY <2>1, <2>5, <3>1, <3>2 DEF Works
  <2>6. CASE phase' = [phase EXCEPT ![t][e] = "none"] /\ ~Failing(t) /\ pc' = [pc EXCEPT ![t] = "idle"]
    <3>1. \A f \in Event : phase'[t][f] = "none"
      BY <2>3, <2>6 DEF Failing, TypeOK
    <3>2. pc'[t] = "idle" /\ \A u \in Thread : u # t => pc'[u] = pc[u] /\ phase'[u] = phase[u]
      BY <2>6 DEF TypeOK
    <3> QED BY <1>d, <2>1, <3>1, <3>2 DEF Works
  <2> QED BY <2>4, <2>5, <2>6
<1>16. ASSUME NEW t \in Thread, NEW e \in Event, NEW x \in Event, NotifyFailed(t, e, x) PROVE Works'
  <2>1. /\ phase[t][e] = "broadcast" /\ phase' = [phase EXCEPT ![t] = [phase[t] EXCEPT ![e] = "notifying", ![x] = "finish"]]
        /\ x \in notify[e] /\ UNCHANGED <<pc, cur, kind>>
    BY <1>16 DEF NotifyFailed, callVars, identVars
  <2>2. x \in Commands /\ kind[x] # "user" /\ x # e
    BY <2>1 DEF LockBase, OnlyCommands, SomeRank, Ranked, Commands, CommandKinds
  <2>3. phase'[t][e] = "notifying" /\ \A f \in Event : f # e /\ f # x => phase'[t][f] = phase[t][f]
    BY <2>1, <2>2 DEF TypeOK
  <2>4. \A u \in Thread : u # t => phase'[u] = phase[u]
    BY <2>1 DEF TypeOK
  <2>5. ASSUME NEW h \in Hosts, NEW f \in Event, phase'[h][f] # "none"
        PROVE  /\ pc[h] = "userDone" /\ cur[h] \in Event /\ kind[cur[h]] = "user"
               /\ phase'[h][cur[h]] \in {"broadcast", "notifying"}
    <3>1. \E g \in Event : phase[h][g] # "none"
      BY <2>1, <2>4, <2>5, <1>d
    <3>2. /\ pc[h] = "userDone" /\ cur[h] \in Event /\ kind[cur[h]] = "user"
          /\ phase[h][cur[h]] \in {"broadcast", "notifying"}
      BY <3>1 DEF Works
    <3>3. cur[h] # x
      BY <2>2, <3>2
    <3> QED BY <1>d, <2>3, <2>4, <3>2, <3>3
  <2>6. \A d \in Drivers, f \in Event : phase'[d][f] # "none" => pc[d] = "finishing"
    BY <1>d, <2>1, <2>4 DEF Works
  <2> QED BY <2>1, <2>5, <2>6 DEF Works
<1>17. ASSUME NEW t \in Thread, NEW e \in Event, Relock(t, e) PROVE Works'
  <2>1. /\ phase[t][e] = "notifying" /\ phase' = [phase EXCEPT ![t][e] = "broadcast"] /\ UNCHANGED <<pc, cur, kind>>
    BY <1>17 DEF Relock, callVars, identVars
  <2>2. \A u \in Thread, f \in Event : /\ phase'[u][f] # "none" => phase[u][f] # "none"
                                       /\ phase[u][f] \in {"broadcast", "notifying"} => phase'[u][f] \in {"broadcast", "notifying"}
    BY <2>1 DEF TypeOK
  <2> QED BY <1>d, <2>1, <2>2 DEF Works
<1>18. ASSUME NEW t \in Thread, NEW e \in Event, NEW x \in Event, Notify(t, e, x) PROVE Works'
  BY <1>1, <1>18 DEF Notify, callVars, finVars, identVars
<1>19. CASE UNCHANGED vars
  BY <1>1, <1>19 DEF vars, callVars, finVars, identVars
<1> QED
  BY <1>4, <1>5, <1>6, <1>7, <1>8, <1>9, <1>10, <1>11, <1>12, <1>13, <1>14, <1>15, <1>16, <1>17, <1>18, <1>19
  DEF Next, WaitStep, DriverStep, FinishStep, SetSomeUserEvent, AppStep

\* The invariant of the lock order holds at first and is kept.
LEMMA LockInvariance == MayFail => (Spec => [](TypeOK /\ LockInv))
<1> SUFFICES ASSUME MayFail PROVE Spec => [](TypeOK /\ LockInv)
  OBVIOUS
<1>1. Init => LockInv
  <2> SUFFICES ASSUME Init PROVE LockInv
    OBVIOUS
  <2>1. LockBase
    <3>1. PointsReached /\ PointsSettled
      BY DEF Init, PointsReached, PointsSettled, Enqueuing, Thread, NoEvent
    <3>2. NoneFailing /\ OnlyCommands
      BY DEF Init, NoneFailing, OnlyCommands, NoEvent, QUEUED, FAILED
    <3>3. Kept
      BY ConstantsAssumption DEF Init, Kept
    <3> QED BY <3>1, <3>2, <3>3 DEF LockBase
  <2>2. Gone /\ Works
    BY DEF Init, Gone, Works, Thread
  <2>3. SomeRank
    <3>1. Ranked([e \in Event |-> 0])
      BY DEF Init, Ranked, Stacked
    <3>2. [e \in Event |-> 0] \in [Event -> 0..0]
      OBVIOUS
    <3> QED BY <3>1, <3>2 DEF SomeRank
  <2> QED BY <2>1, <2>2, <2>3 DEF LockInv
<1>2. ASSUME MayFail, TypeOK, LockInv, [Next]_vars PROVE LockInv'
  <2>0. TypeOK'
    BY <1>2, TypeStep
  <2>1. LockBase'
    <3>1. LockBase /\ SomeRank
      BY <1>2 DEF LockInv
    <3>2. CASE UNCHANGED vars
      BY <3>1, <3>2 DEF vars, identVars, eventVars, cqVars, callVars, finVars, appVars, LockBase, PointsReached, PointsSettled,
         NoneFailing, OnlyCommands, Kept, Reached, Settled, SyncingNow, Enqueuing, Commands
    <3>3. CASE \E h \in Hosts : \E q \in Queues, k \in Kinds, W \in SUBSET Event, x \in Explicit : CreateCommand(h, q, k, W, x)
      BY <1>2, <3>1, <3>3, BaseCreate
    <3>4. CASE \/ \E h \in Hosts : EnqueueStep(h) \/ WaitStep(h) \/ SetSomeUserEvent(h) \/ CreateUserEvent(h)
               \/ \E h \in Hosts : \/ \E q \in Queues : CallFinish(h, q) \/ ReleaseQueue(h, q)
                                  \/ \E e \in Event : CallWait(h, e) \/ ReleaseEvent(h, e)
               \/ \E d \in Drivers : DriverStep(d)
               \/ \E t \in Thread : FinishStep(t)
      BY <1>2, <3>1, <3>4, BaseStep
    <3> QED BY <1>2, <3>2, <3>3, <3>4 DEF Next, AppStep
  <2>2. Gone' /\ Works' /\ SomeRank'
    BY <1>2, <2>0, GoneStep, WorksStep, RankStep
  <2> QED BY <2>1, <2>2 DEF LockInv
<1>3. Init => TypeOK
  BY ConstantsAssumption DEF Init, TypeOK, Event, QUEUED, FAILED, Thread, Enqueuing, Commands, CommandKinds
<1>4. TypeOK /\ LockInv /\ [Next]_vars => TypeOK' /\ LockInv'
  BY <1>2, TypeStep
<1> QED BY <1>1, <1>3, <1>4, PTL DEF Spec

\* Keeping an event locked while a waiting command is failed is safe: the kept
\* event is in no queue, and of any threads one waits for no lock the others
\* keep (pocl_broadcast, pocl_update_event_failed).  Any number of threads, queues
\* and notifiers; the application fails no user event, or only while no call is
\* in progress.
THEOREM LocksOrdered == MayFail => (Spec => []LockOrder)
<1>1. TypeOK /\ LockInv => LockOrder
  BY LocksFree
<1> QED BY <1>1, LockInvariance, PTL
=============================================================================
