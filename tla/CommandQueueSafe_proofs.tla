------------------------ MODULE CommandQueueSafe_proofs ------------------------
(***************************************************************************)
(* Proofs that SafeInv is inductive when no user event is failed, and of   *)
(* the properties that follow from it: wake-ups are not lost, commands are *)
(* dispatched once, the queue's accounts and the reference counts are      *)
(* exact, clFinish is sound.  With IInv it gives the refinement of         *)
(* TaskGraph.  From "What remains true when user events fail" on, FailInv  *)
(* takes the place of SafeInv: user events fail, and a command waits for   *)
(* one event at most.                                                      *)
(***************************************************************************)
EXTENDS CommandQueue_proofs, FiniteSetTheorems

-----------------------------------------------------------------------------
(* Mirrored and NoLostWakeup. *)

\* Without failures a status is one of four numbers.
LEMMA StatusFacts ==
  ASSUME TypeOK, NoFailure, NEW e \in Event
  PROVE  status[e] \in {QUEUED, SUBMITTED, RUNNING, COMPLETE}
BY DEF TypeOK, NoFailure, QUEUED, SUBMITTED, RUNNING, COMPLETE, FAILED

LEMMA StatusOrder ==
  ASSUME NEW v \in {QUEUED, SUBMITTED, RUNNING, COMPLETE}
  PROVE  /\ v > COMPLETE <=> v # COMPLETE
         /\ v <= COMPLETE <=> v = COMPLETE
BY DEF QUEUED, SUBMITTED, RUNNING, COMPLETE

Wakeups == Mirrored /\ NoLostWakeup

\* A step that leaves the lists alone, ends no broadcast and moves a status
\* forward without dispatching or completing anything that is waited for.
LEMMA KeepWakeups ==
  ASSUME TypeOK, Dispatch, Wakeups, TypeOK', Dispatch',
         UNCHANGED <<waits, notify>>,
         \A c \in Commands : kind'[c] = kind[c],
         \A e \in Event : kind[e] # "none" => kind'[e] # "none",
         \A e \in Event : ready'[e] /\ status'[e] = QUEUED =>
           waits[e] # {} \/ (ready[e] /\ e \in Commands /\ status[e] = QUEUED),
         \A e \in Event : status[e] = QUEUED /\ status'[e] # QUEUED => waits[e] = {},
         \A e \in Event : status[e] # COMPLETE /\ status'[e] = COMPLETE =>
           \E t \in Thread : phase'[t][e] = "broadcast",
         \A e \in Event : (\E t \in Thread : phase[t][e] = "broadcast") =>
           notify[e] = {} \/ \E t \in Thread : phase'[t][e] = "broadcast"
  PROVE  Wakeups'
<1>1. Mirrored'
  <2>1. ASSUME NEW e \in Event, NEW n \in Event, n \in waits[e]
        PROVE  e \in Commands' /\ status'[e] = QUEUED /\ kind'[n] # "none"
    BY <2>1 DEF Wakeups, Mirrored, Commands
  <2> QED BY <2>1 DEF Wakeups, Mirrored
<1>2. NoLostWakeup'
  <2>1. ASSUME NEW e \in Event, NEW n \in waits[e]
        PROVE  e \in notify[n] /\ (status'[n] > COMPLETE \/ \E t \in Thread : phase'[t][n] \in {"broadcast", "notifying"})
    <3>1. n \in Event
      BY DEF TypeOK
    <3>2. e \in notify[n] /\ (status[n] > COMPLETE \/ \E t \in Thread : phase[t][n] = "broadcast")
      BY <3>1 DEF Wakeups, NoLostWakeup, Dispatch, NoFailure
    <3>3. CASE status'[n] # COMPLETE
      <4>1. status'[n] \in FAILED..QUEUED /\ status'[n] # FAILED
        BY <3>1 DEF TypeOK, Dispatch, NoFailure
      <4> QED BY <3>2, <3>3, <4>1 DEF QUEUED, COMPLETE, FAILED
    <3>4. CASE status'[n] = COMPLETE /\ status[n] # COMPLETE
      BY <3>1, <3>2, <3>4
    <3>5. CASE status[n] = COMPLETE
      BY <3>1, <3>2, <3>5, StatusOrder
    <3> QED BY <3>3, <3>4, <3>5
  <2>2. ASSUME NEW e \in Event, ready'[e], status'[e] = QUEUED
        PROVE  waits[e] # {}
    <3>1. CASE ready[e] /\ e \in Commands /\ status[e] = QUEUED
      <4>1. \A t \in Thread : phase[t][e] # "finish"
        BY <3>1 DEF Dispatch, InFinish, QUEUED, RUNNING
      <4> QED BY <3>1, <4>1 DEF Wakeups, NoLostWakeup, Commands
    <3> QED BY <2>2, <3>1
  <2> QED BY <2>1, <2>2 DEF NoLostWakeup
<1> QED BY <1>1, <1>2 DEF Wakeups

\* pocl_create_event_sync adds to both lists, or skips a complete notifier.
LEMMA SyncWakeups ==
  ASSUME TypeOK, Dispatch, Wakeups, NEW e \in Commands, NEW S, S \subseteq Event,
         Sync(e, S), status[e] = QUEUED, \A n \in S : kind[n] # "none",
         UNCHANGED <<kind, status, ready, phase>>
  PROVE  Wakeups'
<1>0. e \in Event
  BY DEF Commands
<1>1. \A a \in Event : waits'[a] = IF a = e THEN waits[e] \cup NewSyncs(e, S) ELSE waits[a]
  BY DEF Sync, TypeOK
<1>2. \A n \in Event : notify'[n] = IF n \in NewSyncs(e, S) THEN notify[n] \cup {e} ELSE notify[n]
  BY DEF Sync
<1>3. \A n \in NewSyncs(e, S) : n \in Event /\ kind[n] # "none" /\ status[n] > COMPLETE
  BY StatusFacts, StatusOrder DEF NewSyncs, Dispatch
<1>4. Mirrored'
  <2>1. ASSUME NEW a \in Event, NEW n \in Event, n \in waits'[a]
        PROVE  a \in Commands' /\ status'[a] = QUEUED /\ kind'[n] # "none"
    <3>1. n \in waits[a] \/ (a = e /\ n \in NewSyncs(e, S))
      BY <1>1, <2>1
    <3>2. a \in Commands /\ status[a] = QUEUED /\ kind[n] # "none"
      BY <1>3, <3>1 DEF Wakeups, Mirrored
    <3> QED BY <3>2 DEF Commands
  <2>2. ASSUME NEW a \in Event, NEW n \in Event, a \in notify'[n] PROVE n \in waits'[a]
    <3>1. a \in notify[n] \/ (a = e /\ n \in NewSyncs(e, S))
      BY <1>2, <2>2
    <3> QED BY <1>1, <3>1 DEF Wakeups, Mirrored
  <2> QED BY <2>1, <2>2 DEF Mirrored
<1>5. NoLostWakeup'
  <2>1. ASSUME NEW a \in Event, NEW n \in waits'[a]
        PROVE  a \in notify'[n] /\ (status'[n] > COMPLETE \/ \E t \in Thread : phase'[t][n] \in {"broadcast", "notifying"})
    <3>1. n \in waits[a] \/ (a = e /\ n \in NewSyncs(e, S))
      BY <1>1, <2>1
    <3>2. n \in Event
      BY <1>3, <3>1 DEF TypeOK
    <3>3. CASE n \in waits[a]
      BY <1>2, <3>2, <3>3 DEF Wakeups, NoLostWakeup
    <3>4. CASE a = e /\ n \in NewSyncs(e, S)
      BY <1>2, <1>3, <3>2, <3>4
    <3> QED BY <3>1, <3>3, <3>4
  <2>2. ASSUME NEW a \in Event, kind[a] \in CommandKinds, ready[a], status[a] = QUEUED
        PROVE  waits'[a] # {} \/ \E t \in Thread : phase[t][a] = "finish"
    BY <1>1, <2>2 DEF Wakeups, NoLostWakeup
  <2> QED BY <2>1, <2>2 DEF NoLostWakeup
<1> QED BY <1>4, <1>5 DEF Wakeups

\* One iteration of the broadcast takes the edge between two events away from
\* both lists, and dispatches the waiting command if it was the last.
LEMMA NotifyWakeups ==
  ASSUME TypeOK, Dispatch, Wakeups, NEW t \in Thread, NEW e \in Event, NEW x \in Event,
         Notify(t, e, x)
  PROVE  Wakeups'
<1>1. /\ UNCHANGED <<kind, ready, phase>>
      /\ status' = IF Dispatchable(x, e) THEN [status EXCEPT ![x] = SUBMITTED] ELSE status
      /\ waits' = [waits EXCEPT ![x] = @ \ {e}]
      /\ notify' = [notify EXCEPT ![e] = @ \ {x}]
      /\ x \in notify[e]
  BY DEF Notify, identVars, finVars
<1>2. \A a \in Event, n \in Event :
        /\ n \in waits'[a] <=> (n \in waits[a] /\ ~(a = x /\ n = e))
        /\ a \in notify'[n] <=> (a \in notify[n] /\ ~(a = x /\ n = e))
  BY <1>1 DEF TypeOK
<1>3. \A a \in Event : status'[a] = IF a = x /\ Dispatchable(x, e) THEN SUBMITTED ELSE status[a]
  BY <1>1 DEF TypeOK
<1>4. Dispatchable(x, e) => waits[x] \subseteq {e} /\ status[x] = QUEUED
  BY DEF Dispatchable
<1>5. Mirrored'
  <2>1. ASSUME NEW a \in Event, NEW n \in Event, n \in waits'[a]
        PROVE  a \in Commands' /\ status'[a] = QUEUED /\ kind'[n] # "none"
    <3>1. n \in waits[a] /\ ~(a = x /\ n = e)
      BY <1>2, <2>1
    <3>2. a \in Commands /\ status[a] = QUEUED /\ kind[n] # "none"
      BY <3>1 DEF Wakeups, Mirrored
    <3>3. ~(a = x /\ Dispatchable(x, e))
      BY <1>4, <3>1
    <3> QED BY <1>1, <1>3, <3>2, <3>3 DEF Commands
  <2>2. ASSUME NEW a \in Event, NEW n \in Event, a \in notify'[n] PROVE n \in waits'[a]
    BY <1>2, <2>2 DEF Wakeups, Mirrored
  <2> QED BY <2>1, <2>2 DEF Mirrored
<1>6. NoLostWakeup'
  <2>1. ASSUME NEW a \in Event, NEW n \in waits'[a]
        PROVE  a \in notify'[n] /\ (status'[n] > COMPLETE \/ \E u \in Thread : phase'[u][n] \in {"broadcast", "notifying"})
    <3>1. waits'[a] \subseteq waits[a]
      BY <1>1 DEF TypeOK
    <3>2. n \in Event /\ n \in waits[a] /\ ~(a = x /\ n = e)
      BY <1>2, <2>1, <3>1 DEF TypeOK
    <3>3. a \in notify[n] /\ (status[n] > COMPLETE \/ \E u \in Thread : phase[u][n] \in {"broadcast", "notifying"})
      BY <3>2 DEF Wakeups, NoLostWakeup
    <3> QED BY <1>1, <1>2, <1>3, <3>2, <3>3 DEF SUBMITTED, COMPLETE
  <2>2. ASSUME NEW a \in Event, kind[a] \in CommandKinds, ready[a], status'[a] = QUEUED
        PROVE  waits'[a] # {}
    <3>1. status[a] = QUEUED /\ ~(a = x /\ Dispatchable(x, e))
      BY <1>3, <2>2 DEF QUEUED, SUBMITTED
    <3>2. CASE a = x
      <4>1. ~ (waits[x] \subseteq {e})
        BY <2>2, <3>1, <3>2 DEF Dispatchable
      <4> QED BY <1>2, <3>2, <4>1 DEF TypeOK
    <3>3. CASE a # x
      <4>1. \A u \in Thread : phase[u][a] # "finish"
        BY <3>1 DEF Dispatch, InFinish, QUEUED, RUNNING
      <4>2. waits[a] # {} /\ waits[a] \subseteq Event
        BY <2>2, <3>1, <4>1 DEF Wakeups, NoLostWakeup, TypeOK
      <4> QED BY <1>2, <3>3, <4>2
    <3> QED BY <3>2, <3>3
  <2> QED BY <1>1, <2>1, <2>2 DEF NoLostWakeup
<1> QED BY <1>5, <1>6 DEF Wakeups

\* The wait lists survive every step.
LEMMA WakeupsStep ==
  ASSUME TypeOK, Dispatch, Wakeups, NoFailures, [Next]_vars,
         \A e \in app : kind[e] # "none",
         \A h \in Hosts : Enqueuing(h) => todo[h] \subseteq app,
         \A q \in Queues : pending[q] \cup {barrier[q], last[q]} \subseteq Commands \cup {NoEvent}
  PROVE  Wakeups'
<1>0. TypeOK' /\ Dispatch'
  BY TypeStep, DispatchStep
<1>a. \A e \in Commands : kind[e] # "none"
  BY DEF Commands, CommandKinds
<1>b. NoEvent \notin Event
  BY DEF NoEvent, Event
<1>1. CASE UNCHANGED vars
  BY <1>0, <1>1, KeepWakeups DEF vars, identVars, eventVars, finVars, Wakeups, Mirrored, Dispatch, Untouched
<1>2. ASSUME NEW h \in Hosts, SyncLast(h) PROVE Wakeups'
  <2>1. cur[h] \in Commands /\ status[cur[h]] = QUEUED
    BY <1>2 DEF SyncLast, TypeOK, Enqueuing, Dispatch, Untouched
  <2>2. queue[cur[h]] \in Queues
    BY <2>1 DEF TypeOK
  <2>3. Previous(queue[cur[h]]) \subseteq Commands
    BY <2>2 DEF Previous
  <2> QED BY <1>2, <1>a, <2>1, <2>3, SyncWakeups DEF SyncLast, identVars, finVars, Commands
<1>3. ASSUME NEW h \in Hosts, SyncListed(h) PROVE Wakeups'
  <2>1. cur[h] \in Commands /\ status[cur[h]] = QUEUED /\ Enqueuing(h)
    BY <1>3 DEF SyncListed, TypeOK, Enqueuing, Dispatch, Untouched
  <2>2. PICK n \in todo[h] : Sync(cur[h], {n})
    BY <1>3 DEF SyncListed
  <2>3. n \in Event /\ kind[n] # "none"
    BY <2>1 DEF TypeOK
  <2> QED BY <1>3, <2>1, <2>2, <2>3, SyncWakeups DEF SyncListed, identVars, finVars
<1>4. ASSUME NEW h \in Hosts, Enqueue(h) PROVE Wakeups'
  <2>1. cur[h] \in Commands /\ status[cur[h]] = QUEUED
    BY <1>4 DEF Enqueue, TypeOK, Enqueuing, Dispatch, Untouched
  <2>2. queue[cur[h]] \in Queues
    BY <2>1 DEF TypeOK
  <2>3. QueueSyncs(cur[h], queue[cur[h]]) \subseteq Commands
    <3>1. pending[queue[cur[h]]] \subseteq Event
      BY <2>2 DEF TypeOK
    <3> QED BY <1>b, <2>2, <3>1 DEF QueueSyncs
  <2> QED BY <1>4, <1>a, <2>1, <2>3, SyncWakeups DEF Enqueue, identVars, finVars, Commands
<1>5. ASSUME NEW h \in Hosts, Submit(h) PROVE Wakeups'
  <2>1. cur[h] \in Commands /\ cur[h] \in Event /\ status[cur[h]] = QUEUED
    BY <1>5 DEF Submit, TypeOK, Enqueuing, Dispatch, Untouched, Commands
  <2>2. /\ UNCHANGED <<kind, waits, notify, phase>>
        /\ \A e \in Event : e # cur[h] => status'[e] = status[e] /\ ready'[e] = ready[e]
        /\ status'[cur[h]] = IF waits[cur[h]] = {} THEN SUBMITTED ELSE QUEUED
    BY <1>5, <2>1 DEF Submit, identVars, finVars, TypeOK
  <2>3. \A e \in Event : ready'[e] /\ status'[e] = QUEUED =>
           waits[e] # {} \/ (ready[e] /\ e \in Commands /\ status[e] = QUEUED)
    BY <2>1, <2>2 DEF Dispatch, Untouched, QUEUED, SUBMITTED
  <2>4. \A e \in Event : status[e] = QUEUED /\ status'[e] # QUEUED => waits[e] = {}
    BY <2>1, <2>2
  <2>5. \A e \in Event : status'[e] = COMPLETE => status[e] = COMPLETE
    BY <2>1, <2>2 DEF QUEUED, SUBMITTED, COMPLETE
  <2> QED BY <1>0, <2>2, <2>3, <2>4, <2>5, KeepWakeups
<1>6. ASSUME NEW d \in Drivers, Start(d) PROVE Wakeups'
  <2>1. cur[d] \in Event /\ status[cur[d]] = SUBMITTED
    BY <1>6 DEF Start, Dispatch, InTaken, Commands
  <2>2. /\ UNCHANGED <<kind, waits, notify, ready>>
        /\ \A e \in Event : e # cur[d] => status'[e] = status[e]
        /\ status'[cur[d]] = RUNNING
    BY <1>6, <2>1 DEF Start, identVars, TypeOK
  <2>3. \A e \in Event : /\ status[e] = QUEUED \/ status'[e] = QUEUED => status'[e] = status[e]
                         /\ status'[e] = COMPLETE => status[e] = COMPLETE
    BY <2>1, <2>2 DEF QUEUED, SUBMITTED, COMPLETE, RUNNING
  <2>4. \A t \in Thread, e \in Event : phase[t][e] = "broadcast" => phase'[t][e] = "broadcast"
    <3>1. phase[d][cur[d]] # "broadcast"
      BY <2>1 DEF Dispatch, NoFailure, Thread, SUBMITTED, COMPLETE
    <3> QED BY <1>6, <3>1 DEF Start, TypeOK
  <2> QED BY <1>0, <2>2, <2>3, <2>4, KeepWakeups DEF Dispatch, Untouched
<1>7. ASSUME NEW t \in Thread, NEW e \in Event, Finish(t, e) PROVE Wakeups'
  <2>1. status[e] = RUNNING /\ phase[t][e] = "finish"
    BY <1>7 DEF Finish, Dispatch, InFinish
  <2>2. /\ UNCHANGED <<kind, waits, notify, ready>>
        /\ \A a \in Event : a # e => status'[a] = status[a]
        /\ status'[e] = COMPLETE
        /\ phase' = [phase EXCEPT ![t][e] = "broadcast"]
    BY <1>7 DEF Finish, identVars, TypeOK, Dispatch, NoFailure, Failing
  <2>3. \A u \in Thread, a \in Event : phase'[u][a] = IF u = t /\ a = e THEN "broadcast" ELSE phase[u][a]
    BY <2>2 DEF TypeOK
  <2>4. \A a \in Event : status[a] = QUEUED \/ status'[a] = QUEUED => status'[a] = status[a]
    BY <2>1, <2>2 DEF QUEUED, COMPLETE, RUNNING
  <2> QED BY <1>0, <2>2, <2>3, <2>4, KeepWakeups DEF Dispatch, Untouched
<1>8. ASSUME NEW h \in Hosts, NEW e \in Event, NEW s \in UserStatuses, SetUserEventStatus(h, e, s) PROVE Wakeups'
  <2>1. /\ UNCHANGED <<kind, waits, notify, ready>>
        /\ kind[e] = "user" /\ h \in Thread
        /\ \A a \in Event : a # e => status'[a] = status[a]
        /\ status'[e] = COMPLETE
        /\ phase' = [phase EXCEPT ![h][e] = "broadcast"]
    BY <1>8 DEF SetUserEventStatus, identVars, TypeOK, NoFailures, Thread
  <2>2. \A u \in Thread, a \in Event : phase'[u][a] = IF u = h /\ a = e THEN "broadcast" ELSE phase[u][a]
    BY <2>1 DEF TypeOK
  <2>3. waits[e] = {} /\ e \notin Commands
    <3>1. e \notin Commands
      BY <2>1 DEF Commands, CommandKinds
    <3> QED BY <3>1 DEF Wakeups, Mirrored, TypeOK
  <2>4. \A a \in Event : ready'[a] /\ status'[a] = QUEUED => ready[a] /\ a \in Commands /\ status[a] = QUEUED
    BY <2>1, <2>3 DEF Dispatch, Untouched
  <2>5. \A a \in Event : status[a] = QUEUED /\ status'[a] # QUEUED => waits[a] = {}
    BY <2>1, <2>3
  <2>6. \A a \in Event : status[a] # COMPLETE /\ status'[a] = COMPLETE => \E t \in Thread : phase'[t][a] = "broadcast"
    BY <2>1, <2>2
  <2> QED BY <1>0, <2>1, <2>2, <2>4, <2>5, <2>6, KeepWakeups
<1>9. ASSUME NEW t \in Thread, NEW e \in Event, BroadcastDone(t, e) PROVE Wakeups'
  <2>1. /\ UNCHANGED <<kind, status, waits, notify, ready>> /\ notify[e] = {}
        /\ \A u \in Thread, a \in Event : a # e => phase'[u][a] = phase[u][a]
    BY <1>9 DEF BroadcastDone, identVars, eventVars, TypeOK
  <2> QED BY <1>0, <2>1, KeepWakeups DEF Dispatch, Untouched
<1>10. ASSUME NEW t \in Thread, NEW e \in Event, ReleaseFinished(t, e) PROVE Wakeups'
  <2>1. /\ UNCHANGED <<kind, status, waits, notify, ready>>
        /\ phase[t][e] = "release" /\ phase' = [phase EXCEPT ![t][e] = "none"]
    BY <1>10 DEF ReleaseFinished, identVars, eventVars
  <2>2. \A u \in Thread, a \in Event : phase[u][a] = "broadcast" => phase'[u][a] = "broadcast"
    BY <2>1 DEF TypeOK
  <2> QED BY <1>0, <2>1, <2>2, KeepWakeups DEF Dispatch, Untouched
<1>11. ASSUME NEW h \in Hosts, NEW q \in Queues, NEW k \in Kinds, NEW W \in SUBSET Event,
              NEW x \in Explicit, CreateCommand(h, q, k, W, x)
       PROVE  Wakeups'
  <2>1. /\ created + 1 \in Event /\ kind[created + 1] = "none"
        /\ UNCHANGED <<waits, notify, ready, phase>>
        /\ kind' = [kind EXCEPT ![created + 1] = k] /\ status' = [status EXCEPT ![created + 1] = QUEUED]
        /\ k # "none"
    BY <1>11, ConstantsAssumption DEF CreateCommand, finVars, TypeOK, Event, CommandKinds
  <2>2. status[created + 1] = QUEUED /\ created + 1 \notin Commands
    BY <2>1 DEF Dispatch, Untouched, Commands, CommandKinds
  <2>3. status' = status
    BY <2>1, <2>2 DEF TypeOK
  <2>4. \A e \in Event : e # created + 1 => kind'[e] = kind[e]
    BY <2>1 DEF TypeOK
  <2>5. kind'[created + 1] = k
    BY <2>1 DEF TypeOK
  <2> QED BY <1>0, <2>1, <2>2, <2>3, <2>4, <2>5, KeepWakeups DEF Dispatch, Untouched, Commands
<1>12. ASSUME NEW h \in Hosts, CreateUserEvent(h) PROVE Wakeups'
  <2>1. /\ created + 1 \in Event /\ kind[created + 1] = "none"
        /\ UNCHANGED <<waits, notify, ready, phase>>
        /\ kind' = [kind EXCEPT ![created + 1] = "user"] /\ status' = [status EXCEPT ![created + 1] = SUBMITTED]
    BY <1>12, ConstantsAssumption DEF CreateUserEvent, finVars, TypeOK, Event
  <2>2. created + 1 \notin Commands
    BY <2>1 DEF Commands, CommandKinds
  <2>3. waits[created + 1] = {} /\ ~ready[created + 1]
    BY <2>1, <2>2 DEF Wakeups, Mirrored, TypeOK, Dispatch, Untouched
  <2>4. \A e \in Event : e # created + 1 => kind'[e] = kind[e] /\ status'[e] = status[e]
    BY <2>1 DEF TypeOK
  <2>5. kind'[created + 1] = "user" /\ status'[created + 1] = SUBMITTED
    BY <2>1 DEF TypeOK
  <2>6. \A e \in Event : status'[e] = COMPLETE => status[e] = COMPLETE
    BY <2>4, <2>5 DEF SUBMITTED, COMPLETE
  <2>7. \A e \in Event : ready'[e] /\ status'[e] = QUEUED => ready[e] /\ e \in Commands /\ status[e] = QUEUED
    BY <2>1, <2>3, <2>4 DEF Dispatch, Untouched
  <2>8. \A c \in Commands : kind'[c] = kind[c]
    BY <2>2, <2>4 DEF Commands
  <2>9. \A e \in Event : status[e] = QUEUED /\ status'[e] # QUEUED => waits[e] = {}
    BY <2>3, <2>4
  <2>10. \A e \in Event : kind[e] # "none" => kind'[e] # "none"
    BY <2>4, <2>5
  <2> QED BY <1>0, <2>1, <2>6, <2>7, <2>8, <2>9, <2>10, KeepWakeups
<1>13. ASSUME UNCHANGED <<kind, status, waits, notify, ready, phase>> PROVE Wakeups'
  BY <1>0, <1>13, KeepWakeups DEF Dispatch, Untouched
<1>14. ASSUME NEW h \in Hosts, WaitStep(h) PROVE Wakeups'
  BY <1>13, <1>14 DEF WaitStep, Join, WaitEvent, WaitTimeout, UserEventDone, identVars, eventVars, finVars
<1>15. ASSUME NEW h \in Hosts, NEW q \in Queues, CallFinish(h, q) \/ ReleaseQueue(h, q) PROVE Wakeups'
  BY <1>13, <1>15 DEF CallFinish, ReleaseQueue, identVars, eventVars, finVars
<1>16. ASSUME NEW h \in Hosts, NEW e \in Event, CallWait(h, e) \/ ReleaseEvent(h, e) PROVE Wakeups'
  BY <1>13, <1>16 DEF CallWait, ReleaseEvent, identVars, eventVars, finVars
<1>17. ASSUME NEW d \in Drivers, Take(d) PROVE Wakeups'
  BY <1>13, <1>17 DEF Take, identVars, eventVars, finVars
<1>18. ASSUME NEW t \in Thread, NEW e \in Event, NEW x \in Event, NotifyFailed(t, e, x) PROVE Wakeups'
  BY <1>18 DEF NotifyFailed, Dispatch, NoFailure
<1>19. ASSUME NEW t \in Thread, NEW e \in Event, Relock(t, e) PROVE Wakeups'
  BY <1>19 DEF Relock, Dispatch, NoFailure
<1> QED
  BY <1>1, <1>2, <1>3, <1>4, <1>5, <1>6, <1>7, <1>8, <1>9, <1>10, <1>11, <1>12, <1>14, <1>15,
     <1>16, <1>17, <1>18, <1>19, NotifyWakeups
  DEF Next, EnqueueStep, DriverStep, FinishStep, SetSomeUserEvent, AppStep

-----------------------------------------------------------------------------
(* Placed and OneFinisher. *)

Single == Placed /\ OneFinisher

\* A step that dispatches and starts nothing.
LEMMA KeepSingle ==
  ASSUME TypeOK, Single, work' = work,
         \A c \in Commands' : status'[c] \in {SUBMITTED, RUNNING} =>
           c \in Commands /\ status'[c] = status[c],
         \A d \in Drivers : pc[d] = "taken" => pc'[d] = "taken" /\ cur'[d] = cur[d],
         \A t \in Thread, e \in Event :
           /\ phase[t][e] = "finish" => phase'[t][e] = "finish"
           /\ phase'[t][e] # "none" => phase[t][e] # "none"
           /\ phase'[t][e] = "finish" => phase[t][e] = "finish"
           /\ phase[t][e] = "finish" /\ phase'[t][e] # "none" => phase'[t][e] = "finish",
         \A e \in Event : status[e] = COMPLETE => status'[e] = COMPLETE
  PROVE  Single'
<1>1. Placed'
  <2>1. ASSUME NEW c \in Commands', status'[c] = SUBMITTED
        PROVE  \/ \E i \in 1..Len(work') : work'[i] = c
               \/ \E d \in Drivers : pc'[d] = "taken" /\ cur'[d] = c
    <3>1. c \in Commands /\ status[c] = SUBMITTED
      BY <2>1
    <3> QED BY <3>1 DEF Single, Placed
  <2>2. ASSUME NEW c \in Commands', status'[c] = RUNNING
        PROVE  \E t \in Thread : phase'[t][c] = "finish"
    <3>1. c \in Commands /\ c \in Event /\ status[c] = RUNNING
      BY <2>2 DEF Commands
    <3> QED BY <3>1 DEF Single, Placed
  <2> QED BY <2>1, <2>2 DEF Placed
<1>2. OneFinisher'
  BY DEF Single, OneFinisher
<1> QED BY <1>1, <1>2 DEF Single

\* A queued command is pushed on the work queue.
LEMMA PushSingle ==
  ASSUME TypeOK, Dispatch, Single, NEW e \in Commands, status[e] = QUEUED,
         status' = [status EXCEPT ![e] = SUBMITTED], work' = Append(work, e),
         UNCHANGED <<kind, phase>>,
         \A d \in Drivers : pc'[d] = pc[d] /\ cur'[d] = cur[d]
  PROVE  Single'
<1>0. e \in Event /\ Commands' = Commands
  BY DEF Commands
<1>1. /\ Len(work') = Len(work) + 1 /\ Len(work) \in Nat
      /\ \A i \in 1..Len(work) : work'[i] = work[i]
      /\ work'[Len(work) + 1] = e
  BY <1>0, AppendFacts DEF TypeOK
<1>2. \A a \in Event : status'[a] = IF a = e THEN SUBMITTED ELSE status[a]
  BY DEF TypeOK
<1>3. Placed'
  <2>1. ASSUME NEW c \in Commands, status'[c] = SUBMITTED
        PROVE  \/ \E i \in 1..Len(work') : work'[i] = c
               \/ \E d \in Drivers : pc'[d] = "taken" /\ cur'[d] = c
    <3>1. CASE c = e
      BY <1>1, <3>1
    <3>2. CASE c # e
      <4>1. \/ \E i \in 1..Len(work) : work[i] = c
            \/ \E d \in Drivers : pc[d] = "taken" /\ cur[d] = c
        BY <1>2, <2>1, <3>2 DEF Single, Placed, Commands
      <4> QED BY <1>1, <4>1
    <3> QED BY <3>1, <3>2
  <2>2. ASSUME NEW c \in Commands, status'[c] = RUNNING
        PROVE  \E t \in Thread : phase'[t][c] = "finish"
    <3>1. status[c] = RUNNING
      BY <1>2, <2>2 DEF Commands, SUBMITTED, RUNNING
    <3> QED BY <3>1 DEF Single, Placed
  <2> QED BY <1>0, <2>1, <2>2 DEF Placed
<1>4. OneFinisher'
  BY <1>2 DEF Single, OneFinisher, QUEUED, COMPLETE
<1> QED BY <1>3, <1>4 DEF Single

LEMMA SingleTake ==
  ASSUME TypeOK, Dispatch, Single, NEW d \in Drivers, Take(d)
  PROVE  Single'
<1>1. /\ pc[d] = "idle" /\ work # <<>> /\ work' = Tail(work)
      /\ cur' = [cur EXCEPT ![d] = Head(work)] /\ pc' = [pc EXCEPT ![d] = "taken"]
      /\ UNCHANGED <<kind, status, phase>>
  BY DEF Take, Goto, identVars, eventVars, finVars
<1>2. /\ Len(work) \in Nat \ {0} /\ Len(work') = Len(work) - 1 /\ Head(work) = work[1]
      /\ \A i \in 1..(Len(work) - 1) : work'[i] = work[i + 1]
  BY <1>1, TailFacts DEF TypeOK
<1>3. \A c \in Thread : IF c = d THEN pc'[c] = "taken" /\ cur'[c] = work[1]
                                ELSE pc'[c] = pc[c] /\ cur'[c] = cur[c]
  BY <1>1, <1>2 DEF TypeOK
<1>4. ASSUME NEW c \in Commands, status[c] = SUBMITTED
      PROVE  \/ \E i \in 1..Len(work') : work'[i] = c
             \/ \E b \in Drivers : pc'[b] = "taken" /\ cur'[b] = c
  <2>1. CASE \E i \in 1..Len(work) : work[i] = c
    <3>1. PICK i \in 1..Len(work) : work[i] = c
      BY <2>1
    <3>2. CASE i = 1
      BY <1>3, <3>1, <3>2 DEF Thread
    <3>3. CASE i # 1
      <4>1. i - 1 \in 1..Len(work') /\ work'[i - 1] = c
        BY <1>2, <3>1, <3>3
      <4> QED BY <4>1
    <3> QED BY <3>2, <3>3
  <2>2. CASE \E b \in Drivers : pc[b] = "taken" /\ cur[b] = c
    BY <1>1, <1>3, <2>2 DEF Thread
  <2> QED BY <1>4, <2>1, <2>2 DEF Single, Placed
<1> QED BY <1>1, <1>4 DEF Single, Placed, OneFinisher, Commands

LEMMA SingleStart ==
  ASSUME TypeOK, Dispatch, Single, NEW d \in Drivers, Start(d)
  PROVE  Single'
<1> DEFINE e == cur[d]
<1>1. /\ pc[d] = "taken" /\ e \in Commands /\ e \in Event /\ status[e] = SUBMITTED
      /\ \A i \in 1..Len(work) : work[i] # e
      /\ \A c \in Drivers : pc[c] = "taken" /\ cur[c] = e => c = d
  BY DEF Start, Dispatch, InTaken, Commands
<1>2. /\ UNCHANGED <<kind, work>>
      /\ \A a \in Event : status'[a] = IF a = e THEN RUNNING ELSE status[a]
      /\ \A t \in Thread, a \in Event : phase'[t][a] = IF t = d /\ a = e THEN "finish" ELSE phase[t][a]
      /\ \A t \in Thread : t # d => pc'[t] = pc[t] /\ cur'[t] = cur[t]
  BY <1>1 DEF Start, identVars, TypeOK, Goto, Thread
<1>3. d \in Thread /\ Commands' = Commands
  BY <1>2 DEF Thread, Commands
<1>4. Placed'
  <2>1. ASSUME NEW c \in Commands, status'[c] = SUBMITTED
        PROVE  \/ \E i \in 1..Len(work') : work'[i] = c
               \/ \E b \in Drivers : pc'[b] = "taken" /\ cur'[b] = c
    <3>1. c # e /\ status[c] = SUBMITTED
      BY <1>2, <2>1 DEF Commands, SUBMITTED, RUNNING
    <3>2. \/ \E i \in 1..Len(work) : work[i] = c
          \/ \E b \in Drivers : pc[b] = "taken" /\ cur[b] = c
      BY <3>1 DEF Single, Placed
    <3> QED BY <1>2, <3>1, <3>2 DEF Thread
  <2>2. ASSUME NEW c \in Commands, status'[c] = RUNNING
        PROVE  \E t \in Thread : phase'[t][c] = "finish"
    BY <1>2, <1>3, <2>2 DEF Single, Placed, Commands
  <2> QED BY <1>3, <2>1, <2>2 DEF Placed
<1>5. OneFinisher'
  <2>1. \A t \in Thread : phase[t][e] = "none"
    <3>1. \A t \in Thread : phase[t][e] # "finish"
      BY <1>1 DEF Dispatch, InFinish, SUBMITTED, RUNNING
    <3> QED BY <1>1, <3>1 DEF Single, OneFinisher, SUBMITTED, COMPLETE
  <2> QED BY <1>1, <1>2, <2>1 DEF Single, OneFinisher, COMPLETE, SUBMITTED
<1> QED BY <1>4, <1>5 DEF Single

LEMMA SingleFinish ==
  ASSUME TypeOK, Dispatch, Single, NEW t \in Thread, NEW e \in Event, Finish(t, e)
  PROVE  Single'
<1>1. /\ e \in Commands /\ status[e] = RUNNING /\ phase[t][e] = "finish"
  BY DEF Finish, Dispatch, InFinish
<1>2. /\ UNCHANGED <<kind, work, cur>>
      /\ \A a \in Event : status'[a] = IF a = e THEN COMPLETE ELSE status[a]
      /\ \A u \in Thread, a \in Event : phase'[u][a] = IF u = t /\ a = e THEN "broadcast" ELSE phase[u][a]
      /\ \A u \in Thread : pc[u] = "taken" => pc'[u] = "taken"
  BY <1>1 DEF Finish, identVars, TypeOK, WaitsForQueue, WaitsForEvent, Dispatch, NoFailure, Failing
<1>3. Commands' = Commands
  BY <1>2 DEF Commands
<1>4. Placed'
  <2>1. ASSUME NEW c \in Commands, status'[c] = SUBMITTED
        PROVE  \/ \E i \in 1..Len(work') : work'[i] = c
               \/ \E b \in Drivers : pc'[b] = "taken" /\ cur'[b] = c
    <3>1. status[c] = SUBMITTED
      BY <1>2, <2>1 DEF Commands, SUBMITTED, COMPLETE
    <3> QED BY <1>2, <3>1 DEF Single, Placed, Thread
  <2>2. ASSUME NEW c \in Commands, status'[c] = RUNNING
        PROVE  \E u \in Thread : phase'[u][c] = "finish"
    <3>1. c # e /\ status[c] = RUNNING /\ c \in Event
      BY <1>2, <2>2 DEF Commands, COMPLETE, RUNNING
    <3> QED BY <1>2, <3>1 DEF Single, Placed
  <2> QED BY <1>3, <2>1, <2>2 DEF Placed
<1>5. OneFinisher'
  BY <1>1, <1>2 DEF Single, OneFinisher
<1> QED BY <1>4, <1>5 DEF Single

LEMMA SingleSetUser ==
  ASSUME TypeOK, Dispatch, Single, NoFailures, NEW h \in Hosts, NEW e \in Event,
         NEW s \in UserStatuses, SetUserEventStatus(h, e, s)
  PROVE  Single'
<1>1. kind[e] = "user" /\ status[e] > COMPLETE /\ h \in Thread /\ \A d \in Drivers : d # h
  BY ConstantsAssumption DEF SetUserEventStatus, Thread
<1>2. /\ UNCHANGED <<kind, work>>
      /\ \A a \in Event : status'[a] = IF a = e THEN COMPLETE ELSE status[a]
      /\ \A u \in Thread, a \in Event : phase'[u][a] = IF u = h /\ a = e THEN "broadcast" ELSE phase[u][a]
      /\ \A u \in Thread : u # h => pc'[u] = pc[u] /\ cur'[u] = cur[u]
  BY <1>1 DEF SetUserEventStatus, identVars, TypeOK, NoFailures, Goto
<1>3. Commands' = Commands /\ e \notin Commands
  BY <1>1, <1>2 DEF Commands, CommandKinds
<1>4. Placed'
  <2>1. \A c \in Commands : c \in Event /\ c # e /\ status'[c] = status[c]
    BY <1>2, <1>3 DEF Commands
  <2>2. \A d \in Drivers : pc'[d] = pc[d] /\ cur'[d] = cur[d]
    BY <1>1, <1>2 DEF Thread
  <2> QED BY <1>2, <1>3, <2>1, <2>2 DEF Single, Placed
<1>5. OneFinisher'
  <2>1. \A t \in Thread : phase[t][e] = "none"
    <3>1. \A t \in Thread : phase[t][e] # "finish"
      BY <1>3 DEF Dispatch, InFinish
    <3>2. status[e] # COMPLETE
      BY <1>1 DEF COMPLETE
    <3> QED BY <3>1, <3>2 DEF Single, OneFinisher
  <2> QED BY <1>2, <2>1 DEF Single, OneFinisher
<1> QED BY <1>4, <1>5 DEF Single

\* Every command stays in one place.
LEMMA SingleStep ==
  ASSUME TypeOK, Dispatch, Single, Calls, NoFailures, [Next]_vars
  PROVE  Single'
<1>h. \A h \in Hosts : h \in Thread /\ \A d \in Drivers : d # h
  BY ConstantsAssumption DEF Thread
<1>1. ASSUME UNCHANGED <<kind, status, work, phase>>,
             \A d \in Drivers : pc'[d] = pc[d] /\ cur'[d] = cur[d]
      PROVE  Single'
  BY <1>1, KeepSingle DEF Commands
<1>2. CASE UNCHANGED vars
  BY <1>1, <1>2 DEF vars, identVars, eventVars, finVars, callVars
<1>3. ASSUME NEW h \in Hosts, SyncLast(h) \/ SyncListed(h) \/ Enqueue(h) PROVE Single'
  BY <1>h, <1>1, <1>3 DEF SyncLast, SyncListed, Enqueue, identVars, finVars, Goto, TypeOK, Thread
<1>4. ASSUME NEW h \in Hosts, WaitStep(h) PROVE Single'
  <2>1. UNCHANGED <<kind, status, work, phase>>
    BY <1>4 DEF WaitStep, UserEventDone, Join, WaitEvent, WaitTimeout, identVars, eventVars, finVars
  <2>2. \A d \in Drivers : cur'[d] = cur[d]
    BY <1>h, <1>4 DEF WaitStep, UserEventDone, Join, WaitEvent, WaitTimeout, TypeOK, Thread
  <2>3. \A d \in Drivers : pc[d] = "taken" => pc'[d] = "taken"
    BY <1>h, <1>4 DEF WaitStep, UserEventDone, Join, WaitEvent, WaitTimeout, TypeOK, Thread, Goto, WaitsForEvent
  <2> QED BY <2>1, <2>2, <2>3, KeepSingle DEF Commands
<1>5. ASSUME NEW h \in Hosts, NEW q \in Queues, CallFinish(h, q) \/ ReleaseQueue(h, q) PROVE Single'
  BY <1>h, <1>1, <1>5 DEF CallFinish, ReleaseQueue, identVars, eventVars, finVars, callVars, Goto, TypeOK, Thread
<1>6. ASSUME NEW h \in Hosts, NEW e \in Event, CallWait(h, e) \/ ReleaseEvent(h, e) PROVE Single'
  BY <1>h, <1>1, <1>6 DEF CallWait, ReleaseEvent, identVars, eventVars, finVars, callVars, Goto, TypeOK, Thread
<1>7. ASSUME NEW h \in Hosts, Submit(h) PROVE Single'
  <2> DEFINE e == cur[h]
  <2>1. e \in Commands /\ e \in Event /\ status[e] = QUEUED
    BY <1>7 DEF Submit, TypeOK, Enqueuing, Dispatch, Untouched, Commands
  <2>2. \A d \in Drivers : pc'[d] = pc[d] /\ cur'[d] = cur[d]
    BY <1>h, <1>7 DEF Submit, Goto, TypeOK, Thread
  <2>3. CASE waits[e] = {}
    BY <1>7, <2>1, <2>2, <2>3, PushSingle DEF Submit, identVars, finVars
  <2>4. CASE waits[e] # {}
    <3>1. status' = status /\ work' = work /\ UNCHANGED <<kind, phase>>
      BY <1>7, <2>1, <2>4 DEF Submit, identVars, finVars, TypeOK
    <3> QED BY <1>1, <2>2, <3>1
  <2> QED BY <2>3, <2>4
<1>8. ASSUME NEW t \in Thread, NEW e \in Event, NEW x \in Event, Notify(t, e, x) PROVE Single'
  <2>1. UNCHANGED <<kind, phase, pc, cur>>
    BY <1>8 DEF Notify, identVars, finVars, callVars
  <2>2. CASE Dispatchable(x, e)
    <3>1. x \in Commands /\ status[x] = QUEUED
      BY <2>2 DEF Dispatchable, Dispatch, Untouched
    <3> QED BY <1>8, <2>1, <2>2, <3>1, PushSingle DEF Notify
  <2>3. CASE ~Dispatchable(x, e)
    BY <1>1, <1>8, <2>1, <2>3 DEF Notify
  <2> QED BY <2>2, <2>3
<1>9. ASSUME NEW t \in Thread, NEW e \in Event, BroadcastDone(t, e) PROVE Single'
  <2>1. /\ UNCHANGED <<kind, status, work, pc, cur>>
        /\ phase[t][e] = "broadcast"
        /\ \E v \in {"none", "release"} : phase' = [phase EXCEPT ![t] = [phase[t] EXCEPT ![e] = v]]
    BY <1>9 DEF BroadcastDone, identVars, eventVars, callVars
  <2>2. \A u \in Thread, a \in Event : phase'[u][a] = phase[u][a] \/ (u = t /\ a = e /\ phase'[u][a] \in {"none", "release"})
    BY <2>1 DEF TypeOK
  <2> QED BY <2>1, <2>2, KeepSingle DEF Commands
<1>10. ASSUME NEW t \in Thread, NEW e \in Event, ReleaseFinished(t, e) PROVE Single'
  <2>1. /\ UNCHANGED <<kind, status, work, cur>>
        /\ phase[t][e] = "release" /\ phase' = [phase EXCEPT ![t][e] = "none"]
        /\ pc' = pc \/ pc' = [pc EXCEPT ![t] = "idle"]
    BY <1>10 DEF ReleaseFinished, identVars
  <2>2. \A u \in Thread, a \in Event : phase'[u][a] = IF u = t /\ a = e THEN "none" ELSE phase[u][a]
    BY <2>1 DEF TypeOK
  <2>3. \A d \in Drivers : pc[d] = "taken" => pc'[d] = "taken"
    <3>1. t \in Drivers => pc[t] = "finishing"
      BY <2>1 DEF Calls, DriverCall
    <3> QED BY <2>1, <3>1 DEF TypeOK, Thread
  <2> QED BY <2>1, <2>2, <2>3, KeepSingle DEF Commands
<1>11. ASSUME NEW h \in Hosts, NEW q \in Queues, NEW k \in Kinds, NEW W \in SUBSET Event,
              NEW x \in Explicit, CreateCommand(h, q, k, W, x)
       PROVE  Single'
  <2>1. /\ created + 1 \in Event /\ kind[created + 1] = "none"
        /\ UNCHANGED <<work, phase>>
        /\ kind' = [kind EXCEPT ![created + 1] = k] /\ status' = [status EXCEPT ![created + 1] = QUEUED]
        /\ \A d \in Drivers : pc'[d] = pc[d] /\ cur'[d] = cur[d]
    BY <1>h, <1>11, ConstantsAssumption DEF CreateCommand, finVars, TypeOK, Event, Thread, Goto
  <2>2. status[created + 1] = QUEUED
    BY <2>1 DEF Dispatch, Untouched
  <2>3. status' = status
    BY <2>1, <2>2 DEF TypeOK
  <2>4. \A c \in Commands' : c = created + 1 \/ c \in Commands
    BY <2>1 DEF TypeOK, Commands
  <2>5. \A c \in Commands' : status'[c] \in {SUBMITTED, RUNNING} => c \in Commands /\ status'[c] = status[c]
    BY <2>2, <2>3, <2>4 DEF QUEUED, SUBMITTED, RUNNING
  <2> QED BY <2>1, <2>3, <2>5, KeepSingle
<1>12. ASSUME NEW h \in Hosts, CreateUserEvent(h) PROVE Single'
  <2>1. /\ created + 1 \in Event /\ kind[created + 1] = "none"
        /\ UNCHANGED <<work, phase, pc, cur>>
        /\ kind' = [kind EXCEPT ![created + 1] = "user"] /\ status' = [status EXCEPT ![created + 1] = SUBMITTED]
    BY <1>12, ConstantsAssumption DEF CreateUserEvent, finVars, callVars, TypeOK, Event
  <2>2. status[created + 1] # COMPLETE
    BY <2>1 DEF Dispatch, Untouched, QUEUED, COMPLETE
  <2>3. \A c \in Commands' : c \in Commands /\ status'[c] = status[c]
    BY <2>1 DEF TypeOK, Commands, CommandKinds
  <2>4. \A e \in Event : status[e] = COMPLETE => status'[e] = COMPLETE
    BY <2>1, <2>2 DEF TypeOK
  <2> QED BY <2>1, <2>3, <2>4, KeepSingle
<1>13. ASSUME NEW t \in Thread, NEW e \in Event, NEW x \in Event, NotifyFailed(t, e, x) PROVE Single'
  BY <1>13 DEF NotifyFailed, Dispatch, NoFailure
<1>14. ASSUME NEW t \in Thread, NEW e \in Event, Relock(t, e) PROVE Single'
  BY <1>14 DEF Relock, Dispatch, NoFailure
<1> QED
  BY <1>2, <1>3, <1>4, <1>5, <1>6, <1>7, <1>8, <1>9, <1>10, <1>11, <1>12, <1>13, <1>14,
     SingleTake, SingleStart, SingleFinish, SingleSetUser
  DEF Next, EnqueueStep, DriverStep, FinishStep, SetSomeUserEvent, AppStep

-----------------------------------------------------------------------------
(* What no step changes: the kind and queue of an event that exists, and that  *)
(* a command has entered its queue.                                            *)

LEMMA CreateFacts ==
  ASSUME TypeOK, Dispatch, NEW h \in Hosts, NEW q \in Queues, NEW k \in Kinds, NEW W \in SUBSET Event,
         NEW x \in Explicit, CreateCommand(h, q, k, W, x)
  PROVE  /\ created + 1 \in Event /\ kind[created + 1] = "none" /\ status[created + 1] = QUEUED
         /\ ~ready[created + 1] /\ created + 1 \notin Commands /\ k \in CommandKinds
         /\ pc[h] = "idle" /\ h \in Thread /\ x \in BOOLEAN /\ W \subseteq app
         /\ status' = status
         /\ kind' = [kind EXCEPT ![created + 1] = k] /\ Commands' = Commands \cup {created + 1}
         /\ queue' = [queue EXCEPT ![created + 1] = q]
         /\ cur' = [cur EXCEPT ![h] = created + 1] /\ todo' = [todo EXCEPT ![h] = W]
         /\ pc' = [pc EXCEPT ![h] = IF q \in InOrder THEN "lastSync" ELSE "listSync"]
<1>1. /\ created + 1 \in Event /\ kind[created + 1] = "none" /\ k \in CommandKinds
      /\ pc[h] = "idle" /\ h \in Thread /\ x \in BOOLEAN /\ W \subseteq app
      /\ status' = [status EXCEPT ![created + 1] = QUEUED]
      /\ kind' = [kind EXCEPT ![created + 1] = k]
      /\ queue' = [queue EXCEPT ![created + 1] = q]
      /\ cur' = [cur EXCEPT ![h] = created + 1] /\ todo' = [todo EXCEPT ![h] = W]
      /\ pc' = [pc EXCEPT ![h] = IF q \in InOrder THEN "lastSync" ELSE "listSync"]
  BY ConstantsAssumption DEF CreateCommand, Usable, TypeOK, Event, Thread, Goto
<1>2. status[created + 1] = QUEUED /\ ~ready[created + 1] /\ created + 1 \notin Commands
  BY <1>1 DEF Dispatch, Untouched, Commands, CommandKinds
<1>3. status' = status
  BY <1>1, <1>2 DEF TypeOK
<1>4. Commands' = Commands \cup {created + 1}
  BY <1>1 DEF Commands, TypeOK
<1> QED BY <1>1, <1>2, <1>3, <1>4

LEMMA CreateUserFacts ==
  ASSUME TypeOK, Dispatch, NEW h \in Hosts, CreateUserEvent(h)
  PROVE  /\ created + 1 \in Event /\ kind[created + 1] = "none" /\ status[created + 1] = QUEUED
         /\ ~ready[created + 1] /\ created + 1 \notin Commands
         /\ status' = [status EXCEPT ![created + 1] = SUBMITTED]
         /\ kind' = [kind EXCEPT ![created + 1] = "user"] /\ Commands' = Commands
<1>1. /\ created + 1 \in Event /\ kind[created + 1] = "none"
      /\ kind' = [kind EXCEPT ![created + 1] = "user"]
      /\ status' = [status EXCEPT ![created + 1] = SUBMITTED]
  BY ConstantsAssumption DEF CreateUserEvent, TypeOK, Event
<1>2. status[created + 1] = QUEUED /\ ~ready[created + 1] /\ created + 1 \notin Commands
  BY <1>1 DEF Dispatch, Untouched, Commands, CommandKinds
<1>3. Commands' = Commands
  BY <1>1 DEF Commands, CommandKinds, TypeOK
<1> QED BY <1>1, <1>2, <1>3

\* The event to be created next.
LEMMA NextEvent ==
  ASSUME TypeOK, created < MaxEvents
  PROVE  created + 1 \in Event /\ kind[created + 1] = "none"
BY ConstantsAssumption DEF TypeOK, Event

\* No step changes the kind and the queue of an event.
LEMMA IdentityKept ==
  ASSUME TypeOK, [Next]_vars, NEW e \in Event, kind[e] # "none"
  PROVE  kind'[e] = kind[e] /\ queue'[e] = queue[e]
<1>1. ASSUME NEW h \in Hosts, NEW q \in Queues, NEW k \in Kinds, NEW W \in SUBSET Event,
             NEW x \in Explicit, CreateCommand(h, q, k, W, x)
      PROVE  kind'[e] = kind[e] /\ queue'[e] = queue[e]
  <2>1. /\ created + 1 \in Event /\ kind[created + 1] = "none"
        /\ kind' = [kind EXCEPT ![created + 1] = k] /\ queue' = [queue EXCEPT ![created + 1] = q]
    BY <1>1, NextEvent DEF CreateCommand
  <2> QED BY <2>1 DEF TypeOK
<1>2. ASSUME NEW h \in Hosts, CreateUserEvent(h) PROVE kind'[e] = kind[e] /\ queue'[e] = queue[e]
  <2>1. /\ created + 1 \in Event /\ kind[created + 1] = "none"
        /\ kind' = [kind EXCEPT ![created + 1] = "user"] /\ queue' = queue
    BY <1>2, NextEvent DEF CreateUserEvent
  <2> QED BY <2>1 DEF TypeOK
<1>3. ASSUME UNCHANGED <<kind, queue>> PROVE kind'[e] = kind[e] /\ queue'[e] = queue[e]
  BY <1>3
<1>4. ASSUME NEW h \in Hosts, EnqueueStep(h) \/ WaitStep(h) PROVE UNCHANGED <<kind, queue>>
  BY <1>4 DEF EnqueueStep, WaitStep, SyncLast, SyncListed, Enqueue, Submit, Join, WaitEvent,
       WaitTimeout, UserEventDone, identVars
<1>5. ASSUME NEW h \in Hosts, SetSomeUserEvent(h) PROVE UNCHANGED <<kind, queue>>
  BY <1>5 DEF SetSomeUserEvent, SetUserEventStatus, identVars
<1>6. ASSUME NEW h \in Hosts, NEW q \in Queues, CallFinish(h, q) \/ ReleaseQueue(h, q) PROVE UNCHANGED <<kind, queue>>
  BY <1>6 DEF CallFinish, ReleaseQueue, identVars
<1>7. ASSUME NEW h \in Hosts, NEW x \in Event, CallWait(h, x) \/ ReleaseEvent(h, x) PROVE UNCHANGED <<kind, queue>>
  BY <1>7 DEF CallWait, ReleaseEvent, identVars
<1>8. ASSUME NEW d \in Drivers, DriverStep(d) PROVE UNCHANGED <<kind, queue>>
  BY <1>8 DEF DriverStep, Take, Start, identVars
<1>9. ASSUME NEW t \in Thread, FinishStep(t) PROVE UNCHANGED <<kind, queue>>
  BY <1>9 DEF FinishStep, Finish, Relock, BroadcastDone, ReleaseFinished, Notify, NotifyFailed, identVars
<1>10. CASE UNCHANGED vars
  BY <1>10 DEF vars, identVars
<1> QED BY <1>1, <1>2, <1>3, <1>4, <1>5, <1>6, <1>7, <1>8, <1>9, <1>10 DEF Next, AppStep

\* A command that is being synchronized was so before, or is new.
LEMMA SyncingKept ==
  ASSUME TypeOK, [Next]_vars, NEW g \in Hosts, pc'[g] \in {"lastSync", "listSync"}
  PROVE  \/ pc[g] \in {"lastSync", "listSync"} /\ cur'[g] = cur[g]
         \/ cur'[g] \in Event /\ kind[cur'[g]] = "none"
<1>h. g \in Thread /\ \A d \in Drivers : d # g
  BY ConstantsAssumption DEF Thread
<1> DEFINE P == \/ pc[g] \in {"lastSync", "listSync"} /\ cur'[g] = cur[g]
                \/ cur'[g] \in Event /\ kind[cur'[g]] = "none"
<1>1. ASSUME NEW h \in Hosts, NEW q \in Queues, NEW k \in Kinds, NEW W \in SUBSET Event,
             NEW x \in Explicit, CreateCommand(h, q, k, W, x)
      PROVE  P
  <2>1. /\ created + 1 \in Event /\ kind[created + 1] = "none" /\ cur' = [cur EXCEPT ![h] = created + 1]
        /\ pc' = [pc EXCEPT ![h] = IF q \in InOrder THEN "lastSync" ELSE "listSync"]
    BY <1>1, NextEvent DEF CreateCommand, Goto
  <2> QED BY <1>h, <2>1 DEF TypeOK
<1>2. ASSUME NEW h \in Hosts, EnqueueStep(h) \/ WaitStep(h) PROVE P
  <2>1. CASE EnqueueStep(h)
    BY <1>h, <2>1 DEF EnqueueStep, SyncLast, SyncListed, Enqueue, Submit, TypeOK, Goto
  <2>2. CASE WaitStep(h)
    <3>1. CASE Join(h) \/ WaitEvent(h) \/ WaitTimeout(h)
      BY <1>h, <3>1 DEF Join, WaitEvent, WaitTimeout, TypeOK, Goto
    <3>2. CASE UserEventDone(h)
      BY <1>h, <3>2 DEF UserEventDone, TypeOK, WaitsForEvent
    <3> QED BY <2>2, <3>1, <3>2 DEF WaitStep
  <2> QED BY <1>2, <2>1, <2>2
<1>3. ASSUME NEW h \in Hosts, SetSomeUserEvent(h) \/ CreateUserEvent(h) PROVE P
  BY <1>h, <1>3, ZenonT(60) DEF SetSomeUserEvent, SetUserEventStatus, CreateUserEvent, callVars, TypeOK, Goto
<1>4. ASSUME NEW h \in Hosts, NEW q \in Queues, CallFinish(h, q) \/ ReleaseQueue(h, q) PROVE P
  BY <1>h, <1>4 DEF CallFinish, ReleaseQueue, callVars, TypeOK, Goto
<1>5. ASSUME NEW h \in Hosts, NEW e \in Event, CallWait(h, e) \/ ReleaseEvent(h, e) PROVE P
  BY <1>h, <1>5 DEF CallWait, ReleaseEvent, callVars, TypeOK, Goto
<1>6. ASSUME NEW d \in Drivers, DriverStep(d) PROVE P
  BY <1>h, <1>6 DEF DriverStep, Take, Start, TypeOK, Goto
<1>7. ASSUME NEW t \in Thread, FinishStep(t) PROVE P
  <2>1. ASSUME NEW e \in Event, ReleaseFinished(t, e) PROVE P
    BY <1>h, <2>1 DEF ReleaseFinished, TypeOK
  <2>2. ASSUME NEW e \in Event, Finish(t, e) PROVE P
    BY <1>h, <2>2 DEF Finish, TypeOK, WaitsForQueue, WaitsForEvent
  <2>3. ASSUME UNCHANGED callVars PROVE P
    BY <2>3 DEF callVars
  <2> QED BY <1>7, <2>1, <2>2, <2>3 DEF FinishStep, Relock, BroadcastDone, Notify, NotifyFailed
<1>8. CASE UNCHANGED vars
  BY <1>8 DEF vars, callVars
<1> QED BY <1>1, <1>2, <1>3, <1>4, <1>5, <1>6, <1>7, <1>8 DEF Next, AppStep

LEMMA EnteredKept ==
  ASSUME TypeOK, [Next]_vars, NEW e, Entered(e)
  PROVE  Entered(e)' /\ queue'[e] = queue[e]
<1>1. e \in Event /\ kind[e] \in CommandKinds /\ kind[e] # "none"
  BY DEF Entered, Commands, CommandKinds
<1>2. kind'[e] = kind[e] /\ queue'[e] = queue[e]
  BY <1>1, IdentityKept
<1>3. ASSUME NEW h \in Hosts, pc'[h] \in {"lastSync", "listSync"} PROVE cur'[h] # e
  BY <1>1, <1>3, SyncingKept DEF Entered
<1> QED BY <1>1, <1>2, <1>3 DEF Entered, Commands

-----------------------------------------------------------------------------
(* QueueAccounting. *)

InQueue(e) == Entered(e) /\ status[e] > COMPLETE

LEMMA FiniteEvents ==
  ASSUME NEW S, S \subseteq Event
  PROVE  IsFiniteSet(S) /\ Cardinality(S) \in Nat
<1>1. IsFiniteSet(Event)
  BY ConstantsAssumption, FS_Interval DEF Event
<1> QED BY <1>1, FS_Subset, FS_CardinalityType

\* A step that enqueues and completes no command.
LEMMA KeepAccounts ==
  ASSUME QueueAccounting, UNCHANGED <<count, barrier, last, pending>>,
         \A e \in Event : InQueue(e)' <=> InQueue(e),
         \A e \in Event : InQueue(e) => queue'[e] = queue[e]
  PROVE  QueueAccounting'
<1>1. \A q \in Queues :
        {e \in Event : Entered(e)' /\ queue'[e] = q /\ status'[e] > COMPLETE} =
        {e \in Event : Entered(e) /\ queue[e] = q /\ status[e] > COMPLETE}
  BY DEF InQueue
<1> QED BY <1>1 DEF QueueAccounting

\* The same, said of the variables.
LEMMA QuietAccounts ==
  ASSUME TypeOK, Dispatch, TypeOK', Dispatch', Finishers, [Next]_vars, QueueAccounting,
         UNCHANGED <<count, barrier, last, pending>>, Commands' = Commands,
         \A c \in Commands : status'[c] = COMPLETE <=> status[c] = COMPLETE,
         \A h \in Hosts : pc[h] \in {"lastSync", "listSync"} =>
           pc'[h] \in {"lastSync", "listSync"} /\ cur'[h] = cur[h]
  PROVE  QueueAccounting'
<1>1. ASSUME NEW e \in Event, Entered(e) PROVE Entered(e)' /\ queue'[e] = queue[e]
  BY <1>1, EnteredKept
<1>2. ASSUME NEW e \in Event, Entered(e)' PROVE Entered(e)
  BY <1>2 DEF Entered
<1>3. ASSUME NEW e \in Commands
      PROVE  status'[e] > COMPLETE <=> status[e] > COMPLETE
  <2>1. status'[e] \in FAILED..QUEUED /\ status'[e] # FAILED
    BY DEF TypeOK, Dispatch, NoFailure, Commands
  <2>2. status[e] \in FAILED..QUEUED /\ status[e] # FAILED
    BY DEF TypeOK, Dispatch, NoFailure, Commands
  <2>3. status'[e] = COMPLETE <=> status[e] = COMPLETE
    OBVIOUS
  <2> QED BY <2>1, <2>2, <2>3 DEF FAILED, QUEUED, COMPLETE
<1>4. \A e \in Event : Entered(e) => e \in Commands
  BY DEF Entered
<1>5. \A e \in Event : InQueue(e)' <=> InQueue(e)
  BY <1>1, <1>2, <1>3, <1>4 DEF InQueue
<1> QED BY <1>1, <1>5, KeepAccounts DEF InQueue

LEMMA AccountsEnqueue ==
  ASSUME TypeOK, Dispatch, Finishers, [Next]_vars, QueueAccounting, NEW h \in Hosts, Enqueue(h)
  PROVE  QueueAccounting'
<1> DEFINE e == cur[h] q == queue[cur[h]]
<1>1. /\ pc[h] = "listSync" /\ e \in Commands /\ e \in Event /\ q \in Queues /\ h \in Thread
      /\ status[e] = QUEUED
  BY DEF Enqueue, TypeOK, Enqueuing, Dispatch, Untouched, Commands, Thread
<1>2. /\ UNCHANGED <<kind, queue, status, cur>>
      /\ \A p \in Queues : /\ count'[p] = IF p = q THEN count[p] + 1 ELSE count[p]
                           /\ pending'[p] = IF p = q THEN pending[p] \cup {e} ELSE pending[p]
                           /\ last'[p] = IF p = q THEN e ELSE last[p]
                           /\ barrier'[p] \in {e, barrier[p]} /\ (p # q => barrier'[p] = barrier[p])
      /\ \A g \in Hosts : pc'[g] = IF g = h THEN "submit" ELSE pc[g]
  BY <1>1 DEF Enqueue, identVars, Goto, TypeOK, Thread
<1>3. Commands' = Commands
  BY <1>2 DEF Commands
<1>4. \A g \in Hosts : pc[g] \in {"lastSync", "listSync"} /\ cur[g] = e => g = h
  BY <1>1 DEF Dispatch, OwnCommand, Enqueuing
<1>5. \A a \in Event : Entered(a)' <=> (Entered(a) \/ a = e)
  BY <1>1, <1>2, <1>3, <1>4 DEF Entered
<1>6. ~Entered(e) /\ status[e] > COMPLETE
  BY <1>1 DEF Entered, QUEUED, COMPLETE
<1>7. ASSUME NEW p \in Queues
      PROVE  /\ pending'[p] = {a \in Event : Entered(a)' /\ queue'[a] = p /\ status'[a] > COMPLETE}
             /\ count'[p] = Cardinality(pending'[p])
             /\ {barrier'[p], last'[p]} \subseteq pending'[p] \cup {NoEvent}
  <2>1. /\ pending[p] = {a \in Event : Entered(a) /\ queue[a] = p /\ status[a] > COMPLETE}
        /\ count[p] = Cardinality(pending[p])
        /\ {barrier[p], last[p]} \subseteq pending[p] \cup {NoEvent}
    BY DEF QueueAccounting
  <2>2. \A a \in Event : a \in pending[p] <=> Entered(a) /\ queue[a] = p /\ status[a] > COMPLETE
    BY <2>1
  <2>3. e \notin pending[p] /\ pending[p] \subseteq Event /\ IsFiniteSet(pending[p])
    BY <1>6, <2>1, FiniteEvents
  <2>4. CASE p = q
    <3>1. /\ pending'[p] = pending[p] \cup {e} /\ count'[p] = count[p] + 1
          /\ last'[p] = e /\ barrier'[p] \in {e, barrier[p]}
      BY <1>2, <2>4
    <3>2. \A a \in Event : a \in pending'[p] <=> Entered(a)' /\ queue'[a] = p /\ status'[a] > COMPLETE
      BY <1>1, <1>2, <1>5, <1>6, <2>2, <2>4, <3>1
    <3>3. pending'[p] = {a \in Event : Entered(a)' /\ queue'[a] = p /\ status'[a] > COMPLETE}
      BY <1>1, <2>3, <3>1, <3>2
    <3>4. Cardinality(pending'[p]) = Cardinality(pending[p]) + 1
      BY <2>3, <3>1, FS_AddElement
    <3> QED BY <2>1, <3>1, <3>3, <3>4
  <2>5. CASE p # q
    <3>1. /\ pending'[p] = pending[p] /\ count'[p] = count[p]
          /\ last'[p] = last[p] /\ barrier'[p] = barrier[p]
      BY <1>2, <2>5
    <3>2. \A a \in Event : a \in pending[p] <=> Entered(a)' /\ queue'[a] = p /\ status'[a] > COMPLETE
      BY <1>2, <1>5, <1>6, <2>2, <2>5
    <3>3. pending[p] = {a \in Event : Entered(a)' /\ queue'[a] = p /\ status'[a] > COMPLETE}
      BY <2>3, <3>2
    <3> QED BY <2>1, <3>1, <3>3
  <2> QED BY <2>4, <2>5
<1> QED BY <1>7 DEF QueueAccounting

LEMMA AccountsFinish ==
  ASSUME TypeOK, Dispatch, Finishers, [Next]_vars, QueueAccounting,
         NEW t \in Thread, NEW e \in Event, Finish(t, e)
  PROVE  QueueAccounting'
<1> DEFINE q == queue[e]
<1>1. e \in Commands /\ status[e] = RUNNING /\ q \in Queues
  BY DEF Finish, Dispatch, InFinish, TypeOK
<1>2. /\ UNCHANGED <<kind, queue, cur>>
      /\ \A a \in Event : status'[a] = IF a = e THEN COMPLETE ELSE status[a]
      /\ \A p \in Queues : /\ count'[p] = IF p = q THEN count[p] - 1 ELSE count[p]
                           /\ pending'[p] = IF p = q THEN pending[p] \ {e} ELSE pending[p]
                           /\ last'[p] = IF p = q /\ last[p] = e THEN NoEvent ELSE last[p]
                           /\ barrier'[p] = IF p = q /\ barrier[p] = e THEN NoEvent ELSE barrier[p]
      /\ \A g \in Hosts : pc'[g] \in {"lastSync", "listSync"} <=> pc[g] \in {"lastSync", "listSync"}
  BY <1>1 DEF Finish, identVars, Cleared, TypeOK, Thread, WaitsForQueue, WaitsForEvent, Dispatch, NoFailure, Failing
<1>3. Commands' = Commands
  BY <1>2 DEF Commands
<1>4. \A a \in Event : Entered(a)' <=> Entered(a)
  BY <1>2, <1>3 DEF Entered
<1>5. Entered(e) /\ status[e] > COMPLETE
  BY <1>1 DEF Entered, Dispatch, Untouched, Enqueuing, RUNNING, QUEUED, COMPLETE
<1>6. ASSUME NEW p \in Queues
      PROVE  /\ pending'[p] = {a \in Event : Entered(a)' /\ queue'[a] = p /\ status'[a] > COMPLETE}
             /\ count'[p] = Cardinality(pending'[p])
             /\ {barrier'[p], last'[p]} \subseteq pending'[p] \cup {NoEvent}
  <2>1. /\ pending[p] = {a \in Event : Entered(a) /\ queue[a] = p /\ status[a] > COMPLETE}
        /\ count[p] = Cardinality(pending[p])
        /\ {barrier[p], last[p]} \subseteq pending[p] \cup {NoEvent}
    BY DEF QueueAccounting
  <2>2. \A a \in Event : a \in pending[p] <=> Entered(a) /\ queue[a] = p /\ status[a] > COMPLETE
    BY <2>1
  <2>3. (p = q => e \in pending[p]) /\ pending[p] \subseteq Event /\ IsFiniteSet(pending[p])
    BY <1>1, <1>5, <2>1, <2>2, FiniteEvents DEF Commands
  <2>4. CASE p = q
    <3>1. /\ pending'[p] = pending[p] \ {e} /\ count'[p] = count[p] - 1
          /\ last'[p] = (IF last[p] = e THEN NoEvent ELSE last[p])
          /\ barrier'[p] = (IF barrier[p] = e THEN NoEvent ELSE barrier[p])
      BY <1>2, <2>4
    <3>2. \A a \in Event : a \in pending'[p] <=> Entered(a)' /\ queue'[a] = p /\ status'[a] > COMPLETE
      BY <1>2, <1>4, <2>2, <3>1 DEF COMPLETE
    <3>3. pending'[p] = {a \in Event : Entered(a)' /\ queue'[a] = p /\ status'[a] > COMPLETE}
      BY <2>3, <3>1, <3>2
    <3>4. Cardinality(pending'[p]) = Cardinality(pending[p]) - 1
      BY <2>3, <2>4, <3>1, FS_RemoveElement
    <3> QED BY <2>1, <3>1, <3>3, <3>4
  <2>5. CASE p # q
    <3>1. /\ pending'[p] = pending[p] /\ count'[p] = count[p]
          /\ last'[p] = last[p] /\ barrier'[p] = barrier[p]
      BY <1>2, <2>5
    <3>2. \A a \in Event : a \in pending[p] <=> Entered(a)' /\ queue'[a] = p /\ status'[a] > COMPLETE
      BY <1>2, <1>4, <2>2, <2>5 DEF COMPLETE
    <3>3. pending[p] = {a \in Event : Entered(a)' /\ queue'[a] = p /\ status'[a] > COMPLETE}
      BY <2>3, <3>2
    <3> QED BY <2>1, <3>1, <3>3
  <2> QED BY <2>4, <2>5
<1> QED BY <1>6 DEF QueueAccounting

\* command_count, cq->events, barrier and last_event stay right in every step.
LEMMA AccountsStep ==
  ASSUME TypeOK, Dispatch, Finishers, [Next]_vars, NoFailures, QueueAccounting
  PROVE  QueueAccounting'
<1>0. TypeOK' /\ Dispatch'
  BY TypeStep, DispatchStep
<1>h. \A h \in Hosts : h \in Thread /\ \A d \in Drivers : d # h
  BY ConstantsAssumption DEF Thread
<1>1. ASSUME UNCHANGED <<kind, status, count, barrier, last, pending>>,
             \A h \in Hosts : pc[h] \in {"lastSync", "listSync"} =>
               pc'[h] \in {"lastSync", "listSync"} /\ cur'[h] = cur[h]
      PROVE  QueueAccounting'
  BY <1>0, <1>1, QuietAccounts DEF Commands
<1>2. ASSUME NEW h \in Hosts, SyncLast(h) \/ SyncListed(h) PROVE QueueAccounting'
  BY <1>h, <1>1, <1>2 DEF SyncLast, SyncListed, identVars, cqVars, Goto, TypeOK
<1>3. ASSUME NEW h \in Hosts, Submit(h) PROVE QueueAccounting'
  <2>1. /\ cur[h] \in Event /\ status[cur[h]] = QUEUED
        /\ UNCHANGED <<kind, count, barrier, last, pending>>
        /\ status' = [status EXCEPT ![cur[h]] = IF waits[cur[h]] = {} THEN SUBMITTED ELSE QUEUED]
        /\ \A g \in Hosts : pc[g] \in {"lastSync", "listSync"} => pc'[g] = pc[g] /\ cur'[g] = cur[g]
    BY <1>h, <1>3 DEF Submit, identVars, cqVars, Goto, TypeOK, Enqueuing, Dispatch, Untouched, Commands
  <2>2. \A c \in Commands : status'[c] = COMPLETE <=> status[c] = COMPLETE
    BY <2>1 DEF TypeOK, QUEUED, SUBMITTED, COMPLETE, Commands
  <2> QED BY <1>0, <2>1, <2>2, QuietAccounts DEF Commands
<1>4. ASSUME NEW d \in Drivers, DriverStep(d) PROVE QueueAccounting'
  <2>1. \A g \in Hosts : pc'[g] = pc[g] /\ cur'[g] = cur[g]
    BY <1>h, <1>4 DEF DriverStep, Take, Start, Goto, TypeOK, Thread
  <2>2. CASE Take(d)
    BY <1>1, <2>1, <2>2 DEF Take, identVars, eventVars, cqVars
  <2>3. CASE Start(d)
    <3>1. status[cur[d]] = SUBMITTED /\ cur[d] \in Event
      BY <2>3 DEF Start, Dispatch, InTaken, Commands
    <3>2. \A c \in Commands : status'[c] = COMPLETE <=> status[c] = COMPLETE
      BY <2>3, <3>1 DEF Start, TypeOK, SUBMITTED, RUNNING, COMPLETE, Commands
    <3> QED BY <1>0, <2>1, <2>3, <3>2, QuietAccounts DEF Start, identVars, cqVars, Commands
  <2> QED BY <1>4, <2>2, <2>3 DEF DriverStep
<1>5. ASSUME NEW t \in Thread, NEW e \in Event, NEW x \in Event, Notify(t, e, x) PROVE QueueAccounting'
  <2>1. /\ UNCHANGED <<kind, pc, cur, count, barrier, last, pending>>
        /\ status' = IF Dispatchable(x, e) THEN [status EXCEPT ![x] = SUBMITTED] ELSE status
    BY <1>5 DEF Notify, identVars, callVars, cqVars
  <2>2. \A c \in Commands : status'[c] = COMPLETE <=> status[c] = COMPLETE
    BY <2>1 DEF Dispatchable, TypeOK, SUBMITTED, QUEUED, COMPLETE, Commands
  <2> QED BY <1>0, <2>1, <2>2, QuietAccounts DEF Commands
<1>6. ASSUME NEW t \in Thread, NEW e \in Event, BroadcastDone(t, e) PROVE QueueAccounting'
  BY <1>1, <1>6 DEF BroadcastDone, identVars, eventVars, callVars, cqVars
<1>7. ASSUME NEW t \in Thread, NEW e \in Event, ReleaseFinished(t, e) PROVE QueueAccounting'
  <2>1. t \in Drivers
    BY <1>7 DEF ReleaseFinished, Finishers
  <2> QED BY <1>h, <1>1, <1>7, <2>1 DEF ReleaseFinished, identVars, TypeOK
<1>8. ASSUME NEW h \in Hosts, NEW q \in Queues, NEW k \in Kinds, NEW W \in SUBSET Event,
             NEW x \in Explicit, CreateCommand(h, q, k, W, x)
      PROVE  QueueAccounting'
  <2> DEFINE n == created + 1
  <2>1. /\ n \in Event /\ kind[n] = "none" /\ n \notin Commands /\ status' = status
        /\ Commands' = Commands \cup {n} /\ cur' = [cur EXCEPT ![h] = n]
        /\ pc' = [pc EXCEPT ![h] = IF q \in InOrder THEN "lastSync" ELSE "listSync"]
        /\ UNCHANGED <<count, barrier, last, pending>>
    BY <1>8, CreateFacts DEF CreateCommand
  <2>2. pc'[h] \in {"lastSync", "listSync"} /\ cur'[h] = n
    BY <1>h, <2>1 DEF TypeOK
  <2>3. \A e \in Event : Entered(e) => Entered(e)' /\ queue'[e] = queue[e]
    BY EnteredKept
  <2>4. ASSUME NEW e \in Event, Entered(e)' PROVE Entered(e)
    <3>1. e # n /\ e \in Commands
      BY <2>1, <2>2, <2>4 DEF Entered
    <3>2. pc[h] = "idle"
      BY <1>8 DEF CreateCommand
    <3>3. \A g \in Hosts : pc[g] \in {"lastSync", "listSync"} => pc'[g] = pc[g] /\ cur'[g] = cur[g]
      BY <1>h, <2>1, <3>2 DEF TypeOK
    <3> QED BY <2>4, <3>1, <3>3 DEF Entered
  <2> QED BY <2>1, <2>3, <2>4, KeepAccounts DEF InQueue
<1>9. ASSUME NEW h \in Hosts, CreateUserEvent(h) PROVE QueueAccounting'
  <2>1. /\ UNCHANGED <<pc, cur, count, barrier, last, pending>> /\ Commands' = Commands
        /\ created + 1 \notin Commands /\ status' = [status EXCEPT ![created + 1] = SUBMITTED]
    BY <1>9, CreateUserFacts DEF CreateUserEvent, cqVars, callVars
  <2>2. \A c \in Commands : status'[c] = status[c]
    BY <2>1 DEF TypeOK, Commands
  <2> QED BY <1>0, <2>1, <2>2, QuietAccounts
<1>10. ASSUME NEW h \in Hosts, NEW e \in Event, NEW s \in UserStatuses, SetUserEventStatus(h, e, s)
       PROVE QueueAccounting'
  <2>1. /\ UNCHANGED <<kind, count, barrier, last, pending>> /\ e \notin Commands
        /\ status' = [status EXCEPT ![e] = s]
        /\ \A g \in Hosts : pc[g] \in {"lastSync", "listSync"} => pc'[g] = pc[g] /\ cur'[g] = cur[g]
    BY <1>h, <1>10 DEF SetUserEventStatus, identVars, cqVars, Commands, CommandKinds, TypeOK, Goto
  <2>2. \A c \in Commands : status'[c] = status[c]
    BY <2>1 DEF TypeOK, Commands
  <2> QED BY <1>0, <2>1, <2>2, QuietAccounts DEF Commands
<1>11. ASSUME NEW h \in Hosts, WaitStep(h) PROVE QueueAccounting'
  <2>1. UNCHANGED <<kind, status, count, barrier, last, pending>>
    BY <1>11 DEF WaitStep, Join, WaitEvent, WaitTimeout, UserEventDone, identVars, eventVars, cqVars
  <2>2. CASE Join(h) \/ WaitEvent(h) \/ WaitTimeout(h)
    BY <1>h, <1>1, <2>1, <2>2 DEF Join, WaitEvent, WaitTimeout, TypeOK, Goto
  <2>3. CASE UserEventDone(h)
    BY <1>h, <1>1, <2>1, <2>3 DEF UserEventDone, TypeOK, WaitsForEvent
  <2> QED BY <1>11, <2>2, <2>3 DEF WaitStep
<1>12. ASSUME NEW h \in Hosts, NEW q \in Queues, CallFinish(h, q) \/ ReleaseQueue(h, q) PROVE QueueAccounting'
  BY <1>h, <1>1, <1>12 DEF CallFinish, ReleaseQueue, identVars, eventVars, cqVars, callVars, TypeOK, Goto
<1>13. ASSUME NEW h \in Hosts, NEW e \in Event, CallWait(h, e) \/ ReleaseEvent(h, e) PROVE QueueAccounting'
  BY <1>h, <1>1, <1>13 DEF CallWait, ReleaseEvent, identVars, eventVars, cqVars, callVars, TypeOK, Goto
<1>14. ASSUME NEW t \in Thread, NEW e \in Event, NEW x \in Event, NotifyFailed(t, e, x) PROVE QueueAccounting'
  BY <1>14 DEF NotifyFailed, Dispatch, NoFailure
<1>15. ASSUME NEW t \in Thread, NEW e \in Event, Relock(t, e) PROVE QueueAccounting'
  BY <1>15 DEF Relock, Dispatch, NoFailure
<1>16. CASE UNCHANGED vars
  BY <1>1, <1>16 DEF vars, identVars, eventVars, cqVars, callVars
<1> QED
  BY <1>2, <1>3, <1>4, <1>5, <1>6, <1>7, <1>8, <1>9, <1>10, <1>11, <1>12, <1>13, <1>14, <1>15, <1>16,
     AccountsEnqueue, AccountsFinish
  DEF Next, EnqueueStep, FinishStep, SetSomeUserEvent, AppStep

-----------------------------------------------------------------------------
(* Calls: what a thread works on.                                          *)

SameStage(g) ==
  \/ pc'[g] = pc[g]
  \/ Enqueuing(g) /\ Enqueuing(g)'
  \/ pc[g] \in {"join", "joinWait"} /\ pc'[g] \in {"join", "joinWait"}
  \/ pc[g] \in {"wait", "eventWait"} /\ pc'[g] \in {"wait", "eventWait"}

\* A step that is not the end or the beginning of a call of g.
LEMMA KeepHostCall ==
  ASSUME TypeOK, NEW g \in Hosts, HostCall(g), SameStage(g), cur'[g] = cur[g],
         todo'[g] \subseteq todo[g], (todo[g] \cup {cur[g]}) \cap app \subseteq app',
         \A e \in Event : phase'[g][e] # "none" => phase[g][e] # "none"
  PROVE  HostCall(g)'
BY DEF HostCall, SameStage, Enqueuing

LEMMA KeepDriverCall ==
  ASSUME NEW d \in Drivers, DriverCall(d), Commands \subseteq Commands', cur'[d] = cur[d],
         pc'[d] = pc[d] \/ {pc[d], pc'[d]} \cap {"taken", "finishing"} = {},
         \A e \in Event : phase'[d][e] # "none" => phase[d][e] # "none"
  PROVE  DriverCall(d)'
BY DEF DriverCall

HostCalls   == \A g \in Hosts : HostCall(g)
DriverCalls == \A d \in Drivers : DriverCall(d)

\* clEnqueue* and the calls that wait.
LEMMA HostCallsEnqueue ==
  ASSUME TypeOK, Dispatch, HostCalls, NEW h \in Hosts, EnqueueStep(h) \/ WaitStep(h)
  PROVE  HostCalls'
<1>h. h \in Thread /\ Hosts \subseteq Thread
  BY DEF Thread
<1>1. UNCHANGED <<app, phase>>
  BY DEF EnqueueStep, WaitStep, SyncLast, SyncListed, Enqueue, Submit, Join, WaitEvent, WaitTimeout,
     UserEventDone, appVars, finVars
<1>2. ASSUME NEW g \in Hosts, g # h PROVE HostCall(g)'
  <2>1. SameStage(g) /\ cur'[g] = cur[g] /\ todo'[g] = todo[g]
    <3>1. CASE EnqueueStep(h)
      BY <1>h, <1>2, <3>1 DEF EnqueueStep, SyncLast, SyncListed, Enqueue, Submit, SameStage, TypeOK, Goto
    <3>2. CASE Join(h) \/ WaitEvent(h) \/ WaitTimeout(h)
      BY <1>h, <1>2, <3>2 DEF Join, WaitEvent, WaitTimeout, SameStage, TypeOK, Goto
    <3>3. CASE UserEventDone(h)
      BY <1>h, <1>2, <3>3 DEF UserEventDone, WaitsForEvent, SameStage, TypeOK
    <3> QED BY <3>1, <3>2, <3>3 DEF WaitStep
  <2> QED BY <1>1, <2>1, KeepHostCall DEF HostCalls
<1>3. HostCall(h)'
  <2>0. HostCall(h)
    BY DEF HostCalls
  <2>1. CASE SyncLast(h) \/ SyncListed(h) \/ Enqueue(h)
    <3>1. SameStage(h) /\ cur'[h] = cur[h] /\ todo'[h] \subseteq todo[h]
      BY <1>h, <2>1, ZenonT(60) DEF SyncLast, SyncListed, Enqueue, SameStage, Enqueuing, TypeOK, Goto
    <3> QED BY <1>1, <2>0, <3>1, KeepHostCall
  <2>2. CASE Submit(h)
    <3>1. pc[h] = "submit" /\ pc'[h] = "idle" /\ cur'[h] = NoEvent
      BY <1>h, <2>2 DEF Submit, TypeOK, Goto
    <3> QED BY <1>1, <2>0, <3>1 DEF HostCall, Enqueuing
  <2>3. CASE Join(h)
    <3>1. pc[h] = "join" /\ pc'[h] \in {"idle", "joinWait"} /\ cur'[h] = cur[h]
      BY <1>h, <2>3 DEF Join, TypeOK, Goto
    <3> QED BY <1>1, <2>0, <3>1 DEF HostCall, Enqueuing
  <2>4. CASE WaitEvent(h)
    <3>1. /\ pc[h] = "wait"
          /\ \/ pc'[h] = "eventWait" /\ cur'[h] = cur[h]
             \/ pc'[h] = "idle" /\ cur'[h] = NoEvent
      BY <1>h, <2>4 DEF WaitEvent, TypeOK, Goto
    <3> QED BY <1>1, <2>0, <3>1 DEF HostCall, Enqueuing
  <2>5. CASE WaitTimeout(h)
    <3>1. pc[h] = "eventWait" /\ pc'[h] = "wait" /\ cur'[h] = cur[h]
      BY <1>h, <2>5 DEF WaitTimeout, TypeOK, Goto
    <3> QED BY <1>1, <2>0, <3>1 DEF HostCall, Enqueuing
  <2>6. CASE UserEventDone(h)
    <3>1. pc[h] = "userDone" /\ phase[h][cur[h]] = "none" /\ pc'[h] = "idle" /\ cur'[h] = NoEvent
      BY <1>h, <2>6 DEF UserEventDone, TypeOK
    <3> QED BY <1>1, <2>0, <3>1 DEF HostCall, Enqueuing
  <2> QED BY <2>1, <2>2, <2>3, <2>4, <2>5, <2>6 DEF EnqueueStep, WaitStep
<1> QED BY <1>2, <1>3 DEF HostCalls

\* The other application calls.
LEMMA HostCallsApp ==
  ASSUME TypeOK, Dispatch, HostCalls, NEW h \in Hosts, SetSomeUserEvent(h) \/ AppStep(h)
  PROVE  HostCalls'
<1>h. h \in Thread /\ Hosts \subseteq Thread
  BY DEF Thread
<1>0. HostCall(h)
  BY DEF HostCalls
<1>1. ASSUME NEW e \in Event, NEW s \in UserStatuses, SetUserEventStatus(h, e, s) PROVE HostCalls'
  <2>1. /\ pc[h] = "idle" /\ e \in app /\ app' = app /\ todo' = todo
        /\ \A g \in Hosts : pc'[g] = IF g = h THEN "userDone" ELSE pc[g]
        /\ \A g \in Hosts : cur'[g] = IF g = h THEN e ELSE cur[g]
        /\ \A g \in Hosts, a \in Event : phase'[g][a] = IF g = h /\ a = e THEN "broadcast" ELSE phase[g][a]
    BY <1>h, <1>1 DEF SetUserEventStatus, appVars, TypeOK, Goto
  <2>2. HostCall(h)'
    BY <1>0, <2>1 DEF HostCall, Enqueuing
  <2>3. ASSUME NEW g \in Hosts, g # h PROVE HostCall(g)'
    BY <2>1, <2>3, KeepHostCall DEF HostCalls, SameStage
  <2> QED BY <2>2, <2>3 DEF HostCalls
<1>2. CASE CreateUserEvent(h)
  <2>1. UNCHANGED <<pc, cur, todo, phase>> /\ app \subseteq app'
    BY <1>2 DEF CreateUserEvent, callVars, finVars
  <2> QED BY <2>1, KeepHostCall DEF HostCalls, SameStage
<1>3. ASSUME NEW q \in Queues, CallFinish(h, q) PROVE HostCalls'
  <2>1. /\ pc[h] = "idle" /\ UNCHANGED <<cur, phase, app>>
        /\ \A g \in Hosts : g # h => pc'[g] = pc[g] /\ todo'[g] = todo[g]
        /\ pc'[h] = "join"
    BY <1>h, <1>3 DEF CallFinish, appVars, finVars, TypeOK, Goto
  <2>2. HostCall(h)'
    BY <1>0, <2>1 DEF HostCall, Enqueuing
  <2>3. ASSUME NEW g \in Hosts, g # h PROVE HostCall(g)'
    BY <2>1, <2>3, KeepHostCall DEF HostCalls, SameStage
  <2> QED BY <2>2, <2>3 DEF HostCalls
<1>4. ASSUME NEW q \in Queues, ReleaseQueue(h, q) PROVE HostCalls'
  BY <1>4, KeepHostCall DEF ReleaseQueue, callVars, finVars, HostCalls, SameStage
<1>5. ASSUME NEW e \in Event, CallWait(h, e) PROVE HostCalls'
  <2>1. /\ pc[h] = "idle" /\ UNCHANGED <<todo, phase, app>> /\ e \in app
        /\ \A g \in Hosts : g # h => pc'[g] = pc[g] /\ cur'[g] = cur[g]
        /\ pc'[h] = "wait" /\ cur'[h] = e
    BY <1>h, <1>5 DEF CallWait, Usable, appVars, finVars, TypeOK, Goto
  <2>2. HostCall(h)'
    BY <1>0, <2>1 DEF HostCall, Enqueuing
  <2>3. ASSUME NEW g \in Hosts, g # h PROVE HostCall(g)'
    BY <2>1, <2>3, KeepHostCall DEF HostCalls, SameStage
  <2> QED BY <2>2, <2>3 DEF HostCalls
<1>6. ASSUME NEW e \in Event, ReleaseEvent(h, e) PROVE HostCalls'
  <2>1. /\ UNCHANGED <<pc, cur, todo, phase>> /\ app' = app \ {e}
        /\ \A g \in Hosts : e \notin todo[g] /\ cur[g] # e
    BY <1>6 DEF ReleaseEvent, callVars, finVars
  <2>2. ASSUME NEW g \in Hosts PROVE HostCall(g)'
    BY <2>1, KeepHostCall DEF HostCalls, SameStage
  <2> QED BY <2>2 DEF HostCalls
<1>7. ASSUME NEW q \in Queues, NEW k \in Kinds, NEW W \in SUBSET Event, NEW x \in Explicit,
             CreateCommand(h, q, k, W, x)
      PROVE  HostCalls'
  <2>0. /\ pc[h] = "idle" /\ W \subseteq app
        /\ cur' = [cur EXCEPT ![h] = created + 1] /\ todo' = [todo EXCEPT ![h] = W]
        /\ pc' = [pc EXCEPT ![h] = IF q \in InOrder THEN "lastSync" ELSE "listSync"]
    BY <1>7 DEF CreateCommand, Usable, Goto
  <2>1. /\ phase' = phase /\ app \subseteq app'
        /\ \A g \in Hosts : g # h => pc'[g] = pc[g] /\ cur'[g] = cur[g] /\ todo'[g] = todo[g]
        /\ pc'[h] \in {"lastSync", "listSync"} /\ todo'[h] = W
    BY <1>h, <1>7, <2>0 DEF CreateCommand, finVars, TypeOK
  <2>2. HostCall(h)'
    BY <1>0, <2>0, <2>1 DEF HostCall, Enqueuing
  <2>3. ASSUME NEW g \in Hosts, g # h PROVE HostCall(g)'
    BY <2>1, <2>3, KeepHostCall DEF HostCalls, SameStage
  <2> QED BY <2>2, <2>3 DEF HostCalls
<1> QED BY <1>1, <1>2, <1>3, <1>4, <1>5, <1>6, <1>7 DEF SetSomeUserEvent, AppStep

\* Driver threads wake application threads, and finish events of their own.
LEMMA HostCallsDriver ==
  ASSUME TypeOK, Dispatch, Finishers, HostCalls,
         (\E d \in Drivers : DriverStep(d)) \/ (\E t \in Thread : FinishStep(t))
  PROVE  HostCalls'
<1>h. \A h \in Hosts : h \in Thread /\ \A d \in Drivers : d # h
  BY ConstantsAssumption DEF Thread
<1>1. ASSUME \A g \in Hosts : SameStage(g) /\ cur'[g] = cur[g], UNCHANGED <<todo, app>>,
             \A g \in Hosts, a \in Event : phase'[g][a] # "none" => phase[g][a] # "none"
      PROVE  HostCalls'
  BY <1>1, KeepHostCall DEF HostCalls
<1>2. ASSUME NEW d \in Drivers, Take(d) \/ Start(d) PROVE HostCalls'
  BY <1>h, <1>1, <1>2 DEF Take, Start, SameStage, appVars, finVars, TypeOK, Goto
<1>3. ASSUME NEW t \in Thread, NEW e \in Event, Finish(t, e) PROVE HostCalls'
  BY <1>h, <1>1, <1>3 DEF Finish, WaitsForQueue, WaitsForEvent, SameStage, appVars, TypeOK
<1>4. ASSUME NEW t \in Thread, NEW e \in Event, BroadcastDone(t, e) PROVE HostCalls'
  <2>1. \A g \in Hosts, a \in Event : phase'[g][a] # "none" => phase[g][a] # "none"
    BY <1>4 DEF BroadcastDone, TypeOK
  <2> QED BY <1>1, <1>4, <2>1 DEF BroadcastDone, SameStage, callVars, appVars
<1>5. ASSUME NEW t \in Thread, NEW e \in Event, ReleaseFinished(t, e) PROVE HostCalls'
  <2>1. t \in Drivers
    BY <1>5 DEF ReleaseFinished, Finishers
  <2> QED BY <1>h, <1>1, <1>5, <2>1 DEF ReleaseFinished, SameStage, appVars, TypeOK
<1>6. ASSUME NEW t \in Thread, NEW e \in Event, NEW x \in Event, Notify(t, e, x) PROVE HostCalls'
  BY <1>1, <1>6 DEF Notify, SameStage, callVars, finVars, appVars
<1>7. ASSUME NEW t \in Thread, NEW e \in Event, Relock(t, e) \/ \E x \in Event : NotifyFailed(t, e, x) PROVE HostCalls'
  BY <1>7 DEF Relock, NotifyFailed, Dispatch, NoFailure
<1> QED BY <1>2, <1>3, <1>4, <1>5, <1>6, <1>7 DEF DriverStep, FinishStep

\* A driver thread finishes one command at a time.
LEMMA DriverCallsStep ==
  ASSUME TypeOK, Dispatch, Finishers, DriverCalls, [Next]_vars
  PROVE  DriverCalls'
<1>h. \A d \in Drivers : d \in Thread /\ \A h \in Hosts : d # h
  BY ConstantsAssumption DEF Thread
<1>k. Commands \subseteq Commands'
  BY IdentityKept DEF Commands, CommandKinds
<1>1. ASSUME UNCHANGED phase, \A d \in Drivers : pc'[d] = pc[d] /\ cur'[d] = cur[d] PROVE DriverCalls'
  BY <1>k, <1>1, KeepDriverCall DEF DriverCalls
<1>2. ASSUME NEW h \in Hosts, EnqueueStep(h) PROVE DriverCalls'
  BY <1>h, <1>1, <1>2 DEF EnqueueStep, SyncLast, SyncListed, Enqueue, Submit, finVars, TypeOK, Goto
<1>3. ASSUME NEW h \in Hosts, WaitStep(h) PROVE DriverCalls'
  <2>1. CASE Join(h) \/ WaitEvent(h) \/ WaitTimeout(h)
    BY <1>h, <1>1, <2>1 DEF Join, WaitEvent, WaitTimeout, finVars, TypeOK, Goto
  <2>2. CASE UserEventDone(h)
    <3>1. /\ UNCHANGED phase
          /\ \A d \in Drivers : /\ cur'[d] = cur[d]
                                /\ pc'[d] = pc[d] \/ (pc[d] = "eventWait" /\ pc'[d] = "wait")
      BY <1>h, <2>2 DEF UserEventDone, WaitsForEvent, finVars, TypeOK
    <3> QED BY <1>k, <3>1, KeepDriverCall DEF DriverCalls
  <2> QED BY <1>3, <2>1, <2>2 DEF WaitStep
<1>4. ASSUME NEW h \in Hosts, NEW e \in Event, NEW s \in UserStatuses, SetUserEventStatus(h, e, s) PROVE DriverCalls'
  <2>1. \A d \in Drivers : pc'[d] = pc[d] /\ cur'[d] = cur[d] /\ phase'[d] = phase[d]
    BY <1>h, <1>4 DEF SetUserEventStatus, TypeOK, Goto
  <2> QED BY <1>k, <2>1, KeepDriverCall DEF DriverCalls
<1>5. ASSUME NEW h \in Hosts, AppStep(h) PROVE DriverCalls'
  <2>1. CASE CreateUserEvent(h)
    BY <1>1, <2>1 DEF CreateUserEvent, callVars, finVars
  <2>2. ASSUME NEW q \in Queues, CallFinish(h, q) \/ ReleaseQueue(h, q) PROVE DriverCalls'
    BY <1>h, <1>1, <2>2 DEF CallFinish, ReleaseQueue, callVars, finVars, TypeOK, Goto
  <2>3. ASSUME NEW e \in Event, CallWait(h, e) \/ ReleaseEvent(h, e) PROVE DriverCalls'
    BY <1>h, <1>1, <2>3 DEF CallWait, ReleaseEvent, callVars, finVars, TypeOK, Goto
  <2>4. ASSUME NEW q \in Queues, NEW k \in Kinds, NEW W \in SUBSET Event, NEW x \in Explicit,
               CreateCommand(h, q, k, W, x)
        PROVE  DriverCalls'
    BY <1>h, <1>1, <2>4 DEF CreateCommand, finVars, TypeOK, Goto
  <2> QED BY <1>5, <2>1, <2>2, <2>3, <2>4 DEF AppStep
<1>6. ASSUME NEW d \in Drivers, DriverStep(d) PROVE DriverCalls'
  <2>0. d \in Thread /\ DriverCall(d)
    BY <1>h DEF DriverCalls
  <2>1. ASSUME NEW c \in Drivers, c # d PROVE DriverCall(c)'
    <3>1. pc'[c] = pc[c] /\ cur'[c] = cur[c] /\ phase'[c] = phase[c]
      BY <1>h, <1>6, <2>1 DEF DriverStep, Take, Start, finVars, TypeOK, Goto
    <3> QED BY <1>k, <3>1, KeepDriverCall DEF DriverCalls
  <2>2. CASE Take(d)
    <3>1. pc[d] = "idle" /\ pc'[d] = "taken" /\ phase' = phase
      BY <2>0, <2>2 DEF Take, finVars, TypeOK, Goto
    <3> QED BY <2>0, <2>1, <3>1 DEF DriverCall, DriverCalls
  <2>3. CASE Start(d)
    <3>1. /\ pc[d] = "taken" /\ pc'[d] = "finishing" /\ cur'[d] = NoEvent
          /\ cur[d] \in Commands /\ cur[d] \in Event
      BY <2>0, <2>3 DEF Start, Dispatch, InTaken, TypeOK, Goto, Commands
    <3>2. \A e \in Event : phase'[d][e] = IF e = cur[d] THEN "finish" ELSE phase[d][e]
      BY <2>0, <2>3, <3>1 DEF Start, TypeOK
    <3>3. \A e \in Event : phase[d][e] = "none"
      BY <2>0, <3>1 DEF DriverCall
    <3>4. cur[d] \in Commands'
      BY <1>k, <3>1
    <3>5. DriverCall(d)'
      BY <3>1, <3>2, <3>3, <3>4 DEF DriverCall
    <3> QED BY <2>1, <3>5 DEF DriverCalls
  <2> QED BY <1>6, <2>2, <2>3 DEF DriverStep
<1>7. ASSUME NEW t \in Thread, NEW e \in Event, Finish(t, e) PROVE DriverCalls'
  <2>1. /\ phase[t][e] = "finish" /\ cur' = cur
        /\ \A d \in Drivers, a \in Event : phase'[d][a] = IF d = t /\ a = e THEN "broadcast" ELSE phase[d][a]
        /\ \A d \in Drivers : pc'[d] = pc[d] \/ (pc[d] = "eventWait" /\ pc'[d] = "wait")
                                \/ (pc[d] = "joinWait" /\ pc'[d] = "join")
    BY <1>h, <1>7 DEF Finish, WaitsForQueue, WaitsForEvent, TypeOK
  <2> QED BY <1>k, <2>1, KeepDriverCall DEF DriverCalls
<1>8. ASSUME NEW t \in Thread, NEW e \in Event, BroadcastDone(t, e) PROVE DriverCalls'
  <2>1. /\ UNCHANGED <<pc, cur>>
        /\ \A d \in Drivers, a \in Event : phase'[d][a] # "none" => phase[d][a] # "none"
    BY <1>h, <1>8 DEF BroadcastDone, callVars, TypeOK
  <2> QED BY <1>k, <2>1, KeepDriverCall DEF DriverCalls
<1>9. ASSUME NEW t \in Thread, NEW e \in Event, ReleaseFinished(t, e) PROVE DriverCalls'
  <2>1. t \in Drivers /\ phase[t][e] = "release" /\ ~Failing(t)
    BY <1>9 DEF ReleaseFinished, Finishers, Dispatch, NoFailure, Failing
  <2>2. /\ cur' = cur
        /\ \A d \in Drivers : pc'[d] = IF d = t THEN "idle" ELSE pc[d]
        /\ \A d \in Drivers, a \in Event : phase'[d][a] = IF d = t /\ a = e THEN "none" ELSE phase[d][a]
    BY <1>h, <1>9, <2>1 DEF ReleaseFinished, TypeOK
  <2>3. ASSUME NEW c \in Drivers, c # t PROVE DriverCall(c)'
    BY <1>k, <2>2, <2>3, KeepDriverCall DEF DriverCalls
  <2>4. DriverCall(t)'
    <3>1. pc[t] = "finishing" /\ cur[t] = NoEvent /\ \A a \in Event : phase[t][a] # "none" => a = e
      BY <2>1 DEF DriverCalls, DriverCall
    <3>2. cur'[t] = NoEvent /\ \A a \in Event : phase'[t][a] = "none"
      BY <2>1, <2>2, <3>1
    <3> QED BY <3>2 DEF DriverCall
  <2> QED BY <2>3, <2>4 DEF DriverCalls
<1>10. ASSUME NEW t \in Thread, NEW e \in Event, NEW x \in Event, Notify(t, e, x) PROVE DriverCalls'
  BY <1>1, <1>10 DEF Notify, callVars, finVars
<1>11. ASSUME NEW t \in Thread, NEW e \in Event, Relock(t, e) \/ \E x \in Event : NotifyFailed(t, e, x) PROVE DriverCalls'
  BY <1>11 DEF Relock, NotifyFailed, Dispatch, NoFailure
<1>12. CASE UNCHANGED vars
  BY <1>1, <1>12 DEF vars, callVars, finVars
<1> QED
  BY <1>2, <1>3, <1>4, <1>5, <1>6, <1>7, <1>8, <1>9, <1>10, <1>11, <1>12
  DEF Next, FinishStep, SetSomeUserEvent

\* clFinish starts with the commands of the queue, and its history only shrinks.
LEMMA JoiningKept ==
  ASSUME TypeOK, [Next]_vars, NEW g \in Hosts, pc'[g] \in {"join", "joinWait"}
  PROVE  \/ pc[g] \in {"join", "joinWait"} /\ on'[g] = on[g] /\ todo'[g] = todo[g]
         \/ on'[g] \in Queues /\ todo'[g] = pending[on'[g]]
<1>h. g \in Thread /\ \A d \in Drivers : d # g
  BY ConstantsAssumption DEF Thread
<1> DEFINE P == \/ pc[g] \in {"join", "joinWait"} /\ on'[g] = on[g] /\ todo'[g] = todo[g]
                \/ on'[g] \in Queues /\ todo'[g] = pending[on'[g]]
<1>1. ASSUME NEW h \in Hosts, AppStep(h) PROVE P
  <2>1. CASE CreateUserEvent(h)
    BY <2>1 DEF CreateUserEvent, callVars
  <2>2. ASSUME NEW q \in Queues, CallFinish(h, q) PROVE P
    <3>1. CASE g = h
      BY <2>2, <3>1 DEF CallFinish, TypeOK
    <3>2. CASE g # h
      BY <1>h, <2>2, <3>2 DEF CallFinish, TypeOK, Goto
    <3> QED BY <3>1, <3>2
  <2>3. ASSUME NEW q \in Queues, ReleaseQueue(h, q) PROVE P
    BY <2>3 DEF ReleaseQueue, callVars
  <2>4. ASSUME NEW e \in Event, CallWait(h, e) \/ ReleaseEvent(h, e) PROVE P
    BY <1>h, <2>4 DEF CallWait, ReleaseEvent, callVars, TypeOK, Goto
  <2>5. ASSUME NEW q \in Queues, NEW k \in Kinds, NEW W \in SUBSET Event, NEW x \in Explicit,
               CreateCommand(h, q, k, W, x)
        PROVE  P
    BY <1>h, <2>5 DEF CreateCommand, TypeOK, Goto
  <2> QED BY <1>1, <2>1, <2>2, <2>3, <2>4, <2>5 DEF AppStep
<1>2. ASSUME NEW h \in Hosts, EnqueueStep(h) PROVE P
  BY <1>h, <1>2, ZenonT(60) DEF EnqueueStep, SyncLast, SyncListed, Enqueue, Submit, TypeOK, Goto
<1>3. ASSUME NEW h \in Hosts, WaitStep(h) PROVE P
  <2>1. CASE Join(h) \/ WaitEvent(h) \/ WaitTimeout(h)
    BY <1>h, <2>1 DEF Join, WaitEvent, WaitTimeout, TypeOK, Goto
  <2>2. CASE UserEventDone(h)
    BY <1>h, <2>2 DEF UserEventDone, TypeOK, WaitsForEvent
  <2> QED BY <1>3, <2>1, <2>2 DEF WaitStep
<1>4. ASSUME NEW h \in Hosts, SetSomeUserEvent(h) PROVE P
  BY <1>h, <1>4 DEF SetSomeUserEvent, SetUserEventStatus, TypeOK, Goto
<1>5. ASSUME NEW d \in Drivers, DriverStep(d) PROVE P
  BY <1>h, <1>5 DEF DriverStep, Take, Start, TypeOK, Goto
<1>6. ASSUME NEW t \in Thread, FinishStep(t) PROVE P
  <2>1. ASSUME NEW e \in Event, ReleaseFinished(t, e) PROVE P
    BY <1>h, <2>1 DEF ReleaseFinished, TypeOK
  <2>2. ASSUME NEW e \in Event, Finish(t, e) PROVE P
    BY <1>h, <2>2 DEF Finish, TypeOK, WaitsForQueue, WaitsForEvent
  <2>3. ASSUME UNCHANGED callVars PROVE P
    BY <2>3 DEF callVars
  <2> QED BY <1>6, <2>1, <2>2, <2>3 DEF FinishStep, Relock, BroadcastDone, Notify, NotifyFailed
<1>7. CASE UNCHANGED vars
  BY <1>7 DEF vars, callVars
<1> QED BY <1>1, <1>2, <1>3, <1>4, <1>5, <1>6, <1>7 DEF Next

LEMMA NestedKept ==
  ASSUME Dispatch, [Next]_vars
  PROVE  nested' = nested
<1>1. ASSUME NEW h \in Hosts, EnqueueStep(h) \/ WaitStep(h) \/ SetSomeUserEvent(h) PROVE nested' = nested
  BY <1>1 DEF EnqueueStep, WaitStep, SyncLast, SyncListed, Enqueue, Submit, Join, WaitEvent, WaitTimeout,
     UserEventDone, SetSomeUserEvent, SetUserEventStatus, finVars
<1>2. ASSUME NEW h \in Hosts, AppStep(h) PROVE nested' = nested
  BY <1>2 DEF AppStep, CreateUserEvent, CallFinish, ReleaseQueue, CallWait, ReleaseEvent, CreateCommand, finVars
<1>3. ASSUME NEW d \in Drivers, DriverStep(d) PROVE nested' = nested
  BY <1>3 DEF DriverStep, Take, Start, finVars
<1>4. ASSUME NEW t \in Thread, FinishStep(t) PROVE nested' = nested
  BY <1>4 DEF FinishStep, Finish, Relock, BroadcastDone, ReleaseFinished, Notify, NotifyFailed, finVars,
     Dispatch, NoFailure
<1>5. CASE UNCHANGED vars
  BY <1>5 DEF vars, finVars
<1> QED BY <1>1, <1>2, <1>3, <1>4, <1>5 DEF Next

\* A thread's work stays its own in every step.
LEMMA CallsStep ==
  ASSUME TypeOK, Dispatch, Finishers, QueueAccounting, Calls, [Next]_vars
  PROVE  Calls'
<1>1. HostCalls /\ DriverCalls
  BY DEF Calls, HostCalls, DriverCalls
<1>2. HostCalls'
  <2>1. CASE UNCHANGED vars
    BY <1>1, <2>1, KeepHostCall DEF vars, callVars, finVars, appVars, HostCalls, SameStage
  <2> QED BY <1>1, <2>1, HostCallsEnqueue, HostCallsApp, HostCallsDriver DEF Next
<1>3. DriverCalls'
  BY <1>1, DriverCallsStep
<1>4. NotNested'
  BY NestedKept DEF Calls, NotNested
<1>5. Joins'
  <2>1. ASSUME NEW h \in Hosts, pc'[h] \in {"join", "joinWait"}
        PROVE  on'[h] \in Queues /\ \A e \in todo'[h] : Entered(e)' /\ queue'[e] = on'[h]
    <3>1. on'[h] \in Queues /\ \A e \in todo'[h] : Entered(e) /\ queue[e] = on'[h]
      <4>1. CASE pc[h] \in {"join", "joinWait"} /\ on'[h] = on[h] /\ todo'[h] = todo[h]
        BY <4>1 DEF Calls, Joins
      <4>2. CASE on'[h] \in Queues /\ todo'[h] = pending[on'[h]]
        BY <4>2 DEF QueueAccounting
      <4> QED BY <2>1, <4>1, <4>2, JoiningKept
    <3>2. ASSUME NEW e \in todo'[h] PROVE Entered(e)' /\ queue'[e] = queue[e]
      BY <3>1, EnteredKept
    <3> QED BY <3>1, <3>2
  <2> QED BY <2>1 DEF Joins
<1> QED BY <1>2, <1>3, <1>4, <1>5 DEF Calls, HostCalls, DriverCalls

-----------------------------------------------------------------------------
(* References.                                                             *)

\* A step that takes and drops no reference.
LEMMA KeepReferences ==
  ASSUME References, UNCHANGED <<kind, queue, refs, app, qapp, qrefs>>,
         \A c \in Commands : InRuntime(c)' <=> InRuntime(c),
         \A e \in Event : kind[e] = "user" /\ status'[e] > COMPLETE => status[e] > COMPLETE
  PROVE  References'
<1>1. Commands' = Commands
  BY DEF Commands
<1>2. \A e \in Event : InRuntime(e)' <=> InRuntime(e)
  BY <1>1 DEF InRuntime
<1>3. RefsExact'
  BY <1>2 DEF References, RefsExact
<1>4. AppOwns'
  BY <1>1 DEF References, AppOwns
<1>5. \A q \in Queues : Live(q)' = Live(q)
  BY <1>1 DEF Live
<1>6. QueueRefs'
  BY <1>5 DEF References, QueueRefs
<1> QED BY <1>3, <1>4, <1>6 DEF References

\* The same when statuses and phases do not change.
LEMMA SameReferences ==
  ASSUME References, UNCHANGED <<kind, queue, refs, app, qapp, qrefs, status, phase>>
  PROVE  References'
<1>1. \A c \in Commands : InRuntime(c)' <=> InRuntime(c)
  BY DEF InRuntime, Commands
<1> QED BY <1>1, KeepReferences

\* The steps of a command from its submission to the end of its broadcast.
LEMMA ReferencesForward ==
  ASSUME TypeOK, Dispatch, OneFinisher, References, NEW e \in Commands, NEW v \in {QUEUED, SUBMITTED, RUNNING},
         status[e] # COMPLETE, status' = [status EXCEPT ![e] = v],
         \A t \in Thread, c \in Event : c # e => phase'[t][c] = phase[t][c],
         UNCHANGED <<kind, queue, refs, app, qapp, qrefs>>
  PROVE  References'
<1>0. e \in Event /\ kind[e] # "user"
  BY DEF Commands, CommandKinds
<1>1. \A a \in Event : status'[a] = IF a = e THEN v ELSE status[a]
  BY DEF TypeOK
<1>2. v > COMPLETE /\ status[e] > COMPLETE
  BY <1>0, StatusFacts, StatusOrder DEF Dispatch, QUEUED, SUBMITTED, RUNNING, COMPLETE
<1>3. Commands' = Commands
  BY DEF Commands
<1>4. \A c \in Commands : InRuntime(c)' <=> InRuntime(c)
  <2>1. ASSUME NEW c \in Commands PROVE InRuntime(c)' <=> InRuntime(c)
    <3>1. CASE c = e
      BY <1>0, <1>1, <1>2, <1>3, <3>1 DEF InRuntime
    <3>2. CASE c # e
      <4>1. c \in Event /\ status'[c] = status[c]
        BY <1>1, <3>2 DEF Commands
      <4> QED BY <1>3, <3>2, <4>1 DEF InRuntime
    <3> QED BY <3>1, <3>2
  <2> QED BY <2>1
<1>5. \A a \in Event : kind[a] = "user" /\ status'[a] > COMPLETE => status[a] > COMPLETE
  BY <1>0, <1>1
<1> QED BY <1>4, <1>5, KeepReferences

\* clReleaseEvent frees the event with its last reference, and a command's
\* event drops its reference to the queue then.
LEMMA DropQueueRefs ==
  ASSUME TypeOK, References, NEW e \in Event, DropRef(e), refs[e] >= 1, UNCHANGED <<kind, queue, qapp>>
  PROVE  QueueRefs'
<1>0. Commands' = Commands
  BY DEF Commands
<1>1. \A a \in Event : refs'[a] = IF a = e THEN refs[e] - 1 ELSE refs[a]
  BY DEF DropRef, TypeOK
<1>2. \A a \in Event : refs[a] \in Int
  BY DEF TypeOK
<1>3. ASSUME NEW q \in Queues
      PROVE  qrefs'[q] = (IF q \in qapp THEN 1 ELSE 0) + Cardinality(Live(q)')
  <2>1. qrefs[q] = (IF q \in qapp THEN 1 ELSE 0) + Cardinality(Live(q)) /\ qrefs[q] \in Int
    BY DEF References, QueueRefs, TypeOK
  <2>2. Live(q) \subseteq Event /\ IsFiniteSet(Live(q)) /\ Cardinality(Live(q)) \in Nat
    <3>1. Live(q) \subseteq Event
      BY DEF Live, Commands
    <3> QED BY <3>1, FiniteEvents
  <2>3. CASE refs[e] = 1 /\ queue[e] = q
    <3>1. e \in Commands /\ q # None
      BY <2>3, ConstantsAssumption DEF References, AppOwns
    <3>2. e \in Live(q)
      BY <2>3, <3>1 DEF Live
    <3>3. Live(q)' = Live(q) \ {e}
      BY <1>0, <1>1, <2>3, <3>1 DEF Live, Commands
    <3>4. qrefs'[q] = qrefs[q] - 1
      BY <2>3, <3>1 DEF DropRef, LastRef, TypeOK
    <3>5. Cardinality(Live(q) \ {e}) = Cardinality(Live(q)) - 1
      BY <2>2, <3>2, FS_RemoveElement
    <3> QED BY <2>1, <2>2, <3>3, <3>4, <3>5
  <2>4. CASE ~(refs[e] = 1 /\ queue[e] = q)
    <3>1. \A a \in Event : queue[a] = q => (refs'[a] > 0 <=> refs[a] > 0)
      BY <1>1, <1>2, <2>4
    <3>2. Live(q)' = Live(q)
      BY <1>0, <3>1 DEF Live, Commands
    <3>3. qrefs'[q] = qrefs[q]
      BY <2>4 DEF DropRef, LastRef, TypeOK
    <3> QED BY <2>1, <3>2, <3>3
  <2> QED BY <2>3, <2>4
<1> QED BY <1>3 DEF QueueRefs

\* The application's reference.
LEMMA ReferencesRelease ==
  ASSUME TypeOK, Dispatch, References, NEW h \in Hosts, NEW e \in Event, ReleaseEvent(h, e)
  PROVE  References'
<1>1. /\ UNCHANGED <<kind, queue, qapp, status, phase>> /\ app' = app \ {e} /\ e \in app /\ DropRef(e)
      /\ kind[e] = "user" => status[e] <= COMPLETE
  BY DEF ReleaseEvent, Usable, identVars, finVars
<1>2. \A a \in Event : refs'[a] = IF a = e THEN refs[e] - 1 ELSE refs[a]
  BY <1>1 DEF DropRef, TypeOK
<1>3. \A a \in Event : InRuntime(a)' <=> InRuntime(a)
  BY <1>1 DEF InRuntime, Commands
<1>4. refs[e] = 1 + (IF InRuntime(e) THEN 1 ELSE 0)
  BY <1>1 DEF References, RefsExact
<1>5. RefsExact'
  <2>1. ASSUME NEW a \in Event
        PROVE  refs'[a] = (IF a \in app' THEN 1 ELSE 0) + (IF InRuntime(a)' THEN 1 ELSE 0)
    <3>1. CASE a = e
      BY <1>1, <1>2, <1>3, <1>4, <3>1
    <3>2. CASE a # e
      BY <1>1, <1>2, <1>3, <3>2 DEF References, RefsExact
    <3> QED BY <3>1, <3>2
  <2> QED BY <2>1 DEF RefsExact
<1>6. AppOwns'
  <2>1. kind[e] = "user" => ~(status[e] > COMPLETE)
    BY <1>1, StatusFacts, StatusOrder DEF Dispatch
  <2> QED BY <1>1, <2>1 DEF References, AppOwns, Commands
<1>7. QueueRefs'
  BY <1>1, <1>4, DropQueueRefs
<1> QED BY <1>5, <1>6, <1>7 DEF References

\* The runtime's reference.
LEMMA ReferencesFinished ==
  ASSUME TypeOK, Dispatch, Finishers, DriverCalls, OneFinisher, References,
         NEW t \in Thread, NEW e \in Event, ReleaseFinished(t, e)
  PROVE  References'
<1>1. /\ UNCHANGED <<kind, queue, app, qapp, status>> /\ DropRef(e)
      /\ phase[t][e] = "release" /\ phase' = [phase EXCEPT ![t][e] = "none"]
  BY DEF ReleaseFinished, identVars, appVars
<1>2. e \in Commands /\ status[e] = COMPLETE /\ \A u \in Thread : phase[u][e] # "none" => u = t
  <2>1. t \in Drivers
    BY <1>1 DEF Finishers
  <2> QED BY <1>1, <2>1 DEF DriverCalls, DriverCall, OneFinisher
<1>3. \A u \in Thread, a \in Event : phase'[u][a] = IF u = t /\ a = e THEN "none" ELSE phase[u][a]
  BY <1>1 DEF TypeOK
<1>4. \A a \in Event : refs'[a] = IF a = e THEN refs[e] - 1 ELSE refs[a]
  BY <1>1 DEF DropRef, TypeOK
<1>5. InRuntime(e) /\ ~InRuntime(e)'
  <2>1. InRuntime(e)
    BY <1>1, <1>2 DEF InRuntime
  <2>2. ~(status'[e] > COMPLETE)
    BY <1>1, <1>2 DEF COMPLETE
  <2>3. \A u \in Thread : phase'[u][e] = "none"
    BY <1>2, <1>3
  <2> QED BY <2>1, <2>2, <2>3 DEF InRuntime
<1>6. \A a \in Event : a # e => (InRuntime(a)' <=> InRuntime(a))
  BY <1>1, <1>3 DEF InRuntime, Commands
<1>7. refs[e] = 1 + (IF e \in app THEN 1 ELSE 0)
  BY <1>5 DEF References, RefsExact
<1>8. RefsExact'
  <2>1. ASSUME NEW a \in Event
        PROVE  refs'[a] = (IF a \in app' THEN 1 ELSE 0) + (IF InRuntime(a)' THEN 1 ELSE 0)
    <3>1. CASE a = e
      BY <1>1, <1>4, <1>5, <1>7, <3>1
    <3>2. CASE a # e
      BY <1>1, <1>4, <1>6, <3>2 DEF References, RefsExact
    <3> QED BY <3>1, <3>2
  <2> QED BY <2>1 DEF RefsExact
<1>9. AppOwns'
  BY <1>1 DEF References, AppOwns, Commands
<1>10. QueueRefs'
  BY <1>1, <1>7, DropQueueRefs
<1> QED BY <1>8, <1>9, <1>10 DEF References

\* A new command has the runtime's reference and the application's if it asked
\* for one, and holds its queue.
LEMMA ReferencesCreate ==
  ASSUME TypeOK, Dispatch, References, NEW h \in Hosts, NEW q \in Queues, NEW k \in Kinds,
         NEW W \in SUBSET Event, NEW x \in Explicit, CreateCommand(h, q, k, W, x)
  PROVE  References'
<1>0. PICK n : n = created + 1
  OBVIOUS
<1>a. /\ created + 1 \in Event /\ kind[created + 1] = "none" /\ created + 1 \notin Commands
      /\ status' = status /\ status[created + 1] = QUEUED
      /\ kind' = [kind EXCEPT ![created + 1] = k] /\ Commands' = Commands \cup {created + 1}
      /\ queue' = [queue EXCEPT ![created + 1] = q]
  BY CreateFacts, ZenonT(60)
<1>1. /\ n \in Event /\ kind[n] = "none" /\ n \notin Commands /\ status' = status /\ status[n] = QUEUED
      /\ kind' = [kind EXCEPT ![n] = k] /\ Commands' = Commands \cup {n}
      /\ queue' = [queue EXCEPT ![n] = q]
  BY <1>0, <1>a
<1>2. /\ x \in BOOLEAN /\ UNCHANGED <<phase, qapp>>
      /\ refs' = [refs EXCEPT ![n] = InitialRefs(x)] /\ qrefs' = [qrefs EXCEPT ![q] = @ + 1]
      /\ app' = IF x THEN app \cup {n} ELSE app
  BY <1>0, ConstantsAssumption DEF CreateCommand, finVars
<1>3. n \notin app
  BY <1>1 DEF References, AppOwns
<1>4. \A a \in Event : refs'[a] = IF a = n THEN (IF x THEN 2 ELSE 1) ELSE refs[a]
  BY <1>2 DEF TypeOK, InitialRefs
<1>5. InRuntime(n)' /\ \A a \in Event : a # n => (InRuntime(a)' <=> InRuntime(a))
  <2>1. n \in Commands' /\ status'[n] > COMPLETE
    BY <1>1 DEF QUEUED, COMPLETE
  <2>2. \A a \in Event : a # n => (a \in Commands' <=> a \in Commands)
    BY <1>1
  <2> QED BY <1>1, <1>2, <2>1, <2>2 DEF InRuntime
<1>6. RefsExact'
  <2>1. ASSUME NEW a \in Event
        PROVE  refs'[a] = (IF a \in app' THEN 1 ELSE 0) + (IF InRuntime(a)' THEN 1 ELSE 0)
    <3>1. CASE a = n
      <4>1. CASE x
        <5>1. n \in app' /\ refs'[n] = 2
          BY <1>1, <1>2, <1>4, <4>1
        <5> QED BY <1>5, <3>1, <5>1
      <4>2. CASE ~x
        <5>1. n \notin app' /\ refs'[n] = 1
          BY <1>1, <1>2, <1>3, <1>4, <4>2
        <5> QED BY <1>5, <3>1, <5>1
      <4> QED BY <4>1, <4>2
    <3>2. CASE a # n
      BY <1>2, <1>4, <1>5, <3>2 DEF References, RefsExact
    <3> QED BY <3>1, <3>2
  <2> QED BY <2>1 DEF RefsExact
<1>7. AppOwns'
  <2>1. kind'[n] = k /\ k # "none" /\ k # "user"
    BY <1>1, ConstantsAssumption DEF TypeOK, CommandKinds
  <2>2. \A a \in Event : a # n => kind'[a] = kind[a] /\ queue'[a] = queue[a] /\ (a \in app' <=> a \in app)
    BY <1>1, <1>2 DEF TypeOK
  <2> QED BY <1>1, <2>1, <2>2 DEF References, AppOwns
<1>8. QueueRefs'
  <2>1. ASSUME NEW p \in Queues
        PROVE  qrefs'[p] = (IF p \in qapp THEN 1 ELSE 0) + Cardinality(Live(p)')
    <3>1. qrefs[p] = (IF p \in qapp THEN 1 ELSE 0) + Cardinality(Live(p)) /\ qrefs[p] \in Int
      BY DEF References, QueueRefs, TypeOK
    <3>2. Live(p) \subseteq Commands /\ IsFiniteSet(Live(p)) /\ Cardinality(Live(p)) \in Nat
      <4>1. Live(p) \subseteq Commands /\ Live(p) \subseteq Event
        BY DEF Live, Commands
      <4> QED BY <4>1, FiniteEvents
    <3>3. \A a \in Commands : a # n /\ queue'[a] = queue[a] /\ refs'[a] = refs[a]
      BY <1>1, <1>4 DEF TypeOK, Commands
    <3>4. queue'[n] = q /\ refs'[n] > 0
      BY <1>1, <1>2, <1>4 DEF TypeOK
    <3>5. CASE p = q
      <4>1. Live(p)' = Live(p) \cup {n}
        BY <1>1, <3>3, <3>4, <3>5 DEF Live
      <4>2. n \notin Live(p)
        BY <1>1, <3>2
      <4>3. Cardinality(Live(p) \cup {n}) = Cardinality(Live(p)) + 1
        BY <3>2, <4>2, FS_AddElement
      <4>4. qrefs'[p] = qrefs[p] + 1
        BY <1>2, <3>5 DEF TypeOK
      <4> QED BY <3>1, <3>2, <4>1, <4>3, <4>4
    <3>6. CASE p # q
      <4>1. Live(p)' = Live(p)
        BY <1>1, <3>3, <3>4, <3>6 DEF Live
      <4>2. qrefs'[p] = qrefs[p]
        BY <1>2, <3>6 DEF TypeOK
      <4> QED BY <3>1, <4>1, <4>2
    <3> QED BY <3>5, <3>6
  <2> QED BY <1>2, <2>1 DEF QueueRefs
<1> QED BY <1>6, <1>7, <1>8 DEF References

LEMMA ReferencesUser ==
  ASSUME TypeOK, Dispatch, References, NEW h \in Hosts, CreateUserEvent(h)
  PROVE  References'
<1> DEFINE n == created + 1
<1>1. /\ n \in Event /\ kind[n] = "none" /\ n \notin Commands
      /\ status' = [status EXCEPT ![n] = SUBMITTED]
      /\ kind' = [kind EXCEPT ![n] = "user"] /\ Commands' = Commands
  BY CreateUserFacts
<1>2. /\ UNCHANGED <<queue, phase, qapp, qrefs>>
      /\ refs' = [refs EXCEPT ![n] = 1] /\ app' = app \cup {n}
  BY DEF CreateUserEvent, finVars, cqVars
<1>3. n \notin app
  BY <1>1 DEF References, AppOwns
<1>4. \A a \in Event : a # n => status'[a] = status[a] /\ kind'[a] = kind[a] /\ refs'[a] = refs[a]
  BY <1>1, <1>2 DEF TypeOK
<1>5. kind'[n] = "user" /\ refs'[n] = 1
  BY <1>1, <1>2 DEF TypeOK
<1>6. \A a \in Event : InRuntime(a)' <=> InRuntime(a)
  BY <1>1, <1>2, <1>4 DEF InRuntime
<1>7. RefsExact'
  BY <1>1, <1>2, <1>3, <1>4, <1>5, <1>6 DEF References, RefsExact, InRuntime
<1>8. AppOwns'
  BY <1>1, <1>2, <1>4, <1>5 DEF References, AppOwns
<1>9. \A q \in Queues : Live(q)' = Live(q)
  BY <1>1, <1>2, <1>4 DEF Live, Commands
<1>10. QueueRefs'
  BY <1>2, <1>9 DEF References, QueueRefs
<1> QED BY <1>7, <1>8, <1>10 DEF References

\* The application sets a user event, which is no command.
LEMMA ReferencesSetUser ==
  ASSUME TypeOK, References, NEW h \in Hosts, NEW e \in Event, NEW s, SetUserEventStatus(h, e, s)
  PROVE  References'
<1>1. /\ kind[e] = "user" /\ status[e] > COMPLETE /\ e \notin Commands /\ h \in Thread
      /\ \A a \in Event : a # e => status'[a] = status[a] /\ \A t \in Thread : phase'[t][a] = phase[t][a]
      /\ UNCHANGED <<kind, queue, refs, app, qapp, qrefs>>
  BY DEF SetUserEventStatus, identVars, appVars, cqVars, Commands, CommandKinds, TypeOK, Thread
<1>2. \A c \in Commands : InRuntime(c)' <=> InRuntime(c)
  BY <1>1 DEF InRuntime, Commands
<1> QED BY <1>1, <1>2, KeepReferences

\* Reference counts are exact after every step.
LEMMA ReferencesStep ==
  ASSUME TypeOK, Dispatch, Finishers, DriverCalls, OneFinisher, References, NoFailures, [Next]_vars
  PROVE  References'
<1>1. ASSUME NEW h \in Hosts, EnqueueStep(h) PROVE References'
  <2>1. CASE SyncLast(h) \/ SyncListed(h)
    BY <2>1, SameReferences DEF SyncLast, SyncListed, identVars, cqVars, appVars, finVars
  <2>2. CASE Enqueue(h)
    BY <2>2, SameReferences DEF Enqueue, appVars, finVars
  <2>3. CASE Submit(h)
    <3>1. /\ cur[h] \in Commands /\ status[cur[h]] = QUEUED
          /\ status' = [status EXCEPT ![cur[h]] = IF waits[cur[h]] = {} THEN SUBMITTED ELSE QUEUED]
          /\ UNCHANGED <<kind, queue, refs, app, qapp, qrefs, phase>>
      BY <2>3 DEF Submit, TypeOK, Enqueuing, Dispatch, Untouched, identVars, cqVars, appVars, finVars
    <3>2. status[cur[h]] # COMPLETE
      BY <3>1 DEF QUEUED, COMPLETE
    <3>3. PICK v \in {QUEUED, SUBMITTED, RUNNING} : status' = [status EXCEPT ![cur[h]] = v]
      BY <3>1
    <3>4. \A t \in Thread, c \in Event : c # cur[h] => phase'[t][c] = phase[t][c]
      BY <3>1
    <3> QED BY <3>1, <3>2, <3>3, <3>4, ReferencesForward
  <2> QED BY <1>1, <2>1, <2>2, <2>3 DEF EnqueueStep
<1>2. ASSUME NEW h \in Hosts, WaitStep(h) PROVE References'
  BY <1>2, SameReferences DEF WaitStep, Join, WaitEvent, WaitTimeout, UserEventDone, identVars, eventVars,
     cqVars, appVars, finVars
<1>3. ASSUME NEW h \in Hosts, NEW q \in Queues, CallFinish(h, q) PROVE References'
  BY <1>3, SameReferences DEF CallFinish, identVars, eventVars, cqVars, appVars, finVars
<1>4. ASSUME NEW h \in Hosts, NEW q \in Queues, ReleaseQueue(h, q) PROVE References'
  <2>1. /\ UNCHANGED <<kind, queue, refs, status, phase, app>> /\ q \in qapp
        /\ qapp' = qapp \ {q} /\ qrefs' = [qrefs EXCEPT ![q] = @ - 1]
    BY <1>4 DEF ReleaseQueue, identVars, eventVars, finVars
  <2>2. Commands' = Commands
    BY <2>1 DEF Commands
  <2>3. RefsExact' /\ AppOwns'
    BY <2>1, <2>2 DEF References, RefsExact, AppOwns, InRuntime
  <2>4. \A p \in Queues : Live(p)' = Live(p)
    BY <2>1, <2>2 DEF Live
  <2>5. ASSUME NEW p \in Queues
        PROVE  qrefs'[p] = (IF p \in qapp' THEN 1 ELSE 0) + Cardinality(Live(p))
    <3>1. qrefs[p] = (IF p \in qapp THEN 1 ELSE 0) + Cardinality(Live(p)) /\ qrefs[p] \in Int
      BY DEF References, QueueRefs, TypeOK
    <3>2. Cardinality(Live(p)) \in Nat
      <4>1. Live(p) \subseteq Event
        BY DEF Live, Commands
      <4> QED BY <4>1, FiniteEvents
    <3>3. qrefs'[p] = (IF p = q THEN qrefs[p] - 1 ELSE qrefs[p])
      BY <2>1 DEF TypeOK
    <3> QED BY <2>1, <3>1, <3>2, <3>3
  <2> QED BY <2>3, <2>4, <2>5 DEF References, QueueRefs
<1>5. ASSUME NEW h \in Hosts, NEW e \in Event, CallWait(h, e) PROVE References'
  BY <1>5, SameReferences DEF CallWait, identVars, eventVars, cqVars, appVars, finVars
<1>6. ASSUME NEW d \in Drivers, DriverStep(d) PROVE References'
  <2>1. CASE Take(d)
    BY <2>1, SameReferences DEF Take, identVars, eventVars, cqVars, appVars, finVars
  <2>2. CASE Start(d)
    <3>1. /\ cur[d] \in Commands /\ status[cur[d]] = SUBMITTED
          /\ status' = [status EXCEPT ![cur[d]] = RUNNING]
          /\ \A t \in Thread, c \in Event : c # cur[d] => phase'[t][c] = phase[t][c]
          /\ UNCHANGED <<kind, queue, refs, app, qapp, qrefs>>
      BY <2>2 DEF Start, TypeOK, Dispatch, InTaken, identVars, cqVars, appVars
    <3>2. status[cur[d]] # COMPLETE
      BY <3>1 DEF SUBMITTED, COMPLETE
    <3> QED BY <3>1, <3>2, ReferencesForward
  <2> QED BY <1>6, <2>1, <2>2 DEF DriverStep
<1>7. ASSUME NEW t \in Thread, NEW e \in Event, Finish(t, e) PROVE References'
  <2>1. /\ phase[t][e] = "finish" /\ e \in Commands /\ kind[e] # "user"
        /\ phase' = [phase EXCEPT ![t][e] = "broadcast"]
        /\ \A a \in Event : a # e => status'[a] = status[a]
        /\ UNCHANGED <<kind, queue, refs, app, qapp, qrefs>>
    BY <1>7 DEF Finish, Dispatch, InFinish, Commands, CommandKinds, identVars, appVars, TypeOK
  <2>2. \A u \in Thread, a \in Event : phase'[u][a] = IF u = t /\ a = e THEN "broadcast" ELSE phase[u][a]
    BY <2>1 DEF TypeOK
  <2>3. \A c \in Commands : InRuntime(c)' <=> InRuntime(c)
    BY <2>1, <2>2 DEF InRuntime, Commands
  <2> QED BY <2>1, <2>3, KeepReferences
<1>8. ASSUME NEW t \in Thread, NEW e \in Event, BroadcastDone(t, e) PROVE References'
  <2>1. /\ phase[t][e] = "broadcast"
        /\ phase' = [phase EXCEPT ![t][e] = IF kind[e] = "user" THEN "none" ELSE "release"]
        /\ UNCHANGED <<kind, queue, refs, app, qapp, qrefs, status>>
    BY <1>8 DEF BroadcastDone, identVars, eventVars, cqVars, appVars
  <2>2. \A u \in Thread, a \in Event :
          phase'[u][a] = IF u = t /\ a = e THEN (IF kind[e] = "user" THEN "none" ELSE "release") ELSE phase[u][a]
    BY <2>1 DEF TypeOK
  <2>3. \A u \in Thread, c \in Commands : phase'[u][c] # "none" <=> phase[u][c] # "none"
    BY <2>1, <2>2 DEF Commands, CommandKinds
  <2>4. \A c \in Commands : InRuntime(c)' <=> InRuntime(c)
    BY <2>1, <2>3 DEF InRuntime, Commands
  <2> QED BY <2>1, <2>4, KeepReferences
<1>9. ASSUME NEW t \in Thread, NEW e \in Event, NEW x \in Event, Notify(t, e, x) PROVE References'
  <2>1. /\ UNCHANGED <<kind, queue, refs, app, qapp, qrefs, phase>>
        /\ status' = IF Dispatchable(x, e) THEN [status EXCEPT ![x] = SUBMITTED] ELSE status
    BY <1>9 DEF Notify, identVars, cqVars, appVars, finVars
  <2>2. CASE Dispatchable(x, e)
    <3>1. x \in Commands /\ status[x] = QUEUED
      BY <2>2 DEF Dispatchable, Dispatch, Untouched
    <3>2. status[x] # COMPLETE /\ status' = [status EXCEPT ![x] = SUBMITTED]
      BY <2>1, <2>2, <3>1 DEF QUEUED, COMPLETE
    <3>3. \A u \in Thread, c \in Event : c # x => phase'[u][c] = phase[u][c]
      BY <2>1
    <3> QED BY <2>1, <3>1, <3>2, <3>3, ReferencesForward
  <2>3. CASE ~Dispatchable(x, e)
    BY <2>1, <2>3, SameReferences
  <2> QED BY <2>2, <2>3
<1>10. ASSUME NEW t \in Thread, NEW e \in Event, Relock(t, e) \/ \E x \in Event : NotifyFailed(t, e, x) PROVE References'
  BY <1>10 DEF Relock, NotifyFailed, Dispatch, NoFailure
<1>11. CASE UNCHANGED vars
  BY <1>11, SameReferences DEF vars, identVars, eventVars, cqVars, appVars, finVars
<1> QED
  BY <1>1, <1>2, <1>3, <1>4, <1>5, <1>6, <1>7, <1>8, <1>9, <1>10, <1>11, ReferencesRelease,
     ReferencesFinished, ReferencesCreate, ReferencesUser, ReferencesSetUser
  DEF Next, FinishStep, SetSomeUserEvent, AppStep

-----------------------------------------------------------------------------
(* SafeInv and the properties that follow from it.                         *)

LEMMA InitSafe ==
  ASSUME Init
  PROVE  SafeInv
<1>1. TypeOK /\ Dispatch /\ Finishers
  BY InitInvariant DEF IInv
<1>2. Commands = {} /\ app = {} /\ work = <<>>
  BY DEF Init, Commands, CommandKinds
<1>3. Placed /\ OneFinisher
  BY <1>2 DEF Init, Placed, OneFinisher
<1>4. Mirrored
  BY DEF Init, Mirrored
<1>5. NoLostWakeup
  BY DEF Init, NoLostWakeup
<1>6. Calls
  <2>1. ASSUME NEW t \in Thread, NEW e \in Event
        PROVE  phase[t][e] = "none" /\ nested[t][e] = NoEvent
    BY <2>1 DEF Init
  <2>2. \A t \in Thread : pc[t] = "idle" /\ cur[t] = NoEvent
    BY DEF Init
  <2> QED BY <2>1, <2>2 DEF Calls, HostCall, DriverCall, NotNested, Joins, Enqueuing, Thread
<1>7. QueueAccounting
  <2>1. ASSUME NEW q \in Queues
        PROVE  /\ pending[q] = {} /\ count[q] = 0 /\ barrier[q] = NoEvent /\ last[q] = NoEvent
    BY DEF Init
  <2>2. \A q \in Queues : {e \in Event : Entered(e) /\ queue[e] = q /\ status[e] > COMPLETE} = {}
    BY <1>2 DEF Entered
  <2> QED BY <2>1, <2>2, FS_EmptySet DEF QueueAccounting
<1>8. References
  <2>1. \A e \in Event : refs[e] = 0 /\ queue[e] = None /\ kind[e] = "none" /\ ~InRuntime(e)
    BY <1>2 DEF Init, InRuntime
  <2>2. \A q \in Queues : Live(q) = {} /\ qrefs[q] = 1 /\ q \in qapp
    BY <1>2 DEF Init, Live
  <2>3. RefsExact
    BY <1>2, <2>1 DEF RefsExact
  <2>4. AppOwns
    BY <1>2, <2>1 DEF AppOwns
  <2>5. QueueRefs
    BY <2>2, FS_EmptySet DEF QueueRefs
  <2> QED BY <2>3, <2>4, <2>5 DEF References
<1> QED BY <1>1, <1>3, <1>4, <1>5, <1>6, <1>7, <1>8 DEF SafeInv

LEMMA SafeStep ==
  ASSUME SafeInv, NoFailures, [Next]_vars
  PROVE  SafeInv'
<1>1. /\ TypeOK /\ Dispatch /\ Finishers /\ Placed /\ OneFinisher /\ Wakeups /\ Calls /\ HostCalls
      /\ DriverCalls /\ QueueAccounting /\ References
  BY DEF SafeInv, Wakeups, Calls, HostCalls, DriverCalls
<1>2. TypeOK' /\ Dispatch' /\ Finishers'
  BY <1>1, TypeStep, DispatchStep, FinishersStep
<1>3. Single'
  BY <1>1, SingleStep DEF Single
<1>4. Wakeups'
  <2>1. \A e \in app : kind[e] # "none"
    BY <1>1 DEF References, AppOwns, TypeOK
  <2>2. \A h \in Hosts : Enqueuing(h) => todo[h] \subseteq app
    BY <1>1 DEF HostCalls, HostCall
  <2>3. \A q \in Queues : pending[q] \cup {barrier[q], last[q]} \subseteq Commands \cup {NoEvent}
    <3>1. ASSUME NEW q \in Queues PROVE pending[q] \subseteq Commands
      BY <1>1 DEF QueueAccounting, Entered
    <3> QED BY <1>1, <3>1 DEF QueueAccounting
  <2> QED BY <1>1, <2>1, <2>2, <2>3, WakeupsStep
<1>5. Calls'
  BY <1>1, CallsStep
<1>6. QueueAccounting'
  BY <1>1, AccountsStep
<1>7. References'
  BY <1>1, ReferencesStep
<1> QED BY <1>2, <1>3, <1>4, <1>5, <1>6, <1>7 DEF SafeInv, Single, Wakeups

\* The runtime's lists and counts stay right for every application that fails
\* no user event (pocl_create_command up to clReleaseEvent).
THEOREM SafeInvariance == NoFailures => (Spec => []SafeInv)
<1> SUFFICES ASSUME NoFailures PROVE Spec => []SafeInv
  OBVIOUS
<1>1. Init => SafeInv
  BY InitSafe
<1>2. SafeInv /\ [Next]_vars => SafeInv'
  BY SafeStep
<1> QED BY <1>1, <1>2, PTL DEF Spec

\* No wake-up is lost while nothing fails: an event somebody waits for knows
\* who, and a submitted command that is still queued waits for something
\* (pocl_create_event_sync against pocl_broadcast).
THEOREM NoWakeupLost == NoFailures => (Spec => []NoLostWakeup)
<1>1. SafeInv => NoLostWakeup
  BY DEF SafeInv
<1> QED BY <1>1, SafeInvariance, PTL

\* command_count and cq->events agree with the commands enqueued and not yet
\* finished, and cq->barrier and cq->last_event point into the list.
THEOREM QueueAccountsRight == NoFailures => (Spec => []QueueAccounting)
<1>1. SafeInv => QueueAccounting
  BY DEF SafeInv
<1> QED BY <1>1, SafeInvariance, PTL

\* What a pointer or a call is about is a command, or the application's.
LEMMA LiveEvents ==
  ASSUME SafeInv, NEW e \in Event
  PROVE  /\ e \in app \/ InRuntime(e) => refs[e] > 0
         /\ refs[e] = 0 => e \notin app /\ ~InRuntime(e)
BY DEF SafeInv, References, RefsExact

\* Waiting events are commands, and what they wait for has not finished.
LEMMA WaitingLive ==
  ASSUME SafeInv, NEW e \in Event, NEW n \in Event, n \in waits[e] \/ e \in notify[n]
  PROVE  /\ refs[e] > 0 /\ refs[n] > 0
<1>1. n \in waits[e]
  BY DEF SafeInv, Mirrored
<1>2. e \in Commands /\ status[e] = QUEUED /\ kind[n] # "none"
  BY <1>1 DEF SafeInv, Mirrored
<1>3. InRuntime(e)
  BY <1>2 DEF InRuntime, QUEUED, COMPLETE
<1>4. status[n] > COMPLETE \/ \E t \in Thread : phase[t][n] # "none"
  BY <1>1 DEF SafeInv, NoLostWakeup
<1>5. CASE n \in Commands
  <2>1. InRuntime(n)
    BY <1>4, <1>5 DEF InRuntime
  <2> QED BY <1>3, <2>1, LiveEvents
<1>6. CASE n \notin Commands
  <2>1. kind[n] = "user"
    BY <1>2, <1>6 DEF SafeInv, Commands, TypeOK
  <2>2. CASE status[n] > COMPLETE
    <3>1. n \in app
      BY <2>1, <2>2 DEF SafeInv, References, AppOwns
    <3> QED BY <1>3, <3>1, LiveEvents
  <2>3. ASSUME NEW t \in Thread, phase[t][n] # "none" PROVE n \in app
    <3>1. t \in Hosts
      BY <1>6, <2>3 DEF SafeInv, Calls, DriverCall, Thread
    <3> QED BY <2>3, <3>1 DEF SafeInv, Calls, HostCall
  <2> QED BY <1>3, <1>4, <2>2, <2>3, LiveEvents
<1> QED BY <1>5, <1>6

\* Unfinished commands of a queue are held by the runtime.
LEMMA PendingLive ==
  ASSUME SafeInv, NEW q \in Queues, NEW e \in Event, e \in pending[q] \cup {barrier[q], last[q]}
  PROVE  refs[e] > 0
<1>1. e \in pending[q]
  BY DEF SafeInv, QueueAccounting, NoEvent, Event
<1>2. e \in Commands /\ status[e] > COMPLETE
  BY <1>1 DEF SafeInv, QueueAccounting, Entered
<1> QED BY <1>2, LiveEvents DEF InRuntime

\* Whatever a thread works on is held by the runtime or the application.
LEMMA ThreadLive ==
  ASSUME SafeInv, NEW t \in Thread, NEW e \in Event,
         cur[t] = e \/ phase[t][e] # "none" \/ e \in {nested[t][b] : b \in Event}
  PROVE  refs[e] > 0
<1>e. e # NoEvent
  BY DEF Event, NoEvent
<1>1. e \notin {nested[t][b] : b \in Event}
  BY <1>e DEF SafeInv, Calls, NotNested
<1>2. CASE t \in Hosts
  <2>1. CASE cur[t] = e
    <3>1. Enqueuing(t) \/ e \in app
      BY <1>2, <1>e, <2>1 DEF SafeInv, Calls, HostCall, TypeOK, Enqueuing
    <3>2. ASSUME Enqueuing(t) PROVE InRuntime(e)
      <4>1. e \in Commands /\ status[e] = QUEUED
        BY <1>2, <2>1, <3>2 DEF SafeInv, TypeOK, Dispatch, Untouched
      <4> QED BY <4>1 DEF InRuntime, QUEUED, COMPLETE
    <3> QED BY <3>1, <3>2, LiveEvents
  <2>2. CASE phase[t][e] # "none"
    <3>1. e \in app
      BY <1>2, <2>2 DEF SafeInv, Calls, HostCall
    <3> QED BY <3>1, LiveEvents
  <2> QED BY <1>1, <2>1, <2>2
<1>3. CASE t \in Drivers
  <2>1. CASE cur[t] = e
    <3>1. pc[t] = "taken"
      BY <1>3, <1>e, <2>1 DEF SafeInv, Calls, DriverCall
    <3>2. e \in Commands /\ status[e] = SUBMITTED
      BY <1>3, <2>1, <3>1 DEF SafeInv, Dispatch, InTaken
    <3>3. InRuntime(e)
      BY <3>2 DEF InRuntime, SUBMITTED, COMPLETE
    <3> QED BY <3>3, LiveEvents
  <2>2. CASE phase[t][e] # "none"
    <3>1. e \in Commands
      BY <1>3, <2>2 DEF SafeInv, Calls, DriverCall
    <3>2. InRuntime(e)
      BY <2>2, <3>1 DEF InRuntime
    <3> QED BY <3>2, LiveEvents
  <2> QED BY <1>1, <2>1, <2>2
<1> QED BY <1>2, <1>3 DEF Thread

\* A queue that is freed has no command left.
LEMMA QueuesLive ==
  ASSUME SafeInv
  PROVE  /\ \A e \in Commands : refs[e] > 0 => qrefs[queue[e]] > 0
         /\ \A q \in Queues : qrefs[q] = 0 => count[q] = 0
<1>1. \A q \in Queues : IsFiniteSet(Live(q)) /\ Cardinality(Live(q)) \in Nat
  <2>1. \A q \in Queues : Live(q) \subseteq Event
    BY DEF Live, Commands
  <2> QED BY <2>1, FiniteEvents
<1>2. ASSUME NEW q \in Queues, NEW e \in Live(q) PROVE qrefs[q] > 0
  <2>1. Cardinality(Live(q)) # 0
    BY <1>1, FS_EmptySet
  <2> QED BY <1>1, <2>1 DEF SafeInv, References, QueueRefs
<1>3. ASSUME NEW e \in Commands, refs[e] > 0 PROVE qrefs[queue[e]] > 0
  <2>1. queue[e] \in Queues /\ e \in Live(queue[e])
    BY <1>3 DEF SafeInv, TypeOK, Live
  <2> QED BY <1>2, <2>1
<1>4. ASSUME NEW q \in Queues, qrefs[q] = 0 PROVE count[q] = 0
  <2>1. \A e \in pending[q] : e \in Event /\ e \in Commands /\ queue[e] = q
    BY DEF SafeInv, QueueAccounting, Entered
  <2>2. \A e \in pending[q] : e \in Live(q)
    BY <2>1, PendingLive DEF Live
  <2>3. pending[q] = {}
    BY <1>2, <1>4, <2>2
  <2> QED BY <2>3, FS_EmptySet DEF SafeInv, QueueAccounting
<1> QED BY <1>3, <1>4

\* Queued, waiting, notified and finishing events hold a reference, and so do
\* their queues (pocl_create_command and clReleaseEvent), while nothing fails.
THEOREM PointersLive == NoFailures => (Spec => []LivePointers)
<1>1. ASSUME SafeInv PROVE LivePointers
  <2>1. ASSUME NEW e \in Event, NEW h \in Hosts, e \in todo[h], pc[h] = "listSync" PROVE refs[e] > 0
    <3>1. e \in app
      BY <1>1, <2>1 DEF SafeInv, Calls, HostCall, Enqueuing
    <3> QED BY <1>1, <3>1, LiveEvents
  <2>2. ASSUME NEW e \in Event, NEW i \in DOMAIN work, work[i] = e PROVE refs[e] > 0
    <3>1. DOMAIN work = 1..Len(work)
      BY <1>1 DEF SafeInv, TypeOK
    <3>2. e \in Commands /\ status[e] = SUBMITTED
      BY <1>1, <2>2, <3>1 DEF SafeInv, Dispatch, InWork
    <3>3. InRuntime(e)
      BY <3>2 DEF InRuntime, SUBMITTED, COMPLETE
    <3> QED BY <1>1, <3>3, LiveEvents
  <2> QED BY <1>1, <2>1, <2>2, PendingLive, WaitingLive, ThreadLive, QueuesLive DEF LivePointers
<1> QED BY <1>1, SafeInvariance, PTL

\* An event that is freed is in nobody's list and its own lists are empty, so
\* that the recycled event starts clean (pocl_mem_manager_new_event).
THEOREM FreedEventsClean == NoFailures => (Spec => []FreedClean)
<1>1. ASSUME SafeInv PROVE FreedClean
  <2>1. ASSUME NEW e \in 1..created, refs[e] = 0
        PROVE  /\ waits[e] = {} /\ notify[e] = {}
               /\ \A n \in Event : e \notin waits[n] \cup notify[n]
    <3>1. e \in Event /\ waits[e] \subseteq Event /\ notify[e] \subseteq Event
      BY <1>1, ConstantsAssumption DEF SafeInv, TypeOK, Event
    <3>2. ASSUME NEW n \in Event PROVE n \notin waits[e] /\ n \notin notify[e] /\ e \notin waits[n] /\ e \notin notify[n]
      BY <1>1, <2>1, <3>1, WaitingLive
    <3> QED BY <3>1, <3>2
  <2> QED BY <2>1 DEF FreedClean
<1> QED BY <1>1, SafeInvariance, PTL

\* Only an empty queue lets clFinish return.
LEMMA JoinReturns ==
  ASSUME TypeOK, [Next]_vars, NEW h \in Hosts, pc[h] = "join", pc'[h] = "idle",
         \A e \in Event : phase[h][e] = "none"
  PROVE  count[on[h]] = 0
<1>h. h \in Thread /\ \A d \in Drivers : d # h
  BY ConstantsAssumption DEF Thread
<1>1. ASSUME pc'[h] = "join" PROVE FALSE
  BY <1>1
<1>2. ASSUME NEW g \in Hosts, EnqueueStep(g) PROVE FALSE
  BY <1>h, <1>2 DEF EnqueueStep, SyncLast, SyncListed, Enqueue, Submit, TypeOK, Goto
<1>3. ASSUME NEW g \in Hosts, SetSomeUserEvent(g) PROVE FALSE
  BY <1>h, <1>3 DEF SetSomeUserEvent, SetUserEventStatus, TypeOK, Goto
<1>4. ASSUME NEW g \in Hosts, AppStep(g) PROVE FALSE
  <2>1. CASE CreateUserEvent(g)
    BY <2>1 DEF CreateUserEvent, callVars
  <2>2. ASSUME NEW q \in Queues, CallFinish(g, q) \/ ReleaseQueue(g, q) PROVE FALSE
    BY <1>h, <2>2 DEF CallFinish, ReleaseQueue, callVars, TypeOK, Goto
  <2>3. ASSUME NEW e \in Event, CallWait(g, e) \/ ReleaseEvent(g, e) PROVE FALSE
    BY <1>h, <2>3 DEF CallWait, ReleaseEvent, callVars, TypeOK, Goto
  <2>4. ASSUME NEW q \in Queues, NEW k \in Kinds, NEW W \in SUBSET Event, NEW x \in Explicit,
               CreateCommand(g, q, k, W, x)
        PROVE  FALSE
    BY <1>h, <2>4 DEF CreateCommand, TypeOK, Goto
  <2> QED BY <1>4, <2>1, <2>2, <2>3, <2>4 DEF AppStep
<1>5. ASSUME NEW d \in Drivers, DriverStep(d) PROVE FALSE
  BY <1>h, <1>5 DEF DriverStep, Take, Start, TypeOK, Goto
<1>6. ASSUME NEW t \in Thread, FinishStep(t) PROVE FALSE
  <2>1. ASSUME NEW e \in Event, ReleaseFinished(t, e) PROVE FALSE
    <3>1. t # h
      BY <2>1 DEF ReleaseFinished
    <3> QED BY <1>h, <2>1, <3>1 DEF ReleaseFinished, TypeOK
  <2>2. ASSUME NEW e \in Event, Finish(t, e) PROVE FALSE
    BY <1>h, <2>2 DEF Finish, TypeOK, WaitsForQueue, WaitsForEvent
  <2>3. ASSUME UNCHANGED callVars PROVE FALSE
    BY <2>3 DEF callVars
  <2> QED BY <1>6, <2>1, <2>2, <2>3 DEF FinishStep, Relock, BroadcastDone, Notify, NotifyFailed
<1>7. ASSUME NEW g \in Hosts, WaitStep(g) PROVE count[on[h]] = 0
  <2>1. CASE Join(g)
    <3>1. g = h
      BY <1>h, <2>1 DEF Join, TypeOK, Goto
    <3> QED BY <1>h, <2>1, <3>1 DEF Join, QueueIdle, TypeOK, Goto
  <2>2. CASE WaitEvent(g) \/ WaitTimeout(g)
    BY <1>h, <2>2 DEF WaitEvent, WaitTimeout, TypeOK, Goto
  <2>3. CASE UserEventDone(g)
    BY <1>h, <2>3 DEF UserEventDone, TypeOK, WaitsForEvent
  <2> QED BY <1>7, <2>1, <2>2, <2>3 DEF WaitStep
<1>8. CASE UNCHANGED vars
  BY <1>8 DEF vars, callVars
<1> QED BY <1>2, <1>3, <1>4, <1>5, <1>6, <1>7, <1>8 DEF Next

\* clFinish returns only after every command enqueued before the call has
\* finished (pocl_pthread_join against pocl_update_event_finished), as long as
\* nothing fails.
THEOREM FinishIsSound == NoFailures => (Spec => FinishSound)
<1>1. ASSUME SafeInv, [Next]_vars, NEW h \in Hosts, pc[h] = "join", pc'[h] = "idle", NEW e \in todo[h]
      PROVE  status[e] <= COMPLETE
  <2>0. /\ TypeOK /\ QueueAccounting /\ Joins
        /\ h \in Thread /\ \A a \in Event : phase[h][a] # "none" => pc[h] = "userDone"
    BY <1>1 DEF SafeInv, Calls, HostCall, Thread
  <2>1. PICK q \in Queues : q = on[h] /\ Entered(e) /\ queue[e] = q /\ e \in Event
    BY <1>1, <2>0 DEF Joins, Entered, Commands
  <2>2. count[q] = 0
    BY <1>1, <2>0, <2>1, JoinReturns
  <2>3. /\ pending[q] = {a \in Event : Entered(a) /\ queue[a] = q /\ status[a] > COMPLETE}
        /\ Cardinality(pending[q]) = 0
    BY <2>0, <2>2 DEF QueueAccounting
  <2>4. pending[q] = {}
    <3>1. pending[q] \subseteq Event
      BY <2>3
    <3>2. IsFiniteSet(pending[q])
      BY <3>1, FiniteEvents
    <3> QED BY <2>3, <3>2, FS_EmptySet
  <2>5. ~(status[e] > COMPLETE)
    BY <2>1, <2>3, <2>4
  <2>6. status[e] \in FAILED..QUEUED
    BY <2>0, <2>1 DEF TypeOK
  <2> QED BY <2>5, <2>6 DEF FAILED, QUEUED, COMPLETE
<1>2. SafeInv /\ [Next]_vars =>
        (\A h \in Hosts : pc[h] = "join" /\ pc'[h] = "idle" => \A e \in todo[h] : status[e] <= COMPLETE)
  BY <1>1
<1> QED BY <1>2, SafeInvariance, PTL DEF Spec, FinishSound

\* A dispatched command is held once.
LEMMA HoldersFacts ==
  ASSUME SafeInv, NEW e \in Commands
  PROVE  /\ \A x, y \in Holders(e) : x = y
         /\ status[e] \in {SUBMITTED, RUNNING} => Holders(e) # {}
<1> DEFINE W == {<<"work", i>> : i \in {j \in DOMAIN work : work[j] = e}}
           T == {<<"taken", t>> : t \in {d \in Drivers : pc[d] = "taken" /\ cur[d] = e}}
           P == {<<"phase", t>> : t \in {x \in Thread : phase[x][e] # "none"}}
<1>0. Holders(e) = W \cup T \cup P /\ e \in Event
  BY DEF Holders, Commands
<1>d. DOMAIN work = 1..Len(work)
  BY DEF SafeInv, TypeOK
<1>1. \A x \in W : status[e] = SUBMITTED /\ \A y \in W : x = y
  BY <1>d DEF SafeInv, Dispatch, InWork
<1>2. \A x \in T : /\ status[e] = SUBMITTED /\ \A y \in T : x = y
                   /\ W = {}
  BY <1>d DEF SafeInv, Dispatch, InTaken
<1>3. \A x \in P : status[e] \in {RUNNING, COMPLETE} /\ \A y \in P : x = y
  BY <1>0 DEF SafeInv, OneFinisher, Dispatch, InFinish
<1>4. \A x, y \in Holders(e) : x = y
  <2>1. SUBMITTED \notin {RUNNING, COMPLETE}
    BY DEF SUBMITTED, RUNNING, COMPLETE
  <2> HIDE DEF W, T, P
  <2> QED BY <1>0, <1>1, <1>2, <1>3, <2>1
<1>5. status[e] = SUBMITTED => Holders(e) # {}
  <2>1. ASSUME NEW i \in 1..Len(work), work[i] = e PROVE Holders(e) # {}
    BY <1>0, <1>d, <2>1
  <2>2. ASSUME NEW d \in Drivers, pc[d] = "taken", cur[d] = e PROVE Holders(e) # {}
    BY <1>0, <2>2
  <2> QED BY <2>1, <2>2 DEF SafeInv, Placed
<1>6. status[e] = RUNNING => Holders(e) # {}
  <2>1. ASSUME NEW t \in Thread, phase[t][e] = "finish" PROVE Holders(e) # {}
    BY <1>0, <2>1
  <2> QED BY <2>1 DEF SafeInv, Placed
<1> QED BY <1>4, <1>5, <1>6

\* A command is once in the work queue or in the hands of one thread, and
\* finishes once (pocl_pthread_submit, pocl_pthread_notify and
\* pocl_update_event_finished), while nothing fails.
THEOREM CommandsDispatchedOnce == NoFailures => (Spec => []DispatchedOnce)
<1>1. ASSUME SafeInv PROVE DispatchedOnce
  <2>1. ASSUME NEW e \in Commands
        PROVE  /\ Cardinality(Holders(e)) <= 1
               /\ status[e] \in {SUBMITTED, RUNNING} => Cardinality(Holders(e)) = 1
    <3>1. CASE Holders(e) = {}
      BY <1>1, <3>1, HoldersFacts, FS_EmptySet
    <3>2. ASSUME NEW x \in Holders(e) PROVE Cardinality(Holders(e)) = 1
      <4>1. Holders(e) = {x}
        BY <1>1, HoldersFacts
      <4> QED BY <4>1, FS_Singleton
    <3> QED BY <3>1, <3>2
  <2>2. ASSUME NEW e \in Commands, NEW t \in Thread, phase[t][e] = "finish" PROVE status[e] > COMPLETE
    BY <1>1, <2>2 DEF SafeInv, Dispatch, InFinish, Commands, RUNNING, COMPLETE
  <2> QED BY <2>1, <2>2 DEF DispatchedOnce
<1> QED BY <1>1, SafeInvariance, PTL

-----------------------------------------------------------------------------
(* The refinement of TaskGraph.                                            *)

\* An event's task, while nothing fails.
LEMMA TaskFacts ==
  ASSUME TypeOK, NoFailure, NEW e \in Event
  PROVE  /\ kind[e] = "none" <=> TaskOf(e) = "none"
         /\ kind[e] # "none" /\ status[e] = COMPLETE => TaskOf(e) = "done"
         /\ kind[e] = "user" /\ status[e] # COMPLETE => TaskOf(e) = "open"
         /\ e \in Commands /\ status[e] = QUEUED => TaskOf(e) = "waiting"
         /\ e \in Commands /\ status[e] \in {SUBMITTED, RUNNING} => TaskOf(e) = "started"
<1>1. status[e] # FAILED
  BY DEF NoFailure
<1> QED BY <1>1 DEF TaskOf, Commands, CommandKinds, QUEUED, SUBMITTED, RUNNING, COMPLETE

LEMMA TaskSame ==
  ASSUME NEW e, kind'[e] = kind[e], status'[e] = status[e]
  PROVE  TaskOf(e)' = TaskOf(e)
BY DEF TaskOf

LEMMA TasksSame ==
  ASSUME UNCHANGED <<kind, status, needs>>
  PROVE  UNCHANGED Graph!gvars
<1>1. \A e \in Event : TaskOf(e)' = TaskOf(e)
  BY TaskSame
<1> QED BY <1>1 DEF Graph!gvars

\* A step about one event.
LEMMA OneTask ==
  ASSUME NEW e \in Event, NEW s, TaskOf(e)' = s,
         \A a \in Event : a # e => kind'[a] = kind[a] /\ status'[a] = status[a]
  PROVE  Graph!Become(e, s)
<1>1. \A a \in Event : a # e => TaskOf(a)' = TaskOf(a)
  BY TaskSame
<1> QED BY <1>1 DEF Graph!Become

\* What the refinement needs of an invariant.
Ordered == TypeOK /\ Dispatch /\ Order

\* Dispatching a command is starting its task: by then all it needs is complete.
LEMMA GraphDispatch ==
  ASSUME Ordered, Ordered', NEW e \in Commands, status[e] = QUEUED,
         status' = [status EXCEPT ![e] = SUBMITTED], UNCHANGED <<kind, needs>>
  PROVE  Graph!Start(e)
<1>0. /\ e \in Event /\ TypeOK /\ Dispatch /\ NoFailure /\ TypeOK' /\ NoFailure' /\ Commands' = Commands
  BY DEF Ordered, Dispatch, Commands
<1>1. status'[e] = SUBMITTED /\ \A a \in Event : a # e => status'[a] = status[a]
  BY <1>0 DEF TypeOK
<1>2. ASSUME NEW d \in needs[e] PROVE d \in Event /\ TaskOf(d) = "done"
  <2>1. d \in Event /\ status'[d] = COMPLETE
    BY <1>0, <1>1 DEF Ordered, Order, DependencyOrder, TypeOK
  <2>2. status[d] = COMPLETE
    BY <1>1, <2>1 DEF SUBMITTED, COMPLETE
  <2>3. kind[d] # "none"
    BY <1>0, <2>1, <2>2 DEF Dispatch, Untouched, QUEUED, COMPLETE
  <2> QED BY <1>0, <2>1, <2>2, <2>3, TaskFacts
<1>3. TaskOf(e) = "waiting"
  BY <1>0, TaskFacts
<1>4. TaskOf(e)' = "started"
  BY <1>0, <1>1 DEF TaskOf, Commands, CommandKinds, QUEUED, SUBMITTED, COMPLETE, FAILED
<1>5. Graph!Become(e, "started")
  BY <1>0, <1>1, <1>4, OneTask
<1> QED BY <1>0, <1>2, <1>3, <1>5 DEF Graph!Start

LEMMA KnownTask ==
  ASSUME TypeOK, NoFailure, NEW S, S \subseteq Event, \A e \in S : kind[e] # "none"
  PROVE  S \in SUBSET Graph!Known
<1>1. \A e \in S : TaskOf(e) # "none"
  BY TaskFacts
<1> QED BY <1>1 DEF Graph!Known

\* Every step of the runtime is a step of the graph, or none.
LEMMA GraphStep ==
  ASSUME Ordered, Ordered', NoFailures, \A e \in app : kind[e] # "none", [Next]_vars
  PROVE  [Graph!Next]_(Graph!gvars)
<1>0. /\ TypeOK /\ Dispatch /\ NoFailure /\ TypeOK' /\ NoFailure'
      /\ \A e \in Commands : e \in Event /\ kind[e] # "none"
  BY DEF Ordered, Dispatch, Commands, CommandKinds
<1>g. ASSUME NEW e \in Event, \/ Graph!Open(e) \/ Graph!Resolve(e) \/ Graph!Create(e)
                              \/ Graph!Require(e) \/ Graph!Start(e) \/ Graph!Done(e)
      PROVE  Graph!Next
  BY <1>g DEF Graph!Next
<1>1. ASSUME NEW h \in Hosts, NEW q \in Queues, NEW k \in Kinds, NEW W \in SUBSET Event,
             NEW x \in Explicit, CreateCommand(h, q, k, W, x)
      PROVE  Graph!Next
  <2>a. /\ created + 1 \in Event /\ kind[created + 1] = "none" /\ k \in CommandKinds
        /\ status[created + 1] = QUEUED /\ status' = status
        /\ kind' = [kind EXCEPT ![created + 1] = k]
    BY <1>0, <1>1, CreateFacts
  <2>b. W \subseteq app /\ needs' = [needs EXCEPT ![created + 1] = W]
    BY <1>1 DEF CreateCommand, Usable
  <2>0. PICK n \in Event : n = created + 1
    BY <2>a
  <2>1. kind'[n] = k /\ status'[n] = QUEUED /\ \A a \in Event : a # n => kind'[a] = kind[a]
    BY <1>0, <2>a, <2>0 DEF TypeOK
  <2>2. TaskOf(n)' = "waiting"
    BY <2>a, <2>1 DEF TaskOf, CommandKinds, QUEUED, COMPLETE, FAILED
  <2>3. Graph!Become(n, "waiting")
    BY <2>a, <2>1, <2>2, OneTask
  <2>4. TaskOf(n) = "none"
    BY <1>0, <2>a, <2>0, TaskFacts
  <2>5. W \in SUBSET Graph!Known
    BY <1>0, <2>b, KnownTask
  <2>6. Graph!Create(n)
    BY <2>b, <2>0, <2>3, <2>4, <2>5 DEF Graph!Create
  <2> QED BY <1>g, <2>6
<1>2. ASSUME NEW h \in Hosts, CreateUserEvent(h) PROVE Graph!Next
  <2>a. /\ created + 1 \in Event /\ kind[created + 1] = "none"
        /\ status' = [status EXCEPT ![created + 1] = SUBMITTED]
        /\ kind' = [kind EXCEPT ![created + 1] = "user"] /\ needs' = needs
    BY <1>0, <1>2, CreateUserFacts DEF CreateUserEvent
  <2>0. PICK n \in Event : n = created + 1
    BY <2>a
  <2>1. /\ kind'[n] = "user" /\ status'[n] = SUBMITTED
        /\ \A a \in Event : a # n => kind'[a] = kind[a] /\ status'[a] = status[a]
    BY <1>0, <2>a, <2>0 DEF TypeOK
  <2>2. TaskOf(n)' = "open"
    BY <2>1 DEF TaskOf, SUBMITTED, COMPLETE, FAILED
  <2>3. Graph!Become(n, "open")
    BY <2>1, <2>2, OneTask
  <2>4. TaskOf(n) = "none"
    BY <1>0, <2>a, <2>0, TaskFacts
  <2>6. Graph!Open(n)
    BY <2>a, <2>3, <2>4 DEF Graph!Open
  <2> QED BY <1>g, <2>6
<1>3. ASSUME NEW h \in Hosts, NEW e \in Event, NEW s \in UserStatuses, SetUserEventStatus(h, e, s)
      PROVE  Graph!Next
  <2>1. /\ kind' = kind /\ needs' = needs /\ kind[e] = "user" /\ status[e] # COMPLETE
        /\ status'[e] = COMPLETE /\ \A a \in Event : a # e => status'[a] = status[a]
    BY <1>0, <1>3 DEF SetUserEventStatus, identVars, TypeOK, NoFailures, COMPLETE
  <2>2. TaskOf(e) = "open"
    BY <1>0, <2>1, TaskFacts
  <2>3. TaskOf(e)' = "done"
    BY <2>1 DEF TaskOf, COMPLETE
  <2>4. Graph!Become(e, "done")
    BY <2>1, <2>3, OneTask
  <2>5. Graph!Resolve(e)
    BY <2>1, <2>2, <2>4 DEF Graph!Resolve
  <2> QED BY <1>g, <2>5
<1>4. ASSUME NEW h \in Hosts, Enqueue(h) PROVE Graph!Next
  <2>0. PICK e \in Event : e = cur[h] /\ e \in Commands /\ status[e] = QUEUED
    BY <1>0, <1>4 DEF Enqueue, TypeOK, Enqueuing, Dispatch, Untouched
  <2>1. PICK q \in Queues : q = queue[e]
    BY <1>0, <2>0 DEF TypeOK
  <2>2. needs' = [needs EXCEPT ![e] = @ \cup QueueOrder(e, q)] /\ UNCHANGED <<kind, status>>
    BY <1>4, <2>0, <2>1 DEF Enqueue
  <2>3. pending[q] \subseteq Commands /\ {barrier[q]} \ {NoEvent} \subseteq Commands
    BY DEF Ordered, Order, PendingUnfinished
  <2>4. QueueOrder(e, q) \subseteq Commands
    BY <2>3 DEF QueueOrder, QueueSyncs
  <2>5. QueueOrder(e, q) \in SUBSET Graph!Known
    <3>1. QueueOrder(e, q) \subseteq Event /\ \A a \in QueueOrder(e, q) : kind[a] # "none"
      BY <1>0, <2>4
    <3> QED BY <1>0, <3>1, KnownTask
  <2>6. TaskOf(e) = "waiting"
    BY <1>0, <2>0, TaskFacts
  <2>7. \A a \in Event : TaskOf(a)' = TaskOf(a)
    BY <2>2, TaskSame
  <2>8. Graph!Require(e)
    BY <2>2, <2>5, <2>6, <2>7 DEF Graph!Require
  <2> QED BY <1>g, <2>8
<1>5. ASSUME NEW h \in Hosts, Submit(h) PROVE Graph!Next \/ UNCHANGED Graph!gvars
  <2>1. /\ cur[h] \in Commands /\ status[cur[h]] = QUEUED /\ UNCHANGED <<kind, needs>>
        /\ status' = [status EXCEPT ![cur[h]] = IF waits[cur[h]] = {} THEN SUBMITTED ELSE QUEUED]
    BY <1>0, <1>5 DEF Submit, TypeOK, Enqueuing, Dispatch, Untouched, identVars
  <2>2. CASE waits[cur[h]] = {}
    <3>1. PICK e \in Event : e = cur[h]
      BY <1>0, <2>1
    <3>2. Graph!Start(e)
      BY <2>1, <2>2, <3>1, GraphDispatch
    <3> QED BY <1>g, <3>2
  <2>3. CASE waits[cur[h]] # {}
    <3>1. status' = status
      BY <1>0, <2>1, <2>3 DEF TypeOK
    <3> QED BY <2>1, <3>1, TasksSame
  <2> QED BY <2>2, <2>3
<1>6. ASSUME NEW t \in Thread, NEW e \in Event, NEW x \in Event, Notify(t, e, x)
      PROVE  Graph!Next \/ UNCHANGED Graph!gvars
  <2>1. /\ UNCHANGED <<kind, needs>>
        /\ status' = IF Dispatchable(x, e) THEN [status EXCEPT ![x] = SUBMITTED] ELSE status
    BY <1>6 DEF Notify, identVars
  <2>2. CASE Dispatchable(x, e)
    <3>1. x \in Commands /\ status[x] = QUEUED
      BY <1>0, <2>2 DEF Dispatchable, Dispatch, Untouched
    <3>2. Graph!Start(x)
      BY <2>1, <2>2, <3>1, GraphDispatch
    <3> QED BY <1>g, <3>2
  <2>3. CASE ~Dispatchable(x, e)
    BY <2>1, <2>3, TasksSame
  <2> QED BY <2>2, <2>3
<1>7. ASSUME NEW d \in Drivers, Start(d) PROVE UNCHANGED Graph!gvars
  <2>0. PICK e \in Event : e = cur[d] /\ e \in Commands /\ status[e] = SUBMITTED
    BY <1>0, <1>7 DEF Start, Dispatch, InTaken
  <2>1. /\ kind' = kind /\ needs' = needs
        /\ status'[e] = RUNNING /\ \A a \in Event : a # e => status'[a] = status[a]
    BY <1>0, <1>7, <2>0 DEF Start, identVars, TypeOK
  <2>2. TaskOf(e) = "started"
    BY <1>0, <2>0, TaskFacts
  <2>3. TaskOf(e)' = "started"
    BY <2>0, <2>1 DEF TaskOf, Commands, CommandKinds, RUNNING, QUEUED, COMPLETE, FAILED
  <2>4. \A a \in Event : TaskOf(a)' = TaskOf(a)
    BY <2>1, <2>2, <2>3, TaskSame
  <2> QED BY <2>1, <2>4 DEF Graph!gvars
<1>8. ASSUME NEW t \in Thread, NEW e \in Event, Finish(t, e) PROVE Graph!Next
  <2>1. /\ e \in Commands /\ status[e] = RUNNING /\ kind' = kind /\ needs' = needs
        /\ status'[e] = COMPLETE /\ \A a \in Event : a # e => status'[a] = status[a]
    BY <1>0, <1>8 DEF Finish, Dispatch, InFinish, NoFailure, Failing, identVars, TypeOK
  <2>2. TaskOf(e) = "started"
    BY <1>0, <2>1, TaskFacts
  <2>3. TaskOf(e)' = "done"
    BY <1>0, <2>1 DEF TaskOf
  <2>4. Graph!Become(e, "done")
    BY <2>1, <2>3, OneTask
  <2>5. Graph!Done(e)
    BY <2>1, <2>2, <2>4 DEF Graph!Done
  <2> QED BY <1>g, <2>5
<1>9. ASSUME NEW h \in Hosts, SyncLast(h) \/ SyncListed(h) \/ WaitStep(h) PROVE UNCHANGED <<kind, status, needs>>
  BY <1>9 DEF SyncLast, SyncListed, WaitStep, Join, WaitEvent, WaitTimeout, UserEventDone, identVars, eventVars
<1>10. ASSUME NEW h \in Hosts, NEW q \in Queues, CallFinish(h, q) \/ ReleaseQueue(h, q)
       PROVE  UNCHANGED <<kind, status, needs>>
  BY <1>10 DEF CallFinish, ReleaseQueue, identVars, eventVars
<1>11. ASSUME NEW h \in Hosts, NEW e \in Event, CallWait(h, e) \/ ReleaseEvent(h, e)
       PROVE  UNCHANGED <<kind, status, needs>>
  BY <1>11 DEF CallWait, ReleaseEvent, identVars, eventVars
<1>12. ASSUME NEW d \in Drivers, Take(d) PROVE UNCHANGED <<kind, status, needs>>
  BY <1>12 DEF Take, identVars, eventVars
<1>13. ASSUME NEW t \in Thread, NEW e \in Event, BroadcastDone(t, e) \/ ReleaseFinished(t, e)
       PROVE  UNCHANGED <<kind, status, needs>>
  BY <1>13 DEF BroadcastDone, ReleaseFinished, identVars, eventVars
<1>14. ASSUME NEW t \in Thread, NEW e \in Event, Relock(t, e) \/ \E x \in Event : NotifyFailed(t, e, x) PROVE FALSE
  BY <1>0, <1>14 DEF Relock, NotifyFailed, NoFailure
<1>15. CASE UNCHANGED vars
  BY <1>15, TasksSame DEF vars, identVars, eventVars
<1> QED
  BY <1>1, <1>2, <1>3, <1>4, <1>5, <1>6, <1>7, <1>8, <1>9, <1>10, <1>11, <1>12, <1>13, <1>14, <1>15, TasksSame
  DEF Next, EnqueueStep, DriverStep, FinishStep, SetSomeUserEvent, AppStep

\* The event layer of the runtime implements TaskGraph for every orderly
\* application: commands start once all they need is complete, each once
\* (pocl_create_command up to pocl_update_event_finished).
THEOREM GraphImplemented == Orderly => (Spec => ImplementsGraph)
<1> SUFFICES ASSUME Orderly PROVE Spec => ImplementsGraph
  OBVIOUS
<1>0. NoFailures
  BY DEF Orderly
<1>1. ASSUME Init PROVE Graph!Init
  <2>1. \A e \in Event : TaskOf(e) = "none"
    BY <1>1 DEF Init, TaskOf
  <2> QED BY <1>1, <2>1 DEF Init, Graph!Init
<1>2. IInv /\ IInv' /\ SafeInv /\ [Next]_vars => [Graph!Next]_(Graph!gvars)
  <2>1. IInv => Ordered
    BY DEF IInv, Ordered
  <2>2. IInv' => Ordered'
    BY DEF IInv, Ordered
  <2>3. SafeInv => \A e \in app : kind[e] # "none"
    BY DEF SafeInv, References, AppOwns, TypeOK
  <2> QED BY <1>0, <2>1, <2>2, <2>3, GraphStep
<1>3. Spec => []IInv
  BY Invariance
<1>4. Spec => []SafeInv
  BY <1>0, SafeInvariance
<1> QED BY <1>1, <1>2, <1>3, <1>4, PTL DEF Spec, ImplementsGraph, Graph!Spec

-----------------------------------------------------------------------------
(* What remains true when user events fail.                                *)

\* The application fails user events between calls, and a command has one
\* notifier at most.
OneNotifier ==
  /\ OrderlyFailure
  /\ MaxWait <= 1 /\ InOrder = {} /\ Kinds \subseteq {"task"}

Over(e) == status[e] \in {COMPLETE, FAILED}

\* One thread finishes an event: a driver thread a command it has executed, an
\* application thread one that waits for a failed event.
Finishing ==
  \A t \in Thread, e \in Event :
    /\ phase[t][e] = "finish" =>
         /\ e \in Commands
         /\ t \in Drivers => status[e] = RUNNING
         /\ t \notin Drivers =>
              /\ status[e] = QUEUED /\ waits[e] = {} /\ Failing(t)
              /\ \E d \in needs[e] : status[d] = FAILED
    /\ phase[t][e] \in {"broadcast", "notifying", "release"} => Over(e)
    /\ phase[t][e] # "none" =>
         /\ t \in Drivers => status[e] # FAILED
         /\ \A u \in Thread : phase[u][e] # "none" => u = t

\* A command needs one event at most, and that from its creation on.
OneNeed ==
  /\ \A e \in Event : /\ waits[e] \subseteq needs[e]
                      /\ \A a, b \in needs[e] : a = b
                      /\ \A d \in needs[e] : kind[e] # "none" /\ kind[d] # "none"
  /\ \A h \in Hosts : pc[h] # "lastSync" /\ (Enqueuing(h) => todo[h] \subseteq needs[cur[h]])
  /\ \A q \in Queues : barrier[q] = NoEvent

\* The lists mirror each other, but for a command that is being failed, which its
\* notifier's list has for some time to come.
Linked ==
  /\ \A x \in Event : \A n \in waits[x] :
       /\ x \in notify[n] /\ x \in Commands /\ status[x] = QUEUED
       /\ ~Over(n) \/ \E t \in Thread : phase[t][n] \in {"broadcast", "notifying"}
  /\ \A n \in Event : \A x \in notify[n] :
       /\ n \in needs[x]
       /\ n \in waits[x] \/ \E t \in Thread : phase[t][n] = "notifying" /\ nested[t][n] = x
  /\ \A t \in Thread, n \in Event : phase[t][n] = "notifying" => n \notin waits[nested[t][n]]

\* What a queued command needs and has not got it waits for, or its failure
\* is being passed on; a submitted one waits or is being failed.
Covered ==
  \A e \in Commands : status[e] = QUEUED =>
    /\ \A d \in needs[e] :
         \/ status[d] = COMPLETE
         \/ d \in waits[e]
         \/ \E h \in Hosts : pc[h] = "listSync" /\ cur[h] = e /\ d \in todo[h]
         \/ status[d] = FAILED /\ \E t \in Thread : phase[t][e] = "finish"
    /\ ready[e] => waits[e] # {} \/ \E t \in Thread : phase[t][e] = "finish"

FailInv ==
  /\ Untouched /\ InWork /\ InTaken /\ Placed
  /\ Finishing /\ OneNeed /\ Linked /\ Covered /\ DependencyOrder

FState == TypeOK /\ LockInv /\ FailInv

\* What the parts of FState say of one event, its thread and its wait list.
LEMMA FailFacts ==
  ASSUME FState
  PROVE  /\ \A e \in Event : status[e] \in {QUEUED, SUBMITTED, RUNNING, COMPLETE, FAILED}
         /\ \A t \in Thread, e \in Event : held[e] = None => phase[t][e] # "notifying"
         /\ \A x, n \in Event : n \in waits[x] =>
              x \in notify[n] /\ n \in needs[x] /\ \A u \in Thread : phase[u][x] = "none"
         /\ \A d \in Drivers : ~Failing(d)
         /\ \A t \in Thread, e \in Event : phase[t][e] = "finish" => ~Over(e)
         /\ \A t \in Thread, e \in Event : phase[t][e] = "notifying" => nested[t][e] \in Event
<1> USE DEF QUEUED, SUBMITTED, RUNNING, COMPLETE, FAILED
<1>0. TypeOK /\ Kept /\ Finishing /\ Linked /\ OneNeed
  BY DEF FState, FailInv, LockInv, LockBase
<1>1. \A e \in Event : status[e] \in {QUEUED, SUBMITTED, RUNNING, COMPLETE, FAILED}
  BY <1>0 DEF TypeOK
<1>2. \A t \in Thread, e \in Event : held[e] = None => phase[t][e] # "notifying"
  BY <1>0, ConstantsAssumption DEF Kept, Thread
<1>3. ASSUME NEW d \in Drivers, NEW b \in Event, phase[d][b] = "notifying" PROVE FALSE
  <2>1. d \in Thread /\ d # None
    BY ConstantsAssumption DEF Thread
  <2>2. held[b] = d /\ status[b] = FAILED
    BY <1>0, <1>3, <2>1 DEF Kept
  <2> QED BY <1>0, <1>3, <2>1, <2>2 DEF Finishing
<1>4. \A t \in Thread, e \in Event : phase[t][e] = "finish" => ~Over(e)
  BY <1>0 DEF Finishing, Over
<1>5. ASSUME NEW x \in Event, NEW n \in Event, n \in waits[x], NEW u \in Thread PROVE phase[u][x] = "none"
  <2>1. status[x] = QUEUED /\ ~Over(x)
    BY <1>0, <1>5 DEF Linked, Over
  <2>2. phase[u][x] # "finish"
    BY <1>0, <1>5, <2>1 DEF Finishing
  <2> QED BY <1>0, <2>1, <2>2 DEF Finishing, TypeOK
<1>6. \A t \in Thread, e \in Event : phase[t][e] = "notifying" => nested[t][e] \in Event
  <2>1. SomeRank
    BY DEF FState, LockInv
  <2>2. \A t \in Thread, e \in Event : phase[t][e] = "notifying" => nested[t][e] \in Commands
    BY <2>1 DEF SomeRank, Ranked
  <2> QED BY <2>2 DEF Commands
<1> QED BY <1>0, <1>1, <1>2, <1>3, <1>4, <1>5, <1>6 DEF Linked, OneNeed, Failing

\* A step that neither enqueues, finishes nor completes anything.
LEMMA KeepFail ==
  ASSUME FState,
         UNCHANGED <<kind, needs, status, waits, notify, ready, barrier, work, phase, nested>>,
         \A h \in Hosts : Enqueuing(h) \/ Enqueuing(h)' => pc'[h] = pc[h] /\ cur'[h] = cur[h] /\ todo'[h] = todo[h],
         \A d \in Drivers : pc'[d] = pc[d] /\ cur'[d] = cur[d]
  PROVE  FailInv'
<1>0. TypeOK /\ FailInv
  BY DEF FState
<1>1. \A h \in Hosts : /\ Enqueuing(h)' <=> Enqueuing(h)
                       /\ (pc'[h] = "listSync" <=> pc[h] = "listSync")
                       /\ (pc'[h] = "lastSync" <=> pc[h] = "lastSync")
  BY DEF Enqueuing
<1>2. Untouched' /\ Finishing' /\ Linked' /\ DependencyOrder' /\ InWork' /\ InTaken'
  BY <1>0, <1>1 DEF FailInv, Untouched, Finishing, Linked, DependencyOrder, Commands, Over, Failing, InWork, InTaken
<1>3. OneNeed'
  BY <1>0, <1>1 DEF FailInv, OneNeed
<1>4. Placed'
  BY <1>0 DEF FailInv, Placed, Commands
<1>5. Covered'
  <2>1. Commands' = Commands /\ \A h \in Hosts : pc[h] = "listSync" => pc'[h] = "listSync" /\ cur'[h] = cur[h] /\ todo'[h] = todo[h]
    BY DEF Commands, Enqueuing
  <2> QED BY <1>0, <2>1 DEF FailInv, Covered
<1> QED BY <1>2, <1>3, <1>4, <1>5 DEF FailInv

\* A new command: it has nothing behind it and its wait list to synchronize with.
LEMMA FailCreate ==
  ASSUME FState, OneNotifier, NEW h \in Hosts, NEW q \in Queues, NEW k \in Kinds, NEW W \in SUBSET Event,
         NEW x \in Explicit, CreateCommand(h, q, k, W, x)
  PROVE  FailInv'
<1>0. /\ TypeOK /\ FailInv /\ LockBase /\ Untouched /\ Finishing /\ Linked /\ OneNeed /\ Works
      /\ PointsSettled /\ PointsReached /\ OnlyCommands
  BY DEF FState, FailInv, LockInv, LockBase
<1>a. /\ created + 1 \in Event /\ kind[created + 1] = "none" /\ pc[h] = "idle"
      /\ W \subseteq app /\ Cardinality(W) <= MaxWait
      /\ kind' = [kind EXCEPT ![created + 1] = k] /\ status' = [status EXCEPT ![created + 1] = QUEUED]
      /\ needs' = [needs EXCEPT ![created + 1] = W]
      /\ cur' = [cur EXCEPT ![h] = created + 1] /\ todo' = [todo EXCEPT ![h] = W]
      /\ pc' = [pc EXCEPT ![h] = IF q \in InOrder THEN "lastSync" ELSE "listSync"]
      /\ UNCHANGED <<waits, notify, ready, barrier, work, phase, nested>>
  BY <1>0, ConstantsAssumption DEF CreateCommand, Usable, TypeOK, Event, Goto, finVars
<1>n. PICK n \in Event : n = created + 1
  BY <1>a
<1>k. k = "task" /\ q \notin InOrder
  BY DEF OneNotifier
<1>h. h \in Thread /\ \A d \in Drivers : d # h /\ d \in Thread
  BY ConstantsAssumption DEF Thread
<1>1. /\ n \notin Commands /\ n \notin Settled /\ n \notin Reached /\ kind[n] = "none" /\ status[n] = QUEUED /\ ~ready[n]
      /\ \A t \in Thread : phase[t][n] = "none"
      /\ \A e \in Event : n \notin needs[e] /\ n \notin waits[e] /\ n \notin notify[e]
      /\ needs[n] = {} /\ waits[n] = {} /\ notify[n] = {}
      /\ \A i \in 1..Len(work) : work[i] # n
      /\ \A d \in Drivers : pc[d] = "taken" => cur[d] # n
  <2>1. n \notin Commands /\ n \notin Settled /\ n \notin Reached /\ kind[n] = "none"
    BY <1>a, <1>n DEF Commands, CommandKinds, Settled, Reached
  <2>2. status[n] = QUEUED /\ ~ready[n]
    BY <1>0, <2>1 DEF Untouched
  <2>3. \A t \in Thread : phase[t][n] = "none"
    BY <1>0, <2>1 DEF PointsSettled
  <2>4. needs[n] = {} /\ \A e \in Event : n \notin needs[e]
    BY <1>0, <2>1 DEF OneNeed, TypeOK
  <2>5. waits[n] = {} /\ (\A e \in Event : n \notin waits[e] /\ n \notin notify[e]) /\ notify[n] = {}
    BY <1>0, <2>1, <2>4 DEF OneNeed, OnlyCommands, PointsReached
  <2>6. /\ \A i \in 1..Len(work) : work[i] # n
        /\ \A d \in Drivers : pc[d] = "taken" => cur[d] # n
    BY <1>0, <2>1 DEF PointsSettled
  <2> QED BY <2>1, <2>2, <2>3, <2>4, <2>5, <2>6
<1>2. /\ kind'[n] = "task" /\ status'[n] = QUEUED /\ needs'[n] = W
      /\ \A e \in Event : status'[e] = status[e]
      /\ \A e \in Event : e # n => kind'[e] = kind[e] /\ needs'[e] = needs[e]
      /\ Commands' = Commands \cup {n}
      /\ cur'[h] = n /\ todo'[h] = W /\ pc'[h] = "listSync"
      /\ \A g \in Hosts : g # h => pc'[g] = pc[g] /\ cur'[g] = cur[g] /\ todo'[g] = todo[g]
      /\ \A d \in Drivers : pc'[d] = pc[d] /\ cur'[d] = cur[d]
  BY <1>0, <1>1, <1>a, <1>n, <1>k, <1>h DEF TypeOK, Commands, CommandKinds
<1>w. /\ \A a, b \in W : a = b
      /\ W \subseteq Event /\ \A a \in W : kind[a] # "none" /\ a # n
  <2>1. \A a \in W : kind[a] # "none"
    BY <1>0, <1>a DEF PointsReached
  <2>2. IsFiniteSet(W) /\ Cardinality(W) \in Nat /\ Cardinality(W) <= 1
    BY <1>a, FiniteEvents, ConstantsAssumption DEF OneNotifier
  <2>3. ASSUME NEW a \in W, NEW b \in W, a # b PROVE FALSE
    <3>1. IsFiniteSet({a, b}) /\ Cardinality({a, b}) = 2
      <4>1. IsFiniteSet({a}) /\ Cardinality({a}) = 1
        BY FS_Singleton
      <4>2. b \notin {a}
        BY <2>3
      <4>3. IsFiniteSet({a} \cup {b}) /\ Cardinality({a} \cup {b}) = Cardinality({a}) + 1
        BY <4>1, <4>2, FS_AddElement
      <4>4. {a, b} = {a} \cup {b}
        OBVIOUS
      <4> QED BY <4>1, <4>3, <4>4
    <3>2. Cardinality({a, b}) <= Cardinality(W)
      BY <2>2, FS_Subset
    <3> QED BY <2>2, <3>1, <3>2
  <2> QED BY <1>1, <2>1, <2>3
<1>3. Untouched'
  <2>1. \A g \in Hosts : Enqueuing(g)' => status'[cur'[g]] = QUEUED /\ ~ready'[cur'[g]]
    <3> TAKE g \in Hosts
    <3>1. CASE g = h
      BY <1>1, <1>2, <1>a, <3>1
    <3>2. CASE g # h
      <4>1. Enqueuing(g)' => Enqueuing(g) /\ cur'[g] = cur[g] /\ cur[g] \in Event
        BY <1>0, <1>2, <3>2 DEF Enqueuing, TypeOK, Commands
      <4> QED BY <1>0, <1>2, <1>a, <4>1 DEF Untouched
    <3> QED BY <3>1, <3>2
  <2> QED BY <1>0, <1>2, <1>a, <1>k, <2>1 DEF Untouched
<1>4. InWork' /\ InTaken'
  <2>1. InWork'
    BY <1>0, <1>1, <1>2, <1>a DEF FailInv, InWork, Commands
  <2>2. InTaken'
    BY <1>0, <1>1, <1>2, <1>a DEF FailInv, InTaken, Commands
  <2> QED BY <2>1, <2>2
<1>5. Placed'
  BY <1>0, <1>1, <1>2, <1>a DEF FailInv, Placed, Commands, QUEUED, SUBMITTED, RUNNING
<1>6. Finishing'
  BY <1>0, <1>1, <1>2, <1>a DEF Finishing, Over, Failing
<1>7. OneNeed'
  <2>1. ASSUME NEW g \in Hosts
        PROVE  pc'[g] # "lastSync" /\ (Enqueuing(g)' => todo'[g] \subseteq needs'[cur'[g]])
    <3>1. CASE g = h
      BY <1>1, <1>2, <1>a, <3>1
    <3>2. CASE g # h
      <4>1. Enqueuing(g)' => Enqueuing(g) /\ cur'[g] = cur[g] /\ cur[g] \in Commands
        BY <1>0, <1>2, <3>2 DEF Enqueuing, TypeOK
      <4>2. Enqueuing(g)' => cur[g] \in Event /\ cur[g] # n
        BY <1>1, <4>1 DEF Commands
      <4> QED BY <1>0, <1>2, <3>2, <4>1, <4>2 DEF OneNeed
    <3> QED BY <3>1, <3>2
  <2>2. ASSUME NEW e \in Event
        PROVE  /\ waits'[e] \subseteq needs'[e] /\ \A a, b \in needs'[e] : a = b
               /\ \A d \in needs'[e] : kind'[e] # "none" /\ kind'[d] # "none"
    <3>1. CASE e = n
      BY <1>1, <1>2, <1>a, <1>w, <3>1
    <3>2. CASE e # n
      BY <1>0, <1>1, <1>2, <1>a, <3>2 DEF OneNeed, TypeOK
    <3> QED BY <3>1, <3>2
  <2> QED BY <1>0, <1>a, <2>1, <2>2 DEF OneNeed
<1>8. Linked'
  <2>1. \A a \in Event : waits'[a] = waits[a] /\ notify'[a] = notify[a]
    BY <1>a
  <2>2. ASSUME NEW a \in Event, NEW m \in waits[a] PROVE a # n /\ m \in Event /\ Over(m)' = Over(m)
    BY <1>0, <1>1, <1>2 DEF TypeOK, Over
  <2>3. ASSUME NEW m \in Event, NEW a \in notify[m] PROVE a # n /\ a \in Event
    BY <1>0, <1>1 DEF TypeOK
  <2>4. \A t \in Thread, m \in Event : phase'[t][m] = phase[t][m] /\ nested'[t][m] = nested[t][m]
    BY <1>a
  <2>5. \A a \in Event : \A m \in waits'[a] :
          /\ a \in notify'[m] /\ a \in Commands' /\ status'[a] = QUEUED
          /\ ~Over(m)' \/ \E t \in Thread : phase'[t][m] \in {"broadcast", "notifying"}
    BY <1>0, <1>2, <2>1, <2>2, <2>4 DEF Linked
  <2>6. \A m \in Event : \A a \in notify'[m] :
          /\ m \in needs'[a]
          /\ m \in waits'[a] \/ \E t \in Thread : phase'[t][m] = "notifying" /\ nested'[t][m] = a
    BY <1>0, <1>2, <2>1, <2>3, <2>4 DEF Linked
  <2>7. \A t \in Thread, m \in Event : phase'[t][m] = "notifying" => m \notin waits'[nested'[t][m]]
    BY <1>0, <1>a DEF Linked
  <2> QED BY <2>5, <2>6, <2>7 DEF Linked
<1>9. Covered'
  <2> SUFFICES ASSUME NEW e \in Commands', status'[e] = QUEUED
               PROVE  /\ \A d \in needs'[e] :
                           \/ status'[d] = COMPLETE
                           \/ d \in waits'[e]
                           \/ \E g \in Hosts : pc'[g] = "listSync" /\ cur'[g] = e /\ d \in todo'[g]
                           \/ status'[d] = FAILED /\ \E t \in Thread : phase'[t][e] = "finish"
                      /\ ready'[e] => waits'[e] # {} \/ \E t \in Thread : phase'[t][e] = "finish"
    BY DEF Covered
  <2>1. CASE e = n
    BY <1>1, <1>2, <1>a, <2>1
  <2>2. CASE e # n
    <3>1. e \in Commands /\ e \in Event /\ status[e] = QUEUED /\ needs'[e] = needs[e] /\ needs[e] \subseteq Event
      BY <1>0, <1>2, <2>2 DEF Commands, TypeOK
    <3>2. \A g \in Hosts : pc[g] = "listSync" => pc'[g] = "listSync" /\ cur'[g] = cur[g] /\ todo'[g] = todo[g]
      BY <1>2, <1>a
    <3> QED BY <1>0, <1>2, <1>a, <3>1, <3>2 DEF FailInv, Covered
  <2> QED BY <2>1, <2>2
<1>10. DependencyOrder'
  <2> SUFFICES ASSUME NEW e \in Commands', status'[e] \in {SUBMITTED, RUNNING, COMPLETE}, NEW d \in needs'[e]
               PROVE  status'[d] = COMPLETE
    BY DEF DependencyOrder
  <2>1. e # n
    BY <1>2 DEF QUEUED, SUBMITTED, RUNNING, COMPLETE
  <2>2. e \in Commands /\ e \in Event /\ needs'[e] = needs[e] /\ needs[e] \subseteq Event
    BY <1>0, <1>2, <2>1 DEF Commands, TypeOK
  <2> QED BY <1>0, <1>2, <2>2 DEF FailInv, DependencyOrder
<1> QED BY <1>3, <1>4, <1>5, <1>6, <1>7, <1>8, <1>9, <1>10 DEF FailInv

\* A new user event.
LEMMA FailCreateUser ==
  ASSUME FState, NEW h \in Hosts, CreateUserEvent(h)
  PROVE  FailInv'
<1>0. /\ TypeOK /\ FailInv /\ LockBase /\ Untouched /\ Finishing /\ Linked /\ OneNeed
      /\ PointsSettled /\ PointsReached /\ OnlyCommands
  BY DEF FState, FailInv, LockInv, LockBase
<1>a. /\ created + 1 \in Event /\ kind[created + 1] = "none"
      /\ kind' = [kind EXCEPT ![created + 1] = "user"] /\ status' = [status EXCEPT ![created + 1] = SUBMITTED]
      /\ UNCHANGED <<needs, waits, notify, ready, barrier, work, phase, nested, pc, cur, todo>>
  BY <1>0, ConstantsAssumption DEF CreateUserEvent, TypeOK, Event, finVars, cqVars, callVars
<1>n. PICK n \in Event : n = created + 1
  BY <1>a
<1>1. /\ n \notin Commands /\ n \notin Settled /\ kind[n] = "none" /\ status[n] = QUEUED /\ ~ready[n]
      /\ \A t \in Thread : phase[t][n] = "none"
      /\ \A e \in Event : n \notin needs[e] /\ n \notin waits[e]
      /\ needs[n] = {} /\ waits[n] = {} /\ notify[n] = {}
      /\ \A i \in 1..Len(work) : work[i] # n
      /\ \A d \in Drivers : pc[d] = "taken" => cur[d] # n
      /\ \A g \in Hosts : Enqueuing(g) => cur[g] # n
  <2>1. n \notin Commands /\ n \notin Settled /\ n \notin Reached /\ kind[n] = "none"
    BY <1>a, <1>n DEF Commands, CommandKinds, Settled, Reached
  <2>2. status[n] = QUEUED /\ ~ready[n]
    BY <1>0, <2>1 DEF Untouched
  <2>3. \A t \in Thread : phase[t][n] = "none"
    BY <1>0, <2>1 DEF PointsSettled
  <2>4. needs[n] = {} /\ \A e \in Event : n \notin needs[e]
    BY <1>0, <2>1 DEF OneNeed, TypeOK
  <2>5. waits[n] = {} /\ (\A e \in Event : n \notin waits[e]) /\ notify[n] = {}
    BY <1>0, <2>1, <2>4 DEF OneNeed, PointsReached
  <2>6. /\ \A i \in 1..Len(work) : work[i] # n
        /\ \A d \in Drivers : pc[d] = "taken" => cur[d] # n
    BY <1>0, <2>1 DEF PointsSettled
  <2>7. \A g \in Hosts : Enqueuing(g) => cur[g] # n
    BY <1>0, <2>1 DEF TypeOK
  <2> QED BY <2>1, <2>2, <2>3, <2>4, <2>5, <2>6, <2>7
<1>2. /\ kind'[n] = "user" /\ status'[n] = SUBMITTED
      /\ \A e \in Event : e # n => kind'[e] = kind[e] /\ status'[e] = status[e]
      /\ Commands' = Commands /\ \A e \in Commands : e \in Event /\ e # n
  BY <1>0, <1>1, <1>a, <1>n DEF TypeOK, Commands, CommandKinds
<1>3. Untouched'
  <2>1. \A g \in Hosts : Enqueuing(g)' => Enqueuing(g) /\ cur'[g] = cur[g] /\ cur[g] \in Event /\ cur[g] # n
    BY <1>0, <1>1, <1>2, <1>a DEF Enqueuing, TypeOK, Commands
  <2>2. \A g \in Hosts : Enqueuing(g)' => status'[cur'[g]] = QUEUED /\ ~ready'[cur'[g]]
    BY <1>0, <1>2, <1>a, <2>1 DEF Untouched
  <2> QED BY <1>0, <1>2, <1>a, <2>2 DEF Untouched
<1>4. InWork' /\ InTaken'
  BY <1>0, <1>1, <1>2, <1>a DEF FailInv, InWork, InTaken
<1>5. Placed'
  BY <1>0, <1>1, <1>2, <1>a DEF FailInv, Placed
<1>6. Finishing'
  <2> SUFFICES ASSUME NEW t \in Thread, NEW e \in Event, phase'[t][e] # "none"
               PROVE  /\ phase'[t][e] = "finish" =>
                          /\ e \in Commands'
                          /\ t \in Drivers => status'[e] = RUNNING
                          /\ t \notin Drivers =>
                               /\ status'[e] = QUEUED /\ waits'[e] = {} /\ Failing(t)'
                               /\ \E d \in needs'[e] : status'[d] = FAILED
                      /\ phase'[t][e] \in {"broadcast", "notifying", "release"} => Over(e)'
                      /\ t \in Drivers => status'[e] # FAILED
                      /\ \A u \in Thread : phase'[u][e] # "none" => u = t
    BY DEF Finishing
  <2>1. e # n /\ status'[e] = status[e] /\ phase' = phase /\ needs[e] \subseteq Event
    BY <1>0, <1>1, <1>2, <1>a DEF TypeOK
  <2>2. \A d \in needs[e] : d \in Event /\ d # n /\ status'[d] = status[d]
    BY <1>1, <1>2, <2>1
  <2> QED BY <1>0, <1>2, <1>a, <2>1, <2>2 DEF Finishing, Over, Failing
<1>7. OneNeed'
  BY <1>0, <1>1, <1>2, <1>a DEF OneNeed, Enqueuing
<1>8. Linked'
  <2>1. ASSUME NEW a \in Event, NEW m \in waits[a] PROVE a # n /\ m \in Event /\ m # n
    BY <1>0, <1>1 DEF TypeOK
  <2> QED BY <1>0, <1>2, <1>a, <2>1 DEF Linked, Over
<1>9. Covered'
  <2>1. \A e \in Commands : \A d \in needs[e] : d \in Event /\ d # n /\ status'[d] = status[d]
    BY <1>0, <1>1, <1>2 DEF TypeOK
  <2> QED BY <1>0, <1>2, <1>a, <2>1 DEF FailInv, Covered
<1>10. DependencyOrder'
  <2>1. \A e \in Commands : \A d \in needs[e] : d \in Event /\ d # n /\ status'[d] = status[d]
    BY <1>0, <1>1, <1>2 DEF TypeOK
  <2> QED BY <1>0, <1>2, <1>a, <2>1 DEF FailInv, DependencyOrder
<1> QED BY <1>3, <1>4, <1>5, <1>6, <1>7, <1>8, <1>9, <1>10 DEF FailInv

\* A user event is set: nothing fails, or nothing is being enqueued.
LEMMA FailSetUser ==
  ASSUME FState, NEW h \in Hosts, NEW e \in Event, NEW s \in UserStatuses, SetUserEventStatus(h, e, s)
  PROVE  FailInv'
<1> USE DEF QUEUED, SUBMITTED, RUNNING, COMPLETE, FAILED
<1>0. /\ TypeOK /\ FailInv /\ Untouched /\ Finishing /\ Linked /\ OneNeed
  BY DEF FState, FailInv
<1>h. h \in Thread /\ h \notin Drivers /\ \A d \in Drivers : d # h /\ d \in Thread
  BY ConstantsAssumption DEF Thread
<1>a. /\ kind[e] = "user" /\ ~Over(e) /\ s \in {COMPLETE, FAILED} /\ pc[h] = "idle"
      /\ status' = [status EXCEPT ![e] = s] /\ phase' = [phase EXCEPT ![h][e] = "broadcast"]
      /\ cur' = [cur EXCEPT ![h] = e] /\ pc' = [pc EXCEPT ![h] = "userDone"]
      /\ UNCHANGED <<kind, needs, waits, notify, ready, barrier, work, nested, todo>>
  BY <1>0, ConstantsAssumption DEF SetUserEventStatus, TypeOK, Goto, identVars, cqVars, Over
<1>1. /\ e \notin Commands /\ Commands' = Commands /\ \A c \in Commands : c \in Event /\ c # e
      /\ \A t \in Thread : phase[t][e] = "none"
      /\ waits[e] = {}
  <2>1. e \notin Commands
    BY <1>a DEF Commands, CommandKinds
  <2>2. \A t \in Thread : phase[t][e] = "none"
    BY <1>0, <1>a, <2>1 DEF Finishing, TypeOK
  <2>3. waits[e] = {}
    BY <1>0, <2>1 DEF Linked, TypeOK
  <2> QED BY <1>a, <2>1, <2>2, <2>3 DEF Commands
<1>2. /\ status'[e] = s /\ phase'[h][e] = "broadcast"
      /\ \A a \in Event : a # e => status'[a] = status[a]
      /\ \A u \in Thread, a \in Event : (u # h \/ a # e) => phase'[u][a] = phase[u][a]
      /\ \A d \in Drivers : pc'[d] = pc[d] /\ cur'[d] = cur[d]
      /\ \A g \in Hosts : g # h => pc'[g] = pc[g] /\ cur'[g] = cur[g]
      /\ pc'[h] = "userDone"
  BY <1>0, <1>h, <1>a DEF TypeOK
<1>e. \A g \in Hosts : /\ Enqueuing(g)' <=> Enqueuing(g)
                       /\ Enqueuing(g) => g # h /\ cur'[g] = cur[g] /\ cur[g] \in Commands
                       /\ pc[g] = "listSync" => pc'[g] = "listSync" /\ cur'[g] = cur[g]
                       /\ pc'[g] = "lastSync" => pc[g] = "lastSync"
  BY <1>0, <1>a, <1>2 DEF Enqueuing, TypeOK
<1>f. \A u \in Thread : Failing(u)' <=> Failing(u)
  BY <1>1, <1>2 DEF Failing
<1>3. Untouched'
  <2>1. \A a \in Event : kind[a] = "none" => status'[a] = QUEUED
    BY <1>0, <1>a, <1>2 DEF Untouched
  <2>2. \A g \in Hosts : Enqueuing(g)' => status'[cur'[g]] = QUEUED /\ ~ready'[cur'[g]]
    BY <1>0, <1>a, <1>1, <1>2, <1>e DEF Untouched
  <2> QED BY <1>0, <1>a, <1>1, <2>1, <2>2 DEF Untouched
<1>4. InWork' /\ InTaken'
  BY <1>0, <1>1, <1>2, <1>a DEF FailInv, InWork, InTaken
<1>5. Placed'
  BY <1>0, <1>1, <1>2, <1>a DEF FailInv, Placed
<1>d. \A c, d \in Event : d \in needs[c] /\ status[d] \in {COMPLETE, FAILED} => status'[d] = status[d]
  BY <1>a, <1>2 DEF Over
<1>6. Finishing'
  <2> SUFFICES ASSUME NEW t \in Thread, NEW a \in Event, phase'[t][a] # "none"
               PROVE  /\ phase'[t][a] = "finish" =>
                          /\ a \in Commands'
                          /\ t \in Drivers => status'[a] = RUNNING
                          /\ t \notin Drivers =>
                               /\ status'[a] = QUEUED /\ waits'[a] = {} /\ Failing(t)'
                               /\ \E d \in needs'[a] : status'[d] = FAILED
                      /\ phase'[t][a] \in {"broadcast", "notifying", "release"} => Over(a)'
                      /\ t \in Drivers => status'[a] # FAILED
                      /\ \A u \in Thread : phase'[u][a] # "none" => u = t
    BY DEF Finishing
  <2>1. CASE a = e
    <3>1. t = h
      BY <1>1, <1>2, <2>1
    <3> QED BY <1>1, <1>2, <1>a, <1>h, <2>1, <3>1 DEF Over
  <2>2. CASE a # e
    <3>1. phase'[t][a] = phase[t][a] /\ status'[a] = status[a] /\ \A u \in Thread : phase'[u][a] = phase[u][a]
      BY <1>2, <2>2
    <3>2. needs[a] \subseteq Event
      BY <1>0 DEF TypeOK
    <3>3. (\E d \in needs[a] : status[d] = FAILED) => \E d \in needs'[a] : status'[d] = FAILED
      BY <1>a, <1>d, <3>2
    <3> QED BY <1>0, <1>1, <1>a, <1>f, <3>1, <3>3 DEF Finishing, Over
  <2> QED BY <2>1, <2>2
<1>7. OneNeed'
  BY <1>0, <1>1, <1>2, <1>a, <1>e DEF OneNeed
<1>8. Linked'
  <2>1. \A x \in Event : \A m \in waits'[x] :
          /\ x \in notify'[m] /\ x \in Commands' /\ status'[x] = QUEUED
          /\ ~Over(m)' \/ \E t \in Thread : phase'[t][m] \in {"broadcast", "notifying"}
    <3> SUFFICES ASSUME NEW x \in Event, NEW m \in waits[x]
                 PROVE  /\ x \in notify[m] /\ x \in Commands /\ status'[x] = QUEUED
                        /\ ~Over(m)' \/ \E t \in Thread : phase'[t][m] \in {"broadcast", "notifying"}
      BY <1>1, <1>a
    <3>1. /\ x # e /\ m \in Event /\ x \in notify[m] /\ x \in Commands /\ status[x] = QUEUED
          /\ ~Over(m) \/ \E t \in Thread : phase[t][m] \in {"broadcast", "notifying"}
      BY <1>0, <1>1 DEF Linked, TypeOK
    <3>2. CASE m = e
      BY <1>2, <1>h, <3>1, <3>2
    <3>3. CASE m # e
      BY <1>2, <3>1, <3>3 DEF Over
    <3> QED BY <3>2, <3>3
  <2>2. \A t \in Thread, m \in Event : (phase'[t][m] = "notifying" <=> phase[t][m] = "notifying") /\ nested'[t][m] = nested[t][m]
    BY <1>1, <1>2, <1>a
  <2>3. \A m \in Event : \A x \in notify'[m] :
          /\ m \in needs'[x]
          /\ m \in waits'[x] \/ \E t \in Thread : phase'[t][m] = "notifying" /\ nested'[t][m] = x
    BY <1>0, <1>a, <2>2 DEF Linked
  <2>4. \A t \in Thread, m \in Event : phase'[t][m] = "notifying" => m \notin waits'[nested'[t][m]]
    BY <1>0, <1>a, <2>2 DEF Linked
  <2> QED BY <2>1, <2>3, <2>4 DEF Linked
<1>9. Covered'
  <2> SUFFICES ASSUME NEW c \in Commands, status[c] = QUEUED
               PROVE  /\ \A d \in needs'[c] :
                           \/ status'[d] = COMPLETE
                           \/ d \in waits'[c]
                           \/ \E g \in Hosts : pc'[g] = "listSync" /\ cur'[g] = c /\ d \in todo'[g]
                           \/ status'[d] = FAILED /\ \E t \in Thread : phase'[t][c] = "finish"
                      /\ ready'[c] => waits'[c] # {} \/ \E t \in Thread : phase'[t][c] = "finish"
    BY <1>1, <1>2 DEF Covered
  <2>1. needs[c] \subseteq Event /\ c \in Event /\ \A t \in Thread : phase'[t][c] = phase[t][c]
    BY <1>0, <1>1, <1>2 DEF TypeOK
  <2>2. \A d \in needs[c] : status[d] \in {COMPLETE, FAILED} => status'[d] = status[d]
    BY <1>d, <2>1
  <2>3. \A g \in Hosts : pc[g] = "listSync" => pc'[g] = "listSync" /\ cur'[g] = cur[g] /\ todo'[g] = todo[g]
    BY <1>a, <1>e
  <2> QED BY <1>0, <1>a, <2>1, <2>2, <2>3 DEF FailInv, Covered
<1>10. DependencyOrder'
  <2>1. \A c \in Commands : c \in Event /\ needs[c] \subseteq Event /\ status'[c] = status[c]
    BY <1>0, <1>1, <1>2 DEF TypeOK
  <2> QED BY <1>0, <1>1, <1>a, <1>d, <2>1 DEF FailInv, DependencyOrder
<1> QED BY <1>3, <1>4, <1>5, <1>6, <1>7, <1>8, <1>9, <1>10 DEF FailInv

\* One synchronization with the wait list, while nothing has failed.
LEMMA FailSync ==
  ASSUME FState, NEW h \in Hosts, SyncListed(h)
  PROVE  FailInv'
<1> USE DEF QUEUED, SUBMITTED, RUNNING, COMPLETE, FAILED
<1>0. /\ TypeOK /\ FailInv /\ LockBase /\ Untouched /\ Finishing /\ Linked /\ OneNeed
  BY DEF FState, FailInv, LockInv
<1>a. /\ pc[h] = "listSync" /\ Enqueuing(h)
      /\ UNCHANGED <<kind, needs, status, ready, barrier, work, phase, nested, pc, cur>>
  BY DEF SyncListed, Enqueuing, identVars, cqVars, finVars
<1>b. PICK e \in Event : e = cur[h]
  BY <1>0, <1>a DEF TypeOK, Commands
<1>c. PICK n \in todo[h] : Sync(e, {n}) /\ todo' = [todo EXCEPT ![h] = @ \ {n}]
  BY <1>b DEF SyncListed
<1>1. /\ e \in Commands /\ status[e] = QUEUED /\ ~ready[e] /\ n \in Event /\ n \in needs[e]
      /\ \A a \in Event : status[a] # FAILED
      /\ \A t \in Thread, a \in Event : phase[t][a] # "notifying"
      /\ \A t \in Thread, a \in Event : phase[t][a] = "finish" => t \in Drivers
      /\ Commands' = Commands
  <2>1. \A a \in Event : status[a] # FAILED
    BY <1>0, <1>a, EnqueuingFacts
  <2>2. \A t \in Thread, a \in Event : phase[t][a] # "notifying"
    BY <1>0, <1>a, EnqueuingFacts
  <2>3. \A t \in Thread, a \in Event : phase[t][a] = "finish" => t \in Drivers
    BY <2>2, <1>0 DEF Finishing, Failing
  <2>4. e \in Commands /\ status[e] = QUEUED /\ ~ready[e] /\ n \in Event /\ n \in needs[e]
    BY <1>0, <1>a, <1>b, <1>c DEF Untouched, OneNeed, TypeOK
  <2> QED BY <1>a, <2>1, <2>2, <2>3, <2>4 DEF Commands
<1>2. /\ \A a \in Event : waits'[a] = IF a = e /\ status[n] # COMPLETE THEN waits[e] \cup {n} ELSE waits[a]
      /\ \A m \in Event : /\ notify[m] \subseteq notify'[m] /\ notify'[m] \subseteq notify[m] \cup {e}
                          /\ m # n => notify'[m] = notify[m]
      /\ status[n] # COMPLETE => e \in notify[n] \/ n \notin waits[e]
      /\ status[n] # COMPLETE /\ n \notin waits[e] => e \in notify'[n]
      /\ e \in notify'[n] /\ e \notin notify[n] => n \in waits'[e]
      /\ todo'[h] = todo[h] \ {n} /\ \A g \in Hosts : g # h => todo'[g] = todo[g]
  <2>0. NewSyncs(e, {n}) = IF status[n] # COMPLETE /\ n \notin waits[e] THEN {n} ELSE {}
    BY DEF NewSyncs
  <2>1. /\ waits' = [waits EXCEPT ![e] = @ \cup NewSyncs(e, {n})]
        /\ notify' = [m \in Event |-> IF m \in NewSyncs(e, {n}) THEN notify[m] \cup {e} ELSE notify[m]]
    BY <1>c DEF Sync
  <2>2. waits \in [Event -> SUBSET Event] /\ todo \in [Hosts -> SUBSET Event]
    BY <1>0 DEF TypeOK
  <2>3. \A a \in Event : waits'[a] = IF a = e /\ status[n] # COMPLETE THEN waits[e] \cup {n} ELSE waits[a]
    BY <2>0, <2>1, <2>2
  <2>4. n \in waits[e] => e \in notify[n]
    BY <1>0, <1>b DEF Linked
  <2>5. /\ \A m \in Event : /\ notify[m] \subseteq notify'[m] /\ notify'[m] \subseteq notify[m] \cup {e}
                            /\ m # n => notify'[m] = notify[m]
        /\ status[n] # COMPLETE /\ n \notin waits[e] => e \in notify'[n]
        /\ e \in notify'[n] /\ e \notin notify[n] => status[n] # COMPLETE
    BY <1>1, <2>0, <2>1
  <2> QED BY <1>c, <2>2, <2>3, <2>4, <2>5
<1>3. Untouched' /\ InWork' /\ InTaken' /\ Placed' /\ DependencyOrder'
  <2>1. Untouched'
    BY <1>0, <1>a DEF Untouched, Enqueuing, Commands
  <2> QED BY <1>0, <1>1, <1>a, <2>1 DEF FailInv, InWork, InTaken, Placed, DependencyOrder
<1>4. Finishing'
  BY <1>0, <1>1, <1>a DEF Finishing, Over
<1>5. OneNeed'
  <2>1. \A g \in Hosts : pc'[g] # "lastSync" /\ (Enqueuing(g)' => todo'[g] \subseteq needs'[cur'[g]])
    BY <1>0, <1>2, <1>a DEF OneNeed, Enqueuing
  <2>2. \A a \in Event : waits'[a] \subseteq needs'[a]
    BY <1>0, <1>1, <1>2, <1>a DEF OneNeed
  <2> QED BY <1>0, <1>a, <2>1, <2>2 DEF OneNeed
<1>6. Linked'
  <2>1. ASSUME NEW x \in Event, NEW m \in waits'[x]
        PROVE  /\ x \in notify'[m] /\ x \in Commands' /\ status'[x] = QUEUED
               /\ ~Over(m)' \/ \E t \in Thread : phase'[t][m] \in {"broadcast", "notifying"}
    <3>1. CASE m \in waits[x]
      <4>1. m \in Event
        BY <1>0, <3>1 DEF TypeOK
      <4>2. /\ x \in notify[m] /\ x \in Commands /\ status[x] = QUEUED
            /\ ~Over(m) \/ \E t \in Thread : phase[t][m] \in {"broadcast", "notifying"}
        BY <1>0, <3>1 DEF Linked
      <4> QED BY <1>1, <1>2, <1>a, <4>1, <4>2 DEF Over
    <3>2. CASE m \notin waits[x]
      <4>1. x = e /\ m = n /\ status[n] # COMPLETE
        BY <1>2, <2>1, <3>2
      <4>2. ~Over(n)' /\ e \in notify'[n]
        BY <1>1, <1>2, <1>a, <3>2, <4>1 DEF Over
      <4> QED BY <1>1, <1>a, <4>1, <4>2
    <3> QED BY <3>1, <3>2
  <2>2. ASSUME NEW m \in Event, NEW x \in notify'[m]
        PROVE  m \in needs'[x] /\ m \in waits'[x]
    <3>1. CASE x \in notify[m]
      <4>1. x \in Event
        BY <1>0, <3>1 DEF TypeOK
      <4>2. m \in needs[x] /\ m \in waits[x]
        BY <1>0, <1>1, <3>1 DEF Linked
      <4> QED BY <1>2, <1>a, <4>1, <4>2
    <3>2. CASE x \notin notify[m]
      <4>1. x = e /\ m = n
        BY <1>2, <2>2, <3>2
      <4> QED BY <1>1, <1>2, <1>a, <2>2, <3>2, <4>1
    <3> QED BY <3>1, <3>2
  <2> QED BY <1>1, <1>a, <2>1, <2>2 DEF Linked
<1>7. Covered'
  <2> SUFFICES ASSUME NEW c \in Commands, status[c] = QUEUED
               PROVE  /\ \A d \in needs[c] :
                           \/ status[d] = COMPLETE
                           \/ d \in waits'[c]
                           \/ \E g \in Hosts : pc[g] = "listSync" /\ cur[g] = c /\ d \in todo'[g]
                           \/ status[d] = FAILED /\ \E t \in Thread : phase[t][c] = "finish"
                      /\ ready[c] => waits'[c] # {} \/ \E t \in Thread : phase[t][c] = "finish"
    BY <1>1, <1>a DEF Covered
  <2>0. c \in Event /\ waits[c] \subseteq waits'[c]
    BY <1>2 DEF Commands
  <2>1. ready[c] => waits'[c] # {} \/ \E t \in Thread : phase[t][c] = "finish"
    BY <1>0, <2>0 DEF FailInv, Covered
  <2>2. ASSUME NEW d \in needs[c], d # n \/ c # e
        PROVE  \/ status[d] = COMPLETE
               \/ d \in waits'[c]
               \/ \E g \in Hosts : pc[g] = "listSync" /\ cur[g] = c /\ d \in todo'[g]
               \/ status[d] = FAILED /\ \E t \in Thread : phase[t][c] = "finish"
    <3>1. \A g \in Hosts : cur[g] = c /\ d \in todo[g] => d \in todo'[g]
      BY <1>2, <1>b, <2>2
    <3> QED BY <1>0, <2>0, <3>1 DEF FailInv, Covered
  <2>3. c = e => status[n] = COMPLETE \/ n \in waits'[c]
    BY <1>2, <2>0
  <2> QED BY <2>1, <2>2, <2>3
<1> QED BY <1>3, <1>4, <1>5, <1>6, <1>7 DEF FailInv

\* A task enters its queue; it waits for nothing more.
LEMMA FailEnqueue ==
  ASSUME FState, OneNotifier, NEW h \in Hosts, Enqueue(h)
  PROVE  FailInv'
<1>0. /\ TypeOK /\ FailInv /\ Untouched /\ OneNeed
  BY DEF FState, FailInv
<1>b. PICK e \in Event : e = cur[h] /\ e \in Commands
  BY <1>0 DEF Enqueue, Enqueuing, TypeOK, Commands
<1>q. PICK q \in Queues : q = queue[e]
  BY <1>0, <1>b DEF TypeOK
<1>h. h \in Thread /\ \A d \in Drivers : d # h
  BY ConstantsAssumption DEF Thread
<1>a. /\ pc[h] = "listSync" /\ todo[h] = {} /\ Sync(e, QueueSyncs(e, q))
      /\ needs' = [needs EXCEPT ![e] = @ \cup QueueOrder(e, q)]
      /\ barrier' = IF IsBarrier(kind[e]) THEN [barrier EXCEPT ![q] = e] ELSE barrier
      /\ pc' = [pc EXCEPT ![h] = "submit"]
      /\ UNCHANGED <<kind, status, ready, work, phase, nested, cur, todo>>
  BY <1>b, <1>q DEF Enqueue, Goto, finVars
<1>1. kind[e] = "task" /\ \A a \in Event : ~IsBarrier(kind[a])
  <2>1. \A a \in Event : kind[a] \in {"task", "user", "none"}
    BY <1>0 DEF Untouched, OneNotifier
  <2> QED BY <1>b, <2>1 DEF IsBarrier, Commands, CommandKinds
<1>2. QueueSyncs(e, q) = {} /\ QueueOrder(e, q) = {}
  <2>1. QueueSyncs(e, q) = {}
    BY <1>0, <1>1 DEF QueueSyncs, OneNeed, IsBarrier
  <2>2. pending[q] \subseteq Event
    BY <1>0 DEF TypeOK
  <2> QED BY <1>1, <2>1, <2>2 DEF QueueOrder, OneNotifier
<1>3. UNCHANGED <<waits, notify, needs, barrier>>
  <2>0. NewSyncs(e, {}) = {}
    BY DEF NewSyncs
  <2>1. waits' = [waits EXCEPT ![e] = @ \cup {}] /\ notify' = [n \in Event |-> IF n \in {} THEN notify[n] \cup {e} ELSE notify[n]]
    BY <1>a, <1>2, <2>0 DEF Sync
  <2> QED BY <1>0, <1>1, <1>2, <1>a, <2>1 DEF TypeOK
<1>4. /\ \A g \in Hosts : Enqueuing(g)' => Enqueuing(g)
      /\ \A g \in Hosts : (g # h => pc'[g] = pc[g]) /\ pc'[h] = "submit"
      /\ \A d \in Drivers : pc'[d] = pc[d]
  BY <1>0, <1>h, <1>a DEF Enqueuing, TypeOK, Thread
<1>5. Untouched' /\ Finishing' /\ Linked' /\ DependencyOrder' /\ InWork' /\ InTaken' /\ Placed'
  BY <1>0, <1>3, <1>4, <1>a DEF FailInv, Untouched, Finishing, Linked, DependencyOrder, Commands, Over, Failing, InWork, InTaken, Placed
<1>6. OneNeed'
  BY <1>0, <1>3, <1>4, <1>a DEF OneNeed
<1>7. Covered'
  BY <1>0, <1>3, <1>4, <1>a DEF FailInv, Covered, Commands
<1> QED BY <1>5, <1>6, <1>7 DEF FailInv

\* The command is submitted: dispatched if it waits for nothing.
LEMMA FailSubmit ==
  ASSUME FState, NEW h \in Hosts, Submit(h)
  PROVE  FailInv'
<1> USE DEF QUEUED, SUBMITTED, RUNNING, COMPLETE, FAILED
<1>0. /\ TypeOK /\ FailInv /\ LockBase /\ Untouched /\ Finishing /\ Linked /\ OneNeed
      /\ PointsSettled
  BY DEF FState, FailInv, LockInv, LockBase
<1>h. h \in Thread /\ \A d \in Drivers : d # h
  BY ConstantsAssumption DEF Thread
<1>q. Enqueuing(h) /\ pc[h] = "submit"
  BY DEF Submit, Enqueuing
<1>b. PICK e \in Event : e = cur[h] /\ e \in Commands /\ status[e] = QUEUED /\ ~ready[e]
  BY <1>0, <1>q DEF TypeOK, Untouched, Commands
<1>a. /\ ready' = [ready EXCEPT ![e] = TRUE]
      /\ status' = [status EXCEPT ![e] = IF waits[e] = {} THEN SUBMITTED ELSE QUEUED]
      /\ work' = IF waits[e] = {} THEN Append(work, e) ELSE work
      /\ cur' = [cur EXCEPT ![h] = NoEvent] /\ pc' = [pc EXCEPT ![h] = "idle"]
      /\ UNCHANGED <<kind, needs, waits, notify, barrier, phase, nested, todo>>
  BY <1>b DEF Submit, Goto, identVars, cqVars, finVars
<1>1. /\ \A a \in Event : status[a] # FAILED
      /\ \A t \in Thread : phase[t][e] = "none"
      /\ Commands' = Commands
      /\ \A g \in Hosts : Enqueuing(g) /\ cur[g] = e => g = h
      /\ \A i \in 1..Len(work) : work[i] # e
      /\ \A d \in Drivers : pc[d] = "taken" => cur[d] # e
  <2>1. \A a \in Event : status[a] # FAILED
    BY <1>0, <1>q, EnqueuingFacts
  <2>2. \A t \in Thread : phase[t][e] = "none"
    BY <1>0, <1>q, <1>b, EnqueuingFacts
  <2>3. \A g \in Hosts : Enqueuing(g) /\ cur[g] = e => g = h
    BY <1>0, <1>q, <1>b DEF PointsSettled
  <2>4. e \notin Settled
    BY <1>q, <1>b DEF Settled
  <2>5. (\A i \in 1..Len(work) : work[i] # e) /\ \A d \in Drivers : pc[d] = "taken" => cur[d] # e
    BY <1>0, <2>4 DEF PointsSettled
  <2> QED BY <1>a, <2>1, <2>2, <2>3, <2>5 DEF Commands
<1>2. /\ status'[e] = (IF waits[e] = {} THEN SUBMITTED ELSE QUEUED) /\ ready'[e]
      /\ \A a \in Event : a # e => status'[a] = status[a] /\ ready'[a] = ready[a]
      /\ \A d \in Drivers : pc'[d] = pc[d] /\ cur'[d] = cur[d]
      /\ \A g \in Hosts : g # h => pc'[g] = pc[g] /\ cur'[g] = cur[g]
      /\ pc'[h] = "idle"
  BY <1>0, <1>h, <1>a DEF TypeOK, Thread
<1>e. \A g \in Hosts : Enqueuing(g)' => g # h /\ Enqueuing(g) /\ cur'[g] = cur[g] /\ cur[g] # e /\ cur[g] \in Commands
  BY <1>0, <1>1, <1>2 DEF Enqueuing, TypeOK
<1>w. /\ Len(work) \in Nat
      /\ waits[e] = {} => /\ Len(work') = Len(work) + 1 /\ work'[Len(work) + 1] = e
                          /\ \A i \in 1..Len(work) : work'[i] = work[i]
      /\ waits[e] # {} => work' = work
  BY <1>0, <1>a, AppendFacts DEF TypeOK
<1>m. waits[e] = {} => \A d \in needs[e] : status[d] = COMPLETE
  <2>1. \A g \in Hosts : ~(pc[g] = "listSync" /\ cur[g] = e)
    BY <1>1, <1>q DEF Enqueuing
  <2>2. \A d \in needs[e] : d \in Event
    BY <1>0 DEF TypeOK
  <2> QED BY <1>0, <1>1, <1>b, <2>1, <2>2 DEF FailInv, Covered
<1>3. Untouched'
  <2>1. \A g \in Hosts : Enqueuing(g)' => status'[cur'[g]] = QUEUED /\ ~ready'[cur'[g]]
    <3> SUFFICES ASSUME NEW g \in Hosts, Enqueuing(g)' PROVE status'[cur'[g]] = QUEUED /\ ~ready'[cur'[g]]
      OBVIOUS
    <3>1. Enqueuing(g) /\ cur'[g] = cur[g] /\ cur[g] # e /\ cur[g] \in Event
      BY <1>e DEF Commands
    <3> QED BY <1>0, <1>2, <3>1 DEF Untouched
  <2>2. \A a \in Event : kind[a] = "none" => status'[a] = QUEUED
    BY <1>0, <1>2, <1>b DEF Untouched, Commands, CommandKinds
  <2>3. \A a \in Event : ready'[a] => a \in Commands'
    BY <1>0, <1>1, <1>2, <1>b DEF Untouched
  <2> QED BY <1>0, <1>a, <2>1, <2>2, <2>3 DEF Untouched
<1>4. InWork'
  <2>1. CASE waits[e] # {}
    BY <1>0, <1>1, <1>2, <1>b, <1>w, <2>1 DEF FailInv, InWork, Commands
  <2>2. CASE waits[e] = {}
    <3>1. \A i \in 1..Len(work') : i \in 1..Len(work) \/ i = Len(work) + 1
      BY <1>w, <2>2
    <3>2. \A i \in 1..Len(work') : work'[i] \in Commands /\ status'[work'[i]] = SUBMITTED
      BY <1>0, <1>1, <1>2, <1>b, <1>w, <2>2, <3>1 DEF FailInv, InWork, Commands
    <3>3. \A i, j \in 1..Len(work') : work'[i] = work'[j] => i = j
      BY <1>0, <1>1, <1>w, <2>2, <3>1 DEF FailInv, InWork
    <3> QED BY <1>1, <3>2, <3>3 DEF InWork
  <2> QED BY <2>1, <2>2
<1>5. InTaken'
  <2> SUFFICES ASSUME NEW d \in Drivers, pc[d] = "taken"
               PROVE  /\ cur[d] \in Commands /\ status'[cur[d]] = SUBMITTED
                      /\ \A i \in 1..Len(work') : work'[i] # cur[d]
                      /\ \A c \in Drivers : pc[c] = "taken" /\ cur[c] = cur[d] => c = d
    BY <1>1, <1>2 DEF InTaken
  <2>1. /\ cur[d] \in Commands /\ cur[d] \in Event /\ status[cur[d]] = SUBMITTED /\ cur[d] # e
        /\ \A i \in 1..Len(work) : work[i] # cur[d]
        /\ \A c \in Drivers : pc[c] = "taken" /\ cur[c] = cur[d] => c = d
    BY <1>0, <1>1 DEF FailInv, InTaken, Commands
  <2>2. \A i \in 1..Len(work') : work'[i] # cur[d]
    BY <1>w, <2>1
  <2> QED BY <1>2, <2>1, <2>2
<1>6. Placed'
  <2> SUFFICES ASSUME NEW c \in Commands
               PROVE  /\ status'[c] = SUBMITTED =>
                           \/ \E i \in 1..Len(work') : work'[i] = c
                           \/ \E d \in Drivers : pc'[d] = "taken" /\ cur'[d] = c
                      /\ status'[c] = RUNNING => \E t \in Thread : phase'[t][c] = "finish"
    BY <1>1 DEF Placed
  <2>1. CASE c = e
    BY <1>2, <1>w, <2>1
  <2>2. CASE c # e
    <3>1. /\ status[c] = SUBMITTED =>
               \/ \E i \in 1..Len(work) : work[i] = c
               \/ \E d \in Drivers : pc[d] = "taken" /\ cur[d] = c
          /\ status[c] = RUNNING => \E t \in Thread : phase[t][c] = "finish"
      BY <1>0 DEF FailInv, Placed
    <3>2. status'[c] = status[c]
      BY <1>2, <2>2 DEF Commands
    <3>3. \A i \in 1..Len(work) : i \in 1..Len(work') /\ work'[i] = work[i]
      BY <1>w
    <3> QED BY <1>2, <1>a, <3>1, <3>2, <3>3
  <2> QED BY <2>1, <2>2
<1>7. Finishing'
  <2>1. \A u \in Thread, a \in Event : phase'[u][a] # "none" => a # e /\ phase[u][a] # "none" /\ status'[a] = status[a]
    BY <1>1, <1>2, <1>a
  <2>2. \A a \in Event : \A d \in needs[a] : d \in Event /\ status[d] # FAILED
    BY <1>0, <1>1 DEF TypeOK
  <2> QED BY <1>0, <1>1, <1>a, <2>1, <2>2 DEF Finishing, Over, Failing
<1>8. OneNeed'
  BY <1>0, <1>a, <1>2, <1>e DEF OneNeed
<1>9. Linked'
  <2>1. \A a \in Event : Over(a)' <=> Over(a)
    BY <1>2, <1>b DEF Over
  <2>2. \A x \in Event : \A m \in waits[x] : m \in Event /\ status'[x] = QUEUED
    BY <1>0, <1>2 DEF Linked, TypeOK
  <2> QED BY <1>0, <1>1, <1>a, <2>1, <2>2 DEF Linked
<1>10. Covered'
  <2> SUFFICES ASSUME NEW c \in Commands, status'[c] = QUEUED
               PROVE  /\ \A d \in needs[c] :
                           \/ status'[d] = COMPLETE
                           \/ d \in waits[c]
                           \/ \E g \in Hosts : pc'[g] = "listSync" /\ cur'[g] = c /\ d \in todo[g]
                           \/ status'[d] = FAILED /\ \E t \in Thread : phase[t][c] = "finish"
                      /\ ready'[c] => waits[c] # {} \/ \E t \in Thread : phase[t][c] = "finish"
    BY <1>1, <1>a DEF Covered
  <2>0. c \in Event /\ status[c] = QUEUED
    BY <1>2, <1>b DEF Commands
  <2>1. \A d \in needs[c] : status[d] = COMPLETE => status'[d] = COMPLETE
    BY <1>0, <1>2, <1>b, <2>0 DEF TypeOK
  <2>2. \A g \in Hosts : pc[g] = "listSync" => pc'[g] = "listSync" /\ cur'[g] = cur[g]
    BY <1>2, <1>q
  <2>3. \A d \in needs[c] : status[d] # FAILED
    BY <1>0, <1>1, <2>0 DEF TypeOK
  <2>4. ready'[c] => waits[c] # {} \/ \E t \in Thread : phase[t][c] = "finish"
    <3>1. CASE c = e
      BY <1>2, <3>1
    <3>2. CASE c # e
      BY <1>0, <1>2, <2>0, <3>2 DEF FailInv, Covered
    <3> QED BY <3>1, <3>2
  <2> QED BY <1>0, <2>0, <2>1, <2>2, <2>3, <2>4 DEF FailInv, Covered
<1>11. DependencyOrder'
  <2> SUFFICES ASSUME NEW c \in Commands, status'[c] \in {SUBMITTED, RUNNING, COMPLETE}, NEW d \in needs[c]
               PROVE  status'[d] = COMPLETE
    BY <1>1, <1>a DEF DependencyOrder
  <2>0. c \in Event /\ d \in Event
    BY <1>0 DEF Commands, TypeOK
  <2>1. status[d] = COMPLETE
    <3>1. CASE c = e
      BY <1>2, <1>m, <3>1
    <3>2. CASE c # e
      BY <1>0, <1>2, <2>0, <3>2 DEF FailInv, DependencyOrder
    <3> QED BY <3>1, <3>2
  <2> QED BY <1>2, <1>b, <2>0, <2>1
<1> QED BY <1>3, <1>4, <1>5, <1>6, <1>7, <1>8, <1>9, <1>10, <1>11 DEF FailInv

\* A driver thread takes a command.
LEMMA FailTake ==
  ASSUME FState, NEW d \in Drivers, Take(d)
  PROVE  FailInv'
<1>0. TypeOK /\ FailInv /\ Works /\ InWork /\ InTaken
  BY DEF FState, FailInv, LockInv
<1>h. d \in Thread /\ \A h \in Hosts : h # d /\ h \in Thread
  BY ConstantsAssumption DEF Thread
<1>a. /\ work # <<>> /\ work' = Tail(work) /\ cur' = [cur EXCEPT ![d] = Head(work)] /\ pc' = [pc EXCEPT ![d] = "taken"]
      /\ pc[d] = "idle"
      /\ UNCHANGED <<kind, needs, status, waits, notify, ready, barrier, phase, nested, todo>>
  BY DEF Take, Goto, identVars, eventVars, cqVars, finVars
<1>1. /\ Len(work) \in Nat /\ Len(work) > 0 /\ Head(work) = work[1] /\ Head(work) \in Event
      /\ Len(work') = Len(work) - 1 /\ \A i \in 1..Len(work') : work'[i] = work[i + 1]
  BY <1>0, <1>a DEF TypeOK
<1>b. PICK e \in Event : e = Head(work)
  BY <1>1
<1>2. /\ cur'[d] = e /\ pc'[d] = "taken"
      /\ \A c \in Drivers : c # d => pc'[c] = pc[c] /\ cur'[c] = cur[c]
      /\ \A h \in Hosts : pc'[h] = pc[h] /\ cur'[h] = cur[h]
      /\ Commands' = Commands
  BY <1>0, <1>a, <1>b, <1>h DEF TypeOK, Thread, Commands
<1>i. /\ e \in Commands /\ status[e] = SUBMITTED
      /\ \A i \in 1..Len(work') : i + 1 \in 1..Len(work) /\ i + 1 # 1 /\ work'[i] = work[i + 1] /\ work'[i] # e
  BY <1>0, <1>1, <1>b DEF InWork
<1>3. InWork'
  BY <1>0, <1>1, <1>2, <1>a, <1>i DEF InWork
<1>4. InTaken'
  <2> SUFFICES ASSUME NEW c \in Drivers, pc'[c] = "taken"
               PROVE  /\ cur'[c] \in Commands /\ status[cur'[c]] = SUBMITTED
                      /\ \A i \in 1..Len(work') : work'[i] # cur'[c]
                      /\ \A g \in Drivers : pc'[g] = "taken" /\ cur'[g] = cur'[c] => g = c
    BY <1>2, <1>a DEF InTaken
  <2>1. \A g \in Drivers : g # d /\ pc[g] = "taken" => cur[g] # e
    BY <1>0, <1>1, <1>b DEF InTaken
  <2>2. CASE c = d
    BY <1>2, <1>i, <2>1, <2>2
  <2>3. CASE c # d
    <3>1. /\ pc[c] = "taken" /\ cur'[c] = cur[c] /\ cur[c] # e
      BY <1>2, <2>1, <2>3
    <3>2. \A i \in 1..Len(work') : work'[i] # cur[c]
      BY <1>0, <1>i, <3>1 DEF InTaken
    <3>3. \A g \in Drivers : pc'[g] = "taken" /\ cur'[g] = cur[c] => g = c
      BY <1>0, <1>2, <3>1 DEF InTaken
    <3> QED BY <1>0, <3>1, <3>2, <3>3 DEF InTaken
  <2> QED BY <2>2, <2>3
<1>5. Placed'
  <2> SUFFICES ASSUME NEW c \in Commands
               PROVE  /\ status[c] = SUBMITTED =>
                           \/ \E i \in 1..Len(work') : work'[i] = c
                           \/ \E g \in Drivers : pc'[g] = "taken" /\ cur'[g] = c
                      /\ status[c] = RUNNING => \E t \in Thread : phase[t][c] = "finish"
    BY <1>2, <1>a DEF Placed
  <2>1. /\ status[c] = SUBMITTED =>
             \/ \E i \in 1..Len(work) : work[i] = c
             \/ \E g \in Drivers : pc[g] = "taken" /\ cur[g] = c
        /\ status[c] = RUNNING => \E t \in Thread : phase[t][c] = "finish"
    BY <1>0 DEF FailInv, Placed
  <2>2. ASSUME NEW i \in 1..Len(work), work[i] = c
        PROVE  c = e \/ \E j \in 1..Len(work') : work'[j] = c
    <3>1. CASE i = 1
      BY <1>1, <1>b, <2>2, <3>1
    <3>2. CASE i # 1
      <4>1. i - 1 \in 1..Len(work') /\ (i - 1) + 1 = i
        BY <1>1, <3>2
      <4>2. work'[i - 1] = work[i]
        BY <1>1, <4>1
      <4> QED BY <2>2, <4>1, <4>2
    <3> QED BY <3>1, <3>2
  <2>3. ASSUME NEW g \in Drivers, pc[g] = "taken" /\ cur[g] = c PROVE \E f \in Drivers : pc'[f] = "taken" /\ cur'[f] = c
    BY <1>2, <1>a, <2>3
  <2> QED BY <1>2, <2>1, <2>2, <2>3
<1>6. \A h \in Hosts : Enqueuing(h)' <=> Enqueuing(h)
  BY <1>2 DEF Enqueuing
<1>7. Untouched' /\ Finishing' /\ Linked' /\ DependencyOrder'
  BY <1>0, <1>2, <1>6, <1>a DEF FailInv, Untouched, Finishing, Linked, DependencyOrder, Over, Failing
<1>8. OneNeed'
  BY <1>0, <1>2, <1>6, <1>a DEF FailInv, OneNeed
<1>9. Covered'
  BY <1>0, <1>2, <1>a DEF FailInv, Covered
<1> QED BY <1>3, <1>4, <1>5, <1>7, <1>8, <1>9 DEF FailInv

\* A driver thread runs a command.
LEMMA FailStart ==
  ASSUME FState, NEW d \in Drivers, Start(d)
  PROVE  FailInv'
<1> USE DEF QUEUED, SUBMITTED, RUNNING, COMPLETE, FAILED
<1>0. TypeOK /\ FailInv /\ InWork /\ InTaken /\ Finishing /\ OneNeed /\ Linked /\ Untouched
  BY DEF FState, FailInv
<1>h. d \in Thread /\ \A h \in Hosts : h # d /\ h \in Thread
  BY ConstantsAssumption DEF Thread
<1>b. PICK e \in Event : e = cur[d] /\ e \in Commands /\ status[e] = SUBMITTED
  BY <1>0 DEF Start, InTaken, Commands
<1>a. /\ pc[d] = "taken"
      /\ status' = [status EXCEPT ![e] = RUNNING] /\ phase' = [phase EXCEPT ![d][e] = "finish"]
      /\ cur' = [cur EXCEPT ![d] = NoEvent] /\ pc' = [pc EXCEPT ![d] = "finishing"]
      /\ UNCHANGED <<kind, needs, waits, notify, ready, barrier, work, nested, todo>>
  BY <1>b DEF Start, Goto, identVars, cqVars
<1>1. /\ \A u \in Thread : phase[u][e] = "none"
      /\ \A i \in 1..Len(work) : work[i] # e
      /\ \A c \in Drivers : pc[c] = "taken" /\ cur[c] = e => c = d
      /\ waits[e] = {}
  <2>1. ASSUME NEW u \in Thread PROVE phase[u][e] = "none"
    <3>1. e \in Event /\ ~Over(e)
      BY <1>b DEF Over, Commands
    <3>2. phase[u][e] # "finish"
      BY <1>0, <1>b, <3>1 DEF Finishing
    <3>3. phase[u][e] \notin {"broadcast", "notifying", "release"}
      BY <1>0, <3>1 DEF Finishing
    <3> QED BY <1>0, <3>1, <3>2, <3>3 DEF TypeOK
  <2>2. waits[e] = {}
    BY <1>0, <1>b DEF Linked, TypeOK
  <2> QED BY <1>0, <1>a, <1>b, <2>1, <2>2 DEF InTaken
<1>2. /\ status'[e] = RUNNING /\ phase'[d][e] = "finish"
      /\ \A a \in Event : a # e => status'[a] = status[a]
      /\ \A u \in Thread, a \in Event : (u # d \/ a # e) => phase'[u][a] = phase[u][a]
      /\ pc'[d] = "finishing" /\ \A c \in Drivers : c # d => pc'[c] = pc[c] /\ cur'[c] = cur[c]
      /\ \A h \in Hosts : pc'[h] = pc[h] /\ cur'[h] = cur[h]
      /\ Commands' = Commands
  BY <1>0, <1>a, <1>b, <1>h DEF TypeOK, Thread, Commands
<1>e. \A h \in Hosts : Enqueuing(h)' <=> Enqueuing(h)
  BY <1>2 DEF Enqueuing
<1>f. \A u \in Thread : Failing(u)' <=> Failing(u)
  BY <1>1, <1>2 DEF Failing
<1>3. InWork'
  BY <1>0, <1>1, <1>2, <1>a DEF InWork, Commands
<1>4. InTaken'
  BY <1>0, <1>1, <1>2, <1>a DEF InTaken, Commands
<1>5. Placed'
  <2> SUFFICES ASSUME NEW c \in Commands
               PROVE  /\ status'[c] = SUBMITTED =>
                           \/ \E i \in 1..Len(work) : work[i] = c
                           \/ \E g \in Drivers : pc'[g] = "taken" /\ cur'[g] = c
                      /\ status'[c] = RUNNING => \E t \in Thread : phase'[t][c] = "finish"
    BY <1>2, <1>a DEF Placed
  <2>1. CASE c = e
    BY <1>2, <1>h, <2>1
  <2>2. CASE c # e
    <3>1. c \in Event /\ status'[c] = status[c] /\ \A t \in Thread : phase'[t][c] = phase[t][c]
      BY <1>2, <2>2 DEF Commands
    <3>2. \A g \in Drivers : pc[g] = "taken" /\ cur[g] = c => pc'[g] = "taken" /\ cur'[g] = c
      BY <1>2, <1>b, <2>2
    <3> QED BY <1>0, <3>1, <3>2 DEF FailInv, Placed
  <2> QED BY <2>1, <2>2
<1>6. Untouched'
  <2>1. \A h \in Hosts : Enqueuing(h)' => status'[cur'[h]] = QUEUED /\ ~ready'[cur'[h]]
    <3> SUFFICES ASSUME NEW h \in Hosts, Enqueuing(h)' PROVE status'[cur'[h]] = QUEUED /\ ~ready'[cur'[h]]
      OBVIOUS
    <3>1. Enqueuing(h) /\ cur'[h] = cur[h] /\ cur[h] \in Event /\ status[cur[h]] = QUEUED
      BY <1>0, <1>2, <1>e DEF Untouched, TypeOK, Commands
    <3>2. cur[h] # e
      BY <1>b, <3>1
    <3> QED BY <1>0, <1>2, <1>a, <3>1, <3>2 DEF Untouched
  <2>2. \A a \in Event : kind'[a] = "none" => status'[a] = QUEUED
    BY <1>0, <1>2, <1>a, <1>b DEF Untouched, Commands, CommandKinds
  <2> QED BY <1>0, <1>2, <1>a, <2>1, <2>2 DEF Untouched
<1>d. \A a \in Event : Over(a)' <=> Over(a)
  BY <1>2, <1>b DEF Over
<1>g. \A a \in Event : (status'[a] = QUEUED <=> status[a] = QUEUED) /\ (status'[a] = FAILED <=> status[a] = FAILED)
                       /\ (status'[a] = COMPLETE <=> status[a] = COMPLETE)
  BY <1>2, <1>b
<1>7. Finishing'
  <2> SUFFICES ASSUME NEW t \in Thread, NEW a \in Event, phase'[t][a] # "none"
               PROVE  /\ phase'[t][a] = "finish" =>
                          /\ a \in Commands
                          /\ t \in Drivers => status'[a] = RUNNING
                          /\ t \notin Drivers =>
                               /\ status'[a] = QUEUED /\ waits[a] = {} /\ Failing(t)'
                               /\ \E b \in needs[a] : status'[b] = FAILED
                      /\ phase'[t][a] \in {"broadcast", "notifying", "release"} => Over(a)'
                      /\ t \in Drivers => status'[a] # FAILED
                      /\ \A u \in Thread : phase'[u][a] # "none" => u = t
    BY <1>2, <1>a DEF Finishing
  <2>1. CASE a = e
    <3>1. t = d
      BY <1>1, <1>2, <2>1
    <3> QED BY <1>1, <1>2, <1>b, <2>1, <3>1
  <2>2. CASE a # e
    <3>1. phase'[t][a] = phase[t][a] /\ status'[a] = status[a] /\ \A u \in Thread : phase'[u][a] = phase[u][a]
      BY <1>2, <2>2
    <3>2. needs[a] \subseteq Event
      BY <1>0 DEF TypeOK
    <3>3. (\E b \in needs[a] : status[b] = FAILED) => \E b \in needs[a] : status'[b] = FAILED
      BY <1>g, <3>2
    <3> QED BY <1>0, <1>d, <1>f, <3>1, <3>3 DEF Finishing
  <2> QED BY <2>1, <2>2
<1>8. OneNeed'
  BY <1>0, <1>2, <1>e, <1>a DEF OneNeed
<1>9. Linked'
  <2>1. \A t \in Thread, m \in Event : phase'[t][m] \in {"broadcast", "notifying"} <=> phase[t][m] \in {"broadcast", "notifying"}
    BY <1>1, <1>2
  <2>2. \A t \in Thread, m \in Event : phase'[t][m] = "notifying" <=> phase[t][m] = "notifying"
    BY <1>1, <1>2
  <2>3. \A x \in Event : \A m \in waits[x] : m \in Event
    BY <1>0 DEF TypeOK
  <2> QED BY <1>0, <1>2, <1>a, <1>d, <1>g, <2>1, <2>2, <2>3 DEF Linked
<1>10. Covered'
  <2> SUFFICES ASSUME NEW c \in Commands, status'[c] = QUEUED
               PROVE  /\ \A b \in needs[c] :
                           \/ status'[b] = COMPLETE
                           \/ b \in waits[c]
                           \/ \E g \in Hosts : pc'[g] = "listSync" /\ cur'[g] = c /\ b \in todo[g]
                           \/ status'[b] = FAILED /\ \E t \in Thread : phase'[t][c] = "finish"
                      /\ ready[c] => waits[c] # {} \/ \E t \in Thread : phase'[t][c] = "finish"
    BY <1>2, <1>a DEF Covered
  <2>1. c \in Event /\ c # e /\ status[c] = QUEUED /\ needs[c] \subseteq Event
    BY <1>0, <1>2, <1>g DEF Commands, TypeOK
  <2>2. \A t \in Thread : phase'[t][c] = phase[t][c]
    BY <1>2, <2>1
  <2>3. \A b \in needs[c] : (status'[b] = FAILED <=> status[b] = FAILED) /\ (status'[b] = COMPLETE <=> status[b] = COMPLETE)
    BY <1>g, <2>1
  <2> QED BY <1>0, <1>2, <2>1, <2>2, <2>3 DEF FailInv, Covered
<1>11. DependencyOrder'
  <2> SUFFICES ASSUME NEW c \in Commands, status'[c] \in {SUBMITTED, RUNNING, COMPLETE}, NEW b \in needs[c]
               PROVE  status'[b] = COMPLETE
    BY <1>2, <1>a DEF DependencyOrder
  <2>0. c \in Event /\ b \in Event
    BY <1>0 DEF Commands, TypeOK
  <2>1. status[c] \in {SUBMITTED, RUNNING, COMPLETE}
    BY <1>2, <1>b, <2>0
  <2> QED BY <1>0, <1>g, <2>0, <2>1 DEF FailInv, DependencyOrder
<1> QED BY <1>3, <1>4, <1>5, <1>6, <1>7, <1>8, <1>9, <1>10, <1>11 DEF FailInv

\* A driver thread completes its command, an application thread fails one.
LEMMA FailFinish ==
  ASSUME FState, NEW t \in Thread, NEW e \in Event, Finish(t, e)
  PROVE  FailInv'
<1> USE DEF QUEUED, SUBMITTED, RUNNING, COMPLETE, FAILED
<1>0. TypeOK /\ FailInv /\ InWork /\ InTaken /\ Finishing /\ OneNeed /\ Linked /\ Untouched
  BY DEF FState, FailInv
<1>h. \A h \in Hosts : h \in Thread
  BY DEF Thread
<1>d. \A c \in Drivers : c \in Thread
  BY DEF Thread
<1>v. PICK v \in {COMPLETE, FAILED} : v = IF Failing(t) THEN FAILED ELSE COMPLETE
  OBVIOUS
<1>a. /\ phase[t][e] = "finish"
      /\ status' = [status EXCEPT ![e] = v] /\ phase' = [phase EXCEPT ![t][e] = "broadcast"]
      /\ barrier' = Cleared(barrier, queue[e], e)
      /\ UNCHANGED <<kind, needs, waits, notify, ready, work, nested, cur, todo>>
  BY <1>v DEF Finish, identVars
<1>p. \A x \in Thread : pc'[x] = pc[x] \/ (pc[x] \in {"joinWait", "eventWait"} /\ pc'[x] \in {"join", "wait"})
  BY DEF Finish, WaitsForQueue, WaitsForEvent
<1>1. /\ e \in Commands /\ status[e] \in {RUNNING, QUEUED} /\ waits[e] = {}
      /\ \A u \in Thread : phase[u][e] # "none" => u = t
      /\ t \in Drivers => status[e] = RUNNING /\ v = COMPLETE
      /\ t \notin Drivers => status[e] = QUEUED /\ v = FAILED /\ \E b \in needs[e] : status[b] = FAILED
  <2>1. t \in Drivers => ~Failing(t)
    BY FailFacts
  <2>2. /\ e \in Commands /\ status[e] \in {RUNNING, QUEUED}
        /\ \A u \in Thread : phase[u][e] # "none" => u = t
        /\ t \in Drivers => status[e] = RUNNING
        /\ t \notin Drivers => status[e] = QUEUED /\ Failing(t) /\ \E b \in needs[e] : status[b] = FAILED
    BY <1>0, <1>a DEF Finishing
  <2>3. \A n \in Event : n \notin waits[e]
    BY <1>a, FailFacts
  <2>4. waits[e] = {}
    BY <1>0, <2>3 DEF TypeOK
  <2> QED BY <1>v, <2>1, <2>2, <2>4
<1>2. /\ status'[e] = v /\ phase'[t][e] = "broadcast"
      /\ \A a \in Event : a # e => status'[a] = status[a]
      /\ \A u \in Thread, a \in Event : (u # t \/ a # e) => phase'[u][a] = phase[u][a]
      /\ Commands' = Commands
      /\ \A q \in Queues : barrier'[q] \in {barrier[q], NoEvent}
  BY <1>0, <1>a DEF TypeOK, Commands, Cleared
<1>e. \A h \in Hosts : /\ Enqueuing(h)' <=> Enqueuing(h)
                       /\ (pc'[h] = "listSync" <=> pc[h] = "listSync")
                       /\ (pc'[h] = "lastSync" <=> pc[h] = "lastSync")
  BY <1>h, <1>p DEF Enqueuing
<1>k. \A c \in Drivers : pc'[c] = "taken" <=> pc[c] = "taken"
  BY <1>d, <1>p
<1>f. \A u \in Thread : Failing(u)' <=> Failing(u)
  BY <1>2, <1>a DEF Failing
<1>o. /\ \A a \in Event : Over(a) => status'[a] = status[a] /\ Over(a)'
      /\ \A a \in Event : status'[a] \in {QUEUED, SUBMITTED, RUNNING} => a # e
  BY <1>1, <1>2 DEF Over
<1>3. InWork'
  BY <1>0, <1>1, <1>2, <1>a DEF InWork, Commands
<1>4. InTaken'
  BY <1>0, <1>1, <1>2, <1>a, <1>k DEF InTaken, Commands
<1>5. Placed'
  <2> SUFFICES ASSUME NEW c \in Commands, status'[c] \in {SUBMITTED, RUNNING}
               PROVE  /\ status'[c] = SUBMITTED =>
                           \/ \E i \in 1..Len(work) : work[i] = c
                           \/ \E g \in Drivers : pc'[g] = "taken" /\ cur[g] = c
                      /\ status'[c] = RUNNING => \E u \in Thread : phase'[u][c] = "finish"
    BY <1>2, <1>a DEF Placed
  <2>1. c \in Event /\ c # e /\ status'[c] = status[c] /\ \A u \in Thread : phase'[u][c] = phase[u][c]
    BY <1>2, <1>o DEF Commands
  <2> QED BY <1>0, <1>k, <2>1 DEF FailInv, Placed
<1>6. Untouched'
  <2>1. \A h \in Hosts : Enqueuing(h)' => status'[cur'[h]] = QUEUED /\ ~ready'[cur'[h]]
    <3> SUFFICES ASSUME NEW h \in Hosts, Enqueuing(h)' PROVE status'[cur'[h]] = QUEUED /\ ~ready'[cur'[h]]
      OBVIOUS
    <3>0. LockBase
      BY DEF FState, LockInv
    <3>1. Enqueuing(h) /\ cur'[h] = cur[h] /\ cur[h] \in Event
      BY <1>0, <1>a, <1>e DEF TypeOK, Commands
    <3>2. cur[h] # e
      BY <1>0, <1>a, <3>0, <3>1, EnqueuingFacts
    <3> QED BY <1>0, <1>2, <1>a, <3>1, <3>2 DEF Untouched
  <2>2. \A a \in Event : kind'[a] = "none" => status'[a] = QUEUED
    BY <1>0, <1>1, <1>2, <1>a DEF Untouched, Commands, CommandKinds
  <2> QED BY <1>0, <1>2, <1>a, <2>1, <2>2 DEF Untouched
<1>7. Finishing'
  <2> SUFFICES ASSUME NEW u \in Thread, NEW a \in Event, phase'[u][a] # "none"
               PROVE  /\ phase'[u][a] = "finish" =>
                          /\ a \in Commands
                          /\ u \in Drivers => status'[a] = RUNNING
                          /\ u \notin Drivers =>
                               /\ status'[a] = QUEUED /\ waits[a] = {} /\ Failing(u)'
                               /\ \E b \in needs[a] : status'[b] = FAILED
                      /\ phase'[u][a] \in {"broadcast", "notifying", "release"} => Over(a)'
                      /\ u \in Drivers => status'[a] # FAILED
                      /\ \A w \in Thread : phase'[w][a] # "none" => w = u
    BY <1>2, <1>a DEF Finishing
  <2>1. CASE a = e
    <3>1. u = t
      BY <1>1, <1>2, <2>1
    <3> QED BY <1>1, <1>2, <2>1, <3>1 DEF Over
  <2>2. CASE a # e
    <3>1. phase'[u][a] = phase[u][a] /\ status'[a] = status[a] /\ \A w \in Thread : phase'[w][a] = phase[w][a]
      BY <1>2, <2>2
    <3>2. needs[a] \subseteq Event
      BY <1>0 DEF TypeOK
    <3>3. (\E b \in needs[a] : status[b] = FAILED) => \E b \in needs[a] : status'[b] = FAILED
      BY <1>o, <3>2 DEF Over
    <3> QED BY <1>0, <1>f, <3>1, <3>3 DEF Finishing, Over
  <2> QED BY <2>1, <2>2
<1>8. OneNeed'
  BY <1>0, <1>2, <1>e, <1>a DEF OneNeed
<1>9. Linked'
  <2>1. \A u \in Thread, m \in Event : phase'[u][m] = "notifying" <=> phase[u][m] = "notifying"
    BY <1>2, <1>a
  <2>2. ASSUME NEW x \in Event, NEW m \in waits[x]
        PROVE  /\ x \in notify[m] /\ x \in Commands /\ status'[x] = QUEUED
               /\ ~Over(m)' \/ \E u \in Thread : phase'[u][m] \in {"broadcast", "notifying"}
    <3>1. /\ x \in notify[m] /\ x \in Commands /\ status[x] = QUEUED /\ m \in Event /\ x # e
          /\ ~Over(m) \/ \E u \in Thread : phase[u][m] \in {"broadcast", "notifying"}
      BY <1>0, <1>1 DEF Linked, TypeOK
    <3>2. CASE m = e
      BY <1>2, <3>1, <3>2
    <3>3. CASE m # e
      BY <1>2, <3>1, <3>3 DEF Over
    <3> QED BY <3>2, <3>3
  <2> QED BY <1>0, <1>2, <1>a, <2>1, <2>2 DEF Linked
<1>10. Covered'
  <2> SUFFICES ASSUME NEW c \in Commands, status'[c] = QUEUED
               PROVE  /\ \A b \in needs[c] :
                           \/ status'[b] = COMPLETE
                           \/ b \in waits[c]
                           \/ \E g \in Hosts : pc'[g] = "listSync" /\ cur[g] = c /\ b \in todo[g]
                           \/ status'[b] = FAILED /\ \E u \in Thread : phase'[u][c] = "finish"
                      /\ ready[c] => waits[c] # {} \/ \E u \in Thread : phase'[u][c] = "finish"
    BY <1>2, <1>a DEF Covered
  <2>1. c \in Event /\ c # e /\ status[c] = QUEUED /\ needs[c] \subseteq Event
    BY <1>0, <1>2, <1>o DEF Commands, TypeOK
  <2>2. \A u \in Thread : phase'[u][c] = phase[u][c]
    BY <1>2, <2>1
  <2>3. \A b \in needs[c] : status[b] \in {COMPLETE, FAILED} => status'[b] = status[b]
    BY <1>o, <2>1 DEF Over
  <2> QED BY <1>0, <1>e, <2>1, <2>2, <2>3 DEF FailInv, Covered
<1>11. DependencyOrder'
  <2> SUFFICES ASSUME NEW c \in Commands, status'[c] \in {SUBMITTED, RUNNING, COMPLETE}, NEW b \in needs[c]
               PROVE  status'[b] = COMPLETE
    BY <1>2, <1>a DEF DependencyOrder
  <2>0. c \in Event /\ b \in Event
    BY <1>0 DEF Commands, TypeOK
  <2>1. status[c] \in {SUBMITTED, RUNNING, COMPLETE}
    BY <1>1, <1>2, <2>0
  <2>2. status[b] = COMPLETE
    BY <1>0, <2>1 DEF FailInv, DependencyOrder
  <2> QED BY <1>o, <2>0, <2>2 DEF Over
<1> QED BY <1>3, <1>4, <1>5, <1>6, <1>7, <1>8, <1>9, <1>10, <1>11 DEF FailInv

\* A finished command leaves the wait list of the one that waits for it, which
\* is dispatched if it has been submitted.
LEMMA FailNotify ==
  ASSUME FState, NEW t \in Thread, NEW e \in Event, NEW x \in Event, Notify(t, e, x)
  PROVE  FailInv'
<1> USE DEF QUEUED, SUBMITTED, RUNNING, COMPLETE, FAILED
<1>0. TypeOK /\ FailInv /\ InWork /\ InTaken /\ Finishing /\ OneNeed /\ Linked /\ Untouched
  BY DEF FState, FailInv
<1>a. /\ phase[t][e] = "broadcast" /\ x \in notify[e] /\ held[e] = None
      /\ status[e] = COMPLETE \/ status[x] \notin {QUEUED, SUBMITTED}
      /\ waits' = [waits EXCEPT ![x] = @ \ {e}] /\ notify' = [notify EXCEPT ![e] = @ \ {x}]
      /\ status' = IF Dispatchable(x, e) THEN [status EXCEPT ![x] = SUBMITTED] ELSE status
      /\ work' = IF Dispatchable(x, e) THEN Append(work, x) ELSE work
      /\ UNCHANGED <<kind, needs, ready, barrier, phase, nested, pc, cur, todo>>
  BY DEF Notify, Unlocked, identVars, cqVars, callVars, finVars
<1>1. /\ e \in waits[x] /\ x \in Commands /\ status[x] = QUEUED /\ x # e /\ status[e] = COMPLETE
      /\ \A u \in Thread : phase[u][x] = "none"
      /\ \A d \in needs[x] : d = e
      /\ waits[x] = {e}
      /\ Commands' = Commands
  <2>1. e \in needs[x] /\ e \in waits[x]
    <3>1. \A u \in Thread : phase[u][e] # "notifying"
      BY <1>a, FailFacts
    <3> QED BY <1>0, <1>a, <3>1 DEF Linked
  <2>2. x \in Commands /\ status[x] = QUEUED
    BY <1>0, <2>1 DEF Linked
  <2>3. \A u \in Thread : phase[u][x] = "none"
    BY <2>1, FailFacts
  <2>4. \A d \in needs[x] : d = e
    BY <1>0, <2>1 DEF OneNeed
  <2>5. waits[x] = {e}
    BY <1>0, <2>1, <2>4 DEF OneNeed
  <2> QED BY <1>a, <2>1, <2>2, <2>3, <2>4, <2>5 DEF Commands
<1>w. /\ work' = IF ready[x] THEN Append(work, x) ELSE work
      /\ status' = IF ready[x] THEN [status EXCEPT ![x] = SUBMITTED] ELSE status
  BY <1>a, <1>1 DEF Dispatchable
<1>2. /\ status'[x] = IF ready[x] THEN SUBMITTED ELSE QUEUED
      /\ \A a \in Event : a # x => status'[a] = status[a]
      /\ waits'[x] = {} /\ \A a \in Event : a # x => waits'[a] = waits[a]
      /\ notify'[e] = notify[e] \ {x} /\ \A a \in Event : a # e => notify'[a] = notify[a]
  BY <1>0, <1>1, <1>w, <1>a DEF TypeOK
<1>v. /\ Len(work) \in Nat
      /\ \A i \in 1..Len(work) : i \in 1..Len(work') /\ work'[i] = work[i] /\ work[i] # x
      /\ \A i \in 1..Len(work') : i \in 1..Len(work) \/ (ready[x] /\ i = Len(work) + 1 /\ work'[i] = x)
      /\ ready[x] => Len(work) + 1 \in 1..Len(work') /\ work'[Len(work) + 1] = x
  <2>1. Len(work) \in Nat /\ work \in Seq(Event) /\ \A i \in 1..Len(work) : work[i] # x
    BY <1>0, <1>1 DEF TypeOK, InWork
  <2>2. CASE ready[x]
    BY <1>w, <2>1, <2>2, AppendFacts
  <2>3. CASE ~ready[x]
    BY <1>w, <2>1, <2>3
  <2> QED BY <2>2, <2>3
<1>e. \A h \in Hosts : Enqueuing(h)' <=> Enqueuing(h)
  BY <1>a DEF Enqueuing
<1>o. \A a \in Event : /\ Over(a)' <=> Over(a)
                       /\ status'[a] = FAILED <=> status[a] = FAILED
                       /\ status'[a] = COMPLETE <=> status[a] = COMPLETE
                       /\ status'[a] = QUEUED => status[a] = QUEUED
  BY <1>1, <1>2 DEF Over
<1>3. Untouched'
  <2>1. \A h \in Hosts : Enqueuing(h)' => status'[cur'[h]] = QUEUED /\ ~ready'[cur'[h]]
    <3> SUFFICES ASSUME NEW h \in Hosts, Enqueuing(h)' PROVE status'[cur[h]] = QUEUED /\ ~ready[cur[h]]
      BY <1>a
    <3>1. Enqueuing(h) /\ cur[h] \in Event /\ status[cur[h]] = QUEUED /\ ~ready[cur[h]]
      BY <1>0, <1>e DEF Untouched, TypeOK, Commands
    <3> QED BY <1>2, <3>1
  <2>2. \A a \in Event : kind'[a] = "none" => status'[a] = QUEUED
    BY <1>0, <1>1, <1>2, <1>a DEF Untouched, Commands, CommandKinds
  <2> QED BY <1>0, <1>1, <1>a, <2>1, <2>2 DEF Untouched
<1>4. InWork'
  <2>1. ASSUME NEW i \in 1..Len(work') PROVE work'[i] \in Commands' /\ status'[work'[i]] = SUBMITTED
    <3>1. CASE i \in 1..Len(work)
      BY <1>0, <1>1, <1>2, <1>v, <3>1 DEF InWork, Commands
    <3>2. CASE i \notin 1..Len(work)
      BY <1>1, <1>2, <1>v, <3>2
    <3> QED BY <3>1, <3>2
  <2>2. \A i, j \in 1..Len(work') : work'[i] = work'[j] => i = j
    BY <1>0, <1>v DEF InWork
  <2> QED BY <2>1, <2>2 DEF InWork
<1>5. InTaken'
  <2> SUFFICES ASSUME NEW d \in Drivers, pc[d] = "taken"
               PROVE  /\ cur[d] \in Commands /\ status'[cur[d]] = SUBMITTED
                      /\ \A i \in 1..Len(work') : work'[i] # cur[d]
                      /\ \A c \in Drivers : pc[c] = "taken" /\ cur[c] = cur[d] => c = d
    BY <1>1, <1>a DEF InTaken
  <2>1. /\ cur[d] \in Commands /\ cur[d] \in Event /\ status[cur[d]] = SUBMITTED /\ cur[d] # x
        /\ \A i \in 1..Len(work) : work[i] # cur[d]
        /\ \A c \in Drivers : pc[c] = "taken" /\ cur[c] = cur[d] => c = d
    BY <1>0, <1>1 DEF InTaken, Commands
  <2>2. \A i \in 1..Len(work') : work'[i] # cur[d]
    BY <1>v, <2>1
  <2> QED BY <1>2, <2>1, <2>2
<1>6. Placed'
  <2> SUFFICES ASSUME NEW c \in Commands
               PROVE  /\ status'[c] = SUBMITTED =>
                           \/ \E i \in 1..Len(work') : work'[i] = c
                           \/ \E d \in Drivers : pc[d] = "taken" /\ cur[d] = c
                      /\ status'[c] = RUNNING => \E u \in Thread : phase[u][c] = "finish"
    BY <1>1, <1>a DEF Placed
  <2>1. CASE c = x
    BY <1>2, <1>v, <2>1
  <2>2. CASE c # x
    <3>1. /\ status[c] = SUBMITTED =>
               \/ \E i \in 1..Len(work) : work[i] = c
               \/ \E d \in Drivers : pc[d] = "taken" /\ cur[d] = c
          /\ status[c] = RUNNING => \E u \in Thread : phase[u][c] = "finish"
      BY <1>0 DEF FailInv, Placed
    <3>2. status'[c] = status[c]
      BY <1>2, <2>2 DEF Commands
    <3> QED BY <1>v, <3>1, <3>2
  <2> QED BY <2>1, <2>2
<1>7. Finishing'
  <2>1. \A u \in Thread, a \in Event : phase'[u][a] # "none" => a # x /\ status'[a] = status[a] /\ waits'[a] = waits[a]
    BY <1>1, <1>2, <1>a
  <2>2. \A a \in Event : (\E d \in needs[a] : status[d] = FAILED) => \E d \in needs'[a] : status'[d] = FAILED
    BY <1>0, <1>a, <1>o DEF TypeOK
  <2>3. \A u \in Thread : Failing(u)' <=> Failing(u)
    BY <1>a DEF Failing
  <2> QED BY <1>0, <1>1, <1>a, <1>o, <2>1, <2>2, <2>3 DEF Finishing
<1>8. OneNeed'
  <2>1. \A a \in Event : waits'[a] \subseteq needs'[a]
    BY <1>0, <1>2, <1>a DEF OneNeed
  <2> QED BY <1>0, <1>a, <1>e, <2>1 DEF OneNeed
<1>9. Linked'
  <2>1. ASSUME NEW a \in Event, NEW m \in waits'[a]
        PROVE  /\ a \in notify'[m] /\ a \in Commands' /\ status'[a] = QUEUED
               /\ ~Over(m)' \/ \E u \in Thread : phase'[u][m] \in {"broadcast", "notifying"}
    <3>1. a # x /\ m \in waits[a] /\ m \in Event
      BY <1>0, <1>2 DEF TypeOK
    <3>2. /\ a \in notify[m] /\ a \in Commands /\ status[a] = QUEUED
          /\ ~Over(m) \/ \E u \in Thread : phase[u][m] \in {"broadcast", "notifying"}
      BY <1>0, <3>1 DEF Linked
    <3> QED BY <1>1, <1>2, <1>a, <1>o, <3>1, <3>2
  <2>2. ASSUME NEW m \in Event, NEW a \in notify'[m]
        PROVE  /\ m \in needs'[a]
               /\ m \in waits'[a] \/ \E u \in Thread : phase'[u][m] = "notifying" /\ nested'[u][m] = a
    <3>1. a \in notify[m] /\ a \in Event /\ (m = e => a # x)
      BY <1>0, <1>2 DEF TypeOK
    <3>2. /\ m \in needs[a]
          /\ m \in waits[a] \/ \E u \in Thread : phase[u][m] = "notifying" /\ nested[u][m] = a
      BY <1>0, <3>1 DEF Linked
    <3>3. m \in waits[a] => m \in waits'[a]
      BY <1>1, <1>2, <3>1
    <3> QED BY <1>a, <3>2, <3>3
  <2>3. ASSUME NEW u \in Thread, NEW m \in Event, phase'[u][m] = "notifying" PROVE m \notin waits'[nested'[u][m]]
    <3>1. m \notin waits[nested[u][m]]
      BY <1>0, <1>a, <2>3 DEF Linked
    <3>2. nested[u][m] \in Event
      BY <1>a, <2>3, FailFacts
    <3> QED BY <1>1, <1>2, <1>a, <3>1, <3>2
  <2> QED BY <2>1, <2>2, <2>3 DEF Linked
<1>10. Covered'
  <2> SUFFICES ASSUME NEW c \in Commands, status'[c] = QUEUED
               PROVE  /\ \A d \in needs[c] :
                           \/ status'[d] = COMPLETE
                           \/ d \in waits'[c]
                           \/ \E g \in Hosts : pc[g] = "listSync" /\ cur[g] = c /\ d \in todo[g]
                           \/ status'[d] = FAILED /\ \E u \in Thread : phase[u][c] = "finish"
                      /\ ready[c] => waits'[c] # {} \/ \E u \in Thread : phase[u][c] = "finish"
    BY <1>1, <1>a DEF Covered
  <2>1. CASE c = x
    BY <1>1, <1>2, <2>1
  <2>2. CASE c # x
    <3>1. c \in Event /\ status[c] = QUEUED /\ waits'[c] = waits[c] /\ needs[c] \subseteq Event
      BY <1>0, <1>2, <1>o, <2>2 DEF Commands, TypeOK
    <3>2. \A d \in needs[c] : /\ status[d] = COMPLETE => status'[d] = COMPLETE
                              /\ status[d] = FAILED => status'[d] = FAILED
      BY <1>o, <3>1
    <3> QED BY <1>0, <3>1, <3>2 DEF FailInv, Covered
  <2> QED BY <2>1, <2>2
<1>11. DependencyOrder'
  <2> SUFFICES ASSUME NEW c \in Commands, status'[c] \in {SUBMITTED, RUNNING, COMPLETE}, NEW d \in needs[c]
               PROVE  status'[d] = COMPLETE
    BY <1>1, <1>a DEF DependencyOrder
  <2>0. c \in Event /\ d \in Event
    BY <1>0 DEF Commands, TypeOK
  <2>1. status[d] = COMPLETE
    <3>1. CASE c = x
      BY <1>1, <3>1
    <3>2. CASE c # x
      BY <1>0, <1>2, <2>0, <3>2 DEF FailInv, DependencyOrder
    <3> QED BY <3>1, <3>2
  <2> QED BY <1>o, <2>0, <2>1
<1> QED BY <1>3, <1>4, <1>5, <1>6, <1>7, <1>8, <1>9, <1>10, <1>11 DEF FailInv

\* A failed event passes its failure on: the application thread that broadcasts
\* it starts to finish the command that waits for it.
LEMMA FailNotifyFailed ==
  ASSUME FState, NEW t \in Thread, NEW e \in Event, NEW x \in Event, NotifyFailed(t, e, x)
  PROVE  FailInv'
<1> USE DEF QUEUED, SUBMITTED, RUNNING, COMPLETE, FAILED
<1>0. TypeOK /\ FailInv /\ InWork /\ InTaken /\ Finishing /\ OneNeed /\ Linked /\ Untouched
  BY DEF FState, FailInv
<1>a. /\ phase[t][e] = "broadcast" /\ x \in notify[e] /\ held[e] = None /\ status[e] = FAILED
      /\ waits' = [waits EXCEPT ![x] = @ \ {e}]
      /\ nested' = [nested EXCEPT ![t][e] = x]
      /\ phase' = [phase EXCEPT ![t][e] = "notifying", ![t][x] = "finish"]
      /\ UNCHANGED <<kind, needs, status, notify, ready, barrier, work, pc, cur, todo>>
  BY DEF NotifyFailed, Unlocked, identVars, cqVars, callVars
<1>1. /\ e \in waits[x] /\ e \in needs[x] /\ x \in Commands /\ status[x] = QUEUED /\ x # e
      /\ \A u \in Thread : phase[u][x] = "none"
      /\ \A u \in Thread : phase[u][e] # "none" => u = t
      /\ \A d \in needs[x] : d = e
      /\ waits[x] = {e}
      /\ t \notin Drivers
      /\ Commands' = Commands
  <2>1. e \in needs[x] /\ e \in waits[x]
    <3>1. \A u \in Thread : phase[u][e] # "notifying"
      BY <1>a, FailFacts
    <3> QED BY <1>0, <1>a, <3>1 DEF Linked
  <2>2. x \in Commands /\ status[x] = QUEUED
    BY <1>0, <2>1 DEF Linked
  <2>3. \A u \in Thread : phase[u][x] = "none"
    BY <2>1, FailFacts
  <2>4. \A d \in needs[x] : d = e
    BY <1>0, <2>1 DEF OneNeed
  <2>5. waits[x] = {e}
    BY <1>0, <2>1, <2>4 DEF OneNeed
  <2>6. t \notin Drivers /\ \A u \in Thread : phase[u][e] # "none" => u = t
    BY <1>0, <1>a DEF Finishing
  <2>7. x # e
    BY <1>a, <2>3
  <2> QED BY <1>a, <2>1, <2>2, <2>3, <2>4, <2>5, <2>6, <2>7 DEF Commands
<1>2. /\ waits'[x] = {} /\ \A a \in Event : a # x => waits'[a] = waits[a]
      /\ phase'[t][e] = "notifying" /\ phase'[t][x] = "finish"
      /\ \A a \in Event : a # e /\ a # x => phase'[t][a] = phase[t][a]
      /\ \A u \in Thread : u # t => \A a \in Event : phase'[u][a] = phase[u][a]
      /\ nested'[t][e] = x
      /\ \A u \in Thread, a \in Event : (u # t \/ a # e) => nested'[u][a] = nested[u][a]
  BY <1>0, <1>1, <1>a DEF TypeOK
<1>b. /\ phase[t][e] = "broadcast" /\ x \in notify[e] /\ status[e] = FAILED
      /\ UNCHANGED <<kind, needs, status, notify, ready, barrier, work, pc, cur, todo>>
  BY <1>a
<1>e. \A h \in Hosts : Enqueuing(h)' <=> Enqueuing(h)
  BY <1>b DEF Enqueuing
<1>f. /\ Failing(t)'
      /\ \A u \in Thread : Failing(u) => Failing(u)'
  BY <1>1, <1>2 DEF Failing
<1>g. \A u \in Thread, a \in Event : phase[u][a] = "finish" => phase'[u][a] = "finish"
  <2> SUFFICES ASSUME NEW u \in Thread, NEW a \in Event, phase[u][a] = "finish" PROVE phase'[u][a] = "finish"
    OBVIOUS
  <2>1. a # x /\ a # e
    BY <1>1, <1>b
  <2> QED BY <1>2, <2>1
<1>3. Untouched' /\ InWork' /\ InTaken'
  BY <1>0, <1>1, <1>b, <1>e DEF Untouched, InWork, InTaken
<1>4. Placed'
  BY <1>0, <1>1, <1>b, <1>g DEF FailInv, Placed, Commands
<1>5. Finishing'
  <2> SUFFICES ASSUME NEW u \in Thread, NEW a \in Event, phase'[u][a] # "none"
               PROVE  /\ phase'[u][a] = "finish" =>
                          /\ a \in Commands
                          /\ u \in Drivers => status[a] = RUNNING
                          /\ u \notin Drivers =>
                               /\ status[a] = QUEUED /\ waits'[a] = {} /\ Failing(u)'
                               /\ \E b \in needs[a] : status[b] = FAILED
                      /\ phase'[u][a] \in {"broadcast", "notifying", "release"} => Over(a)
                      /\ u \in Drivers => status[a] # FAILED
                      /\ \A w \in Thread : phase'[w][a] # "none" => w = u
    <3>1. \A u, a : (phase'[u][a] = "finish" => a \in Commands) <=> (phase'[u][a] = "finish" => a \in Commands')
      BY <1>1
    <3> QED BY <1>1, <1>b DEF Finishing, Over
  <2>1. CASE a = x
    <3>1. u = t
      BY <1>1, <1>2, <2>1
    <3> QED BY <1>1, <1>2, <1>b, <1>f, <2>1, <3>1
  <2>2. CASE a = e
    <3>1. u = t
      BY <1>1, <1>2, <2>2
    <3> QED BY <1>1, <1>2, <1>b, <2>2, <3>1 DEF Over
  <2>3. CASE a # x /\ a # e
    <3>1. /\ phase'[u][a] = phase[u][a] /\ waits'[a] = waits[a]
          /\ \A w \in Thread : phase'[w][a] = phase[w][a]
      BY <1>2, <2>3
    <3> QED BY <1>0, <1>f, <3>1 DEF Finishing
  <2> QED BY <2>1, <2>2, <2>3
<1>6. OneNeed'
  <2>1. \A a \in Event : waits'[a] \subseteq needs'[a]
    BY <1>0, <1>2, <1>b DEF OneNeed
  <2> QED BY <1>0, <1>b, <1>e, <2>1 DEF OneNeed
<1>7. Linked'
  <2>1. ASSUME NEW a \in Event, NEW m \in waits'[a]
        PROVE  /\ a \in notify'[m] /\ a \in Commands' /\ status'[a] = QUEUED
               /\ ~Over(m)' \/ \E u \in Thread : phase'[u][m] \in {"broadcast", "notifying"}
    <3>1. a # x /\ m \in waits[a] /\ m \in Event
      BY <1>0, <1>2 DEF TypeOK
    <3>2. /\ a \in notify[m] /\ a \in Commands /\ status[a] = QUEUED
          /\ ~Over(m) \/ \E u \in Thread : phase[u][m] \in {"broadcast", "notifying"}
      BY <1>0, <3>1 DEF Linked
    <3>3. \A u \in Thread : phase[u][m] \in {"broadcast", "notifying"} => phase'[u][m] \in {"broadcast", "notifying"}
      BY <1>1, <1>2, <3>1
    <3> QED BY <1>1, <1>b, <3>2, <3>3 DEF Over
  <2>2. ASSUME NEW m \in Event, NEW a \in notify'[m]
        PROVE  /\ m \in needs'[a]
               /\ m \in waits'[a] \/ \E u \in Thread : phase'[u][m] = "notifying" /\ nested'[u][m] = a
    <3>1. a \in notify[m] /\ a \in Event
      BY <1>0, <1>b DEF TypeOK
    <3>2. /\ m \in needs[a]
          /\ m \in waits[a] \/ \E u \in Thread : phase[u][m] = "notifying" /\ nested[u][m] = a
      BY <1>0, <3>1 DEF Linked
    <3>3. CASE m \in waits[a]
      <4>1. CASE a = x
        <5>1. m = e
          BY <1>1, <3>3, <4>1
        <5> QED BY <1>2, <1>b, <3>2, <4>1, <5>1
      <4>2. CASE a # x
        BY <1>2, <1>b, <3>1, <3>2, <3>3, <4>2
      <4> QED BY <4>1, <4>2
    <3>4. ASSUME NEW u \in Thread, phase[u][m] = "notifying" /\ nested[u][m] = a
          PROVE  phase'[u][m] = "notifying" /\ nested'[u][m] = a
      <4>1. m # e /\ m # x
        BY <1>1, <1>b, <3>4
      <4> QED BY <1>2, <3>4, <4>1
    <3> QED BY <1>b, <3>2, <3>3, <3>4
  <2>3. ASSUME NEW u \in Thread, NEW m \in Event, phase'[u][m] = "notifying" PROVE m \notin waits'[nested'[u][m]]
    <3>1. CASE u = t /\ m = e
      BY <1>2, <3>1
    <3>2. CASE ~(u = t /\ m = e)
      <4>1. phase[u][m] = "notifying" /\ nested'[u][m] = nested[u][m]
        BY <1>2, <2>3, <3>2
      <4>2. m \notin waits[nested[u][m]]
        BY <1>0, <4>1 DEF Linked
      <4>3. nested[u][m] \in Event
        BY <4>1, FailFacts
      <4> QED BY <1>2, <4>1, <4>2, <4>3
    <3> QED BY <3>1, <3>2
  <2> QED BY <2>1, <2>2, <2>3 DEF Linked
<1>8. Covered'
  <2> SUFFICES ASSUME NEW c \in Commands, status[c] = QUEUED
               PROVE  /\ \A d \in needs[c] :
                           \/ status[d] = COMPLETE
                           \/ d \in waits'[c]
                           \/ \E g \in Hosts : pc[g] = "listSync" /\ cur[g] = c /\ d \in todo[g]
                           \/ status[d] = FAILED /\ \E u \in Thread : phase'[u][c] = "finish"
                      /\ ready[c] => waits'[c] # {} \/ \E u \in Thread : phase'[u][c] = "finish"
    BY <1>1, <1>b DEF Covered
  <2>1. CASE c = x
    BY <1>1, <1>2, <1>b, <2>1
  <2>2. CASE c # x
    <3>1. c \in Event /\ waits'[c] = waits[c]
      BY <1>2, <2>2 DEF Commands
    <3> QED BY <1>0, <1>g, <3>1 DEF FailInv, Covered
  <2> QED BY <2>1, <2>2
<1>9. DependencyOrder'
  BY <1>0, <1>1, <1>b DEF FailInv, DependencyOrder
<1> QED BY <1>3, <1>4, <1>5, <1>6, <1>7, <1>8, <1>9 DEF FailInv

\* The failed command is behind, and with it all the thread was failing last.
LEMMA FailRelock ==
  ASSUME FState, NEW t \in Thread, NEW e \in Event, Relock(t, e)
  PROVE  FailInv'
<1> USE DEF QUEUED, SUBMITTED, RUNNING, COMPLETE, FAILED
<1>0. TypeOK /\ FailInv /\ SomeRank /\ InWork /\ InTaken /\ Finishing /\ OneNeed /\ Linked /\ Untouched
  BY DEF FState, FailInv, LockInv
<1>x. PICK x \in Event \cup {NoEvent} : x = nested[t][e]
  BY <1>0 DEF TypeOK
<1>a. /\ phase[t][e] = "notifying" /\ phase[t][x] = "none"
      /\ notify' = [notify EXCEPT ![e] = @ \ {x}]
      /\ nested' = [nested EXCEPT ![t][e] = NoEvent]
      /\ phase' = [phase EXCEPT ![t][e] = "broadcast"]
      /\ UNCHANGED <<kind, needs, status, waits, ready, barrier, work, pc, cur, todo>>
  BY <1>x DEF Relock, identVars, cqVars, callVars
<1>1. /\ \A f \in Event : phase[t][f] # "finish"
      /\ \A u \in Thread : phase[u][e] # "none" => u = t
      /\ e \notin waits[x]
      /\ Over(e)
      /\ Commands' = Commands
  <2>1. PICK N \in Nat : \E r \in [Event -> 0..N] : Ranked(r)
    BY <1>0 DEF SomeRank
  <2>2. PICK r \in [Event -> 0..N] : Ranked(r)
    BY <2>1
  <2>3. ASSUME NEW f \in Event, phase[t][f] = "finish" PROVE FALSE
    <3>1. e # f /\ r[e] # r[f] /\ ~(r[e] < r[f]) /\ ~(r[f] < r[e])
      BY <1>x, <1>a, <2>2, <2>3 DEF Ranked, Stacked
    <3>2. r[e] \in Nat /\ r[f] \in Nat
      OBVIOUS
    <3> QED BY <3>1, <3>2
  <2>4. (\A u \in Thread : phase[u][e] # "none" => u = t) /\ Over(e)
    BY <1>0, <1>a DEF Finishing
  <2>5. e \notin waits[x]
    BY <1>0, <1>x, <1>a DEF Linked
  <2> QED BY <1>a, <2>3, <2>4, <2>5 DEF Commands
<1>2. /\ notify'[e] = notify[e] \ {x} /\ \A a \in Event : a # e => notify'[a] = notify[a]
      /\ phase'[t][e] = "broadcast"
      /\ \A u \in Thread, a \in Event : (u # t \/ a # e) => phase'[u][a] = phase[u][a]
      /\ \A u \in Thread, a \in Event : (u # t \/ a # e) => nested'[u][a] = nested[u][a]
  BY <1>0, <1>a DEF TypeOK
<1>e. \A h \in Hosts : Enqueuing(h)' <=> Enqueuing(h)
  BY <1>a DEF Enqueuing
<1>f. \A u \in Thread : u # t => (Failing(u)' <=> Failing(u))
  BY <1>2 DEF Failing
<1>g. \A u \in Thread, a \in Event : phase[u][a] = "finish" <=> phase'[u][a] = "finish"
  BY <1>2, <1>a
<1>3. Untouched' /\ InWork' /\ InTaken'
  BY <1>0, <1>1, <1>a, <1>e DEF Untouched, InWork, InTaken
<1>4. Placed'
  BY <1>0, <1>1, <1>a, <1>g DEF FailInv, Placed, Commands
<1>5. Finishing'
  <2> SUFFICES ASSUME NEW u \in Thread, NEW a \in Event, phase'[u][a] # "none"
               PROVE  /\ phase'[u][a] = "finish" =>
                          /\ a \in Commands
                          /\ u \in Drivers => status[a] = RUNNING
                          /\ u \notin Drivers =>
                               /\ status[a] = QUEUED /\ waits[a] = {} /\ Failing(u)'
                               /\ \E b \in needs[a] : status[b] = FAILED
                      /\ phase'[u][a] \in {"broadcast", "notifying", "release"} => Over(a)
                      /\ u \in Drivers => status[a] # FAILED
                      /\ \A w \in Thread : phase'[w][a] # "none" => w = u
    BY <1>1, <1>a DEF Finishing, Over
  <2>1. phase[u][a] # "none" /\ \A w \in Thread : phase'[w][a] # "none" => phase[w][a] # "none"
    BY <1>2, <1>a
  <2>2. phase'[u][a] = "finish" => u # t /\ phase[u][a] = "finish"
    BY <1>1, <1>g
  <2>3. phase'[u][a] \in {"broadcast", "notifying", "release"} => phase[u][a] \in {"broadcast", "notifying", "release"}
    BY <1>2, <1>a
  <2> QED BY <1>0, <1>f, <2>1, <2>2, <2>3 DEF Finishing
<1>6. OneNeed'
  BY <1>0, <1>a, <1>e DEF OneNeed
<1>7. Linked'
  <2>1. ASSUME NEW a \in Event, NEW m \in waits'[a]
        PROVE  /\ a \in notify'[m] /\ a \in Commands' /\ status'[a] = QUEUED
               /\ ~Over(m)' \/ \E u \in Thread : phase'[u][m] \in {"broadcast", "notifying"}
    <3>1. m \in waits[a] /\ m \in Event
      BY <1>0, <1>a DEF TypeOK
    <3>2. /\ a \in notify[m] /\ a \in Commands /\ status[a] = QUEUED
          /\ ~Over(m) \/ \E u \in Thread : phase[u][m] \in {"broadcast", "notifying"}
      BY <1>0, <3>1 DEF Linked
    <3>3. \A u \in Thread : phase[u][m] \in {"broadcast", "notifying"} => phase'[u][m] \in {"broadcast", "notifying"}
      BY <1>2, <3>1
    <3>4. a \in notify'[m]
      BY <1>1, <1>2, <3>1, <3>2
    <3> QED BY <1>1, <1>a, <3>2, <3>3, <3>4 DEF Over
  <2>2. ASSUME NEW m \in Event, NEW a \in notify'[m]
        PROVE  /\ m \in needs'[a]
               /\ m \in waits'[a] \/ \E u \in Thread : phase'[u][m] = "notifying" /\ nested'[u][m] = a
    <3>1. a \in notify[m] /\ (m = e => a # x)
      BY <1>2
    <3>2. /\ m \in needs[a]
          /\ m \in waits[a] \/ \E u \in Thread : phase[u][m] = "notifying" /\ nested[u][m] = a
      BY <1>0, <3>1 DEF Linked
    <3>3. ASSUME NEW u \in Thread, phase[u][m] = "notifying", nested[u][m] = a
          PROVE  phase'[u][m] = "notifying" /\ nested'[u][m] = a
      <4>1. ~(u = t /\ m = e)
        BY <1>x, <3>1, <3>3
      <4> QED BY <1>2, <3>3, <4>1
    <3> QED BY <1>a, <3>2, <3>3
  <2>3. ASSUME NEW u \in Thread, NEW m \in Event, phase'[u][m] = "notifying" PROVE m \notin waits'[nested'[u][m]]
    <3>1. phase[u][m] = "notifying" /\ nested'[u][m] = nested[u][m]
      BY <1>2, <2>3
    <3> QED BY <1>0, <1>a, <3>1 DEF Linked
  <2> QED BY <2>1, <2>2, <2>3 DEF Linked
<1>8. Covered'
  BY <1>0, <1>1, <1>a, <1>g DEF FailInv, Covered
<1>9. DependencyOrder'
  BY <1>0, <1>1, <1>a DEF FailInv, DependencyOrder
<1> QED BY <1>3, <1>4, <1>5, <1>6, <1>7, <1>8, <1>9 DEF FailInv

\* A thread is through with the notify list of an event, or with the event.
LEMMA FailLeave ==
  ASSUME FState, NEW t \in Thread, NEW e \in Event, NEW v \in {"none", "release"},
         phase[t][e] \in {"broadcast", "release"}, phase[t][e] = "broadcast" => notify[e] = {},
         phase' = [phase EXCEPT ![t][e] = v],
         UNCHANGED <<kind, needs, status, waits, notify, ready, barrier, work, nested, cur, todo>>,
         \A x \in Thread : pc'[x] = pc[x] \/ (pc[x] \in {"userDone", "finishing"} /\ pc'[x] = "idle")
  PROVE  FailInv'
<1>0. TypeOK /\ FailInv /\ InWork /\ InTaken /\ Finishing /\ OneNeed /\ Linked /\ Untouched
  BY DEF FState, FailInv
<1>h. /\ \A h \in Hosts : h \in Thread
      /\ \A d \in Drivers : d \in Thread
  BY DEF Thread
<1>2. /\ phase'[t][e] = v
      /\ \A u \in Thread, a \in Event : (u # t \/ a # e) => phase'[u][a] = phase[u][a]
      /\ Commands' = Commands
  BY <1>0 DEF TypeOK, Commands
<1>e. \A h \in Hosts : /\ Enqueuing(h)' <=> Enqueuing(h)
                       /\ (pc'[h] = "listSync" <=> pc[h] = "listSync")
                       /\ (pc'[h] = "lastSync" <=> pc[h] = "lastSync")
  BY <1>h DEF Enqueuing
<1>k. \A d \in Drivers : pc'[d] = "taken" <=> pc[d] = "taken"
  BY <1>h
<1>g. \A u \in Thread, a \in Event : /\ phase'[u][a] = "finish" <=> phase[u][a] = "finish"
                                     /\ phase'[u][a] = "notifying" <=> phase[u][a] = "notifying"
                                     /\ phase'[u][a] # "none" => phase[u][a] # "none"
                                     /\ phase'[u][a] \in {"broadcast", "notifying", "release"} =>
                                          phase[u][a] \in {"broadcast", "notifying", "release"}
  BY <1>2
<1>f. \A u \in Thread : Failing(u)' <=> Failing(u)
  BY <1>g DEF Failing
<1>3. Untouched' /\ InWork' /\ InTaken'
  BY <1>0, <1>2, <1>e, <1>k DEF Untouched, InWork, InTaken
<1>4. Placed'
  BY <1>0, <1>2, <1>g, <1>k DEF FailInv, Placed, Commands
<1>5. Finishing'
  BY <1>0, <1>2, <1>f, <1>g DEF Finishing, Over
<1>6. OneNeed'
  BY <1>0, <1>e DEF OneNeed
<1>7. Linked'
  <2>1. ASSUME NEW a \in Event, NEW m \in waits[a]
        PROVE  /\ a \in notify[m] /\ a \in Commands /\ status[a] = QUEUED
               /\ ~Over(m) \/ \E u \in Thread : phase'[u][m] \in {"broadcast", "notifying"}
    <3>1. /\ a \in notify[m] /\ a \in Commands /\ status[a] = QUEUED /\ m \in Event
          /\ ~Over(m) \/ \E u \in Thread : phase[u][m] \in {"broadcast", "notifying"}
      BY <1>0 DEF Linked, TypeOK
    <3>2. ASSUME NEW u \in Thread, phase[u][m] \in {"broadcast", "notifying"} PROVE phase'[u][m] \in {"broadcast", "notifying"}
      <4>1. ~(u = t /\ m = e)
        BY <3>1, <3>2
      <4> QED BY <1>2, <3>1, <3>2, <4>1
    <3> QED BY <3>1, <3>2
  <2> QED BY <1>0, <1>2, <1>g, <2>1 DEF Linked, Over
<1>8. Covered'
  BY <1>0, <1>2, <1>e, <1>g DEF FailInv, Covered
<1>9. DependencyOrder'
  BY <1>0, <1>2 DEF FailInv, DependencyOrder
<1> QED BY <1>3, <1>4, <1>5, <1>6, <1>7, <1>8, <1>9 DEF FailInv

\* The notify list is done with.
LEMMA FailBroadcastDone ==
  ASSUME FState, NEW t \in Thread, NEW e \in Event, BroadcastDone(t, e)
  PROVE  FailInv'
<1>1. PICK v \in {"none", "release"} : v = IF kind[e] = "user" THEN "none" ELSE "release"
  OBVIOUS
<1>2. /\ phase[t][e] = "broadcast" /\ notify[e] = {} /\ phase' = [phase EXCEPT ![t][e] = v]
      /\ UNCHANGED <<kind, needs, status, waits, notify, ready, barrier, work, nested, cur, todo, pc>>
  BY <1>1 DEF BroadcastDone, identVars, eventVars, cqVars, callVars
<1> QED BY <1>2, FailLeave

\* The event is done with.
LEMMA FailReleaseFinished ==
  ASSUME FState, NEW t \in Thread, NEW e \in Event, ReleaseFinished(t, e)
  PROVE  FailInv'
<1>0. TypeOK /\ Works
  BY DEF FState, LockInv
<1>1. /\ phase[t][e] = "release" /\ phase' = [phase EXCEPT ![t][e] = "none"]
      /\ pc' = (IF Failing(t) THEN pc ELSE [pc EXCEPT ![t] = "idle"])
      /\ UNCHANGED <<kind, needs, status, waits, notify, ready, barrier, work, nested, cur, todo>>
  BY DEF ReleaseFinished, identVars
<1>2. pc[t] \in {"userDone", "finishing"}
  BY <1>0, <1>1 DEF Works, Thread
<1>3. \A x \in Thread : pc'[x] = pc[x] \/ (pc[x] \in {"userDone", "finishing"} /\ pc'[x] = "idle")
  BY <1>0, <1>1, <1>2 DEF TypeOK
<1> QED BY <1>1, <1>3, FailLeave

\* Every step keeps FailInv.
LEMMA FailStep ==
  ASSUME FState, OneNotifier, [Next]_vars
  PROVE  FailInv'
<1>0. TypeOK /\ OneNeed /\ Works
  BY DEF FState, FailInv, LockInv
<1>h. /\ \A h \in Hosts : h \in Thread /\ \A d \in Drivers : h # d
      /\ \A d \in Drivers : d \in Thread
  BY ConstantsAssumption DEF Thread
<1>k. ASSUME UNCHANGED <<kind, needs, status, waits, notify, ready, barrier, work, phase, nested>>,
             \A x \in Thread : \/ pc'[x] = pc[x] /\ cur'[x] = cur[x] /\ (x \in Hosts => todo'[x] = todo[x])
                               \/ x \in Hosts /\ pc[x] \in {"idle", "join", "joinWait", "wait", "eventWait", "userDone"}
                                    /\ pc'[x] \in {"idle", "join", "joinWait", "wait", "eventWait", "userDone"}
      PROVE  FailInv'
  <2>1. \A h \in Hosts : Enqueuing(h) \/ Enqueuing(h)' => pc'[h] = pc[h] /\ cur'[h] = cur[h] /\ todo'[h] = todo[h]
    BY <1>k, <1>h DEF Enqueuing
  <2>2. \A d \in Drivers : pc'[d] = pc[d] /\ cur'[d] = cur[d]
    BY <1>k, <1>h
  <2> QED BY <1>k, <2>1, <2>2, KeepFail
<1>1. CASE UNCHANGED vars
  BY <1>1, <1>k DEF vars, identVars, eventVars, cqVars, callVars, finVars, appVars
<1>2. ASSUME NEW h \in Hosts, EnqueueStep(h) PROVE FailInv'
  <2>1. ~SyncLast(h)
    BY <1>0 DEF SyncLast, OneNeed
  <2> QED BY <1>2, <2>1, FailSync, FailEnqueue, FailSubmit DEF EnqueueStep
<1>3. ASSUME NEW h \in Hosts, WaitStep(h) PROVE FailInv'
  <2>1. CASE Join(h)
    <3>1. UNCHANGED <<kind, needs, status, waits, notify, ready, barrier, work, phase, nested, cur>>
      BY <2>1 DEF Join, identVars, eventVars, cqVars, finVars
    <3>2. pc[h] = "join" /\ pc'[h] \in {"idle", "joinWait"} /\ \A x \in Thread : x # h => pc'[x] = pc[x]
      BY <1>0, <1>h, <2>1 DEF Join, Goto, TypeOK
    <3>3. \A x \in Hosts : x # h => todo'[x] = todo[x]
      BY <1>0, <2>1 DEF Join, TypeOK
    <3> QED BY <1>k, <3>1, <3>2, <3>3
  <2>2. CASE WaitEvent(h)
    <3>1. UNCHANGED <<kind, needs, status, waits, notify, ready, barrier, work, phase, nested, todo>>
      BY <2>2 DEF WaitEvent, identVars, eventVars, cqVars, finVars
    <3>2. /\ pc[h] = "wait" /\ pc'[h] \in {"idle", "eventWait"}
          /\ \A x \in Thread : x # h => pc'[x] = pc[x] /\ cur'[x] = cur[x]
      BY <1>0, <1>h, <2>2 DEF WaitEvent, Goto, TypeOK
    <3> QED BY <1>k, <3>1, <3>2
  <2>3. CASE WaitTimeout(h)
    <3>1. UNCHANGED <<kind, needs, status, waits, notify, ready, barrier, work, phase, nested, todo, cur>>
      BY <2>3 DEF WaitTimeout, identVars, eventVars, cqVars, finVars
    <3>2. pc[h] = "eventWait" /\ pc'[h] = "wait" /\ \A x \in Thread : x # h => pc'[x] = pc[x]
      BY <1>0, <1>h, <2>3 DEF WaitTimeout, Goto, TypeOK
    <3> QED BY <1>k, <3>1, <3>2
  <2>4. CASE UserEventDone(h)
    <3>1. UNCHANGED <<kind, needs, status, waits, notify, ready, barrier, work, phase, nested, todo>>
      BY <2>4 DEF UserEventDone, identVars, eventVars, cqVars, finVars
    <3>2. pc[h] = "userDone" /\ pc'[h] = "idle" /\ \A x \in Thread : x # h => cur'[x] = cur[x]
      BY <1>0, <1>h, <2>4 DEF UserEventDone, TypeOK
    <3>3. \A x \in Thread : x # h => pc'[x] = pc[x] \/ (pc[x] = "eventWait" /\ pc'[x] = "wait")
      BY <2>4 DEF UserEventDone, WaitsForEvent
    <3>4. \A x \in Thread : pc[x] = "eventWait" => x \in Hosts
      BY <1>0 DEF Works, Thread
    <3> QED BY <1>k, <3>1, <3>2, <3>3, <3>4
  <2> QED BY <1>3, <2>1, <2>2, <2>3, <2>4 DEF WaitStep
<1>4. ASSUME NEW h \in Hosts, SetSomeUserEvent(h) PROVE FailInv'
  BY <1>4, FailSetUser DEF SetSomeUserEvent
<1>5. ASSUME NEW h \in Hosts, AppStep(h) PROVE FailInv'
  <2>1. CASE CreateUserEvent(h)
    BY <2>1, FailCreateUser
  <2>2. ASSUME NEW q \in Queues, CallFinish(h, q) PROVE FailInv'
    <3>1. UNCHANGED <<kind, needs, status, waits, notify, ready, barrier, work, phase, nested, cur>>
      BY <2>2 DEF CallFinish, identVars, eventVars, cqVars, finVars
    <3>2. /\ pc[h] = "idle" /\ pc'[h] = "join"
          /\ \A x \in Thread : x # h => pc'[x] = pc[x]
          /\ \A x \in Hosts : x # h => todo'[x] = todo[x]
      BY <1>0, <1>h, <2>2 DEF CallFinish, Goto, TypeOK
    <3> QED BY <1>k, <3>1, <3>2
  <2>3. ASSUME NEW q \in Queues, ReleaseQueue(h, q) PROVE FailInv'
    BY <1>k, <2>3 DEF ReleaseQueue, identVars, eventVars, callVars, finVars
  <2>4. ASSUME NEW e \in Event, CallWait(h, e) PROVE FailInv'
    <3>1. UNCHANGED <<kind, needs, status, waits, notify, ready, barrier, work, phase, nested, todo>>
      BY <2>4 DEF CallWait, identVars, eventVars, cqVars, finVars
    <3>2. /\ pc[h] = "idle" /\ pc'[h] = "wait"
          /\ \A x \in Thread : x # h => pc'[x] = pc[x] /\ cur'[x] = cur[x]
      BY <1>0, <1>h, <2>4 DEF CallWait, Goto, TypeOK
    <3> QED BY <1>k, <3>1, <3>2
  <2>5. ASSUME NEW e \in Event, ReleaseEvent(h, e) PROVE FailInv'
    BY <1>k, <2>5 DEF ReleaseEvent, identVars, callVars, finVars
  <2>6. ASSUME NEW q \in Queues, NEW k \in Kinds, NEW W \in SUBSET Event, NEW x \in Explicit, CreateCommand(h, q, k, W, x)
        PROVE  FailInv'
    BY <2>6, FailCreate
  <2> QED BY <1>5, <2>1, <2>2, <2>3, <2>4, <2>5, <2>6 DEF AppStep
<1>6. ASSUME NEW d \in Drivers, DriverStep(d) PROVE FailInv'
  BY <1>6, FailTake, FailStart DEF DriverStep
<1>7. ASSUME NEW t \in Thread, FinishStep(t) PROVE FailInv'
  BY <1>7, FailFinish, FailRelock, FailBroadcastDone, FailReleaseFinished, FailNotify, FailNotifyFailed DEF FinishStep
<1> QED BY <1>1, <1>2, <1>3, <1>4, <1>5, <1>6, <1>7 DEF Next

\* FailInv is an invariant, with the lock order and the types it rests on.
LEMMA FailInvariance == OneNotifier => (Spec => []FState)
<1> SUFFICES ASSUME OneNotifier PROVE Spec => []FState
  OBVIOUS
<1>1. Init => FailInv
  <2> SUFFICES ASSUME Init PROVE FailInv
    OBVIOUS
  <2>1. Untouched /\ Placed /\ DependencyOrder
    BY DEF Init, Untouched, Placed, DependencyOrder, Commands, CommandKinds, Enqueuing, Thread
  <2>2. InWork /\ InTaken
    BY DEF Init, InWork, InTaken, Thread
  <2>3. Finishing /\ Linked /\ Covered
    BY DEF Init, Finishing, Linked, Covered, Commands, CommandKinds
  <2>4. OneNeed
    BY DEF Init, OneNeed, Enqueuing, Thread
  <2> QED BY <2>1, <2>2, <2>3, <2>4 DEF FailInv
<1>2. Spec => [](TypeOK /\ LockInv)
  BY LockInvariance DEF OneNotifier, MayFail
<1>3. TypeOK /\ LockInv /\ FailInv /\ [Next]_vars => FailInv'
  BY FailStep DEF FState
<1>4. TypeOK /\ LockInv /\ FailInv => FState
  BY DEF FState
<1> QED BY <1>1, <1>2, <1>3, <1>4, PTL DEF Spec

\* When user events fail, what runs still runs after what it needs has completed:
\* a command whose notifier failed is failed and never dispatched
\* (pocl_pthread_submit, pocl_pthread_notify).  Any number of threads and queues,
\* one notifier for a command.
THEOREM DependenciesRespectedFailing == OneNotifier => (Spec => []DependencyOrder)
<1>1. FState => DependencyOrder
  BY DEF FState, FailInv
<1> QED BY <1>1, FailInvariance, PTL

\* When user events fail, no command is left waiting for an event that is over and
\* will not tell it: a failed event notifies its list as a completed one does
\* (pocl_broadcast, pocl_update_event_failed).
THEOREM NoWakeupLostFailing == OneNotifier => (Spec => []NoLostWakeup)
<1>1. FState => NoLostWakeup
  <2> SUFFICES ASSUME FState PROVE NoLostWakeup
    OBVIOUS
  <2>0. TypeOK /\ Linked /\ Covered
    BY DEF FState, FailInv
  <2>1. ASSUME NEW e \in Event, NEW n \in waits[e]
        PROVE  e \in notify[n] /\ (status[n] > COMPLETE \/ \E t \in Thread : phase[t][n] \in {"broadcast", "notifying"})
    <3>1. /\ e \in notify[n] /\ n \in Event
          /\ ~Over(n) \/ \E t \in Thread : phase[t][n] \in {"broadcast", "notifying"}
      BY <2>0 DEF Linked, TypeOK
    <3>2. ~Over(n) => status[n] \in {QUEUED, SUBMITTED, RUNNING}
      BY <3>1, FailFacts DEF Over
    <3> QED BY <3>1, <3>2 DEF QUEUED, SUBMITTED, RUNNING, COMPLETE
  <2>2. ASSUME NEW e \in Event, kind[e] \in CommandKinds, ready[e], status[e] = QUEUED
        PROVE  waits[e] # {} \/ \E t \in Thread : phase[t][e] = "finish"
    BY <2>0, <2>2 DEF Covered, Commands
  <2> QED BY <2>1, <2>2 DEF NoLostWakeup
<1> QED BY <1>1, FailInvariance, PTL

\* When user events fail, every command is still dispatched at most once and is
\* finished by one thread, the driver thread that ran it or the application thread
\* that fails it (pocl_pthread_submit, pocl_pthread_notify).
THEOREM CommandsDispatchedOnceFailing == OneNotifier => (Spec => []DispatchedOnce)
<1>1. ASSUME FState PROVE DispatchedOnce
  <2> USE <1>1
  <2>0. TypeOK /\ InWork /\ InTaken /\ Placed /\ Finishing
    BY DEF FState, FailInv
  <2>1. ASSUME NEW e \in Commands
        PROVE  /\ \A x, y \in Holders(e) : x = y
               /\ status[e] \in {SUBMITTED, RUNNING} => Holders(e) # {}
    <3> DEFINE W == {<<"work", i>> : i \in {j \in DOMAIN work : work[j] = e}}
               T == {<<"taken", t>> : t \in {d \in Drivers : pc[d] = "taken" /\ cur[d] = e}}
               P == {<<"phase", t>> : t \in {x \in Thread : phase[x][e] # "none"}}
    <3>0. Holders(e) = W \cup T \cup P /\ e \in Event
      BY DEF Holders, Commands
    <3>d. DOMAIN work = 1..Len(work)
      BY <2>0 DEF TypeOK
    <3>1. \A x \in W : status[e] = SUBMITTED /\ \A y \in W : x = y
      BY <2>0, <3>d DEF InWork
    <3>2. \A x \in T : status[e] = SUBMITTED /\ (\A y \in T : x = y) /\ W = {}
      BY <2>0, <3>d DEF InTaken
    <3>3. \A x \in P : status[e] # SUBMITTED /\ \A y \in P : x = y
      <4> SUFFICES ASSUME NEW t \in Thread, phase[t][e] # "none"
                   PROVE  status[e] # SUBMITTED /\ \A u \in Thread : phase[u][e] # "none" => u = t
        OBVIOUS
      <4>1. CASE phase[t][e] = "finish"
        BY <2>0, <3>0, <4>1 DEF Finishing, QUEUED, SUBMITTED, RUNNING
      <4>2. CASE phase[t][e] # "finish"
        <5>1. phase[t][e] \in {"broadcast", "notifying", "release"}
          BY <2>0, <3>0, <4>2 DEF TypeOK
        <5> QED BY <2>0, <3>0, <5>1 DEF Finishing, Over, SUBMITTED, COMPLETE, FAILED
      <4> QED BY <4>1, <4>2
    <3>4. \A x, y \in Holders(e) : x = y
      <4> HIDE DEF W, T, P
      <4> QED BY <3>0, <3>1, <3>2, <3>3
    <3>5. status[e] = SUBMITTED => Holders(e) # {}
      <4>1. ASSUME NEW i \in 1..Len(work), work[i] = e PROVE Holders(e) # {}
        BY <3>0, <3>d, <4>1
      <4>2. ASSUME NEW d \in Drivers, pc[d] = "taken", cur[d] = e PROVE Holders(e) # {}
        BY <3>0, <4>2
      <4> QED BY <2>0, <4>1, <4>2 DEF Placed
    <3>6. status[e] = RUNNING => Holders(e) # {}
      <4>1. ASSUME NEW t \in Thread, phase[t][e] = "finish" PROVE Holders(e) # {}
        BY <3>0, <4>1
      <4> QED BY <2>0, <4>1 DEF Placed
    <3> QED BY <3>4, <3>5, <3>6
  <2>2. ASSUME NEW e \in Commands
        PROVE  /\ Cardinality(Holders(e)) <= 1
               /\ status[e] \in {SUBMITTED, RUNNING} => Cardinality(Holders(e)) = 1
    <3>1. CASE Holders(e) = {}
      BY <2>1, <3>1, FS_EmptySet
    <3>2. ASSUME NEW x \in Holders(e) PROVE Cardinality(Holders(e)) = 1
      <4>1. Holders(e) = {x}
        BY <2>1
      <4> QED BY <4>1, FS_Singleton
    <3> QED BY <3>1, <3>2
  <2>3. ASSUME NEW e \in Commands, NEW t \in Thread, phase[t][e] = "finish" PROVE status[e] > COMPLETE
    <3>1. status[e] \in {QUEUED, RUNNING}
      BY <2>0, <2>3 DEF Finishing, Commands
    <3> QED BY <3>1 DEF QUEUED, RUNNING, COMPLETE
  <2> QED BY <2>2, <2>3 DEF DispatchedOnce
<1> QED BY <1>1, FailInvariance, PTL

-----------------------------------------------------------------------------
(* The refinement of TaskGraph when user events fail.                      *)

\* The graph's view of a command, and of one that is being failed.
LEMMA FailTask ==
  ASSUME TypeOK, NEW e \in Event
  PROVE  /\ TaskOf(e) = "none" <=> kind[e] = "none"
         /\ kind[e] # "none" /\ status[e] = COMPLETE => TaskOf(e) = "done"
         /\ kind[e] # "none" /\ status[e] = FAILED => TaskOf(e) = "failed"
         /\ kind[e] = "user" /\ status[e] \notin {COMPLETE, FAILED} => TaskOf(e) = "open"
         /\ e \in Commands /\ status[e] = QUEUED => TaskOf(e) = "waiting"
         /\ e \in Commands /\ status[e] \in {SUBMITTED, RUNNING} => TaskOf(e) = "started"
BY DEF TaskOf, Commands, CommandKinds, QUEUED, SUBMITTED, RUNNING, COMPLETE, FAILED

\* A command that is dispatched starts in the graph.
LEMMA FailDispatch ==
  ASSUME FState, FState', NEW e \in Commands, status[e] = QUEUED,
         status' = [status EXCEPT ![e] = SUBMITTED], UNCHANGED <<kind, needs>>
  PROVE  Graph!Start(e)
<1>0. /\ e \in Event /\ TypeOK /\ OneNeed /\ Commands' = Commands /\ TypeOK' /\ DependencyOrder' /\ e \in Commands'
  BY DEF FState, FailInv, Commands
<1>1. status'[e] = SUBMITTED /\ \A a \in Event : a # e => status'[a] = status[a]
  BY <1>0 DEF TypeOK
<1>2. ASSUME NEW d \in needs[e] PROVE d \in Event /\ TaskOf(d) = "done"
  <2>1. d \in Event /\ status'[d] = COMPLETE /\ kind[d] # "none"
    BY <1>0, <1>1 DEF DependencyOrder, OneNeed, TypeOK
  <2>2. status[d] = COMPLETE
    BY <1>1, <2>1 DEF SUBMITTED, COMPLETE
  <2> QED BY <1>0, <2>1, <2>2, FailTask
<1>3. TaskOf(e) = "waiting"
  BY <1>0, FailTask
<1>4. TaskOf(e)' = "started"
  BY <1>0, <1>1 DEF TaskOf, Commands, CommandKinds, QUEUED, SUBMITTED, COMPLETE, FAILED
<1>5. Graph!Become(e, "started")
  BY <1>0, <1>1, <1>4, OneTask
<1> QED BY <1>0, <1>2, <1>3, <1>5 DEF Graph!Start

\* Every step of the runtime is a step of the graph, or none.
LEMMA FailGraphStep ==
  ASSUME FState, FState', OneNotifier, [Next]_vars
  PROVE  [Graph!Next]_(Graph!gvars)
<1> USE DEF QUEUED, SUBMITTED, RUNNING, COMPLETE, FAILED
<1>0. /\ TypeOK /\ TypeOK' /\ Untouched /\ InTaken /\ Finishing /\ OneNeed /\ LockBase
      /\ \A e \in Commands : e \in Event /\ kind[e] # "none"
  BY DEF FState, FailInv, LockInv, Commands, CommandKinds
<1>g. ASSUME NEW e \in Event, \/ Graph!Open(e) \/ Graph!Resolve(e) \/ Graph!Create(e)
                              \/ Graph!Start(e) \/ Graph!Done(e) \/ Graph!Fail(e)
      PROVE  Graph!Next
  BY <1>g DEF Graph!Next
<1>1. ASSUME NEW h \in Hosts, NEW q \in Queues, NEW k \in Kinds, NEW W \in SUBSET Event,
             NEW x \in Explicit, CreateCommand(h, q, k, W, x)
      PROVE  Graph!Next
  <2>a. /\ created + 1 \in Event /\ kind[created + 1] = "none" /\ k = "task"
        /\ W \subseteq app /\ needs' = [needs EXCEPT ![created + 1] = W]
        /\ status' = [status EXCEPT ![created + 1] = QUEUED]
        /\ kind' = [kind EXCEPT ![created + 1] = k]
    BY <1>0, <1>1, ConstantsAssumption DEF CreateCommand, Usable, OneNotifier, TypeOK, Event
  <2>0. PICK n \in Event : n = created + 1
    BY <2>a
  <2>1. /\ kind'[n] = "task" /\ status'[n] = QUEUED
        /\ \A a \in Event : a # n => kind'[a] = kind[a] /\ status'[a] = status[a]
    BY <1>0, <2>a, <2>0 DEF TypeOK
  <2>2. TaskOf(n)' = "waiting"
    BY <2>1 DEF TaskOf
  <2>3. Graph!Become(n, "waiting")
    BY <2>1, <2>2, OneTask
  <2>4. TaskOf(n) = "none"
    BY <1>0, <2>a, <2>0, FailTask
  <2>5. W \in SUBSET Graph!Known
    <3>1. \A a \in W : a \in Event /\ kind[a] # "none"
      BY <1>0, <2>a DEF LockBase, PointsReached
    <3>2. \A a \in W : TaskOf(a) # "none"
      BY <1>0, <3>1, FailTask
    <3> QED BY <3>1, <3>2 DEF Graph!Known
  <2>6. Graph!Create(n)
    BY <2>a, <2>0, <2>3, <2>4, <2>5 DEF Graph!Create
  <2> QED BY <1>g, <2>6
<1>2. ASSUME NEW h \in Hosts, CreateUserEvent(h) PROVE Graph!Next
  <2>a. /\ created + 1 \in Event /\ kind[created + 1] = "none"
        /\ status' = [status EXCEPT ![created + 1] = SUBMITTED]
        /\ kind' = [kind EXCEPT ![created + 1] = "user"] /\ needs' = needs
    BY <1>0, <1>2, ConstantsAssumption DEF CreateUserEvent, TypeOK, Event
  <2>0. PICK n \in Event : n = created + 1
    BY <2>a
  <2>1. /\ kind'[n] = "user" /\ status'[n] = SUBMITTED
        /\ \A a \in Event : a # n => kind'[a] = kind[a] /\ status'[a] = status[a]
    BY <1>0, <2>a, <2>0 DEF TypeOK
  <2>2. TaskOf(n)' = "open"
    BY <2>1 DEF TaskOf
  <2>3. Graph!Become(n, "open")
    BY <2>1, <2>2, OneTask
  <2>4. TaskOf(n) = "none"
    BY <1>0, <2>a, <2>0, FailTask
  <2>6. Graph!Open(n)
    BY <2>a, <2>3, <2>4 DEF Graph!Open
  <2> QED BY <1>g, <2>6
<1>3. ASSUME NEW h \in Hosts, NEW e \in Event, NEW s \in UserStatuses, SetUserEventStatus(h, e, s)
      PROVE  Graph!Next
  <2>1. /\ kind' = kind /\ needs' = needs /\ kind[e] = "user" /\ status[e] \notin {COMPLETE, FAILED}
        /\ s \in {COMPLETE, FAILED} /\ status'[e] = s /\ \A a \in Event : a # e => status'[a] = status[a]
    BY <1>0, <1>3, ConstantsAssumption DEF SetUserEventStatus, identVars, TypeOK
  <2>2. TaskOf(e) = "open"
    BY <1>0, <2>1, FailTask
  <2>3. TaskOf(e)' = "done" \/ TaskOf(e)' = "failed"
    BY <2>1 DEF TaskOf
  <2>4. Graph!Become(e, "done") \/ Graph!Become(e, "failed")
    BY <2>1, <2>3, OneTask
  <2>5. Graph!Resolve(e)
    BY <2>1, <2>2, <2>4 DEF Graph!Resolve
  <2> QED BY <1>g, <2>5
<1>4. ASSUME NEW h \in Hosts, Enqueue(h) PROVE UNCHANGED <<kind, status, needs>>
  <2>0. PICK e \in Event : e = cur[h] /\ e \in Commands /\ Enqueuing(h)
    BY <1>0, <1>4 DEF Enqueue, TypeOK, Enqueuing, Commands
  <2>1. PICK q \in Queues : q = queue[e]
    BY <1>0, <2>0 DEF TypeOK
  <2>2. needs' = [needs EXCEPT ![e] = @ \cup QueueOrder(e, q)] /\ UNCHANGED <<kind, status>>
    BY <1>4, <2>0, <2>1 DEF Enqueue
  <2>3. \A a \in Commands : kind[a] = "task"
    BY <1>0 DEF Untouched, Commands, CommandKinds, OneNotifier
  <2>4. pending[q] \subseteq Commands
    BY <1>0 DEF LockBase, OnlyCommands
  <2>5. QueueOrder(e, q) = {}
    <3>1. q \notin InOrder /\ barrier[q] = NoEvent /\ kind[e] = "task"
      BY <1>0, <2>0, <2>3 DEF OneNeed, OneNotifier
    <3>2. \A b \in pending[q] : ~IsBarrier(kind[b])
      BY <2>3, <2>4 DEF IsBarrier
    <3>3. QueueSyncs(e, q) = {}
      BY <3>1 DEF QueueSyncs, IsBarrier
    <3> QED BY <3>1, <3>2, <3>3 DEF QueueOrder
  <2>6. needs' = needs
    BY <1>0, <2>2, <2>5 DEF TypeOK
  <2> QED BY <2>2, <2>6
<1>5. ASSUME NEW h \in Hosts, Submit(h) PROVE Graph!Next \/ UNCHANGED Graph!gvars
  <2>1. /\ cur[h] \in Commands /\ status[cur[h]] = QUEUED /\ UNCHANGED <<kind, needs>>
        /\ status' = [status EXCEPT ![cur[h]] = IF waits[cur[h]] = {} THEN SUBMITTED ELSE QUEUED]
    BY <1>0, <1>5 DEF Submit, TypeOK, Enqueuing, Untouched, identVars
  <2>2. CASE waits[cur[h]] = {}
    <3>1. PICK e \in Event : e = cur[h]
      BY <1>0, <2>1
    <3>2. Graph!Start(e)
      BY <2>1, <2>2, <3>1, FailDispatch
    <3> QED BY <1>g, <3>2
  <2>3. CASE waits[cur[h]] # {}
    <3>1. status' = status
      BY <1>0, <2>1, <2>3 DEF TypeOK
    <3> QED BY <2>1, <3>1, TasksSame
  <2> QED BY <2>2, <2>3
<1>6. ASSUME NEW t \in Thread, NEW e \in Event, NEW x \in Event, Notify(t, e, x)
      PROVE  Graph!Next \/ UNCHANGED Graph!gvars
  <2>1. /\ UNCHANGED <<kind, needs>>
        /\ status' = IF Dispatchable(x, e) THEN [status EXCEPT ![x] = SUBMITTED] ELSE status
    BY <1>6 DEF Notify, identVars
  <2>2. CASE Dispatchable(x, e)
    <3>1. x \in Commands /\ status[x] = QUEUED
      BY <1>0, <2>2 DEF Dispatchable, Untouched
    <3>2. Graph!Start(x)
      BY <2>1, <2>2, <3>1, FailDispatch
    <3> QED BY <1>g, <3>2
  <2>3. CASE ~Dispatchable(x, e)
    BY <2>1, <2>3, TasksSame
  <2> QED BY <2>2, <2>3
<1>7. ASSUME NEW d \in Drivers, Start(d) PROVE UNCHANGED Graph!gvars
  <2>0. PICK e \in Event : e = cur[d] /\ e \in Commands /\ status[e] = SUBMITTED
    BY <1>0, <1>7 DEF Start, InTaken
  <2>1. /\ kind' = kind /\ needs' = needs
        /\ status'[e] = RUNNING /\ \A a \in Event : a # e => status'[a] = status[a]
    BY <1>0, <1>7, <2>0 DEF Start, identVars, TypeOK
  <2>2. TaskOf(e) = "started"
    BY <1>0, <2>0, FailTask
  <2>3. TaskOf(e)' = "started"
    BY <2>0, <2>1 DEF TaskOf, Commands, CommandKinds
  <2>4. \A a \in Event : TaskOf(a)' = TaskOf(a)
    BY <2>1, <2>2, <2>3, TaskSame
  <2> QED BY <2>1, <2>4 DEF Graph!gvars
<1>8. ASSUME NEW t \in Thread, NEW e \in Event, Finish(t, e) PROVE Graph!Next
  <2>1. /\ e \in Commands /\ kind' = kind /\ needs' = needs /\ phase[t][e] = "finish"
        /\ status'[e] = (IF Failing(t) THEN FAILED ELSE COMPLETE)
        /\ \A a \in Event : a # e => status'[a] = status[a]
    BY <1>0, <1>8 DEF Finish, Finishing, identVars, TypeOK
  <2>2. CASE t \in Drivers
    <3>1. status[e] = RUNNING /\ ~Failing(t)
      BY <1>0, <2>1, <2>2, FailFacts DEF Finishing
    <3>2. TaskOf(e) = "started"
      BY <1>0, <2>1, <3>1, FailTask
    <3>3. TaskOf(e)' = "done"
      BY <1>0, <2>1, <3>1 DEF TaskOf
    <3>4. Graph!Become(e, "done")
      BY <2>1, <3>3, OneTask
    <3>5. Graph!Done(e)
      BY <2>1, <3>2, <3>4 DEF Graph!Done
    <3> QED BY <1>g, <3>5
  <2>3. CASE t \notin Drivers
    <3>1. status[e] = QUEUED /\ Failing(t) /\ \E d \in needs[e] : status[d] = FAILED
      BY <1>0, <2>1, <2>3 DEF Finishing
    <3>2. TaskOf(e) = "waiting"
      BY <1>0, <2>1, <3>1, FailTask
    <3>3. TaskOf(e)' = "failed"
      BY <1>0, <2>1, <3>1 DEF TaskOf
    <3>4. Graph!Become(e, "failed")
      BY <2>1, <3>3, OneTask
    <3>5. PICK d \in needs[e] : status[d] = FAILED
      BY <3>1
    <3>6. d \in Event /\ kind[d] # "none"
      BY <1>0 DEF OneNeed, TypeOK
    <3>7. TaskOf(d) = "failed"
      BY <1>0, <3>5, <3>6, FailTask
    <3>8. Graph!Fail(e)
      BY <2>1, <3>2, <3>4, <3>6, <3>7 DEF Graph!Fail
    <3> QED BY <1>g, <3>8
  <2> QED BY <2>2, <2>3
<1>9. ASSUME NEW h \in Hosts, SyncLast(h) \/ SyncListed(h) \/ WaitStep(h) PROVE UNCHANGED <<kind, status, needs>>
  BY <1>9 DEF SyncLast, SyncListed, WaitStep, Join, WaitEvent, WaitTimeout, UserEventDone, identVars, eventVars
<1>10. ASSUME NEW h \in Hosts, NEW q \in Queues, CallFinish(h, q) \/ ReleaseQueue(h, q)
       PROVE  UNCHANGED <<kind, status, needs>>
  BY <1>10 DEF CallFinish, ReleaseQueue, identVars, eventVars
<1>11. ASSUME NEW h \in Hosts, NEW e \in Event, CallWait(h, e) \/ ReleaseEvent(h, e)
       PROVE  UNCHANGED <<kind, status, needs>>
  BY <1>11 DEF CallWait, ReleaseEvent, identVars, eventVars
<1>12. ASSUME NEW d \in Drivers, Take(d) PROVE UNCHANGED <<kind, status, needs>>
  BY <1>12 DEF Take, identVars, eventVars
<1>13. ASSUME NEW t \in Thread, NEW e \in Event, \/ Relock(t, e) \/ BroadcastDone(t, e) \/ ReleaseFinished(t, e)
                                                 \/ \E x \in Event : NotifyFailed(t, e, x)
       PROVE  UNCHANGED <<kind, status, needs>>
  BY <1>13 DEF Relock, NotifyFailed, BroadcastDone, ReleaseFinished, identVars, eventVars
<1>14. CASE UNCHANGED vars
  BY <1>14, TasksSame DEF vars, identVars, eventVars
<1> QED
  BY <1>1, <1>2, <1>3, <1>4, <1>5, <1>6, <1>7, <1>8, <1>9, <1>10, <1>11, <1>12, <1>13, <1>14, TasksSame
  DEF Next, EnqueueStep, DriverStep, FinishStep, SetSomeUserEvent, AppStep

\* When user events fail, the runtime implements TaskGraph with its failures: a
\* command fails only because an event it needs has failed, and instead of running
\* (pocl_broadcast, pocl_update_event_failed).
THEOREM GraphImplementedFailing == OneNotifier => (Spec => ImplementsGraph)
<1> SUFFICES ASSUME OneNotifier PROVE Spec => ImplementsGraph
  OBVIOUS
<1>1. ASSUME Init PROVE Graph!Init
  <2>1. \A e \in Event : TaskOf(e) = "none"
    BY <1>1 DEF Init, TaskOf
  <2> QED BY <1>1, <2>1 DEF Init, Graph!Init
<1>2. FState /\ FState' /\ [Next]_vars => [Graph!Next]_(Graph!gvars)
  BY FailGraphStep
<1>3. Spec => []FState
  BY FailInvariance
<1> QED BY <1>1, <1>2, <1>3, PTL DEF Spec, ImplementsGraph, Graph!Spec

-----------------------------------------------------------------------------
(* QueueAccounting when user events fail.                                  *)

\* A step that enqueues and finishes nothing.
LEMMA FailQuiet ==
  ASSUME QueueAccounting, UNCHANGED <<queue, count, barrier, last, pending>>, Commands' = Commands,
         \A c \in Commands : status'[c] > COMPLETE <=> status[c] > COMPLETE,
         \A h \in Hosts : SyncingNow(h) \/ SyncingNow(h)' => pc'[h] = pc[h] /\ cur'[h] = cur[h]
  PROVE  QueueAccounting'
<1>1. \A e \in Event : Entered(e)' <=> Entered(e)
  BY DEF Entered, SyncingNow
<1>2. \A e \in Event : InQueue(e)' <=> InQueue(e)
  BY <1>1 DEF InQueue, Entered
<1> QED BY <1>2, KeepAccounts

\* A command enters its queue.
LEMMA FailEnter ==
  ASSUME FState, OneNotifier, QueueAccounting, NEW h \in Hosts, Enqueue(h)
  PROVE  QueueAccounting'
<1>0. TypeOK /\ Untouched /\ LockBase
  BY DEF FState, FailInv, LockInv
<1>e. PICK e \in Event : e = cur[h] /\ e \in Commands /\ kind[e] = "task" /\ status[e] = QUEUED /\ Enqueuing(h) /\ h \in Thread
  <2>1. Enqueuing(h) /\ cur[h] \in Commands /\ status[cur[h]] = QUEUED /\ h \in Thread
    BY <1>0 DEF Enqueue, Enqueuing, TypeOK, Untouched, Thread
  <2>2. cur[h] \in Event /\ kind[cur[h]] = "task"
    BY <1>0, <2>1 DEF Untouched, Commands, CommandKinds, OneNotifier
  <2> QED BY <2>1, <2>2
<1>q. PICK q \in Queues : q = queue[e]
  BY <1>0, <1>e DEF TypeOK
<1>2. /\ UNCHANGED <<kind, queue, status, cur, barrier>>
      /\ \A p \in Queues : /\ count'[p] = IF p = q THEN count[p] + 1 ELSE count[p]
                           /\ pending'[p] = IF p = q THEN pending[p] \cup {e} ELSE pending[p]
                           /\ last'[p] = IF p = q THEN e ELSE last[p]
      /\ \A g \in Hosts : pc'[g] = IF g = h THEN "submit" ELSE pc[g]
  BY <1>0, <1>e, <1>q DEF Enqueue, Goto, TypeOK, Thread, IsBarrier
<1>3. Commands' = Commands
  BY <1>2 DEF Commands
<1>4. \A g \in Hosts : pc[g] \in {"lastSync", "listSync"} /\ cur[g] = e => g = h
  BY <1>0, <1>e DEF LockBase, PointsSettled, Enqueuing
<1>5. \A a \in Event : Entered(a)' <=> (Entered(a) \/ a = e)
  BY <1>e, <1>2, <1>3, <1>4 DEF Entered
<1>6. ~Entered(e) /\ status[e] > COMPLETE
  BY <1>e DEF Entered, QUEUED, COMPLETE, Enqueue
<1>7. ASSUME NEW p \in Queues
      PROVE  /\ pending'[p] = {a \in Event : Entered(a)' /\ queue'[a] = p /\ status'[a] > COMPLETE}
             /\ count'[p] = Cardinality(pending'[p])
             /\ {barrier'[p], last'[p]} \subseteq pending'[p] \cup {NoEvent}
  <2>1. /\ pending[p] = {a \in Event : Entered(a) /\ queue[a] = p /\ status[a] > COMPLETE}
        /\ count[p] = Cardinality(pending[p])
        /\ {barrier[p], last[p]} \subseteq pending[p] \cup {NoEvent}
    BY DEF QueueAccounting
  <2>2. \A a \in Event : a \in pending[p] <=> Entered(a) /\ queue[a] = p /\ status[a] > COMPLETE
    BY <2>1
  <2>3. e \notin pending[p] /\ pending[p] \subseteq Event /\ IsFiniteSet(pending[p])
    BY <1>6, <2>1, FiniteEvents
  <2>4. CASE p = q
    <3>1. /\ pending'[p] = pending[p] \cup {e} /\ count'[p] = count[p] + 1
          /\ last'[p] = e /\ barrier'[p] = barrier[p]
      BY <1>2, <2>4
    <3>2. \A a \in Event : a \in pending'[p] <=> Entered(a)' /\ queue'[a] = p /\ status'[a] > COMPLETE
      BY <1>q, <1>2, <1>5, <1>6, <2>2, <2>4, <3>1
    <3>3. pending'[p] = {a \in Event : Entered(a)' /\ queue'[a] = p /\ status'[a] > COMPLETE}
      BY <2>3, <3>1, <3>2
    <3>4. Cardinality(pending'[p]) = Cardinality(pending[p]) + 1
      <4>1. IsFiniteSet(pending[p]) /\ e \notin pending[p]
        BY <2>3
      <4>2. Cardinality(pending[p] \cup {e}) = Cardinality(pending[p]) + 1
        BY <4>1, FS_AddElement, ZenonT(30)
      <4>3. pending'[p] = pending[p] \cup {e}
        BY <3>1
      <4> QED BY <4>2, <4>3
    <3> QED BY <2>1, <3>1, <3>3, <3>4
  <2>5. CASE p # q
    <3>1. /\ pending'[p] = pending[p] /\ count'[p] = count[p]
          /\ last'[p] = last[p] /\ barrier'[p] = barrier[p]
      BY <1>2, <2>5
    <3>2. \A a \in Event : a \in pending[p] <=> Entered(a)' /\ queue'[a] = p /\ status'[a] > COMPLETE
      BY <1>q, <1>2, <1>5, <1>6, <2>2, <2>5
    <3>3. pending[p] = {a \in Event : Entered(a)' /\ queue'[a] = p /\ status'[a] > COMPLETE}
      BY <2>3, <3>2
    <3> QED BY <2>1, <3>1, <3>3
  <2> QED BY <2>4, <2>5
<1> QED BY <1>7 DEF QueueAccounting

\* A command leaves its queue, complete or failed.
LEMMA FailDepart ==
  ASSUME FState, QueueAccounting, NEW t \in Thread, NEW e \in Event, Finish(t, e)
  PROVE  QueueAccounting'
<1>0. TypeOK /\ Finishing /\ LockBase
  BY DEF FState, FailInv, LockInv
<1>1. e \in Commands /\ status[e] \in {QUEUED, RUNNING} /\ e \in Settled /\ phase[t][e] = "finish"
  BY <1>0 DEF Finish, Finishing, LockBase, PointsSettled
<1>q. PICK q \in Queues : q = queue[e]
  BY <1>0, <1>1 DEF TypeOK
<1>2. /\ UNCHANGED <<kind, queue, cur>>
      /\ status'[e] \in {COMPLETE, FAILED} /\ \A a \in Event : a # e => status'[a] = status[a]
      /\ \A p \in Queues : /\ count'[p] = IF p = q THEN count[p] - 1 ELSE count[p]
                           /\ pending'[p] = IF p = q THEN pending[p] \ {e} ELSE pending[p]
                           /\ last'[p] = IF p = q /\ last[p] = e THEN NoEvent ELSE last[p]
                           /\ barrier'[p] = IF p = q /\ barrier[p] = e THEN NoEvent ELSE barrier[p]
      /\ \A g \in Hosts : pc'[g] \in {"lastSync", "listSync"} <=> pc[g] \in {"lastSync", "listSync"}
  <2>1. /\ UNCHANGED <<kind, queue, cur>>
        /\ status'[e] \in {COMPLETE, FAILED} /\ \A a \in Event : a # e => status'[a] = status[a]
    BY <1>0 DEF Finish, identVars, TypeOK
  <2>2. \A p \in Queues : /\ count'[p] = IF p = q THEN count[p] - 1 ELSE count[p]
                          /\ pending'[p] = IF p = q THEN pending[p] \ {e} ELSE pending[p]
                          /\ last'[p] = IF p = q /\ last[p] = e THEN NoEvent ELSE last[p]
                          /\ barrier'[p] = IF p = q /\ barrier[p] = e THEN NoEvent ELSE barrier[p]
    BY <1>0, <1>q DEF Finish, Cleared, TypeOK
  <2>3. \A g \in Hosts : pc'[g] \in {"lastSync", "listSync"} <=> pc[g] \in {"lastSync", "listSync"}
    BY DEF Finish, WaitsForQueue, WaitsForEvent, Thread
  <2> QED BY <2>1, <2>2, <2>3
<1>3. Commands' = Commands
  BY <1>2 DEF Commands
<1>4. \A a \in Event : Entered(a)' <=> Entered(a)
  BY <1>2, <1>3 DEF Entered
<1>5. Entered(e) /\ status[e] > COMPLETE /\ ~(status'[e] > COMPLETE)
  BY <1>1, <1>2 DEF Entered, Settled, Enqueuing, RUNNING, QUEUED, COMPLETE, FAILED
<1>6. ASSUME NEW p \in Queues
      PROVE  /\ pending'[p] = {a \in Event : Entered(a)' /\ queue'[a] = p /\ status'[a] > COMPLETE}
             /\ count'[p] = Cardinality(pending'[p])
             /\ {barrier'[p], last'[p]} \subseteq pending'[p] \cup {NoEvent}
  <2>1. /\ pending[p] = {a \in Event : Entered(a) /\ queue[a] = p /\ status[a] > COMPLETE}
        /\ count[p] = Cardinality(pending[p])
        /\ {barrier[p], last[p]} \subseteq pending[p] \cup {NoEvent}
    BY DEF QueueAccounting
  <2>2. \A a \in Event : a \in pending[p] <=> Entered(a) /\ queue[a] = p /\ status[a] > COMPLETE
    BY <2>1
  <2>3. (p = q => e \in pending[p]) /\ pending[p] \subseteq Event /\ IsFiniteSet(pending[p])
    BY <1>q, <1>5, <2>1, <2>2, FiniteEvents
  <2>4. CASE p = q
    <3>1. /\ pending'[p] = pending[p] \ {e} /\ count'[p] = count[p] - 1
          /\ last'[p] = (IF last[p] = e THEN NoEvent ELSE last[p])
          /\ barrier'[p] = (IF barrier[p] = e THEN NoEvent ELSE barrier[p])
      BY <1>2, <2>4
    <3>2. \A a \in Event : a \in pending'[p] <=> Entered(a)' /\ queue'[a] = p /\ status'[a] > COMPLETE
      BY <1>2, <1>4, <1>5, <2>2, <3>1
    <3>3. pending'[p] = {a \in Event : Entered(a)' /\ queue'[a] = p /\ status'[a] > COMPLETE}
      BY <2>3, <3>1, <3>2
    <3>4. Cardinality(pending'[p]) = Cardinality(pending[p]) - 1
      <4>1. IsFiniteSet(pending[p]) /\ e \in pending[p]
        BY <2>3, <2>4
      <4>2. Cardinality(pending[p] \ {e}) = Cardinality(pending[p]) - 1
        BY <4>1, FS_RemoveElement, ZenonT(30)
      <4>3. pending'[p] = pending[p] \ {e}
        BY <3>1
      <4> QED BY <4>2, <4>3
    <3> QED BY <2>1, <3>1, <3>3, <3>4
  <2>5. CASE p # q
    <3>1. /\ pending'[p] = pending[p] /\ count'[p] = count[p]
          /\ last'[p] = last[p] /\ barrier'[p] = barrier[p]
      BY <1>2, <2>5
    <3>2. \A a \in Event : a \in pending[p] <=> Entered(a)' /\ queue'[a] = p /\ status'[a] > COMPLETE
      BY <1>q, <1>2, <1>4, <1>5, <2>2, <2>5
    <3>3. pending[p] = {a \in Event : Entered(a)' /\ queue'[a] = p /\ status'[a] > COMPLETE}
      BY <2>3, <3>2
    <3> QED BY <2>1, <3>1, <3>3
  <2> QED BY <2>4, <2>5
<1> QED BY <1>6 DEF QueueAccounting

\* Every step keeps the accounts of the queues.
LEMMA FailAccountsStep ==
  ASSUME FState, FState', OneNotifier, [Next]_vars, QueueAccounting
  PROVE  QueueAccounting'
<1> USE DEF QUEUED, SUBMITTED, RUNNING, COMPLETE, FAILED
<1>0. TypeOK /\ TypeOK' /\ Works /\ OneNeed /\ Untouched /\ InTaken /\ LockBase
  BY DEF FState, FailInv, LockInv
<1>h. \A h \in Hosts : h \in Thread /\ \A d \in Drivers : d # h
  BY ConstantsAssumption DEF Thread
\* Quiet steps, by what they do to the places of the application threads.
<1>q. ASSUME UNCHANGED <<kind, queue, status, count, barrier, last, pending>>,
             \A h \in Hosts : SyncingNow(h) \/ SyncingNow(h)' => pc'[h] = pc[h] /\ cur'[h] = cur[h]
      PROVE  QueueAccounting'
  BY <1>q, FailQuiet DEF Commands
<1>1. ASSUME NEW h \in Hosts, EnqueueStep(h) PROVE QueueAccounting'
  <2>1. ~SyncLast(h)
    BY <1>0 DEF SyncLast, OneNeed
  <2>2. CASE SyncListed(h)
    BY <1>q, <2>2 DEF SyncListed, identVars, cqVars
  <2>3. CASE Submit(h)
    <3>1. /\ cur[h] \in Event /\ status[cur[h]] = QUEUED /\ pc[h] = "submit"
          /\ UNCHANGED <<kind, queue, count, barrier, last, pending>>
          /\ status' = [status EXCEPT ![cur[h]] = IF waits[cur[h]] = {} THEN SUBMITTED ELSE QUEUED]
          /\ pc'[h] = "idle" /\ \A g \in Hosts : g # h => pc'[g] = pc[g] /\ cur'[g] = cur[g]
      BY <1>0, <1>h, <2>3 DEF Submit, identVars, cqVars, Goto, TypeOK, Enqueuing, Untouched, Commands
    <3>2. \A c \in Commands : status'[c] > COMPLETE <=> status[c] > COMPLETE
      BY <1>0, <3>1 DEF TypeOK, Commands
    <3>3. \A g \in Hosts : SyncingNow(g) \/ SyncingNow(g)' => pc'[g] = pc[g] /\ cur'[g] = cur[g]
      BY <3>1 DEF SyncingNow
    <3> QED BY <3>1, <3>2, <3>3, FailQuiet DEF Commands
  <2> QED BY <1>1, <2>1, <2>2, <2>3, FailEnter DEF EnqueueStep
<1>2. ASSUME NEW h \in Hosts, WaitStep(h) PROVE QueueAccounting'
  <2>1. UNCHANGED <<kind, queue, status, count, barrier, last, pending>>
    BY <1>2 DEF WaitStep, Join, WaitEvent, WaitTimeout, UserEventDone, identVars, eventVars, cqVars
  <2>2. CASE Join(h) \/ WaitEvent(h) \/ WaitTimeout(h)
    <3>1. /\ \A g \in Hosts : g # h => pc'[g] = pc[g] /\ cur'[g] = cur[g]
          /\ ~SyncingNow(h) /\ ~SyncingNow(h)'
      BY <1>0, <1>h, <2>2 DEF Join, WaitEvent, WaitTimeout, TypeOK, Goto, SyncingNow
    <3> QED BY <1>q, <2>1, <3>1
  <2>3. CASE UserEventDone(h)
    <3>1. /\ \A g \in Hosts : g # h => cur'[g] = cur[g] /\ (pc'[g] = pc[g] \/ (pc[g] = "eventWait" /\ pc'[g] = "wait"))
          /\ pc[h] = "userDone" /\ pc'[h] = "idle"
      BY <1>0, <1>h, <2>3 DEF UserEventDone, TypeOK, WaitsForEvent
    <3> QED BY <1>q, <2>1, <3>1 DEF SyncingNow
  <2> QED BY <1>2, <2>2, <2>3 DEF WaitStep
<1>3. ASSUME NEW h \in Hosts, SetSomeUserEvent(h) PROVE QueueAccounting'
  <2>1. PICK e \in Event, s \in UserStatuses : SetUserEventStatus(h, e, s)
    BY <1>3 DEF SetSomeUserEvent
  <2>2. /\ UNCHANGED <<kind, queue, count, barrier, last, pending>> /\ e \notin Commands
        /\ status' = [status EXCEPT ![e] = s] /\ pc[h] = "idle" /\ pc'[h] = "userDone"
        /\ \A g \in Hosts : g # h => pc'[g] = pc[g] /\ cur'[g] = cur[g]
    BY <1>0, <1>h, <2>1 DEF SetUserEventStatus, identVars, cqVars, Commands, CommandKinds, TypeOK, Goto
  <2>3. \A c \in Commands : status'[c] = status[c]
    BY <1>0, <2>2 DEF TypeOK, Commands
  <2>4. \A g \in Hosts : SyncingNow(g) \/ SyncingNow(g)' => pc'[g] = pc[g] /\ cur'[g] = cur[g]
    BY <2>2 DEF SyncingNow
  <2> QED BY <2>2, <2>3, <2>4, FailQuiet DEF Commands
<1>4. ASSUME NEW h \in Hosts, AppStep(h) PROVE QueueAccounting'
  <2>1. CASE CreateUserEvent(h)
    <3>1. /\ UNCHANGED <<queue, pc, cur, count, barrier, last, pending>>
          /\ created + 1 \in Event /\ kind[created + 1] = "none"
          /\ status' = [status EXCEPT ![created + 1] = SUBMITTED] /\ kind' = [kind EXCEPT ![created + 1] = "user"]
      BY <1>0, <2>1, NextEvent DEF CreateUserEvent, cqVars, callVars
    <3>2. created + 1 \notin Commands /\ Commands' = Commands
      BY <1>0, <3>1 DEF Commands, CommandKinds, TypeOK
    <3>3. \A c \in Commands : status'[c] = status[c]
      BY <1>0, <3>1, <3>2 DEF TypeOK, Commands
    <3> QED BY <3>1, <3>2, <3>3, FailQuiet
  <2>2. ASSUME NEW q \in Queues, CallFinish(h, q) PROVE QueueAccounting'
    <3>1. /\ UNCHANGED <<kind, queue, status, count, barrier, last, pending, cur>>
          /\ pc[h] = "idle" /\ pc'[h] = "join" /\ \A g \in Hosts : g # h => pc'[g] = pc[g]
      BY <1>0, <1>h, <2>2 DEF CallFinish, identVars, eventVars, cqVars, Goto, TypeOK
    <3> QED BY <1>q, <3>1 DEF SyncingNow
  <2>3. ASSUME NEW q \in Queues, ReleaseQueue(h, q) PROVE QueueAccounting'
    BY <1>q, <2>3 DEF ReleaseQueue, identVars, eventVars, callVars
  <2>4. ASSUME NEW e \in Event, CallWait(h, e) PROVE QueueAccounting'
    <3>1. /\ UNCHANGED <<kind, queue, status, count, barrier, last, pending>>
          /\ pc[h] = "idle" /\ pc'[h] = "wait" /\ \A g \in Hosts : g # h => pc'[g] = pc[g] /\ cur'[g] = cur[g]
      BY <1>0, <1>h, <2>4 DEF CallWait, identVars, eventVars, cqVars, Goto, TypeOK
    <3> QED BY <1>q, <3>1 DEF SyncingNow
  <2>5. ASSUME NEW e \in Event, ReleaseEvent(h, e) PROVE QueueAccounting'
    BY <1>q, <2>5 DEF ReleaseEvent, identVars, callVars
  <2>6. ASSUME NEW q \in Queues, NEW k \in Kinds, NEW W \in SUBSET Event, NEW x \in Explicit,
               CreateCommand(h, q, k, W, x)
        PROVE  QueueAccounting'
    <3>a. /\ created + 1 \in Event /\ kind[created + 1] = "none"
          /\ kind' = [kind EXCEPT ![created + 1] = k] /\ status' = [status EXCEPT ![created + 1] = QUEUED]
          /\ cur' = [cur EXCEPT ![h] = created + 1] /\ pc[h] = "idle"
          /\ pc' = [pc EXCEPT ![h] = IF q \in InOrder THEN "lastSync" ELSE "listSync"]
          /\ UNCHANGED <<count, barrier, last, pending>> /\ k \in CommandKinds
      BY <1>0, <2>6, NextEvent, ConstantsAssumption DEF CreateCommand, Goto
    <3>n. PICK n \in Event : n = created + 1
      BY <3>a
    <3>1. /\ kind[n] = "none" /\ n \notin Commands
          /\ \A a \in Event : a # n => status'[a] = status[a] /\ (a \in Commands' <=> a \in Commands)
          /\ cur'[h] = n /\ pc'[h] \in {"lastSync", "listSync"}
          /\ \A g \in Hosts : g # h => pc'[g] = pc[g] /\ cur'[g] = cur[g]
      BY <1>0, <1>h, <3>a, <3>n DEF TypeOK, Commands, CommandKinds
    <3>2. \A a \in Event : Entered(a) => Entered(a)' /\ queue'[a] = queue[a]
      BY <1>0, EnteredKept
    <3>3. ASSUME NEW a \in Event, Entered(a)' PROVE Entered(a) /\ a # n
      <4>1. a # n /\ a \in Commands
        BY <3>1, <3>3 DEF Entered
      <4> QED BY <3>1, <3>3, <3>a, <4>1 DEF Entered
    <3>4. \A a \in Event : Entered(a) => a # n
      BY <3>1 DEF Entered
    <3>5. \A a \in Event : InQueue(a)' <=> InQueue(a)
      BY <3>1, <3>2, <3>3, <3>4 DEF InQueue
    <3> QED BY <3>a, <3>2, <3>5, KeepAccounts DEF InQueue
  <2> QED BY <1>4, <2>1, <2>2, <2>3, <2>4, <2>5, <2>6 DEF AppStep
<1>5. ASSUME NEW d \in Drivers, DriverStep(d) PROVE QueueAccounting'
  <2>1. \A g \in Hosts : pc'[g] = pc[g] /\ cur'[g] = cur[g]
    <3>1. SUFFICES ASSUME NEW g \in Hosts PROVE pc'[g] = pc[g] /\ cur'[g] = cur[g]
      OBVIOUS
    <3>2. g # d /\ g \in Thread /\ d \in Thread
      BY <1>h DEF Thread
    <3>3. CASE Take(d)
      BY <1>0, <3>2, <3>3 DEF Take, Goto, TypeOK
    <3>4. CASE Start(d)
      BY <1>0, <3>2, <3>4 DEF Start, Goto, TypeOK
    <3> QED BY <1>5, <3>3, <3>4 DEF DriverStep
  <2>2. CASE Take(d)
    BY <1>q, <2>1, <2>2 DEF Take, identVars, eventVars, cqVars
  <2>3. CASE Start(d)
    <3>1. status[cur[d]] = SUBMITTED /\ cur[d] \in Event
      BY <1>0, <2>3 DEF Start, InTaken, Commands
    <3>2. UNCHANGED <<kind, queue, count, barrier, last, pending>> /\ status' = [status EXCEPT ![cur[d]] = RUNNING]
      BY <2>3 DEF Start, identVars, cqVars
    <3>3. \A c \in Commands : status'[c] > COMPLETE <=> status[c] > COMPLETE
      BY <1>0, <3>1, <3>2 DEF TypeOK, Commands
    <3> QED BY <2>1, <3>2, <3>3, FailQuiet DEF Commands
  <2> QED BY <1>5, <2>2, <2>3 DEF DriverStep
<1>6. ASSUME NEW t \in Thread, FinishStep(t) PROVE QueueAccounting'
  <2>1. ASSUME NEW e \in Event, \/ Relock(t, e) \/ BroadcastDone(t, e) \/ \E x \in Event : NotifyFailed(t, e, x)
        PROVE  QueueAccounting'
    BY <1>q, <2>1 DEF Relock, BroadcastDone, NotifyFailed, identVars, eventVars, cqVars, callVars
  <2>2. ASSUME NEW e \in Event, NEW x \in Event, Notify(t, e, x) PROVE QueueAccounting'
    <3>1. /\ UNCHANGED <<kind, queue, pc, cur, count, barrier, last, pending>>
          /\ status' = IF Dispatchable(x, e) THEN [status EXCEPT ![x] = SUBMITTED] ELSE status
      BY <2>2 DEF Notify, identVars, callVars, cqVars
    <3>2. \A c \in Event : status'[c] = status[c] \/ (status[c] = QUEUED /\ status'[c] = SUBMITTED)
      <4>0. DOMAIN status = Event
        BY <1>0 DEF TypeOK
      <4>1. CASE Dispatchable(x, e)
        <5>1. status' = [status EXCEPT ![x] = SUBMITTED]
          BY <3>1, <4>1
        <5>2. status[x] = QUEUED
          BY <4>1 DEF Dispatchable
        <5> QED BY <4>0, <5>1, <5>2
      <4>2. CASE ~Dispatchable(x, e)
        <5>1. status' = status
          BY <3>1, <4>2
        <5> QED BY <5>1
      <4> QED BY <4>1, <4>2
    <3>3. \A c \in Commands : status'[c] > COMPLETE <=> status[c] > COMPLETE
      BY <3>2 DEF Commands
    <3> QED BY <3>1, <3>3, FailQuiet DEF Commands
  <2>3. ASSUME NEW e \in Event, ReleaseFinished(t, e) PROVE QueueAccounting'
    <3>1. pc[t] \in {"userDone", "finishing"}
      BY <1>0, <2>3 DEF ReleaseFinished, Works, Thread
    <3>2. /\ UNCHANGED <<kind, queue, status, count, barrier, last, pending, cur>>
          /\ \A x \in Thread : pc'[x] = pc[x] \/ (x = t /\ pc'[x] = "idle")
      BY <1>0, <2>3 DEF ReleaseFinished, identVars, TypeOK
    <3> QED BY <1>q, <1>h, <3>1, <3>2 DEF SyncingNow
  <2>4. ASSUME NEW e \in Event, Finish(t, e) PROVE QueueAccounting'
    BY <2>4, FailDepart
  <2> QED BY <1>6, <2>1, <2>2, <2>3, <2>4 DEF FinishStep
<1>7. CASE UNCHANGED vars
  BY <1>q, <1>7 DEF vars, identVars, eventVars, cqVars, callVars
<1> QED BY <1>1, <1>2, <1>3, <1>4, <1>5, <1>6, <1>7 DEF Next

\* clFinish waits for commands that have been enqueued.
LEMMA FailJoins ==
  ASSUME TypeOK, QueueAccounting, Joins, [Next]_vars
  PROVE  Joins'
<1>1. ASSUME NEW h \in Hosts, pc'[h] \in {"join", "joinWait"}
      PROVE  on'[h] \in Queues /\ \A e \in todo'[h] : Entered(e)' /\ queue'[e] = on'[h]
  <2>1. on'[h] \in Queues /\ \A e \in todo'[h] : Entered(e) /\ queue[e] = on'[h]
    <3>1. CASE pc[h] \in {"join", "joinWait"} /\ on'[h] = on[h] /\ todo'[h] = todo[h]
      BY <3>1 DEF Joins
    <3>2. CASE on'[h] \in Queues /\ todo'[h] = pending[on'[h]]
      BY <3>2 DEF QueueAccounting
    <3> QED BY <1>1, <3>1, <3>2, JoiningKept
  <2>2. ASSUME NEW e \in todo'[h] PROVE Entered(e)' /\ queue'[e] = queue[e]
    BY <2>1, EnteredKept
  <2> QED BY <2>1, <2>2
<1> QED BY <1>1 DEF Joins

\* The accounts, and what clFinish waits for, are right in every reachable state.
LEMMA FailAccounts == OneNotifier => (Spec => [](FState /\ QueueAccounting /\ Joins))
<1> SUFFICES ASSUME OneNotifier PROVE Spec => [](FState /\ QueueAccounting /\ Joins)
  OBVIOUS
<1>1. Init => QueueAccounting /\ Joins
  <2> SUFFICES ASSUME Init PROVE QueueAccounting /\ Joins
    OBVIOUS
  <2>1. \A e \in Event : ~Entered(e)
    BY DEF Init, Entered, Commands, CommandKinds
  <2>2. \A q \in Queues : pending[q] = {} /\ count[q] = 0 /\ barrier[q] = NoEvent /\ last[q] = NoEvent
    BY DEF Init
  <2>3. Joins
    BY DEF Init, Joins, Thread
  <2> QED BY <2>1, <2>2, <2>3, FS_EmptySet DEF QueueAccounting
<1>2. FState /\ FState' /\ QueueAccounting /\ [Next]_vars => QueueAccounting'
  BY FailAccountsStep
<1>3. FState /\ QueueAccounting /\ Joins /\ [Next]_vars => Joins'
  BY FailJoins DEF FState
<1>4. Spec => []FState
  BY FailInvariance
<1> QED BY <1>1, <1>2, <1>3, <1>4, PTL DEF Spec

\* When user events fail, command_count, cq->events, cq->barrier and cq->last_event
\* still say which commands are unfinished: one that fails leaves its queue as one
\* that completes does (pocl_update_event_finished, pocl_update_event_failed).
THEOREM QueueAccountsRightFailing == OneNotifier => (Spec => []QueueAccounting)
BY FailAccounts, PTL

\* When user events fail, clFinish returns only when every command enqueued before
\* it has completed or failed (pocl_pthread_join, pocl_update_event_finished).
THEOREM FinishIsSoundFailing == OneNotifier => (Spec => FinishSound)
<1>1. ASSUME FState, QueueAccounting, Joins, [Next]_vars, NEW h \in Hosts, pc[h] = "join", pc'[h] = "idle", NEW e \in todo[h]
      PROVE  status[e] <= COMPLETE
  <2>0. /\ TypeOK /\ Works
    BY <1>1 DEF FState, LockInv
  <2>a. \A a \in Event : phase[h][a] = "none"
    BY <1>1, <2>0 DEF Works
  <2>1. PICK q \in Queues : q = on[h] /\ Entered(e) /\ queue[e] = q /\ e \in Event
    BY <1>1 DEF Joins, Entered, Commands
  <2>2. count[q] = 0
    BY <1>1, <2>0, <2>a, <2>1, JoinReturns
  <2>3. /\ pending[q] = {a \in Event : Entered(a) /\ queue[a] = q /\ status[a] > COMPLETE}
        /\ Cardinality(pending[q]) = 0
    BY <1>1, <2>2 DEF QueueAccounting
  <2>4. pending[q] = {}
    <3>1. pending[q] \subseteq Event
      BY <2>3
    <3>2. IsFiniteSet(pending[q])
      BY <3>1, FiniteEvents
    <3> QED BY <2>3, <3>2, FS_EmptySet
  <2>5. ~(status[e] > COMPLETE)
    BY <2>1, <2>3, <2>4
  <2>6. status[e] \in FAILED..QUEUED
    BY <2>0, <2>1 DEF TypeOK
  <2> QED BY <2>5, <2>6 DEF FAILED, QUEUED, COMPLETE
<1>2. FState /\ QueueAccounting /\ Joins /\ [Next]_vars =>
        (\A h \in Hosts : pc[h] = "join" /\ pc'[h] = "idle" => \A e \in todo[h] : status[e] <= COMPLETE)
  BY <1>1
<1> QED BY <1>2, FailAccounts, PTL DEF Spec, FinishSound

-----------------------------------------------------------------------------
(* Nobody is stuck.                                                        *)

\* No thread has anything to do: there is no command to execute, no call that
\* could go on by itself, and every user event has been set.
AtRest ==
  /\ work = <<>> /\ \A d \in Drivers : pc[d] = "idle"
  /\ \A h \in Hosts : pc[h] \in {"idle", "joinWait", "eventWait"}
  /\ \A e \in Event : kind[e] = "user" => status[e] <= COMPLETE

\* When no thread has anything to do, nobody waits for anything: every command has
\* finished, no call sleeps (pocl_broadcast, pocl_pthread_join, pocl_pthread_wait_event).
NobodyStuck ==
  AtRest => /\ \A e \in Commands : status[e] <= COMPLETE
            /\ \A h \in Hosts : pc[h] = "idle"

\* A sleeping call has something to wait for, or will be woken by the thread that
\* has set its user event.
Sleepers ==
  \A h \in Hosts :
    /\ pc[h] = "joinWait" => count[on[h]] # 0
    /\ pc[h] \in {"wait", "eventWait"} => cur[h] \in Event /\ kind[cur[h]] # "none"
    /\ pc[h] = "eventWait" =>
         \/ status[cur[h]] > COMPLETE
         \/ \E g \in Hosts : pc[g] = "userDone" /\ cur[g] = cur[h]

\* A command has been submitted when its creating call is over.
Submitted ==
  \A e \in Commands : ready[e] \/ \E h \in Hosts : Enqueuing(h) /\ cur[h] = e

Awake == Sleepers /\ Submitted

\* A step of one thread that finishes nothing and sends nobody to sleep.
LEMMA QuietAwake ==
  ASSUME TypeOK, [Next]_vars, Awake, Commands' = Commands, count' = count, NEW t \in Thread,
         \A h \in Hosts : h # t => pc'[h] = pc[h] /\ cur'[h] = cur[h] /\ on'[h] = on[h],
         \A e \in Event : status[e] > COMPLETE => status'[e] > COMPLETE,
         \A e \in Event : ready[e] => ready'[e],
         t \in Hosts =>
           \/ pc'[t] = pc[t] /\ cur'[t] = cur[t] /\ on'[t] = on[t]
           \/ ~Enqueuing(t) /\ pc[t] # "userDone" /\ pc'[t] \notin {"joinWait", "wait", "eventWait"}
           \/ Enqueuing(t) /\ Enqueuing(t)' /\ cur'[t] = cur[t]
  PROVE  Awake'
<1>1. ASSUME NEW h \in Hosts, pc'[h] \in {"joinWait", "wait", "eventWait"}
      PROVE  pc'[h] = pc[h] /\ cur'[h] = cur[h] /\ on'[h] = on[h]
  BY <1>1 DEF Enqueuing
<1>2. ASSUME NEW h \in Hosts, pc[h] = "userDone" PROVE pc'[h] = "userDone" /\ cur'[h] = cur[h]
  BY <1>2 DEF Enqueuing
<1>3. ASSUME NEW h \in Hosts, Enqueuing(h) PROVE Enqueuing(h)' /\ cur'[h] = cur[h]
  BY <1>3 DEF Enqueuing
<1>4. ASSUME NEW h \in Hosts
      PROVE  /\ pc'[h] = "joinWait" => count'[on'[h]] # 0
             /\ pc'[h] \in {"wait", "eventWait"} => cur'[h] \in Event /\ kind'[cur'[h]] # "none"
             /\ pc'[h] = "eventWait" =>
                  \/ status'[cur'[h]] > COMPLETE
                  \/ \E g \in Hosts : pc'[g] = "userDone" /\ cur'[g] = cur'[h]
  <2>1. pc'[h] = "joinWait" => count'[on'[h]] # 0
    BY <1>1 DEF Awake, Sleepers
  <2>2. ASSUME pc'[h] \in {"wait", "eventWait"} PROVE cur'[h] \in Event /\ kind'[cur'[h]] # "none"
    BY <1>1, <2>2, IdentityKept DEF Awake, Sleepers
  <2>3. ASSUME pc'[h] = "eventWait"
        PROVE  \/ status'[cur'[h]] > COMPLETE
               \/ \E g \in Hosts : pc'[g] = "userDone" /\ cur'[g] = cur'[h]
    BY <1>1, <1>2, <2>3 DEF Awake, Sleepers
  <2> QED BY <2>1, <2>2, <2>3
<1>5. Submitted'
  BY <1>3 DEF Awake, Submitted, Commands
<1> QED BY <1>4, <1>5 DEF Awake, Sleepers

\* A step after which the same commands are enqueued by the same threads.
LEMMA KeepSubmitted ==
  ASSUME TypeOK, Submitted, Commands' = Commands, \A e \in Event : ready[e] => ready'[e],
         \A h \in Hosts : Enqueuing(h) => Enqueuing(h)' /\ cur'[h] = cur[h]
  PROVE  Submitted'
BY DEF Submitted, Commands

\* A step that leaves all sleepers but one alone.
LEMMA KeepSleepers ==
  ASSUME TypeOK, [Next]_vars, Sleepers, NEW t \in Hosts,
         \A h \in Hosts : h # t => pc'[h] = pc[h] /\ cur'[h] = cur[h] /\ on'[h] = on[h],
         \A h \in Hosts : h # t /\ pc[h] = "joinWait" => count'[on[h]] # 0,
         \A e \in Event : status[e] > COMPLETE /\ ~(status'[e] > COMPLETE) =>
            pc'[t] = "userDone" /\ cur'[t] = e,
         pc[t] # "userDone",
         pc'[t] = "joinWait" => count'[on'[t]] # 0,
         pc'[t] \in {"wait", "eventWait"} => cur'[t] \in Event /\ kind[cur'[t]] # "none",
         pc'[t] = "eventWait" => status'[cur'[t]] > COMPLETE
  PROVE  Sleepers'
<1> SUFFICES ASSUME NEW h \in Hosts
      PROVE  /\ pc'[h] = "joinWait" => count'[on'[h]] # 0
             /\ pc'[h] \in {"wait", "eventWait"} => cur'[h] \in Event /\ kind'[cur'[h]] # "none"
             /\ pc'[h] = "eventWait" =>
                  \/ status'[cur'[h]] > COMPLETE
                  \/ \E g \in Hosts : pc'[g] = "userDone" /\ cur'[g] = cur'[h]
  BY DEF Sleepers
<1>1. pc'[h] = "joinWait" => count'[on'[h]] # 0
  OBVIOUS
<1>2. ASSUME pc'[h] \in {"wait", "eventWait"} PROVE cur'[h] \in Event /\ kind'[cur'[h]] # "none"
  <2>1. cur'[h] \in Event /\ kind[cur'[h]] # "none"
    BY <1>2 DEF Sleepers
  <2> QED BY <2>1, IdentityKept
<1>3. ASSUME pc'[h] = "eventWait", h # t
      PROVE  \/ status'[cur'[h]] > COMPLETE
             \/ \E g \in Hosts : pc'[g] = "userDone" /\ cur'[g] = cur'[h]
  <2>1. pc[h] = "eventWait" /\ cur'[h] = cur[h] /\ cur[h] \in Event
    BY <1>3 DEF Sleepers
  <2>2. CASE status[cur[h]] > COMPLETE
    BY <2>1, <2>2
  <2>3. ASSUME NEW g \in Hosts, pc[g] = "userDone", cur[g] = cur[h]
        PROVE  \E x \in Hosts : pc'[x] = "userDone" /\ cur'[x] = cur'[h]
    <3>1. g # t
      BY <2>3
    <3> QED BY <2>1, <2>3, <3>1
  <2> QED BY <2>1, <2>2, <2>3 DEF Sleepers
<1> QED BY <1>1, <1>2, <1>3


\* Awake is kept, with the accounts of the queues and the order of the locks.
LEMMA AwakeStep ==
  ASSUME TypeOK, LockInv, QueueAccounting, Joins, Awake, [Next]_vars
  PROVE  Awake'
<1>d. /\ \A h \in Hosts : h \in Thread /\ \A d \in Drivers : h # d
      /\ \A d \in Drivers : d \in Thread
  BY ConstantsAssumption DEF Thread
<1>0. Sleepers /\ Submitted /\ LockBase /\ Works /\ SomeRank
  BY DEF Awake, LockInv
<1>q. ASSUME UNCHANGED <<kind, count, status, ready>>, NEW t \in Thread,
             \A h \in Hosts : h # t => pc'[h] = pc[h] /\ cur'[h] = cur[h] /\ on'[h] = on[h],
             t \in Hosts =>
               \/ pc'[t] = pc[t] /\ cur'[t] = cur[t] /\ on'[t] = on[t]
               \/ ~Enqueuing(t) /\ pc[t] # "userDone" /\ pc'[t] \notin {"joinWait", "wait", "eventWait"}
               \/ Enqueuing(t) /\ Enqueuing(t)' /\ cur'[t] = cur[t]
      PROVE  Awake'
  BY <1>q, QuietAwake DEF Commands
<1>1. ASSUME NEW h \in Hosts, SyncLast(h) \/ SyncListed(h) PROVE Awake'
  <2>1. /\ UNCHANGED <<kind, count, status, ready, cur, on>> /\ Enqueuing(h)
        /\ pc' = pc \/ pc' = [pc EXCEPT ![h] = "listSync"]
    BY <1>1 DEF SyncLast, SyncListed, identVars, cqVars, Goto, Enqueuing
  <2>2. Enqueuing(h)' /\ \A g \in Hosts : g # h => pc'[g] = pc[g]
    BY <1>d, <2>1 DEF TypeOK, Enqueuing
  <2> QED BY <1>d, <1>q, <2>1, <2>2
<1>2. ASSUME NEW h \in Hosts, Enqueue(h) PROVE Awake'
  <2>0. PICK e \in Event : e = cur[h] /\ Enqueuing(h) /\ e \in Commands
    BY <1>2 DEF Enqueue, TypeOK, Enqueuing, Commands
  <2>1. PICK q \in Queues : q = queue[e]
    BY <2>0 DEF TypeOK
  <2>2. /\ UNCHANGED <<kind, status, ready, cur, on>> /\ pc[h] = "listSync"
        /\ pc' = [pc EXCEPT ![h] = "submit"] /\ count' = [count EXCEPT ![q] = @ + 1]
    BY <1>2, <2>0, <2>1 DEF Enqueue, Goto
  <2>3. Enqueuing(h)' /\ pc'[h] = "submit" /\ \A g \in Hosts : g # h => pc'[g] = pc[g]
    BY <1>d, <2>2 DEF TypeOK, Enqueuing
  <2>4. Submitted'
    BY <1>0, <2>2, <2>3, KeepSubmitted DEF Commands, Enqueuing
  <2>5. count[q] \in Nat
    <3>1. count[q] = Cardinality(pending[q]) /\ pending[q] \subseteq Event
      BY DEF QueueAccounting
    <3> QED BY <3>1, FiniteEvents
  <2>6. \A p \in Queues : count[p] # 0 => count'[p] # 0
    BY <2>2, <2>5 DEF TypeOK
  <2>7. \A g \in Hosts : pc[g] = "joinWait" => count'[on[g]] # 0
    BY <1>0, <2>6 DEF Sleepers, Joins
  <2>8. Sleepers'
    BY <1>0, <2>2, <2>3, <2>7, KeepSleepers
  <2> QED BY <2>4, <2>8 DEF Awake
<1>3. ASSUME NEW h \in Hosts, Submit(h) PROVE Awake'
  <2>0. PICK e \in Event : e = cur[h] /\ Enqueuing(h) /\ e \in Commands
    BY <1>3 DEF Submit, TypeOK, Enqueuing, Commands
  <2>1. /\ UNCHANGED <<kind, count, on>> /\ pc[h] = "submit"
        /\ pc' = [pc EXCEPT ![h] = "idle"] /\ cur' = [cur EXCEPT ![h] = NoEvent]
        /\ ready' = [ready EXCEPT ![e] = TRUE]
        /\ \E s \in {SUBMITTED, QUEUED} : status' = [status EXCEPT ![e] = s]
    BY <1>3, <2>0 DEF Submit, Goto, identVars, cqVars
  <2>2. pc'[h] = "idle" /\ \A g \in Hosts : g # h => pc'[g] = pc[g] /\ cur'[g] = cur[g]
    BY <1>d, <2>1 DEF TypeOK
  <2>3. ready'[e] /\ \A a \in Event : ready[a] => ready'[a]
    BY <2>1 DEF TypeOK
  <2>4. \A a \in Event : status[a] > COMPLETE => status'[a] > COMPLETE
    BY <2>1 DEF TypeOK, QUEUED, SUBMITTED, COMPLETE
  <2>5. Submitted'
    <3>1. Commands' = Commands
      BY <2>1 DEF Commands
    <3>2. ASSUME NEW a \in Commands, ~ready'[a] PROVE \E g \in Hosts : Enqueuing(g)' /\ cur'[g] = a
      <4>1. a \in Event /\ a # e /\ ~ready[a]
        BY <2>3, <3>2 DEF Commands
      <4>2. PICK g \in Hosts : Enqueuing(g) /\ cur[g] = a
        BY <1>0, <4>1 DEF Submitted
      <4>3. g # h
        BY <2>0, <4>1, <4>2
      <4> QED BY <2>2, <4>2, <4>3 DEF Enqueuing
    <3> QED BY <3>1, <3>2 DEF Submitted
  <2>6. \A g \in Hosts : pc[g] = "joinWait" => count'[on[g]] # 0
    BY <1>0, <2>1 DEF Sleepers
  <2>7. Sleepers'
    BY <1>0, <2>1, <2>2, <2>4, <2>6, KeepSleepers
  <2> QED BY <2>5, <2>7 DEF Awake
<1>4. ASSUME NEW h \in Hosts, NEW q \in Queues, NEW k \in Kinds, NEW W \in SUBSET Event, NEW x \in Explicit,
             CreateCommand(h, q, k, W, x)
      PROVE  Awake'
  <2>1. /\ created + 1 \in Event /\ kind[created + 1] = "none" /\ k \in CommandKinds
        /\ kind' = [kind EXCEPT ![created + 1] = k] /\ status' = [status EXCEPT ![created + 1] = QUEUED]
        /\ cur' = [cur EXCEPT ![h] = created + 1] /\ pc[h] = "idle"
        /\ pc' = [pc EXCEPT ![h] = IF q \in InOrder THEN "lastSync" ELSE "listSync"]
        /\ UNCHANGED <<count, on, ready>>
    BY <1>4, NextEvent, ConstantsAssumption DEF CreateCommand, Goto
  <2>n. PICK n \in Event : n = created + 1
    BY <2>1
  <2>2. pc'[h] \in {"lastSync", "listSync"} /\ cur'[h] = n /\ \A g \in Hosts : g # h => pc'[g] = pc[g] /\ cur'[g] = cur[g]
    BY <1>d, <2>1, <2>n DEF TypeOK
  <2>3. /\ \A a \in Event : status[a] > COMPLETE => status'[a] > COMPLETE
        /\ \A a \in Event : a # n => kind'[a] = kind[a]
    BY <2>1, <2>n DEF TypeOK, QUEUED, COMPLETE
  <2>4. Submitted'
    <3>1. ASSUME NEW a \in Commands', ~ready'[a] PROVE \E g \in Hosts : Enqueuing(g)' /\ cur'[g] = a
      <4>1. CASE a = n
        BY <2>2, <4>1 DEF Enqueuing
      <4>2. CASE a # n
        <5>1. a \in Commands
          BY <2>3, <4>2 DEF Commands
        <5>2. PICK g \in Hosts : Enqueuing(g) /\ cur[g] = a
          BY <1>0, <2>1, <3>1, <5>1 DEF Submitted
        <5>3. g # h
          BY <2>1, <5>2 DEF Enqueuing
        <5> QED BY <2>2, <5>2, <5>3 DEF Enqueuing
      <4> QED BY <4>1, <4>2
    <3> QED BY <3>1 DEF Submitted
  <2>5. \A g \in Hosts : pc[g] = "joinWait" => count'[on[g]] # 0
    BY <1>0, <2>1 DEF Sleepers
  <2>6. Sleepers'
    BY <1>0, <2>1, <2>2, <2>3, <2>5, KeepSleepers
  <2> QED BY <2>4, <2>6 DEF Awake
<1>5. ASSUME NEW h \in Hosts, CreateUserEvent(h) PROVE Awake'
  <2>1. /\ created + 1 \in Event /\ kind[created + 1] = "none" /\ kind' = [kind EXCEPT ![created + 1] = "user"]
        /\ status' = [status EXCEPT ![created + 1] = SUBMITTED] /\ UNCHANGED <<pc, cur, on, count, ready>>
    BY <1>5, NextEvent DEF CreateUserEvent, callVars, cqVars
  <2>2. Commands' = Commands
    BY <2>1 DEF Commands, CommandKinds, TypeOK
  <2>3. \A a \in Event : status[a] > COMPLETE => status'[a] > COMPLETE
    BY <2>1 DEF TypeOK, SUBMITTED, COMPLETE
  <2> QED BY <1>d, <2>1, <2>2, <2>3, QuietAwake

<1>6. ASSUME NEW h \in Hosts, NEW q \in Queues, CallFinish(h, q) PROVE Awake'
  <2>1. /\ UNCHANGED <<kind, count, status, ready, cur>> /\ pc[h] = "idle"
        /\ pc' = [pc EXCEPT ![h] = "join"] /\ on' = [on EXCEPT ![h] = q]
    BY <1>6 DEF CallFinish, identVars, eventVars, cqVars, Goto
  <2>2. pc'[h] = "join" /\ \A g \in Hosts : g # h => pc'[g] = pc[g] /\ on'[g] = on[g]
    BY <1>d, <2>1 DEF TypeOK
  <2> QED BY <1>d, <1>q, <2>1, <2>2 DEF Enqueuing
<1>7. ASSUME NEW h \in Hosts, NEW q \in Queues, ReleaseQueue(h, q) PROVE Awake'
  <2>1. UNCHANGED <<kind, count, status, ready, cur, pc, on>>
    BY <1>7 DEF ReleaseQueue, identVars, eventVars, callVars
  <2> QED BY <1>d, <1>q, <2>1
<1>8. ASSUME NEW h \in Hosts, NEW e \in Event, ReleaseEvent(h, e) PROVE Awake'
  <2>1. UNCHANGED <<kind, count, status, ready, cur, pc, on>>
    BY <1>8 DEF ReleaseEvent, identVars, callVars
  <2> QED BY <1>d, <1>q, <2>1
<1>9. ASSUME NEW h \in Hosts, NEW e \in Event, CallWait(h, e) PROVE Awake'
  <2>1. /\ UNCHANGED <<kind, count, status, ready, on>> /\ pc[h] = "idle" /\ e \in app
        /\ pc' = [pc EXCEPT ![h] = "wait"] /\ cur' = [cur EXCEPT ![h] = e]
    BY <1>9 DEF CallWait, identVars, eventVars, cqVars, Goto, Usable
  <2>2. pc'[h] = "wait" /\ cur'[h] = e /\ \A g \in Hosts : g # h => pc'[g] = pc[g] /\ cur'[g] = cur[g]
    BY <1>d, <2>1 DEF TypeOK
  <2>3. kind[e] # "none"
    BY <1>0, <2>1 DEF LockBase, PointsReached
  <2>4. Submitted'
    BY <1>0, <2>1, <2>2, KeepSubmitted DEF Commands, Enqueuing
  <2>5. \A g \in Hosts : pc[g] = "joinWait" => count'[on[g]] # 0
    BY <1>0, <2>1 DEF Sleepers
  <2>6. Sleepers'
    BY <1>0, <2>1, <2>2, <2>3, <2>5, KeepSleepers
  <2> QED BY <2>4, <2>6 DEF Awake
<1>10. ASSUME NEW h \in Hosts, Join(h) PROVE Awake'
  <2>1. UNCHANGED <<kind, count, status, ready, cur>> /\ pc[h] = "join"
    BY <1>10 DEF Join, identVars, eventVars, cqVars
  <2>2. CASE QueueIdle(on[h])
    <3>1. pc' = [pc EXCEPT ![h] = "idle"] /\ on' = [on EXCEPT ![h] = None]
      BY <1>10, <2>2 DEF Join, Goto
    <3>2. pc'[h] = "idle" /\ \A g \in Hosts : g # h => pc'[g] = pc[g] /\ on'[g] = on[g]
      BY <1>d, <3>1 DEF TypeOK
    <3> QED BY <1>d, <1>q, <2>1, <3>2 DEF Enqueuing
  <2>3. CASE ~QueueIdle(on[h])
    <3>1. pc' = [pc EXCEPT ![h] = "joinWait"] /\ on' = on
      BY <1>10, <2>3 DEF Join, Goto
    <3>2. pc'[h] = "joinWait" /\ \A g \in Hosts : g # h => pc'[g] = pc[g]
      BY <1>d, <3>1 DEF TypeOK
    <3>3. count'[on'[h]] # 0
      BY <2>1, <2>3, <3>1 DEF QueueIdle
    <3>4. Submitted'
      BY <1>0, <2>1, <3>2, KeepSubmitted DEF Commands, Enqueuing
    <3>5. \A g \in Hosts : pc[g] = "joinWait" => count'[on[g]] # 0
      BY <1>0, <2>1 DEF Sleepers
    <3>6. Sleepers'
      BY <1>0, <2>1, <3>1, <3>2, <3>3, <3>5, KeepSleepers
    <3> QED BY <3>4, <3>6 DEF Awake
  <2> QED BY <2>2, <2>3
<1>11. ASSUME NEW h \in Hosts, WaitEvent(h) \/ WaitTimeout(h) PROVE Awake'
  <2>1. UNCHANGED <<kind, count, status, ready, on>> /\ pc[h] \in {"wait", "eventWait"}
    BY <1>11 DEF WaitEvent, WaitTimeout, identVars, eventVars, cqVars
  <2>2. \/ pc' = [pc EXCEPT ![h] = "idle"] /\ cur' = [cur EXCEPT ![h] = NoEvent]
        \/ pc' = [pc EXCEPT ![h] = "eventWait"] /\ cur' = cur /\ status[cur[h]] > COMPLETE
        \/ pc' = [pc EXCEPT ![h] = "wait"] /\ cur' = cur
    BY <1>11 DEF WaitEvent, WaitTimeout, Goto
  <2>3. \A g \in Hosts : g # h => pc'[g] = pc[g] /\ cur'[g] = cur[g]
    BY <1>d, <2>2 DEF TypeOK
  <2>4. CASE pc'[h] = "idle"
    BY <1>d, <1>q, <2>1, <2>3, <2>4 DEF Enqueuing
  <2>5. CASE /\ pc'[h] \in {"wait", "eventWait"} /\ cur'[h] = cur[h]
             /\ pc'[h] = "eventWait" => status[cur[h]] > COMPLETE
    <3>1. cur[h] \in Event /\ kind[cur[h]] # "none"
      BY <1>0, <2>1 DEF Sleepers
    <3>2. Submitted'
      BY <1>0, <2>1, <2>3, KeepSubmitted DEF Commands, Enqueuing
    <3>3. \A g \in Hosts : pc[g] = "joinWait" => count'[on[g]] # 0
      BY <1>0, <2>1 DEF Sleepers
    <3>4. Sleepers'
      BY <1>0, <2>1, <2>3, <2>5, <3>1, <3>3, KeepSleepers
    <3> QED BY <3>2, <3>4 DEF Awake
  <2>6. \/ pc'[h] = "idle"
        \/ /\ pc'[h] \in {"wait", "eventWait"} /\ cur'[h] = cur[h]
           /\ pc'[h] = "eventWait" => status[cur[h]] > COMPLETE
    BY <1>d, <2>2 DEF TypeOK
  <2> QED BY <2>4, <2>5, <2>6
<1>12. ASSUME NEW h \in Hosts, UserEventDone(h) PROVE Awake'
  <2>1. /\ UNCHANGED <<kind, count, status, ready, on>> /\ pc[h] = "userDone"
        /\ cur' = [cur EXCEPT ![h] = NoEvent]
        /\ pc' = [x \in Thread |-> IF x = h THEN "idle" ELSE IF WaitsForEvent(x, cur[h]) THEN "wait" ELSE pc[x]]
    BY <1>12 DEF UserEventDone, identVars, eventVars, cqVars
  <2>2. pc'[h] = "idle" /\ \A g \in Hosts : g # h =>
          /\ cur'[g] = cur[g]
          /\ pc'[g] = IF pc[g] = "eventWait" /\ cur[g] = cur[h] THEN "wait" ELSE pc[g]
    BY <1>d, <2>1 DEF TypeOK, WaitsForEvent
  <2>3. Submitted'
    <3>1. \A g \in Hosts : Enqueuing(g) => Enqueuing(g)' /\ cur'[g] = cur[g]
      BY <2>1, <2>2 DEF Enqueuing
    <3> QED BY <1>0, <2>1, <3>1, KeepSubmitted DEF Commands
  <2>4. ASSUME NEW g \in Hosts
        PROVE  /\ pc'[g] = "joinWait" => count'[on'[g]] # 0
               /\ pc'[g] \in {"wait", "eventWait"} => cur'[g] \in Event /\ kind'[cur'[g]] # "none"
               /\ pc'[g] = "eventWait" =>
                    \/ status'[cur'[g]] > COMPLETE
                    \/ \E x \in Hosts : pc'[x] = "userDone" /\ cur'[x] = cur'[g]
    <3>1. pc'[g] = "joinWait" => count'[on'[g]] # 0
      BY <1>0, <2>1, <2>2 DEF Sleepers
    <3>2. pc'[g] \in {"wait", "eventWait"} => cur'[g] \in Event /\ kind'[cur'[g]] # "none"
      BY <1>0, <2>1, <2>2 DEF Sleepers
    <3>3. ASSUME pc'[g] = "eventWait"
          PROVE  \/ status'[cur'[g]] > COMPLETE
                 \/ \E x \in Hosts : pc'[x] = "userDone" /\ cur'[x] = cur'[g]
      <4>1. g # h /\ pc[g] = "eventWait" /\ cur'[g] = cur[g] /\ cur[g] # cur[h]
        BY <2>2, <3>3
      <4>2. CASE status[cur[g]] > COMPLETE
        BY <2>1, <4>1, <4>2
      <4>3. ASSUME NEW x \in Hosts, pc[x] = "userDone", cur[x] = cur[g]
            PROVE  \E y \in Hosts : pc'[y] = "userDone" /\ cur'[y] = cur'[g]
        <5>1. x # h
          BY <4>1, <4>3
        <5> QED BY <2>2, <4>1, <4>3, <5>1
      <4> QED BY <1>0, <4>1, <4>2, <4>3 DEF Sleepers
    <3> QED BY <3>1, <3>2, <3>3
  <2> QED BY <2>3, <2>4 DEF Awake, Sleepers
<1>13. ASSUME NEW h \in Hosts, NEW e \in Event, NEW s \in UserStatuses, SetUserEventStatus(h, e, s) PROVE Awake'
  <2>1. /\ UNCHANGED <<kind, count, ready, on>> /\ pc[h] = "idle"
        /\ status' = [status EXCEPT ![e] = s]
        /\ pc' = [pc EXCEPT ![h] = "userDone"] /\ cur' = [cur EXCEPT ![h] = e]
    BY <1>13 DEF SetUserEventStatus, identVars, cqVars, Goto
  <2>2. pc'[h] = "userDone" /\ cur'[h] = e /\ \A g \in Hosts : g # h => pc'[g] = pc[g] /\ cur'[g] = cur[g]
    BY <1>d, <2>1 DEF TypeOK
  <2>3. \A a \in Event : a # e => status'[a] = status[a]
    BY <2>1 DEF TypeOK
  <2>4. Submitted'
    BY <1>0, <2>1, <2>2, KeepSubmitted DEF Commands, Enqueuing
  <2>5. \A g \in Hosts : pc[g] = "joinWait" => count'[on[g]] # 0
    BY <1>0, <2>1 DEF Sleepers
  <2>6. Sleepers'
    BY <1>0, <2>1, <2>2, <2>3, <2>5, KeepSleepers
  <2> QED BY <2>4, <2>6 DEF Awake
<1>14. ASSUME NEW d \in Drivers, DriverStep(d) PROVE Awake'
  <2>1. \A h \in Hosts : pc'[h] = pc[h] /\ cur'[h] = cur[h]
    <3>1. SUFFICES ASSUME NEW h \in Hosts PROVE pc'[h] = pc[h] /\ cur'[h] = cur[h]
      OBVIOUS
    <3>2. h # d /\ h \in Thread /\ d \in Thread
      BY <1>d
    <3>3. CASE Take(d)
      BY <3>2, <3>3 DEF Take, Goto, TypeOK
    <3>4. CASE Start(d)
      BY <3>2, <3>4 DEF Start, Goto, TypeOK
    <3> QED BY <1>14, <3>3, <3>4 DEF DriverStep
  <2>2. UNCHANGED <<kind, count, ready, on>>
    BY <1>14 DEF DriverStep, Take, Start, identVars, eventVars, cqVars
  <2>3. status' = status \/ status' = [status EXCEPT ![cur[d]] = RUNNING]
    BY <1>14 DEF DriverStep, Take, Start, eventVars
  <2>4. ASSUME NEW a \in Event, status[a] > COMPLETE PROVE status'[a] > COMPLETE
    <3>1. DOMAIN status = Event
      BY DEF TypeOK
    <3>2. status'[a] \in {status[a], RUNNING}
      BY <2>3, <3>1
    <3> QED BY <2>4, <3>2 DEF RUNNING, COMPLETE
  <2> QED BY <1>d, <2>1, <2>2, <2>4, QuietAwake DEF Commands

<1>15. ASSUME NEW t \in Thread, NEW e \in Event, Finish(t, e) PROVE Awake'
  <2>1. /\ UNCHANGED <<kind, ready, cur, on>>
        /\ status' = [status EXCEPT ![e] = IF Failing(t) THEN FAILED ELSE COMPLETE]
        /\ count' = [count EXCEPT ![queue[e]] = @ - 1]
        /\ pc' = [x \in Thread |-> IF WaitsForQueue(x, queue[e]) /\ count'[queue[e]] = 0 THEN "join"
                                    ELSE IF WaitsForEvent(x, e) THEN "wait" ELSE pc[x]]
    BY <1>15 DEF Finish, identVars
  <2>2. /\ \A a \in Event : a # e => status'[a] = status[a]
        /\ \A q \in Queues : q # queue[e] => count'[q] = count[q]
    BY <2>1 DEF TypeOK
  <2>3. \A h \in Hosts :
          pc'[h] = IF pc[h] = "joinWait" /\ on[h] = queue[e] /\ count'[queue[e]] = 0 THEN "join"
                   ELSE IF pc[h] = "eventWait" /\ cur[h] = e THEN "wait" ELSE pc[h]
    BY <1>d, <2>1 DEF WaitsForQueue, WaitsForEvent
  <2>4. Submitted'
    <3>1. \A h \in Hosts : Enqueuing(h) => Enqueuing(h)' /\ cur'[h] = cur[h]
      BY <2>1, <2>3 DEF Enqueuing
    <3> QED BY <1>0, <2>1, <3>1, KeepSubmitted DEF Commands
  <2>5. ASSUME NEW h \in Hosts
        PROVE  /\ pc'[h] = "joinWait" => count'[on'[h]] # 0
               /\ pc'[h] \in {"wait", "eventWait"} => cur'[h] \in Event /\ kind'[cur'[h]] # "none"
               /\ pc'[h] = "eventWait" =>
                    \/ status'[cur'[h]] > COMPLETE
                    \/ \E x \in Hosts : pc'[x] = "userDone" /\ cur'[x] = cur'[h]
    <3>1. ASSUME pc'[h] = "joinWait" PROVE count'[on'[h]] # 0
      <4>1. pc[h] = "joinWait" /\ ~(on[h] = queue[e] /\ count'[queue[e]] = 0)
        BY <2>3, <3>1
      <4>2. on[h] \in Queues /\ count[on[h]] # 0
        BY <1>0, <4>1 DEF Joins, Sleepers
      <4> QED BY <2>1, <2>2, <4>1, <4>2
    <3>2. ASSUME pc'[h] \in {"wait", "eventWait"} PROVE cur'[h] \in Event /\ kind'[cur'[h]] # "none"
      <4>1. pc[h] \in {"wait", "eventWait"}
        BY <2>3, <3>2
      <4> QED BY <1>0, <2>1, <4>1 DEF Sleepers
    <3>3. ASSUME pc'[h] = "eventWait"
          PROVE  \/ status'[cur'[h]] > COMPLETE
                 \/ \E x \in Hosts : pc'[x] = "userDone" /\ cur'[x] = cur'[h]
      <4>1. pc[h] = "eventWait" /\ cur[h] # e /\ cur[h] \in Event
        BY <1>0, <2>3, <3>3 DEF Sleepers
      <4>2. status'[cur[h]] = status[cur[h]] /\ cur' = cur
        BY <2>1, <2>2, <4>1
      <4>3. \A x \in Hosts : pc[x] = "userDone" => pc'[x] = "userDone"
        BY <2>3
      <4> QED BY <1>0, <4>1, <4>2, <4>3 DEF Sleepers
    <3> QED BY <3>1, <3>2, <3>3
  <2> QED BY <2>4, <2>5 DEF Awake, Sleepers
<1>16. ASSUME NEW t \in Thread, NEW e \in Event,
              BroadcastDone(t, e) \/ Relock(t, e) \/ \E x \in Event : NotifyFailed(t, e, x)
       PROVE  Awake'
  <2>1. UNCHANGED <<kind, count, status, ready, cur, pc, on>>
    BY <1>16 DEF BroadcastDone, Relock, NotifyFailed, identVars, eventVars, cqVars, callVars
  <2> QED BY <1>q, <2>1
<1>17. ASSUME NEW t \in Thread, NEW e \in Event, NEW x \in Event, Notify(t, e, x) PROVE Awake'
  <2>1. /\ UNCHANGED <<kind, count, ready, cur, pc, on>>
        /\ status' = IF Dispatchable(x, e) THEN [status EXCEPT ![x] = SUBMITTED] ELSE status
    BY <1>17 DEF Notify, identVars, cqVars, callVars
  <2>2. ASSUME NEW a \in Event, status[a] > COMPLETE PROVE status'[a] > COMPLETE
    <3>1. DOMAIN status = Event
      BY DEF TypeOK
    <3>2. status' = [status EXCEPT ![x] = SUBMITTED] \/ status' = status
      BY <2>1
    <3>3. status'[a] \in {status[a], SUBMITTED}
      BY <3>1, <3>2
    <3> QED BY <2>2, <3>3 DEF SUBMITTED, COMPLETE
  <2> QED BY <2>1, <2>2, QuietAwake DEF Commands
<1>18. ASSUME NEW t \in Thread, NEW e \in Event, ReleaseFinished(t, e) PROVE Awake'
  <2>1. /\ UNCHANGED <<kind, count, status, ready, cur, on>> /\ phase[t][e] = "release"
        /\ pc' = IF Failing(t) THEN pc ELSE [pc EXCEPT ![t] = "idle"]
    BY <1>18 DEF ReleaseFinished, identVars
  <2>2. \A h \in Hosts : h # t => pc'[h] = pc[h]
    BY <1>d, <2>1 DEF TypeOK
  <2>3. ASSUME t \in Hosts PROVE pc' = pc
    <3>1. cur[t] \in Event /\ phase[t][cur[t]] \in {"broadcast", "notifying"}
      BY <1>0, <2>1, <2>3 DEF Works
    <3>2. \A f \in Event : phase[t][f] # "none" /\ f # e => phase[t][f] = "notifying"
      BY <1>0, <2>1, TopFacts
    <3>3. phase[t][cur[t]] = "notifying"
      BY <2>1, <3>1, <3>2
    <3>4. Failing(t)
      BY <3>1, <3>3 DEF Failing
    <3> QED BY <2>1, <3>4
  <2> QED BY <1>q, <2>1, <2>2, <2>3
<1>19. CASE UNCHANGED vars
  BY <1>0, <1>19 DEF vars, identVars, eventVars, cqVars, callVars, Awake, Sleepers, Submitted, Commands, Enqueuing
<1> QED
  BY <1>1, <1>2, <1>3, <1>4, <1>5, <1>6, <1>7, <1>8, <1>9, <1>10, <1>11, <1>12, <1>13, <1>14, <1>15, <1>16,
     <1>17, <1>18, <1>19
  DEF Next, EnqueueStep, WaitStep, DriverStep, FinishStep, SetSomeUserEvent, AppStep


\* A set of events has one that comes first in a given order.
LEMMA FirstEvent ==
  ASSUME NEW N \in Nat, NEW r \in [Event -> 0..N], NEW S \in SUBSET Event, S # {}
  PROVE  \E e \in S : \A f \in S : r[e] <= r[f]
<1> DEFINE R == {k \in 0..N : \E e \in S : N - r[e] = k}
<1>1. R \in SUBSET (0..N)
  OBVIOUS
<1>2. \A e \in S : N - r[e] \in R
  OBVIOUS
<1>3. R # {}
  BY <1>2
<1> HIDE DEF R
<1>4. PICK m \in R : \A k \in R : k <= m
  BY <1>1, <1>3, Greatest
<1>5. PICK e \in S : N - r[e] = m
  BY <1>4 DEF R
<1>6. \A f \in S : r[e] <= r[f]
  <2>1. \A f \in S : N - r[f] <= N - r[e] /\ r[f] \in Nat /\ r[e] \in Nat
    BY <1>2, <1>4, <1>5
  <2> QED BY <2>1
<1> QED BY <1>6

\* Of the unfinished commands the first in the order waits for none of the others, so
\* it is somebody's.
LEMMA RestMeansDone ==
  ASSUME TypeOK, LockInv, Placed, NoLostWakeup, QueueAccounting, Joins, Awake
  PROVE  NobodyStuck
<1> SUFFICES ASSUME AtRest
             PROVE  (\A e \in Commands : status[e] <= COMPLETE) /\ \A h \in Hosts : pc[h] = "idle"
  BY DEF NobodyStuck
<1>0. Sleepers /\ Submitted /\ LockBase /\ Works /\ SomeRank
  BY DEF Awake, LockInv
<1>p. \A t \in Thread, e \in Event : phase[t][e] = "none"
  BY <1>0, ConstantsAssumption DEF AtRest, Works, Thread
<1>s. \A e \in Event : status[e] > COMPLETE <=> ~(status[e] <= COMPLETE)
  BY DEF TypeOK, COMPLETE
<1>1. ASSUME NEW e \in Commands, status[e] > COMPLETE
      PROVE  \E n \in Event : e \in notify[n] /\ n \in Commands /\ status[n] > COMPLETE
  <2>0. e \in Event
    BY DEF Commands
  <2>1. ready[e]
    BY <1>0 DEF Submitted, AtRest, Enqueuing
  <2>2. status[e] = QUEUED
    <3>1. status[e] # SUBMITTED
      BY <1>0, ConstantsAssumption DEF Placed, AtRest, Works
    <3>2. status[e] # RUNNING
      BY <1>p, <2>0 DEF Placed
    <3>3. status[e] \in FAILED..QUEUED
      BY <2>0 DEF TypeOK
    <3> QED BY <1>1, <3>1, <3>2, <3>3 DEF QUEUED, SUBMITTED, RUNNING, COMPLETE, FAILED
  <2>3. waits[e] # {}
    BY <1>p, <2>0, <2>1, <2>2 DEF NoLostWakeup, Commands
  <2>4. PICK n \in waits[e] : n \in Event
    BY <2>0, <2>3 DEF TypeOK
  <2>5. e \in notify[n] /\ status[n] > COMPLETE
    BY <1>p, <2>0, <2>4 DEF NoLostWakeup
  <2>6. kind[n] # "none" /\ kind[n] # "user"
    BY <1>0, <1>s, <2>4, <2>5 DEF LockBase, PointsReached, Reached, AtRest
  <2>7. n \in Commands
    BY <2>4, <2>6 DEF TypeOK, Commands
  <2> QED BY <2>4, <2>5, <2>7
<1>2. \A e \in Commands : status[e] <= COMPLETE
  <2> DEFINE S == {e \in Commands : status[e] > COMPLETE}
  <2>1. S = {}
    <3> SUFFICES ASSUME S # {} PROVE FALSE
      OBVIOUS
    <3>1. PICK N \in Nat : \E r \in [Event -> 0..N] : Ranked(r)
      BY <1>0 DEF SomeRank
    <3>2. PICK r \in [Event -> 0..N] : Ranked(r)
      BY <3>1
    <3>3. S \in SUBSET Event
      BY DEF Commands
    <3>4. PICK e \in S : \A f \in S : r[e] <= r[f]
      BY <3>1, <3>3, FirstEvent
    <3>5. PICK n \in Event : e \in notify[n] /\ n \in S
      BY <1>1, <3>4
    <3>6. r[n] < r[e] /\ r[n] \in Nat /\ r[e] \in Nat
      BY <3>2, <3>3, <3>5 DEF Ranked
    <3> QED BY <3>4, <3>5, <3>6
  <2> QED BY <1>s, <2>1 DEF Commands
<1>3. ASSUME NEW h \in Hosts PROVE pc[h] = "idle"
  <2>1. pc[h] # "joinWait"
    <3> SUFFICES ASSUME pc[h] = "joinWait" PROVE FALSE
      OBVIOUS
    <3>1. on[h] \in Queues /\ count[on[h]] # 0
      BY <1>0 DEF Joins, Sleepers
    <3>2. pending[on[h]] = {}
      BY <1>2, <1>s, <3>1 DEF QueueAccounting, Entered, Commands
    <3>3. count[on[h]] = Cardinality(pending[on[h]])
      BY <3>1 DEF QueueAccounting
    <3> QED BY <3>1, <3>2, <3>3, FS_EmptySet
  <2>2. pc[h] # "eventWait"
    <3> SUFFICES ASSUME pc[h] = "eventWait" PROVE FALSE
      OBVIOUS
    <3>1. cur[h] \in Event /\ kind[cur[h]] # "none" /\ status[cur[h]] > COMPLETE
      BY <1>0 DEF Sleepers, AtRest
    <3>2. cur[h] \in Commands \/ kind[cur[h]] = "user"
      BY <3>1 DEF TypeOK, Commands
    <3> QED BY <1>2, <1>s, <3>1, <3>2 DEF AtRest
  <2> QED BY <2>1, <2>2 DEF AtRest
<1> QED BY <1>2, <1>3

\* At the start there is nothing to wake.
LEMMA InitAwake ==
  ASSUME Init PROVE Awake
BY DEF Init, Awake, Sleepers, Submitted, Commands, CommandKinds, Thread

\* Without failures: once nothing is left to do, every command has finished and no call
\* of clFinish or clWaitForEvents sleeps.  No wake-up and no signal of a condition
\* variable is missed, and no commands wait for one another (pocl_create_event_sync,
\* pocl_broadcast, pocl_pthread_join, pocl_pthread_notify_cmdq_finished).
THEOREM NobodyIsStuck == NoFailures => (Spec => []NobodyStuck)
<1> SUFFICES ASSUME NoFailures PROVE Spec => []NobodyStuck
  OBVIOUS
<1>1. Init => Awake
  BY InitAwake
<1>2. SafeInv /\ TypeOK /\ LockInv /\ Awake /\ [Next]_vars => Awake'
  BY AwakeStep DEF SafeInv, Calls
<1>3. SafeInv /\ TypeOK /\ LockInv /\ Awake => NobodyStuck
  BY RestMeansDone DEF SafeInv, Calls
<1>4. Spec => []SafeInv
  BY SafeInvariance
<1>5. Spec => [](TypeOK /\ LockInv)
  BY LockInvariance DEF MayFail
<1> QED BY <1>1, <1>2, <1>3, <1>4, <1>5, PTL DEF Spec

\* When user events fail: once nothing is left to do, every command has completed or
\* failed and no call sleeps; a failed event wakes what waits for it as a completed one
\* does (pocl_update_event_failed, pocl_broadcast).
THEOREM NobodyIsStuckFailing == OneNotifier => (Spec => []NobodyStuck)
<1> SUFFICES ASSUME OneNotifier PROVE Spec => []NobodyStuck
  OBVIOUS
<1>1. Init => Awake
  BY InitAwake
<1>2. FState /\ QueueAccounting /\ Joins /\ Awake /\ [Next]_vars => Awake'
  BY AwakeStep DEF FState
<1>3. FState /\ NoLostWakeup /\ QueueAccounting /\ Joins /\ Awake => NobodyStuck
  BY RestMeansDone DEF FState, FailInv
<1>4. Spec => [](FState /\ QueueAccounting /\ Joins)
  BY FailAccounts
<1>5. Spec => []NoLostWakeup
  BY NoWakeupLostFailing
<1> QED BY <1>1, <1>2, <1>3, <1>4, <1>5, PTL DEF Spec

=============================================================================
