--------------------------- MODULE EventCallbacks ---------------------------
(***************************************************************************)
(* Event callbacks of the pocl runtime: clSetEventCallback registers a     *)
(* function for a status of an event, pocl_event_updated (pocl_tracing.c)  *)
(* calls it when the event gets there.  The event is unlocked around every *)
(* call, so the status, the callback list and the locks of other events    *)
(* may change under the thread that walks the list; the function called    *)
(* may itself register callbacks and enqueue commands.                     *)
(*                                                                         *)
(* A thread is a stack of calls, innermost first.  A step is what a thread *)
(* does under one hold of its locks; a lock it keeps across a callback is  *)
(* in "held".  Commands wait for other events as in CommandQueue, which    *)
(* has what is left out here: the steps of enqueuing, queues, references   *)
(* (the application keeps its own) and failures.                           *)
(*                                                                         *)
(* A definition X preceded by X<Suffix> with the same parameters is the    *)
(* code; the other is a mistake the code could have made, which a property *)
(* has to notice.                                                          *)
(***************************************************************************)
EXTENDS Integers, Sequences, FiniteSets

CONSTANTS
  Hosts,          \* application threads
  Drivers,        \* driver threads
  OwnEventOnly,   \* a callback uses no event but the one it is called for
  MaxEvents,      \* bound on the events created
  MaxUser,        \* bound on the ids a user event can have
  MaxCallbacks,   \* bound on the callbacks registered
  None            \* no thread

ASSUME CallbackAssumption ==
  /\ Hosts \cap Drivers = {} /\ None \notin Hosts \cup Drivers
  /\ OwnEventOnly \in BOOLEAN
  /\ MaxEvents \in Nat /\ MaxUser \in Nat /\ MaxCallbacks \in Nat

UNKNOWN   == 4      \* the application has no handle of the event yet
QUEUED    == 3
SUBMITTED == 2
RUNNING   == 1
COMPLETE  == 0

Thread   == Hosts \cup Drivers
Event    == 1..MaxEvents
Callback == 1..MaxCallbacks

VARIABLES
  created,    \* event_id_counter
  kind,       \* "user" or "command"
  status,     \* event->status
  waits,      \* event->wait_list
  notify,     \* event->notify_list
  held,       \* who keeps event->pocl_lock between steps
  list,       \* event->callback_list
  work,       \* commands pushed to the scheduler
  registered, \* number of clSetEventCallback calls
  target,     \* the event a callback was registered for
  trigger,    \* cb_ptr->trigger_status
  calls,      \* history: how often a callback was called
  returned,   \* history: callbacks that have returned
  stack       \* what each thread is doing

eventVars == <<status, waits, notify, held, list>>
cbVars    == <<registered, target, trigger>>
vars == <<created, kind, eventVars, work, cbVars, calls, returned, stack>>

-----------------------------------------------------------------------------
(* Threads as stacks of calls.  A frame: what is done, on which event, with *)
(* which argument, and for "update" the position in the callback list.      *)

Frame(op, e, arg, i) == [op |-> op, on |-> e, arg |-> arg, next |-> i]
Idle(t)    == stack[t] = <<>>
Doing(t)   == Head(stack[t])
At(t, op)  == ~Idle(t) /\ Doing(t).op = op
Enter(t, f)      == stack' = [stack EXCEPT ![t] = <<f>> \o @]
Continue(t, fs)  == stack' = [stack EXCEPT ![t] = fs \o Tail(@)]
Update(e, s)     == Frame("update", e, s, 1)

Unlocked(S) == \A e \in S : held[e] = None
Lock(t, S)  == held' = [e \in Event |-> IF e \in S THEN t ELSE held[e]]
Known       == {e \in Event : e <= created /\ status[e] # UNKNOWN}

\* Who may call the API, and about which events: a host between two calls, or
\* the function a thread is calling back.
MayCall(t) == (t \in Hosts /\ Idle(t)) \/ At(t, "call")
Reach(t)   == IF At(t, "call") /\ OwnEventOnly THEN {Doing(t).on} ELSE Known

-----------------------------------------------------------------------------
Init ==
  /\ created = 0
  /\ kind   = [e \in Event |-> "command"]
  /\ status = [e \in Event |-> UNKNOWN]
  /\ waits  = [e \in Event |-> {}]
  /\ notify = [e \in Event |-> {}]
  /\ held   = [e \in Event |-> None]
  /\ list   = [e \in Event |-> <<>>]
  /\ work   = {}
  /\ registered = 0
  /\ target   = [c \in Callback |-> 0]
  /\ trigger  = [c \in Callback |-> COMPLETE]
  /\ calls    = [c \in Callback |-> 0]
  /\ returned = {}
  /\ stack  = [t \in Thread |-> <<>>]

-----------------------------------------------------------------------------
(* clSetEventCallback *)

SetEventCallback(t, e, s) ==
  LET c == registered + 1 IN
  /\ MayCall(t) /\ e \in Reach(t) /\ registered < MaxCallbacks
  /\ registered' = c
  /\ target'  = [target EXCEPT ![c] = e]
  /\ trigger' = [trigger EXCEPT ![c] = s]
  /\ Enter(t, Frame("register", e, c, 0))
  /\ UNCHANGED <<created, kind, eventVars, work, calls, returned>>

\* Under the event lock: append the callback if its status is still to come.
StillToComeInclusive(e, s) == status[e] >= s
StillToCome(e, s) == status[e] > s
AppendCallback(t) ==
  LET e == Doing(t).on c == Doing(t).arg IN
  /\ At(t, "register") /\ Unlocked({e})
  /\ StillToCome(e, trigger[c])
  /\ list' = [list EXCEPT ![e] = Append(@, c)]
  /\ Continue(t, <<>>)
  /\ UNCHANGED <<created, kind, status, waits, notify, held, work, cbVars,
                 calls, returned>>

\* ... and call it after unlocking otherwise.
CallImmediately(t) ==
  LET e == Doing(t).on c == Doing(t).arg IN
  /\ At(t, "register") /\ Unlocked({e})
  /\ ~StillToCome(e, trigger[c])
  /\ calls' = [calls EXCEPT ![c] = @ + 1]
  /\ Continue(t, <<Frame("call", e, c, 0)>>)
  /\ UNCHANGED <<created, kind, eventVars, work, cbVars, returned>>

-----------------------------------------------------------------------------
(* pocl_event_updated: entered with the event locked, walks the list.      *)

\* The callbacks from position i on that wait for status s.
MatchesAny(e, s, i) == {j \in DOMAIN list[e] : j >= i}
Matches(e, s, i) == {j \in DOMAIN list[e] : j >= i /\ trigger[list[e][j]] = s}

RestAgain(j) == 1
Rest(j) == j + 1

\* The event is not locked while the callback runs.
OwnerDuringCallSelf(t) == t
OwnerDuringCall(t) == None

\* cb_ptr->next is read after the call, so the walk sees what was appended
\* meanwhile.
CallNext(t) ==
  LET f == Doing(t) e == f.on M == Matches(e, f.arg, f.next) IN
  /\ At(t, "update") /\ M # {}
  /\ LET j == CHOOSE j \in M : \A k \in M : j <= k
         c == list[e][j]
     IN  /\ calls' = [calls EXCEPT ![c] = @ + 1]
         /\ Continue(t, <<Frame("call", e, c, 0), [f EXCEPT !.next = Rest(j)]>>)
  /\ Lock(OwnerDuringCall(t), {e})
  /\ UNCHANGED <<created, kind, status, waits, notify, list, work, cbVars, returned>>

\* Nothing more to call: back to the caller with the event locked.
Updated(t) ==
  LET f == Doing(t) IN
  /\ At(t, "update") /\ Matches(f.on, f.arg, f.next) = {}
  /\ Continue(t, <<>>)
  /\ UNCHANGED <<created, kind, eventVars, work, cbVars, calls, returned>>

OwnerAfterCallNone(t) == None
OwnerAfterCall(t) == t

\* The callback returns; pocl_event_updated takes the event lock again.
Return(t) ==
  LET e == Doing(t).on
      walking == Len(stack[t]) > 1 /\ stack[t][2].op = "update"
  IN
  /\ At(t, "call")
  /\ walking => Unlocked({e})
  /\ held' = IF walking THEN [held EXCEPT ![e] = OwnerAfterCall(t)] ELSE held
  /\ returned' = returned \cup {Doing(t).arg}
  /\ Continue(t, <<>>)
  /\ UNCHANGED <<created, kind, status, waits, notify, list, work, cbVars, calls>>

-----------------------------------------------------------------------------
(* Commands and user events *)

\* A clEnqueue call with wait list W.
CallEnqueue(t, W) ==
  LET e == created + 1 IN
  /\ MayCall(t) /\ created < MaxEvents /\ W \subseteq Reach(t)
  /\ created' = e
  /\ Enter(t, Frame("enqueue", e, W, 0))
  /\ UNCHANGED <<kind, eventVars, work, cbVars, calls, returned>>

\* pocl_command_is_ready
ReadyAlways(W) == TRUE
Ready(W) == W = {}

\* pocl_create_event_sync for the wait list, then submit.  Nobody can have
\* registered a callback for the event before the call returns it.
Enqueue(t) ==
  LET e == Doing(t).on
      W == {n \in Doing(t).arg : status[n] # COMPLETE}
  IN
  /\ At(t, "enqueue") /\ Unlocked(Doing(t).arg)
  /\ waits'  = [waits EXCEPT ![e] = W]
  /\ notify' = [n \in Event |-> IF n \in W THEN notify[n] \cup {e} ELSE notify[n]]
  /\ status' = [status EXCEPT ![e] = IF Ready(W) THEN SUBMITTED ELSE QUEUED]
  /\ work'   = IF Ready(W) THEN work \cup {e} ELSE work
  /\ Continue(t, <<>>)
  /\ UNCHANGED <<created, kind, held, list, cbVars, calls, returned>>

CreateUserEvent(t) ==
  LET e == created + 1 IN
  /\ MayCall(t) /\ created < MaxEvents /\ e <= MaxUser
  /\ created' = e
  /\ kind'    = [kind EXCEPT ![e] = "user"]
  /\ status'  = [status EXCEPT ![e] = SUBMITTED]
  /\ UNCHANGED <<waits, notify, held, list, work, cbVars, calls, returned, stack>>

\* clSetUserEventStatus with CL_COMPLETE: broadcast first, callbacks after it.
SetUserEventStatus(h, e) ==
  /\ h \in Hosts /\ Idle(h) /\ e \in Known /\ Unlocked({e})
  /\ kind[e] = "user" /\ status[e] > COMPLETE
  /\ status' = [status EXCEPT ![e] = COMPLETE]
  /\ stack'  = [stack EXCEPT ![h] = <<Frame("broadcast", e, 0, 0), Frame("userUpdate", e, 0, 0)>>]
  /\ UNCHANGED <<created, kind, waits, notify, held, list, work, cbVars, calls, returned>>

UserEventUpdated(h) ==
  LET e == Doing(h).on IN
  /\ At(h, "userUpdate") /\ Unlocked({e})
  /\ Lock(h, {e})
  /\ Continue(h, <<Update(e, COMPLETE), Frame("unlock", e, 0, 0)>>)
  /\ UNCHANGED <<created, kind, status, waits, notify, list, work, cbVars, calls, returned>>

UnlockEvent(t) ==
  /\ At(t, "unlock")
  /\ Lock(None, {Doing(t).on})
  /\ Continue(t, <<>>)
  /\ UNCHANGED <<created, kind, status, waits, notify, list, work, cbVars, calls, returned>>

\* A driver thread takes a command: pocl_update_event_running.
Start(d) ==
  /\ d \in Drivers /\ Idle(d)
  /\ \E e \in work :
       /\ Unlocked({e})
       /\ work'   = work \ {e}
       /\ status' = [status EXCEPT ![e] = RUNNING]
       /\ Lock(d, {e})
       /\ stack'  = [stack EXCEPT ![d] = <<Update(e, RUNNING), Frame("unlock", e, 0, 0),
                                           Frame("finish", e, 0, 0)>>]
  /\ UNCHANGED <<created, kind, waits, notify, list, cbVars, calls, returned>>

\* pocl_update_event_finished: callbacks first, broadcast after them.
Finish(d) ==
  LET e == Doing(d).on IN
  /\ At(d, "finish") /\ Unlocked({e})
  /\ status' = [status EXCEPT ![e] = COMPLETE]
  /\ Lock(d, {e})
  /\ Continue(d, <<Update(e, COMPLETE), Frame("unlock", e, 0, 0), Frame("broadcast", e, 0, 0)>>)
  /\ UNCHANGED <<created, kind, waits, notify, list, work, cbVars, calls, returned>>

\* One round of pocl_broadcast for a waiting command x that is not ready yet.
NotifyWaiting(t, x) ==
  LET n == Doing(t).on IN
  /\ At(t, "broadcast") /\ x \in notify[n] /\ Unlocked({n, x})
  /\ ~Ready(waits[x] \ {n})
  /\ waits'  = [waits EXCEPT ![x] = @ \ {n}]
  /\ notify' = [notify EXCEPT ![n] = @ \ {x}]
  /\ UNCHANGED <<created, kind, status, held, list, work, cbVars, calls, returned, stack>>

\* ... and for one that is: pocl_pthread_notify reports it submitted, with its
\* callbacks, then pushes it.  The thread keeps the lock of the notifier.
DispatchCallsPushFirst(n, x) ==
  <<Frame("push", x, 0, 0), Update(x, SUBMITTED), Frame("notified", n, x, 0)>>
DispatchCalls(n, x) ==
  <<Update(x, SUBMITTED), Frame("push", x, 0, 0), Frame("notified", n, x, 0)>>
NotifyReady(t, x) ==
  LET n == Doing(t).on IN
  /\ At(t, "broadcast") /\ x \in notify[n] /\ Unlocked({n, x})
  /\ Ready(waits[x] \ {n})
  /\ waits'  = [waits EXCEPT ![x] = @ \ {n}]
  /\ status' = [status EXCEPT ![x] = SUBMITTED]
  /\ Lock(t, {n, x})
  /\ stack' = [stack EXCEPT ![t] = DispatchCalls(n, x) \o @]
  /\ UNCHANGED <<created, kind, notify, list, work, cbVars, calls, returned>>

PushCommand(t) ==
  /\ At(t, "push")
  /\ work' = work \cup {Doing(t).on}
  /\ Continue(t, <<>>)
  /\ UNCHANGED <<created, kind, eventVars, cbVars, calls, returned>>

Notified(t) ==
  LET n == Doing(t).on x == Doing(t).arg IN
  /\ At(t, "notified")
  /\ notify' = [notify EXCEPT ![n] = @ \ {x}]
  /\ Lock(None, {n, x})
  /\ Continue(t, <<>>)
  /\ UNCHANGED <<created, kind, status, waits, list, work, cbVars, calls, returned>>

BroadcastDone(t) ==
  /\ At(t, "broadcast") /\ notify[Doing(t).on] = {}
  /\ Continue(t, <<>>)
  /\ UNCHANGED <<created, kind, eventVars, work, cbVars, calls, returned>>

-----------------------------------------------------------------------------
CallbackStep(t) == AppendCallback(t) \/ CallImmediately(t) \/ CallNext(t) \/ Updated(t) \/ Return(t)
EventStep(t) ==
  \/ Enqueue(t) \/ UserEventUpdated(t) \/ UnlockEvent(t) \/ Start(t) \/ Finish(t)
  \/ PushCommand(t) \/ Notified(t) \/ BroadcastDone(t)
  \/ \E x \in Event : NotifyWaiting(t, x) \/ NotifyReady(t, x)
SetSomeUserEvent == \E h \in Hosts, e \in Event : SetUserEventStatus(h, e)
ApiCall(t) ==
  \/ CreateUserEvent(t)
  \/ \E W \in SUBSET Event : CallEnqueue(t, W)
  \/ \E e \in Event, s \in {SUBMITTED, RUNNING, COMPLETE} : SetEventCallback(t, e, s)

Next ==
  \/ \E t \in Thread : CallbackStep(t) \/ EventStep(t) \/ ApiCall(t)
  \/ SetSomeUserEvent

Spec == Init /\ [][Next]_vars

\* Threads inside the runtime keep running, callbacks return, and the
\* application sets its user events.
Fairness ==
  /\ \A t \in Thread : WF_vars(CallbackStep(t)) /\ WF_vars(EventStep(t))
  /\ WF_vars(SetSomeUserEvent)

FairSpec == Spec /\ Fairness

-----------------------------------------------------------------------------
(* Properties *)

Frames(t) == {stack[t][i] : i \in DOMAIN stack[t]}
Waiting(e) == waits[e] # {}

\* The values of the variables; a command that waits is queued, one in the
\* work queue is submitted.
TypeOK ==
  /\ created \in 0..MaxEvents /\ registered \in 0..MaxCallbacks
  /\ kind   \in [Event -> {"user", "command"}]
  /\ status \in [Event -> COMPLETE..UNKNOWN]
  /\ waits  \in [Event -> SUBSET Event] /\ notify \in [Event -> SUBSET Event]
  /\ held   \in [Event -> Thread \cup {None}]
  /\ list   \in [Event -> Seq(Callback)]
  /\ work   \subseteq Event
  /\ target  \in [Callback -> Event \cup {0}]
  /\ trigger \in [Callback -> {SUBMITTED, RUNNING, COMPLETE}]
  /\ calls   \in [Callback -> Nat] /\ returned \subseteq Callback
  /\ \A t \in Thread : \A f \in Frames(t) :
       /\ f.on \in 1..created
       /\ f.op \in {"register", "call"} => target[f.arg] = f.on
  /\ \A e \in Event : Waiting(e) => status[e] = QUEUED
  /\ \A e \in work : status[e] = SUBMITTED

\* A callback is called at most once, whoever registers it while the event
\* changes its status (clSetEventCallback against pocl_event_updated).
CalledOnce == \A c \in Callback : calls[c] <= 1

\* pocl_event_updated is "called with event locked, and must also return with a
\* locked event" (pocl_tracing.c:56): a thread that walks the list of an event
\* owns its lock, unless it is in a callback.
UpdatedLocked ==
  \A t \in Thread : At(t, "update") \/ At(t, "push") \/ At(t, "unlock") => held[Doing(t).on] = t

\* The event stays in the status a callback was registered for while
\* pocl_event_updated calls it, although the event is not locked meanwhile.
StatusHolds ==
  \A t \in Thread : \A i \in 2..Len(stack[t]) :
    stack[t][i].op = "update" =>
      /\ status[stack[t][i].on] = stack[t][i].arg
      /\ stack[t][i-1].op = "call" => trigger[stack[t][i-1].arg] = stack[t][i].arg

\* A user event is never running: pocl_event_updated looks for the status it is
\* given, not for those passed over, and such a callback is never called.
Skipped(c) == kind[target[c]] = "user" /\ trigger[c] = RUNNING

\* Callbacks on the list of an event are called in the order of the statuses
\* they wait for, and among equals in the order of registration
\* (pocl_tracing.c:62): none is called before an earlier one has returned.
CallOrder ==
  \A e \in Event : \A i, j \in DOMAIN list[e] :
    LET a == list[e][i] b == list[e][j] IN
    calls[b] > 0 /\ (trigger[a] > trigger[b] \/ (trigger[a] = trigger[b] /\ i < j)) =>
      a \in returned \/ Skipped(a)

\* Every callback registered for a status the event enters is called: none falls
\* between the check of the status in clSetEventCallback and the walk of the list.
CallbacksCalled == \A c \in Callback : registered >= c /\ ~Skipped(c) ~> calls[c] > 0

\* Every call ends, callbacks that register callbacks and enqueue commands
\* included: the locks a thread keeps while it calls back stop nobody for ever.
CallsReturn == \A t \in Thread : ~Idle(t) ~> Idle(t)

\* A callback "can have calls to clEnqueueSomething()" (pocl_util.c:1263-1265): a
\* thread that enqueues never waits for the lock of an event it has locked itself.
CallbacksMayEnqueue ==
  \A t \in Thread : At(t, "enqueue") => \A n \in Doing(t).arg : held[n] # t

=============================================================================
