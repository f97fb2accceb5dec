-------------------------- MODULE EventCallbacksInv --------------------------
(***************************************************************************)
(* The inductive invariant of EventCallbacks: what may be below what on    *)
(* the stack of a thread, which event locks a thread keeps because of it,  *)
(* and how far the walk of a callback list has come.                       *)
(***************************************************************************)
EXTENDS EventCallbacks

Stacked ==
  /\ stack = [t \in Thread |-> stack[t]]
  /\ \A t \in Thread : stack[t] \in Seq(Frames(t))

\* What a frame says of its event and of its callback: which status the event
\* has while the call goes on.
Meant(f) ==
  /\ f = Frame(f.op, f.on, f.arg, f.next)
  /\ f.on \in 1..created
  /\ f.op = "enqueue" <=> status[f.on] = UNKNOWN
  /\ f.op = "enqueue" => f.arg \subseteq Event \ {f.on}
  /\ f.op \in {"register", "call"} => f.arg \in 1..registered /\ target[f.arg] = f.on
  /\ f.op = "register" => calls[f.arg] = 0 /\ \A j \in DOMAIN list[f.on] : list[f.on][j] # f.arg
  /\ f.op = "update" => f.arg \in {SUBMITTED, RUNNING, COMPLETE} /\ status[f.on] = f.arg /\ f.next \in Nat \ {0}
  /\ f.op = "push" => status[f.on] = SUBMITTED /\ f.on \notin work
  /\ f.op = "finish" => status[f.on] = RUNNING
  /\ f.op \in {"enqueue", "push", "finish"} => kind[f.on] = "command"
  /\ f.op = "userUpdate" => kind[f.on] = "user"
  /\ f.op \in {"broadcast", "userUpdate"} => status[f.on] = COMPLETE
  /\ f.op = "unlock" => status[f.on] \in {RUNNING, COMPLETE}
  /\ f.op = "notified" => f.arg \in Event \ {f.on}
FramesMeant == \A t \in Thread : \A i \in DOMAIN stack[t] : Meant(stack[t][i])

\* f lies directly above g: who calls whom.
Over(f, g) ==
  \/ f.op \in {"register", "enqueue", "call"} /\ g.op = "call"
  \/ /\ f.op = "call" /\ g.op = "update" /\ f.on = g.on /\ trigger[f.arg] = g.arg
     /\ g.next > 1 /\ g.next - 1 \in DOMAIN list[g.on] /\ f.arg = list[g.on][g.next - 1]
  \/ f.op = "update" /\ g.op = "push" /\ f.on = g.on /\ f.arg = SUBMITTED
  \/ f.op = "update" /\ g.op = "unlock" /\ f.on = g.on /\ f.arg # SUBMITTED
  \/ f.op = "push" /\ g.op = "notified" /\ f.on = g.arg
  \/ f.op = "notified" /\ g.op = "broadcast" /\ f.on = g.on
  \/ f.op = "unlock" /\ g.op \in {"finish", "broadcast"} /\ f.on = g.on
  \/ f.op = "broadcast" /\ g.op = "userUpdate" /\ f.on = g.on
Lowest(f) ==
  \/ f.op \in {"register", "enqueue", "call", "finish", "broadcast", "userUpdate"}
  \/ f.op = "unlock" /\ kind[f.on] = "user"
Shape ==
  \A t \in Thread : \A i \in DOMAIN stack[t] :
    IF i = Len(stack[t]) THEN Lowest(stack[t][i]) ELSE Over(stack[t][i], stack[t][i + 1])

\* The locks a thread has taken and not given back.
Owner ==
  \A t \in Thread : \A i \in DOMAIN stack[t] :
    LET f == stack[t][i]
    IN  /\ f.op = "notified" => held[f.on] = t
        /\ i = 1 /\ f.op \in {"update", "push", "unlock"} => held[f.on] = t
        /\ i = 1 /\ f.op = "notified" => held[f.arg] = t

\* Each change of the status of an event, and each walk of its list, is in the
\* hands of one call.
Walking(f, e) == f.op \in {"update", "userUpdate"} /\ f.on = e
Same(f, g) ==
  \/ f.op \in {"enqueue", "push", "finish"} /\ f.op = g.op /\ f.on = g.on
  \/ Walking(f, f.on) /\ Walking(g, f.on)
  \/ f.op = "register" /\ g.op = "register" /\ f.arg = g.arg
Unique ==
  \A t, u \in Thread : \A i \in DOMAIN stack[t], j \in DOMAIN stack[u] :
    Same(stack[t][i], stack[u][j]) => t = u /\ i = j

\* Commands that an event is still to be reported to wait for it, or a thread
\* dispatches them.
Dispatching(n, x) ==
  \E t \in Thread : \E i \in DOMAIN stack[t] :
    stack[t][i].op = "notified" /\ stack[t][i].on = n /\ stack[t][i].arg = x
Notifies ==
  \A n, x \in Event : x \in notify[n] =>
    /\ x # n /\ kind[x] = "command" /\ status[x] # UNKNOWN
    /\ n \in waits[x] \/ Dispatching(n, x)

Events ==
  /\ \A e \in Event :
       /\ e > created => status[e] = UNKNOWN
       /\ status[e] = UNKNOWN => kind[e] = "command" /\ list[e] = <<>>
       /\ kind[e] = "user" => status[e] \in {SUBMITTED, COMPLETE}
  /\ \A e \in work : kind[e] = "command"

\* A callback is on one list at most, and once.
Lists ==
  /\ \A e \in Event : \A j \in DOMAIN list[e] :
       /\ list[e][j] \in 1..registered /\ target[list[e][j]] = e
       /\ \A i \in DOMAIN list[e] : list[e][i] = list[e][j] => i = j
  /\ \A c \in Callback : c > registered => calls[c] = 0

\* Where the callback at position j of the list of e is: not called before the
\* event gets to its status, called once in its turn, returned after the walk.
Walk(e) == \E t \in Thread : \E i \in DOMAIN stack[t] : Walking(stack[t][i], e)
Reached(e, j) ==
  LET c == list[e][j]
  IN  /\ \A t \in Thread : \A i \in DOMAIN stack[t] :
           Walking(stack[t][i], e) =>
             IF stack[t][i].op = "userUpdate" THEN calls[c] = 0
             ELSE /\ j >= stack[t][i].next => calls[c] = 0
                  /\ j < stack[t][i].next => c \in returned \/ (i > 1 /\ j = stack[t][i].next - 1)
      /\ ~Walk(e) => c \in returned
InTurn(e, j) ==
  LET c == list[e][j]
  IN  /\ status[e] > trigger[c] => calls[c] = 0
      /\ status[e] = trigger[c] => Reached(e, j)
      /\ status[e] < trigger[c] => c \in returned \/ Skipped(c)
Progress == \A e \in Event : \A j \in DOMAIN list[e] : InTurn(e, j)

IInv ==
  /\ TypeOK /\ Stacked /\ FramesMeant /\ Shape /\ Owner /\ Unique /\ Notifies /\ Events
  /\ Lists /\ Progress /\ CalledOnce
===============================================================================
