---------------------------- MODULE BasicDriverInv ----------------------------
(***************************************************************************)
(* The inductive invariant of BasicDriver behind BasicPlaces.  It holds    *)
(* for an application that fails no user event.                            *)
(*                                                                         *)
(* TypeOK, Dispatch and Order are those of the event layer; what they say  *)
(* of driver threads is empty here, and Scheduling says it of the          *)
(* application threads.                                                    *)
(***************************************************************************)
EXTENDS BasicDriver, CommandQueueInv

\* The list of commands that may not run yet holds the submitted commands that
\* are queued, and each of them waits for something.
Pended ==
  /\ commandList = {e \in Commands : ready[e] /\ status[e] = QUEUED}
  /\ \A e \in commandList : waits[e] # {}

\* What a thread takes from the ready list nobody else takes.
Takers ==
  \A h \in Hosts : pc[h] = "taken" =>
    /\ cur[h] \in Commands /\ status[cur[h]] = SUBMITTED
    /\ \A g \in Hosts : pc[g] = "taken" /\ cur[g] = cur[h] => g = h

\* A dispatched command is with a thread.
InHand ==
  \A e \in Commands :
    /\ status[e] = SUBMITTED => \E h \in Hosts : pc[h] = "taken" /\ cur[h] = e
    /\ status[e] = RUNNING => \E h \in Hosts : phase[h][e] = "finish"

\* A thread works on one event.  One that dispatches a command out of a
\* broadcast goes on with that command, and nobody else comes for either:
\* both events stay locked, and the command stays on the notify list.
Busy(h, e) ==
  \/ pc[h] = "finishing"
  \/ pc[h] = "userDone" /\ cur[h] = e /\ kind[e] = "user" /\ phase[h][e] = "broadcast"
  \/ /\ pc[h] = "taken" /\ phase[h][e] = "broadcast"
     /\ held[e] = h /\ held[cur[h]] = h /\ cur[h] \in notify[e]
Worker(h) ==
  \A e \in Event : phase[h][e] # "none" =>
    /\ Busy(h, e)
    /\ phase[h][e] = "release" => status[e] = COMPLETE
    /\ \A f \in Event : phase[h][f] # "none" => f = e
Workers == \A h \in Hosts : Worker(h)

Scheduling == work = <<>> /\ Pended /\ Takers /\ InHand /\ Workers

\* The inductive invariant: a command is on the list or with one thread
\* (pocl_basic_submit, pocl_basic_notify, basic_command_scheduler).
BasicInv == TypeOK /\ Dispatch /\ Scheduling

\* What the wait lists add to it for an orderly application: whatever a queued
\* command needs it waits for.
Known == \A e \in app : kind[e] # "none"
OrderedInv == BasicInv /\ Order /\ Known
=============================================================================
