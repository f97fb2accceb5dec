----------------------------- MODULE ContextsInv -----------------------------
(***************************************************************************)
(* The inductive invariant of Contexts: who holds pocl_init_lock and what  *)
(* the list of devices holds at each place of the critical sections.  It   *)
(* is behind DevicesBalanced and, when nobody calls the library during the *)
(* first initialization, ListReady.                                        *)
(***************************************************************************)
EXTENDS Contexts

\* The places of pocl_init_devices and pocl_uninit_devices under the lock.
InInit   == {"probe", "allocate", "first", "reinit", "unlock", "failed"}
InUninit == {"down", "downDone"}

Locks ==
  /\ \A t \in Threads : init_lock = t <=> pc[t] \in InInit \cup InUninit
  /\ init_in_progress <=> \E t \in Threads : pc[t] \in InInit

\* One thread at a time until the first initialization is over.
Alone ==
  FirstAlone /\ ~first_init_done =>
    \A t, u \in Threads : pc[t] # "idle" /\ pc[u] # "idle" => t = u

\* Between the counting of the devices and the allocation of their list the
\* two disagree, and only then; a failure leaves a list of the right length.
Lists ==
  /\ \A t \in Threads : pc[t] \in {"probe", "allocate", "first", "failed"} => ~first_init_done
  /\ (\A t \in Threads : pc[t] # "allocate") => Len(pocl_devices) = pocl_num_devices
  /\ first_init_done \/ (\E t \in Threads : pc[t] \in {"allocate", "first"}) =>
       pocl_num_devices >= NumDevices

\* Both loops pass over the devices that cycle, from the first one on.
Passing(before, after) ==
  /\ 1..(index - 1) \subseteq Reinitable
  /\ \A i \in Cycled : pocl_devices[i] = IF i < index THEN before ELSE after

Devices ==
  /\ devices_active => first_init_done
  /\ first_init_done /\ init_lock = None => AllCycled(IF devices_active THEN "up" ELSE "down")
  /\ \A t \in Threads :
       /\ pc[t] \in {"probe", "allocate"} => index = 1
       /\ pc[t] = "first" =>
            index <= NumDevices + 1 /\ \A i \in 1..(index - 1) : pocl_devices[i] = "up"
       /\ pc[t] = "reinit" => first_init_done /\ Passing("up", "down")
       /\ pc[t] = "unlock" => first_init_done /\ devices_active /\ AllCycled("up")
       /\ pc[t] = "down" => first_init_done /\ Passing("down", "up")
       /\ pc[t] = "downDone" /\ first_init_done => AllCycled("down")

\* The inductive invariant of the initialization and shutdown of the devices
\* (pocl_init_devices, pocl_reinit_devices, pocl_uninit_devices).
IInv == TypeOK /\ Locks /\ Alone /\ Lists /\ Devices
=============================================================================
