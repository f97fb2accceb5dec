--------------------------- MODULE Contexts_proofs ---------------------------
(***************************************************************************)
(* Proofs that IInv is an invariant of Contexts, that devices are          *)
(* initialized and shut down in turn for every number of threads, devices  *)
(* and contexts, and that nobody sees a list of devices that is shorter    *)
(* than its length says when the first initialization is left alone.       *)
(***************************************************************************)
EXTENDS ContextsInv, TLAPS

LEMMA CountFacts ==
  ASSUME NEW a \in Int
  PROVE  a % UINT \in 0..(UINT - 1)
BY ContextsAssumption

LEMMA ListFacts ==
  ASSUME NEW S, NEW s \in Seq(S), NEW i \in 1..Len(s), NEW v \in S
  PROVE  /\ [s EXCEPT ![i] = v] \in Seq(S)
         /\ Len([s EXCEPT ![i] = v]) = Len(s)
         /\ \A j \in 1..Len(s) : [s EXCEPT ![i] = v][j] = IF j = i THEN v ELSE s[j]
OBVIOUS

LEMMA FreshList ==
  ASSUME NEW n \in Nat, NEW S, NEW v \in S
  PROVE  [i \in 1..n |-> v] \in Seq(S) /\ Len([i \in 1..n |-> v]) = n
OBVIOUS

\* The devices the loops look at are in the list.
LEMMA IndexFacts ==
  ASSUME IInv, NEW t \in Threads
  PROVE  /\ pc[t] = "first" /\ index <= NumDevices => index \in 1..Len(pocl_devices)
         /\ pc[t] \in {"reinit", "down"} /\ Cycles => index \in 1..Len(pocl_devices)
         /\ first_init_done \/ pc[t] = "first" =>
              NumDevices <= Len(pocl_devices) /\ Len(pocl_devices) = pocl_num_devices
<1>1. ASSUME first_init_done \/ pc[t] = "first"
      PROVE  NumDevices <= Len(pocl_devices) /\ Len(pocl_devices) = pocl_num_devices
  <2>1. \A u \in Threads : pc[u] # "allocate"
    BY <1>1 DEF IInv, Lists, Locks, InInit, InUninit
  <2> QED BY <1>1, <2>1 DEF IInv, Lists
<1>2. pc[t] \in {"reinit", "down"} => first_init_done
  BY DEF IInv, Devices
<1>3. index \in Nat /\ index >= 1 /\ NumDevices \in Nat /\ Reinitable \subseteq 1..NumDevices
      /\ Len(pocl_devices) \in Nat
  BY ContextsAssumption DEF IInv, TypeOK
<1> QED BY <1>1, <1>2, <1>3 DEF Cycles

-----------------------------------------------------------------------------
LEMMA TypeStep ==
  ASSUME IInv, [Next]_vars
  PROVE  TypeOK'
<1>0. TypeOK
  BY DEF IInv
<1> USE DEF Goto
<1>1. ASSUME NEW t \in Threads, NEW op \in {"get", "create", "type"}, Call(t, op) PROVE TypeOK'
  BY <1>0, <1>1 DEF Call, TypeOK, initVars, devVars, ctxVars
<1>2. ASSUME NEW t \in Threads, TestInProgress(t) PROVE TypeOK'
  BY <1>0, <1>2 DEF TestInProgress, TypeOK, initVars, devVars, ctxVars
<1>3. ASSUME NEW t \in Threads, LockInit(t) PROVE TypeOK'
  BY <1>0, <1>3 DEF LockInit, TypeOK, devVars, ctxVars
<1>4. ASSUME NEW t \in Threads, Probe(t) PROVE TypeOK'
  BY <1>0, <1>4, ContextsAssumption DEF Probe, TypeOK, initVars, ctxVars
<1>5. ASSUME NEW t \in Threads, Allocate(t) PROVE TypeOK'
  <2>1. pocl_devices' \in Seq({"zero", "up", "down"})
    BY <1>0, <1>5, FreshList DEF Allocate, Allocated, TypeOK
  <2> QED BY <1>0, <1>5, <2>1 DEF Allocate, TypeOK, initVars, ctxVars
<1>6. ASSUME NEW t \in Threads, InitDevice(t) PROVE TypeOK'
  <2>1. pocl_devices' \in Seq({"zero", "up", "down"})
    <3>1. CASE pocl_devices' = [pocl_devices EXCEPT ![index] = "up"]
      <4>1. index \in 1..Len(pocl_devices)
        BY <1>6, IndexFacts DEF InitDevice
      <4> QED BY <1>0, <3>1, <4>1, ListFacts DEF TypeOK
    <3>2. CASE pocl_devices' = pocl_devices
      BY <1>0, <3>2 DEF TypeOK
    <3> QED BY <1>6, <3>1, <3>2 DEF InitDevice
  <2>2. index' \in Nat \ {0} /\ faults' \in 0..MaxFaults
    BY <1>0, <1>6, ContextsAssumption DEF InitDevice, TypeOK
  <2> QED BY <1>0, <1>6, <2>1, <2>2 DEF InitDevice, TypeOK, ctxVars
<1>7. ASSUME NEW t \in Threads, FirstDone(t) PROVE TypeOK'
  BY <1>0, <1>7 DEF FirstDone, TypeOK, devVars, ctxVars
<1>8. ASSUME NEW t \in Threads, ReinitDevice(t) PROVE TypeOK'
  <2>1. pocl_devices' \in Seq({"zero", "up", "down"})
    BY <1>0, <1>8, IndexFacts, ListFacts DEF ReinitDevice, TypeOK
  <2> QED BY <1>0, <1>8, <2>1 DEF ReinitDevice, TypeOK, ctxVars
<1>9. ASSUME NEW t \in Threads, ReinitDone(t) PROVE TypeOK'
  BY <1>0, <1>9 DEF ReinitDone, TypeOK, devVars, ctxVars
<1>10. ASSUME NEW t \in Threads, UnlockInit(t) PROVE TypeOK'
  <2>1. context_lock' \in {context_lock, None} /\ pc' \in [Threads -> {"idle", "test", "lock", "probe", "allocate", "first", "reinit",
                         "unlock", "failed", "read", "uninit", "down", "downDone"}] /\ call' \in [Threads -> {"none", "get", "create", "type"}]
    BY <1>0, <1>10 DEF UnlockInit, TypeOK
  <2> QED BY <1>0, <1>10, <2>1 DEF UnlockInit, TypeOK, devVars, ctxVars
<1>11. ASSUME NEW t \in Threads, GetDeviceIDs(t) PROVE TypeOK'
  <2>1. seen' \in BOOLEAN
    BY <1>0, <1>11 DEF GetDeviceIDs, TypeOK
  <2> QED BY <1>0, <1>11, <2>1 DEF GetDeviceIDs, TypeOK, initVars, devVars, ctxVars
<1>12. ASSUME NEW t \in Threads, NEW c \in Contexts, NEW found \in BOOLEAN, CreateContext(t, c, found) PROVE TypeOK'
  <2>1. cl_context_count' \in 0..(UINT - 1)
    <3>1. cl_context_count + 1 \in Int /\ cl_context_count - 2 \in Int
      BY <1>0, ContextsAssumption DEF TypeOK
    <3>2. CountUp \in 0..(UINT - 1)
      BY <3>1, CountFacts DEF CountUp
    <3> QED BY <1>0, <1>12, <3>2 DEF CreateContext, TypeOK
  <2> QED BY <1>0, <1>12, <2>1 DEF CreateContext, TypeOK, initVars, devVars
<1>13. ASSUME NEW t \in Threads, NEW c \in Contexts, RetainContext(t, c) PROVE TypeOK'
  BY <1>0, <1>13 DEF RetainContext, TypeOK, initVars, devVars
<1>14. ASSUME NEW t \in Threads, NEW c \in Contexts, ReleaseContext(t, c) PROVE TypeOK'
  <2>1. cl_context_count' \in 0..(UINT - 1)
    <3>1. cl_context_count + 1 \in Int /\ cl_context_count - 2 \in Int
      BY <1>0, ContextsAssumption DEF TypeOK
    <3>2. CountDown \in 0..(UINT - 1)
      BY <3>1, CountFacts DEF CountDown
    <3> QED BY <1>0, <1>14, <3>2 DEF ReleaseContext, TypeOK
  <2>2. refs' \in [Contexts -> Nat]
    BY <1>0, <1>14 DEF ReleaseContext, TypeOK
  <2> QED BY <1>0, <1>14, <2>1, <2>2 DEF ReleaseContext, TypeOK, initVars, devVars
<1>15. ASSUME NEW t \in Threads, CheckUninit(t) PROVE TypeOK'
  BY <1>0, <1>15 DEF CheckUninit, TypeOK, initVars, devVars, ctxVars
<1>16. ASSUME NEW t \in Threads, LockUninit(t) PROVE TypeOK'
  BY <1>0, <1>16 DEF LockUninit, TypeOK, devVars, ctxVars
<1>17. ASSUME NEW t \in Threads, UninitDevice(t) PROVE TypeOK'
  <2>1. pocl_devices' \in Seq({"zero", "up", "down"})
    BY <1>0, <1>17, IndexFacts, ListFacts DEF UninitDevice, TypeOK
  <2> QED BY <1>0, <1>17, <2>1 DEF UninitDevice, TypeOK, ctxVars
<1>18. ASSUME NEW t \in Threads, UninitDone(t) PROVE TypeOK'
  BY <1>0, <1>18 DEF UninitDone, TypeOK, devVars, ctxVars
<1>19. CASE UNCHANGED vars
  BY <1>0, <1>19 DEF vars, TypeOK, initVars, devVars, ctxVars
<1> QED
  BY <1>1, <1>2, <1>3, <1>4, <1>5, <1>6, <1>7, <1>8, <1>9, <1>10, <1>11, <1>12, <1>13, <1>14, <1>15,
     <1>16, <1>17, <1>18, <1>19
  DEF Next, Step, AppStep

-----------------------------------------------------------------------------
(* Locks.                                                                  *)

\* A thread moves without taking or leaving pocl_init_lock.
LEMMA KeepLocks ==
  ASSUME TypeOK, Locks, NEW t \in Threads,
         \A u \in Threads : u # t => pc'[u] = pc[u],
         pc'[t] \in InInit <=> pc[t] \in InInit, pc'[t] \in InUninit <=> pc[t] \in InUninit,
         UNCHANGED <<init_lock, init_in_progress>>
  PROVE  Locks'
<1>1. \A u \in Threads : /\ pc'[u] \in InInit <=> pc[u] \in InInit
                         /\ pc'[u] \in InUninit <=> pc[u] \in InUninit
  OBVIOUS
<1> QED BY <1>1 DEF Locks

LEMMA LocksStep ==
  ASSUME IInv, [Next]_vars
  PROVE  Locks'
<1>0. TypeOK /\ Locks /\ None \notin Threads
  BY ContextsAssumption DEF IInv
<1>1. ASSUME UNCHANGED <<pc, init_lock, init_in_progress>> PROVE Locks'
  BY <1>0, <1>1 DEF Locks
<1>2. ASSUME NEW t \in Threads, NEW op, Call(t, op) PROVE Locks'
  BY <1>0, <1>2, KeepLocks DEF Call, Goto, TypeOK, initVars, InInit, InUninit
<1>3. ASSUME NEW t \in Threads, TestInProgress(t) \/ Probe(t) \/ Allocate(t) \/ InitDevice(t) PROVE Locks'
  BY <1>0, <1>3, KeepLocks DEF TestInProgress, Probe, Allocate, InitDevice, Goto, TypeOK, initVars, InInit, InUninit
<1>4. ASSUME NEW t \in Threads, FirstDone(t) \/ ReinitDone(t) \/ GetDeviceIDs(t) PROVE Locks'
  BY <1>0, <1>4, KeepLocks DEF FirstDone, ReinitDone, GetDeviceIDs, Goto, TypeOK, initVars, InInit, InUninit
<1>5. ASSUME NEW t \in Threads, NEW c, NEW found, CreateContext(t, c, found) PROVE Locks'
  BY <1>0, <1>5, KeepLocks DEF CreateContext, Goto, TypeOK, initVars, InInit, InUninit
<1>6. ASSUME NEW t \in Threads, CheckUninit(t) PROVE Locks'
  BY <1>0, <1>6, KeepLocks DEF CheckUninit, Goto, TypeOK, initVars, InInit, InUninit
<1>7. ASSUME NEW t \in Threads, LockInit(t) PROVE Locks'
  <2>1. /\ init_lock = None /\ init_lock' = t /\ init_in_progress' = TRUE
        /\ \A u \in Threads : u # t => pc'[u] = pc[u]
        /\ pc'[t] \in InInit
    BY <1>0, <1>7 DEF LockInit, Goto, TypeOK, InInit
  <2> QED BY <1>0, <2>1 DEF Locks
<1>8. ASSUME NEW t \in Threads, LockUninit(t) PROVE Locks'
  <2>1. /\ init_lock = None /\ init_lock' = t /\ init_in_progress' = init_in_progress
        /\ \A u \in Threads : u # t => pc'[u] = pc[u]
        /\ pc'[t] \in InUninit /\ pc[t] \notin InInit /\ pc'[t] \notin InInit
    BY <1>0, <1>8 DEF LockUninit, Goto, TypeOK, InInit, InUninit
  <2> QED BY <1>0, <2>1 DEF Locks
<1>9. ASSUME NEW t \in Threads, UnlockInit(t) PROVE Locks'
  <2>1. /\ pc[t] \in InInit /\ init_lock' = None /\ init_in_progress' = FALSE
        /\ \A u \in Threads : u # t => pc'[u] = pc[u]
        /\ pc'[t] \notin InInit /\ pc'[t] \notin InUninit
    BY <1>0, <1>9 DEF UnlockInit, Goto, TypeOK, InInit, InUninit
  <2>2. \A u \in Threads : u # t => pc[u] \notin InInit \cup InUninit
    BY <1>0, <2>1 DEF Locks
  <2> QED BY <1>0, <2>1, <2>2 DEF Locks
<1>10. ASSUME NEW t \in Threads, UninitDone(t) PROVE Locks'
  <2>1. /\ pc[t] \in InUninit /\ pc[t] \notin InInit /\ init_lock' = None /\ init_in_progress' = init_in_progress
        /\ \A u \in Threads : u # t => pc'[u] = pc[u]
        /\ pc'[t] \notin InInit /\ pc'[t] \notin InUninit
    BY <1>0, <1>10 DEF UninitDone, Goto, TypeOK, InInit, InUninit
  <2>2. \A u \in Threads : u # t => pc[u] \notin InInit \cup InUninit
    BY <1>0, <2>1 DEF Locks
  <2> QED BY <1>0, <2>1, <2>2 DEF Locks
<1>11. ASSUME NEW t \in Threads, ReinitDevice(t) \/ UninitDevice(t) PROVE Locks'
  BY <1>1, <1>11 DEF ReinitDevice, UninitDevice
<1>12. ASSUME NEW t \in Threads, NEW c \in Contexts, RetainContext(t, c) \/ ReleaseContext(t, c) PROVE Locks'
  BY <1>1, <1>12 DEF RetainContext, ReleaseContext, initVars
<1>13. CASE UNCHANGED vars
  BY <1>1, <1>13 DEF vars, initVars
<1> QED
  BY <1>2, <1>3, <1>4, <1>5, <1>6, <1>7, <1>8, <1>9, <1>10, <1>11, <1>12, <1>13 DEF Next, Step, AppStep

-----------------------------------------------------------------------------
(* Alone.                                                                  *)

\* A thread that is in its call already, or comes back.
LEMMA KeepAlone ==
  ASSUME Alone, NEW t \in Threads, pc[t] # "idle" \/ pc'[t] = pc[t],
         \A u \in Threads : u # t => pc'[u] = pc[u],
         first_init_done => first_init_done'
  PROVE  Alone'
BY DEF Alone

\* A thread that enters the library.
LEMMA EnterAlone ==
  ASSUME Alone, NEW t \in Threads,
         FirstAlone /\ ~first_init_done => \A u \in Threads : pc[u] = "idle",
         \A u \in Threads : u # t => pc'[u] = pc[u],
         first_init_done' = first_init_done
  PROVE  Alone'
BY DEF Alone

LEMMA AloneStep ==
  ASSUME IInv, [Next]_vars
  PROVE  Alone'
<1>0. TypeOK /\ Alone
  BY DEF IInv
<1> USE DEF Goto
<1>1. ASSUME UNCHANGED <<pc, first_init_done>> PROVE Alone'
  BY <1>0, <1>1 DEF Alone
<1>2. ASSUME NEW t \in Threads, NEW op, Call(t, op) PROVE Alone'
  BY <1>0, <1>2, EnterAlone DEF Call, TypeOK, initVars
<1>3. ASSUME NEW t \in Threads, CheckUninit(t) PROVE Alone'
  BY <1>0, <1>3, EnterAlone DEF CheckUninit, TypeOK, initVars
<1>4. ASSUME NEW t \in Threads, TestInProgress(t) \/ LockInit(t) \/ Probe(t) \/ Allocate(t) PROVE Alone'
  BY <1>0, <1>4, KeepAlone DEF TestInProgress, LockInit, Probe, Allocate, TypeOK, initVars
<1>5. ASSUME NEW t \in Threads, InitDevice(t) \/ FirstDone(t) \/ ReinitDone(t) \/ UnlockInit(t) PROVE Alone'
  BY <1>0, <1>5, KeepAlone DEF InitDevice, FirstDone, ReinitDone, UnlockInit, TypeOK, initVars
<1>6. ASSUME NEW t \in Threads, GetDeviceIDs(t) \/ LockUninit(t) \/ UninitDone(t) PROVE Alone'
  BY <1>0, <1>6, KeepAlone DEF GetDeviceIDs, LockUninit, UninitDone, TypeOK, initVars
<1>7. ASSUME NEW t \in Threads, NEW c, NEW found, CreateContext(t, c, found) PROVE Alone'
  BY <1>0, <1>7, KeepAlone DEF CreateContext, TypeOK, initVars
<1>8. ASSUME NEW t \in Threads, ReinitDevice(t) \/ UninitDevice(t) PROVE Alone'
  BY <1>1, <1>8 DEF ReinitDevice, UninitDevice
<1>9. ASSUME NEW t \in Threads, NEW c \in Contexts, RetainContext(t, c) \/ ReleaseContext(t, c) PROVE Alone'
  BY <1>1, <1>9 DEF RetainContext, ReleaseContext, initVars
<1>10. CASE UNCHANGED vars
  BY <1>1, <1>10 DEF vars, initVars
<1> QED BY <1>2, <1>3, <1>4, <1>5, <1>6, <1>7, <1>8, <1>9, <1>10 DEF Next, Step, AppStep

-----------------------------------------------------------------------------
(* Lists and Devices.                                                      *)

\* Only the thread that holds pocl_init_lock changes the devices.
Critical == InInit \cup InUninit

LEMMA Holder ==
  ASSUME IInv, NEW t \in Threads, pc[t] \in Critical, NEW u \in Threads, pc[u] \in Critical
  PROVE  u = t
BY DEF IInv, Locks, Critical

\* A step outside the critical sections, or of a context.
LEMMA OutsideStep ==
  ASSUME IInv, UNCHANGED <<devVars, first_init_done, devices_active, index, init_lock>>,
         \A u \in Threads : pc'[u] = pc[u] \/ (pc[u] \notin Critical /\ pc'[u] \notin Critical)
  PROVE  Lists' /\ Devices'
<1>1. \A u \in Threads : pc'[u] \in Critical \/ pc[u] \in Critical => pc'[u] = pc[u]
  OBVIOUS
<1>2. Lists'
  BY <1>1 DEF IInv, Lists, devVars, Critical, InInit, InUninit
<1>3. Devices'
  BY <1>1 DEF IInv, Devices, devVars, Critical, InInit, InUninit, Passing, AllCycled, Cycled
<1> QED BY <1>2, <1>3

\* What the thread in the critical section knows of the devices.
DevicesAt(t) ==
  /\ pc[t] \in {"probe", "allocate"} => index = 1
  /\ pc[t] = "first" =>
       index <= NumDevices + 1 /\ \A i \in 1..(index - 1) : pocl_devices[i] = "up"
  /\ pc[t] = "reinit" => first_init_done /\ Passing("up", "down")
  /\ pc[t] = "unlock" => first_init_done /\ devices_active /\ AllCycled("up")
  /\ pc[t] = "down" => first_init_done /\ Passing("down", "up")
  /\ pc[t] = "downDone" /\ first_init_done => AllCycled("down")

\* A step of the thread that has, takes or leaves pocl_init_lock.
LEMMA InsideStep ==
  ASSUME NEW t \in Threads,
         \A u \in Threads : u # t => pc'[u] = pc[u] /\ pc[u] \notin Critical,
         DevicesAt(t)', devices_active' => first_init_done',
         first_init_done' /\ init_lock' = None => AllCycled(IF devices_active THEN "up" ELSE "down")',
         pc'[t] \in {"probe", "allocate", "first", "failed"} => ~first_init_done',
         pc'[t] # "allocate" => Len(pocl_devices') = pocl_num_devices',
         first_init_done' \/ pc'[t] \in {"allocate", "first"} => pocl_num_devices' >= NumDevices
  PROVE  Lists' /\ Devices'
<1>1. \A u \in Threads : u # t => pc'[u] \notin Critical
  OBVIOUS
<1>2. Lists'
  BY <1>1 DEF Lists, Critical, InInit, InUninit
<1>3. \A u \in Threads : DevicesAt(u)'
  BY <1>1 DEF DevicesAt, Critical, InInit, InUninit
<1>4. Devices'
  BY <1>3 DEF Devices, DevicesAt
<1> QED BY <1>2, <1>4

\* What IInv says of a thread in the critical section.
LEMMA InsideFacts ==
  ASSUME IInv, NEW t \in Threads, pc[t] \in Critical
  PROVE  /\ \A u \in Threads : u # t => pc[u] \notin Critical
         /\ DevicesAt(t) /\ (devices_active => first_init_done)
         /\ pc[t] \in {"probe", "allocate", "first", "failed"} => ~first_init_done
         /\ pc[t] # "allocate" => Len(pocl_devices) = pocl_num_devices
         /\ first_init_done \/ pc[t] \in {"allocate", "first"} => pocl_num_devices >= NumDevices
         /\ index \in Nat /\ index >= 1 /\ NumDevices \in Nat /\ Reinitable \subseteq 1..NumDevices
         /\ Len(pocl_devices) \in Nat /\ pocl_num_devices \in Nat
         /\ Cycled \subseteq 1..NumDevices
<1>1. \A u \in Threads : u # t => pc[u] \notin Critical
  BY Holder
<1>2. DevicesAt(t) /\ (devices_active => first_init_done)
  BY DEF IInv, Devices, DevicesAt
<1>3. /\ pc[t] \in {"probe", "allocate", "first", "failed"} => ~first_init_done
      /\ first_init_done \/ pc[t] \in {"allocate", "first"} => pocl_num_devices >= NumDevices
  BY DEF IInv, Lists
<1>4. pc[t] # "allocate" => Len(pocl_devices) = pocl_num_devices
  BY <1>1 DEF IInv, Lists, Critical, InInit
<1>5. index \in Nat /\ index >= 1 /\ NumDevices \in Nat /\ Reinitable \subseteq 1..NumDevices
      /\ Len(pocl_devices) \in Nat /\ pocl_num_devices \in Nat
  BY ContextsAssumption DEF IInv, TypeOK
<1>6. Cycled \subseteq 1..NumDevices
  BY <1>5 DEF Cycled
<1> QED BY <1>1, <1>2, <1>3, <1>4, <1>5, <1>6

\* The loops stop behind the last device that cycles.
LEMMA LoopEnd ==
  ASSUME index \in Nat, index >= 1, NEW before, NEW after, Passing(before, after), ~Cycles
  PROVE  AllCycled(before)
<1>1. ASSUME NEW i \in Cycled PROVE i < index
  <2>1. i \in Int /\ 1..i \subseteq Reinitable
    BY ContextsAssumption DEF Cycled
  <2> QED BY <2>1 DEF Cycles
<1> QED BY <1>1 DEF Passing, AllCycled

\* One more device of a loop.
LEMMA LoopStep ==
  ASSUME index \in Nat, index >= 1, NEW before, NEW after, Passing(before, after), Cycles,
         index' = index + 1,
         \A j \in Cycled : pocl_devices'[j] = IF j = index THEN before ELSE pocl_devices[j]
  PROVE  Passing(before, after)'
<1>1. index \in Reinitable /\ 1..(index - 1) \subseteq Reinitable
  BY DEF Passing, Cycles
<1>2. 1..(index' - 1) \subseteq Reinitable
  BY <1>1
<1>3. \A i \in Cycled : i \in Int
  BY ContextsAssumption DEF Cycled
<1>4. \A i \in Cycled : pocl_devices'[i] = IF i < index' THEN before ELSE after
  BY <1>3 DEF Passing
<1> QED BY <1>2, <1>4 DEF Passing, Cycled

LEMMA StartLoop ==
  ASSUME index' = 1, UNCHANGED pocl_devices, NEW before, NEW after, AllCycled(after)
  PROVE  Passing(before, after)'
<1>1. \A i \in Cycled : i \in Int /\ i >= 1
  BY ContextsAssumption DEF Cycled
<1> QED BY <1>1 DEF Passing, AllCycled, Cycled

LEMMA FirstSteps ==
  ASSUME IInv, NEW t \in Threads, Probe(t) \/ Allocate(t) \/ InitDevice(t) \/ FirstDone(t)
  PROVE  Lists' /\ Devices'
<1>0. pc[t] \in Critical /\ TypeOK /\ Locks
  BY DEF Probe, Allocate, InitDevice, FirstDone, Critical, InInit, IInv
<1>f. /\ \A u \in Threads : u # t => pc[u] \notin Critical
      /\ DevicesAt(t) /\ (devices_active => first_init_done)
      /\ pc[t] \in {"probe", "allocate", "first", "failed"} => ~first_init_done
      /\ pc[t] # "allocate" => Len(pocl_devices) = pocl_num_devices
      /\ first_init_done \/ pc[t] \in {"allocate", "first"} => pocl_num_devices >= NumDevices
      /\ index \in Nat /\ index >= 1 /\ NumDevices \in Nat
      /\ Len(pocl_devices) \in Nat /\ pocl_num_devices \in Nat
      /\ Cycled \subseteq 1..NumDevices
  BY <1>0, InsideFacts
<1>l. init_lock = t /\ t # None
  BY <1>0, ContextsAssumption DEF Locks, Critical
<1> USE DEF Goto
<1>1. CASE Probe(t)
  <2>1. /\ pc[t] = "probe" /\ ~first_init_done /\ ~devices_active
        /\ UNCHANGED <<pocl_devices, first_init_done, devices_active, init_lock, index>>
        /\ pocl_num_devices' = pocl_num_devices + NumDevices
        /\ pc'[t] = IF pocl_num_devices' = 0 THEN "failed" ELSE "allocate"
        /\ \A u \in Threads : u # t => pc'[u] = pc[u]
    BY <1>0, <1>f, <1>1 DEF Probe, TypeOK, initVars
  <2>2. DevicesAt(t)'
    BY <1>f, <2>1 DEF DevicesAt
  <2> QED BY <1>f, <1>l, <2>1, <2>2, InsideStep
<1>2. CASE Allocate(t)
  <2>1. /\ pc[t] = "allocate" /\ ~first_init_done /\ ~devices_active
        /\ UNCHANGED <<pocl_num_devices, first_init_done, devices_active, init_lock, index>>
        /\ pocl_devices' = [i \in 1..pocl_num_devices |-> "zero"]
        /\ pc'[t] = "first"
        /\ \A u \in Threads : u # t => pc'[u] = pc[u]
    BY <1>0, <1>f, <1>2 DEF Allocate, Allocated, TypeOK, initVars
  <2>2. Len(pocl_devices') = pocl_num_devices'
    BY <1>f, <2>1, FreshList
  <2>3. index = 1
    BY <1>f, <2>1 DEF DevicesAt
  <2>4. DevicesAt(t)'
    BY <1>f, <2>1, <2>3 DEF DevicesAt
  <2> QED BY <1>f, <1>l, <2>1, <2>2, <2>4, InsideStep
<1>3. CASE InitDevice(t)
  <2>1. /\ pc[t] = "first" /\ index <= NumDevices /\ ~first_init_done /\ ~devices_active
        /\ UNCHANGED <<pocl_num_devices, first_init_done, devices_active, init_lock>>
        /\ \A u \in Threads : u # t => pc'[u] = pc[u]
    BY <1>0, <1>f, <1>3 DEF InitDevice, TypeOK
  <2>2. CASE pocl_devices' = [pocl_devices EXCEPT ![index] = "up"] /\ index' = index + 1 /\ UNCHANGED <<pc, faults>>
    <3>1. index \in 1..Len(pocl_devices)
      BY <1>f, <2>1
    <3>2. /\ Len(pocl_devices') = Len(pocl_devices)
          /\ \A j \in 1..Len(pocl_devices) : pocl_devices'[j] = IF j = index THEN "up" ELSE pocl_devices[j]
      BY <1>0, <2>2, <3>1, ListFacts DEF TypeOK
    <3>3. DevicesAt(t)'
      BY <1>f, <2>1, <2>2, <3>1, <3>2 DEF DevicesAt
    <3> QED BY <1>f, <1>l, <2>1, <2>2, <3>2, <3>3, InsideStep
  <2>3. CASE pc' = [pc EXCEPT ![t] = "failed"] /\ UNCHANGED <<pocl_devices, index>>
    <3>1. pc'[t] = "failed"
      BY <1>0, <2>3 DEF TypeOK
    <3>2. DevicesAt(t)'
      BY <3>1 DEF DevicesAt
    <3> QED BY <1>f, <1>l, <2>1, <2>3, <3>1, <3>2, InsideStep
  <2> QED BY <1>3, <2>2, <2>3 DEF InitDevice
<1>4. CASE FirstDone(t)
  <2>1. /\ pc[t] = "first" /\ index > NumDevices
        /\ UNCHANGED <<pocl_devices, pocl_num_devices, init_lock>>
        /\ first_init_done' = TRUE /\ devices_active' = TRUE /\ pc'[t] = "unlock"
        /\ \A u \in Threads : u # t => pc'[u] = pc[u]
    BY <1>0, <1>4 DEF FirstDone, TypeOK, devVars
  <2>2. AllCycled("up")'
    BY <1>f, <2>1 DEF DevicesAt, AllCycled, Cycled
  <2>3. DevicesAt(t)'
    BY <2>1, <2>2 DEF DevicesAt
  <2> QED BY <1>f, <1>l, <2>1, <2>3, InsideStep
<1> QED BY <1>1, <1>2, <1>3, <1>4

LEMMA LoopSteps ==
  ASSUME IInv, NEW t \in Threads, ReinitDevice(t) \/ UninitDevice(t)
  PROVE  Lists' /\ Devices'
<1>0. pc[t] \in Critical /\ TypeOK /\ Locks
  BY DEF ReinitDevice, UninitDevice, Critical, InInit, InUninit, IInv
<1>f. /\ \A u \in Threads : u # t => pc[u] \notin Critical
      /\ DevicesAt(t) /\ (devices_active => first_init_done)
      /\ pc[t] # "allocate" => Len(pocl_devices) = pocl_num_devices
      /\ first_init_done => pocl_num_devices >= NumDevices
      /\ index \in Nat /\ index >= 1 /\ NumDevices \in Nat
      /\ Len(pocl_devices) \in Nat /\ Cycled \subseteq 1..NumDevices
  BY <1>0, InsideFacts
<1>l. init_lock = t /\ t # None
  BY <1>0, ContextsAssumption DEF Locks, Critical
<1>1. /\ pc[t] \in {"reinit", "down"} /\ first_init_done /\ Cycles
      /\ UNCHANGED <<pocl_num_devices, first_init_done, devices_active, init_lock, pc>>
      /\ index' = index + 1
      /\ pocl_devices' = [pocl_devices EXCEPT ![index] = IF pc[t] = "reinit" THEN "up" ELSE "down"]
  BY <1>f DEF ReinitDevice, UninitDevice, DevicesAt
<1>2. index \in 1..Len(pocl_devices)
  BY <1>1, IndexFacts
<1>3. /\ Len(pocl_devices') = Len(pocl_devices)
      /\ \A j \in 1..Len(pocl_devices) :
           pocl_devices'[j] = IF j = index THEN (IF pc[t] = "reinit" THEN "up" ELSE "down") ELSE pocl_devices[j]
  BY <1>0, <1>1, <1>2, ListFacts DEF TypeOK
<1>4. \A j \in Cycled :
        pocl_devices'[j] = IF j = index THEN (IF pc[t] = "reinit" THEN "up" ELSE "down") ELSE pocl_devices[j]
  BY <1>f, <1>1, <1>3
<1>5. CASE pc[t] = "reinit"
  <2>1. Passing("up", "down")
    BY <1>f, <1>5 DEF DevicesAt
  <2>2. Passing("up", "down")'
    BY <1>f, <1>1, <1>4, <1>5, <2>1, LoopStep
  <2>3. DevicesAt(t)'
    BY <1>1, <1>5, <2>2 DEF DevicesAt
  <2> QED BY <1>f, <1>l, <1>1, <1>3, <1>5, <2>3, InsideStep
<1>6. CASE pc[t] = "down"
  <2>1. Passing("down", "up")
    BY <1>f, <1>6 DEF DevicesAt
  <2>2. Passing("down", "up")'
    BY <1>f, <1>1, <1>4, <1>6, <2>1, LoopStep
  <2>3. DevicesAt(t)'
    BY <1>1, <1>6, <2>2 DEF DevicesAt
  <2> QED BY <1>f, <1>l, <1>1, <1>3, <1>6, <2>3, InsideStep
<1> QED BY <1>1, <1>5, <1>6

\* Whoever takes the lock finds the devices as devices_active says.
LEMMA EnterSteps ==
  ASSUME IInv, NEW t \in Threads, LockInit(t) \/ LockUninit(t)
  PROVE  Lists' /\ Devices'
<1>0. TypeOK /\ Locks /\ Lists /\ Devices /\ None \notin Threads /\ NumDevices \in Nat
  BY ContextsAssumption DEF IInv
<1>1. /\ init_lock = None /\ init_lock' = t /\ index' = 1
      /\ UNCHANGED <<pocl_devices, pocl_num_devices, first_init_done, devices_active>>
      /\ \A u \in Threads : u # t => pc'[u] = pc[u]
  BY <1>0 DEF LockInit, LockUninit, Goto, TypeOK, devVars
<1>2. \A u \in Threads : pc[u] \notin Critical
  BY <1>0, <1>1 DEF Locks, Critical
<1>3. Len(pocl_devices) = pocl_num_devices /\ (first_init_done => pocl_num_devices >= NumDevices)
  BY <1>0, <1>2 DEF Lists, Critical, InInit
<1>4. /\ devices_active => first_init_done
      /\ first_init_done /\ devices_active => AllCycled("up")
      /\ first_init_done /\ ~devices_active => AllCycled("down")
  BY <1>0, <1>1 DEF Devices
<1>5. \A s : AllCycled(s) => AllCycled(s)'
  BY <1>1 DEF AllCycled, Cycled
<1>6. CASE LockInit(t)
  <2>1. pc'[t] = IF ~first_init_done THEN "probe" ELSE IF devices_active THEN "unlock" ELSE "reinit"
    BY <1>0, <1>6 DEF LockInit, Goto, TypeOK
  <2>2. first_init_done /\ ~devices_active => Passing("up", "down")'
    BY <1>1, <1>4, StartLoop
  <2>3. DevicesAt(t)'
    BY <1>1, <1>4, <1>5, <2>1, <2>2 DEF DevicesAt
  <2> QED BY <1>0, <1>1, <1>2, <1>3, <1>4, <2>1, <2>3, InsideStep
<1>7. CASE LockUninit(t)
  <2>1. pc'[t] = IF devices_active /\ pocl_num_devices > 0 THEN "down" ELSE "downDone"
    BY <1>0, <1>7 DEF LockUninit, Goto, TypeOK
  <2>2. devices_active => Passing("down", "up")'
    BY <1>1, <1>4, StartLoop
  <2>3. devices_active /\ ~(pocl_num_devices > 0) => AllCycled("down")
    <3>1. ASSUME devices_active, ~(pocl_num_devices > 0) PROVE Cycled = {}
      <4>1. NumDevices = 0 /\ 1..NumDevices = {}
        BY <1>0, <1>3, <1>4, <3>1 DEF TypeOK
      <4> QED BY <4>1, ContextsAssumption DEF Cycled
    <3> QED BY <3>1 DEF AllCycled
  <2>4. DevicesAt(t)'
    BY <1>1, <1>4, <1>5, <2>1, <2>2, <2>3 DEF DevicesAt
  <2> QED BY <1>0, <1>1, <1>2, <1>3, <1>4, <2>1, <2>4, InsideStep
<1> QED BY <1>6, <1>7

\* Whoever has passed over all the devices, or failed, leaves them as
\* devices_active says.
LEMMA LeaveSteps ==
  ASSUME IInv, NEW t \in Threads, ReinitDone(t) \/ UnlockInit(t) \/ UninitDone(t)
  PROVE  Lists' /\ Devices'
<1>0. pc[t] \in Critical /\ TypeOK /\ Locks
  BY DEF ReinitDone, UnlockInit, UninitDone, Critical, InInit, InUninit, IInv
<1>f. /\ \A u \in Threads : u # t => pc[u] \notin Critical
      /\ DevicesAt(t) /\ (devices_active => first_init_done)
      /\ pc[t] \in {"probe", "allocate", "first", "failed"} => ~first_init_done
      /\ pc[t] # "allocate" => Len(pocl_devices) = pocl_num_devices
      /\ first_init_done => pocl_num_devices >= NumDevices
      /\ index \in Nat /\ index >= 1
  BY <1>0, InsideFacts
<1>l. init_lock = t /\ t # None
  BY <1>0, ContextsAssumption DEF Locks, Critical
<1>1. /\ UNCHANGED <<pocl_devices, pocl_num_devices, first_init_done, index>>
      /\ pc[t] # "allocate"
      /\ \A u \in Threads : u # t => pc'[u] = pc[u]
  BY <1>0 DEF ReinitDone, UnlockInit, UninitDone, Goto, TypeOK, devVars
<1>2. \A s : AllCycled(s) => AllCycled(s)'
  BY <1>1 DEF AllCycled, Cycled
<1>3. CASE ReinitDone(t)
  <2>1. pc[t] = "reinit" /\ pc'[t] = "unlock" /\ ~Cycles /\ devices_active' = TRUE /\ init_lock' = init_lock
    BY <1>0, <1>3 DEF ReinitDone, Goto, TypeOK
  <2>2. first_init_done /\ Passing("up", "down")
    BY <1>f, <2>1 DEF DevicesAt
  <2>3. AllCycled("up")
    BY <1>f, <2>1, <2>2, LoopEnd
  <2>4. DevicesAt(t)'
    BY <1>1, <1>2, <2>1, <2>2, <2>3 DEF DevicesAt
  <2> QED BY <1>f, <1>l, <1>1, <2>1, <2>2, <2>4, InsideStep
<1>4. CASE UnlockInit(t)
  <2>1. pc[t] \in {"unlock", "failed"} /\ pc'[t] \in {"read", "idle"} /\ devices_active' = devices_active
    BY <1>0, <1>4 DEF UnlockInit, Goto, TypeOK
  <2>2. first_init_done => devices_active /\ AllCycled("up")'
    BY <1>f, <1>2, <2>1 DEF DevicesAt
  <2>3. DevicesAt(t)'
    BY <2>1 DEF DevicesAt
  <2>4. first_init_done' => AllCycled(IF devices_active THEN "up" ELSE "down")'
    BY <1>1, <2>1, <2>2
  <2> QED BY <1>f, <1>1, <2>1, <2>3, <2>4, InsideStep
<1>5. CASE UninitDone(t)
  <2>1. /\ pc[t] = "downDone" \/ (pc[t] = "down" /\ ~Cycles)
        /\ pc'[t] = "idle" /\ devices_active' = FALSE
    BY <1>0, <1>5 DEF UninitDone, Goto, TypeOK
  <2>2. first_init_done => AllCycled("down")
    <3>1. CASE pc[t] = "downDone"
      BY <1>f, <3>1 DEF DevicesAt
    <3>2. CASE pc[t] = "down" /\ ~Cycles
      <4>1. Passing("down", "up")
        BY <1>f, <3>2 DEF DevicesAt
      <4> QED BY <1>f, <3>2, <4>1, LoopEnd
    <3> QED BY <2>1, <3>1, <3>2
  <2>3. DevicesAt(t)'
    BY <2>1 DEF DevicesAt
  <2>4. first_init_done' => AllCycled(IF devices_active THEN "up" ELSE "down")'
    BY <1>1, <1>2, <2>1, <2>2
  <2> QED BY <1>f, <1>1, <2>1, <2>3, <2>4, InsideStep
<1> QED BY <1>3, <1>4, <1>5

LEMMA DevicesStep ==
  ASSUME IInv, [Next]_vars
  PROVE  Lists' /\ Devices'
<1>0. TypeOK
  BY DEF IInv
<1> USE DEF Goto, Critical, InInit, InUninit
<1>1. ASSUME NEW t \in Threads, NEW op, Call(t, op) PROVE Lists' /\ Devices'
  BY <1>0, <1>1, OutsideStep DEF Call, TypeOK, initVars, devVars
<1>2. ASSUME NEW t \in Threads, TestInProgress(t) \/ GetDeviceIDs(t) \/ CheckUninit(t) PROVE Lists' /\ Devices'
  BY <1>0, <1>2, OutsideStep DEF TestInProgress, GetDeviceIDs, CheckUninit, TypeOK, initVars, devVars
<1>3. ASSUME NEW t \in Threads, NEW c, NEW found, CreateContext(t, c, found) PROVE Lists' /\ Devices'
  BY <1>0, <1>3, OutsideStep DEF CreateContext, TypeOK, initVars, devVars
<1>4. ASSUME NEW t \in Threads, NEW c \in Contexts, RetainContext(t, c) \/ ReleaseContext(t, c) PROVE Lists' /\ Devices'
  BY <1>4, OutsideStep DEF RetainContext, ReleaseContext, initVars, devVars
<1>5. CASE UNCHANGED vars
  BY <1>5, OutsideStep DEF vars, initVars, devVars
<1> QED
  BY <1>1, <1>2, <1>3, <1>4, <1>5, FirstSteps, LoopSteps, EnterSteps, LeaveSteps DEF Next, Step, AppStep

-----------------------------------------------------------------------------
LEMMA InitIInv ==
  ASSUME Init
  PROVE  IInv
<1> USE ContextsAssumption DEF Init
<1>1. TypeOK
  <2>1. <<>> \in Seq({"zero", "up", "down"}) /\ 0 \in 0..(UINT - 1) /\ 0 \in 0..MaxFaults
    OBVIOUS
  <2>2. /\ refs \in [Contexts -> Nat] /\ valid \in [Contexts -> BOOLEAN]
        /\ pc \in [Threads -> {"idle", "test", "lock", "probe", "allocate", "first", "reinit",
                         "unlock", "failed", "read", "uninit", "down", "downDone"}]
        /\ call \in [Threads -> {"none", "get", "create", "type"}]
    OBVIOUS
  <2>3. /\ init_in_progress \in BOOLEAN /\ first_init_done \in BOOLEAN /\ devices_active \in BOOLEAN
        /\ seen \in BOOLEAN
    OBVIOUS
  <2>4. /\ pocl_num_devices \in Nat /\ index \in Nat \ {0}
        /\ init_lock \in Threads \cup {None} /\ context_lock \in Threads \cup {None}
    OBVIOUS
  <2> QED BY <2>1, <2>2, <2>3, <2>4 DEF TypeOK
<1>2. Locks
  BY DEF Locks, InInit, InUninit
<1>3. Alone
  BY DEF Alone
<1>4. Lists
  BY DEF Lists
<1>5. Devices
  BY DEF Devices
<1> QED BY <1>1, <1>2, <1>3, <1>4, <1>5 DEF IInv

LEMMA StepIInv ==
  ASSUME IInv, [Next]_vars
  PROVE  IInv'
BY TypeStep, LocksStep, AloneStep, DevicesStep DEF IInv

\* Whatever the threads do, and whichever initializations fail, pocl_init_lock
\* has one holder, which is where init_in_progress says, and the devices the
\* loops of pocl_reinit_devices and pocl_uninit_devices have passed over are
\* those before dev_index.
THEOREM Invariance == Spec => []IInv
<1>1. Init => IInv
  BY InitIInv
<1>2. IInv /\ [Next]_vars => IInv'
  BY StepIInv
<1> QED BY <1>1, <1>2, PTL DEF Spec

\* The variables of the initialization have their types: the count of contexts
\* stays an unsigned integer, and no loop writes behind the list of devices
\* (pocl_init_devices, clCreateContext, clReleaseContext).
THEOREM TypeCorrect == Spec => []TypeOK
<1>1. IInv => TypeOK
  BY DEF IInv
<1> QED BY <1>1, Invariance, PTL

\* A device is initialized again only when it is down, shut down only when it
\* is up, and devices_active says which between such calls
\* (pocl_init_devices, pocl_uninit_devices).
THEOREM DevicesInTurn == Spec => []DevicesBalanced
<1>1. ASSUME IInv PROVE DevicesBalanced
  <2>1. ASSUME NEW t \in Threads, NEW before, NEW after, Passing(before, after), Cycles
        PROVE  pocl_devices[index] = after
    <3>1. index \in Int /\ index \in Reinitable /\ 1..(index - 1) \subseteq Reinitable
      BY <1>1, <2>1 DEF IInv, TypeOK, Passing, Cycles
    <3>2. 1..index \subseteq Reinitable
      BY <3>1
    <3> QED BY <2>1, <3>1, <3>2 DEF Passing, Cycled
  <2>2. \A t \in Threads : /\ pc[t] = "reinit" => Passing("up", "down")
                          /\ pc[t] = "down" => Passing("down", "up")
    BY <1>1 DEF IInv, Devices
  <2> QED BY <1>1, <2>1, <2>2 DEF DevicesBalanced, IInv, Devices
<1> QED BY <1>1, Invariance, PTL

\* If nobody calls the library during the first initialization, whoever walks
\* the list of devices finds as many as pocl_num_devices says, also after
\* initializations that failed (pocl_get_devices, pocl_init_devices).
THEOREM ListComplete == FirstAlone => (Spec => []ListReady)
<1> SUFFICES ASSUME FirstAlone PROVE Spec => []ListReady
  OBVIOUS
<1>1. ASSUME IInv PROVE ListReady
  <2> SUFFICES ASSUME NEW t \in Threads, pc[t] \in {"read", "first"}
               PROVE  Len(pocl_devices) = pocl_num_devices
    BY DEF ListReady
  <2>1. ASSUME NEW u \in Threads, pc[u] = "allocate" PROVE FALSE
    <3>1. ~first_init_done
      BY <1>1, <2>1 DEF IInv, Lists
    <3> QED BY <1>1, <2>1, <3>1 DEF IInv, Alone
  <2> QED BY <1>1, <2>1 DEF IInv, Lists
<1> QED BY <1>1, Invariance, PTL
=============================================================================
