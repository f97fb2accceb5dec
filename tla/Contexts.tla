------------------------------ MODULE Contexts ------------------------------
(***************************************************************************)
(* Contexts and the devices behind them: pocl_init_devices,                *)
(* pocl_reinit_devices and pocl_uninit_devices (devices/devices.c) called  *)
(* from clGetDeviceIDs, clCreateContext, clCreateContextFromType and       *)
(* clUnloadCompiler (pocl_check_uninit_devices, with POCL_ENABLE_UNINIT).  *)
(*                                                                         *)
(* pocl_init_devices tests init_in_progress without a lock, because the    *)
(* initialization of a device may call the library again (through a plugin *)
(* of libhwloc).  The contexts are counted under a lock of their own,      *)
(* which a creating thread keeps while it initializes the devices.         *)
(*                                                                         *)
(* A definition X preceded by X<Suffix> with the same parameters is the    *)
(* code; the other is a mistake the code could have made.                  *)
(***************************************************************************)
EXTENDS Integers, Sequences

CONSTANTS
  Threads,      \* application threads
  Contexts,     \* the contexts there may be at one time
  NumDevices,   \* devices a probe finds
  Reinitable,   \* those whose driver has the operations uninit and reinit
  FirstAlone,   \* nobody calls the library during the first initialization
  MaxRefs,      \* bound on the references to a context
  MaxFaults,    \* bound on the devices whose first initialization fails
  UINT,         \* unsigned integers are less than this
  None          \* no thread

ASSUME ContextsAssumption ==
  /\ None \notin Threads
  /\ NumDevices \in Nat /\ Reinitable \subseteq 1..NumDevices
  /\ FirstAlone \in BOOLEAN
  /\ MaxRefs \in Nat /\ MaxFaults \in Nat /\ UINT \in Nat \ {0}

VARIABLES
  init_in_progress,
  first_init_done,
  devices_active,
  pocl_num_devices,
  pocl_devices,      \* the state of each device; <<>> is NULL
  init_lock,         \* who holds pocl_init_lock
  context_lock,      \* who holds pocl_context_handling_lock
  cl_context_count,
  refs,              \* context->pocl_refcount, 0 when there is no context
  valid,             \* context->valid
  pc,                \* where a thread is in its call
  call,              \* the call it makes
  index,             \* dev_index of the thread that holds pocl_init_lock
  seen,              \* the application has got devices from clGetDeviceIDs
  faults             \* initializations that failed

initVars == <<init_in_progress, first_init_done, devices_active, index>>
devVars  == <<pocl_num_devices, pocl_devices>>
ctxVars  == <<cl_context_count, refs, valid>>
vars == <<initVars, devVars, ctxVars, init_lock, context_lock, pc, call, seen, faults>>

-----------------------------------------------------------------------------
Init ==
  /\ init_in_progress = FALSE /\ first_init_done = FALSE /\ devices_active = FALSE
  /\ pocl_num_devices = 0 /\ pocl_devices = <<>>
  /\ init_lock = None /\ context_lock = None
  /\ cl_context_count = 0
  /\ refs  = [c \in Contexts |-> 0]
  /\ valid = [c \in Contexts |-> FALSE]
  /\ pc   = [t \in Threads |-> "idle"]
  /\ call = [t \in Threads |-> "none"]
  /\ index = 1 /\ seen = FALSE /\ faults = 0

Goto(t, l) == pc' = [pc EXCEPT ![t] = l]

-----------------------------------------------------------------------------
(* pocl_init_devices *)

\* A call that needs devices; those that create a context hold the context lock
\* until they return.
Call(t, op) ==
  /\ pc[t] = "idle"
  /\ FirstAlone /\ ~first_init_done => \A u \in Threads : pc[u] = "idle"
  /\ op = "create" => seen
  /\ IF op = "get" THEN UNCHANGED context_lock
                   ELSE context_lock = None /\ context_lock' = t
  /\ call' = [call EXCEPT ![t] = op]
  /\ Goto(t, "test")
  /\ UNCHANGED <<initVars, devVars, ctxVars, init_lock, seen, faults>>

\* The test that needs no lock, and reports success.
TestInProgress(t) ==
  /\ pc[t] = "test"
  /\ Goto(t, IF init_in_progress THEN "read" ELSE "lock")
  /\ UNCHANGED <<initVars, devVars, ctxVars, init_lock, context_lock, call, seen, faults>>

LockInitUnflagged(t) ==
  /\ pc[t] = "lock" /\ init_lock = None
  /\ init_lock' = t /\ index' = 1
  /\ Goto(t, IF ~first_init_done THEN "probe"
             ELSE IF devices_active THEN "unlock" ELSE "reinit")
  /\ UNCHANGED <<init_in_progress, first_init_done, devices_active, devVars, ctxVars,
                 context_lock, call, seen, faults>>

LockInit(t) ==
  /\ pc[t] = "lock" /\ init_lock = None
  /\ init_lock' = t /\ init_in_progress' = TRUE /\ index' = 1
  /\ Goto(t, IF ~first_init_done THEN "probe"
             ELSE IF devices_active THEN "unlock" ELSE "reinit")
  /\ UNCHANGED <<first_init_done, devices_active, devVars, ctxVars, context_lock,
                 call, seen, faults>>

\* The devices are counted, on top of what a failed initialization counted ...
Probe(t) ==
  /\ pc[t] = "probe"
  /\ pocl_num_devices' = pocl_num_devices + NumDevices
  /\ Goto(t, IF pocl_num_devices' = 0 THEN "failed" ELSE "allocate")
  /\ UNCHANGED <<initVars, ctxVars, pocl_devices, init_lock, context_lock, call, seen, faults>>

\* ... and the list is allocated afterwards, all zero.
AllocatedProbed == NumDevices
Allocated == pocl_num_devices
Allocate(t) ==
  /\ pc[t] = "allocate"
  /\ pocl_devices' = [i \in 1..Allocated |-> "zero"]
  /\ Goto(t, "first")
  /\ UNCHANGED <<initVars, ctxVars, pocl_num_devices, init_lock, context_lock, call, seen, faults>>

\* ops->init of one device, which calls the library again: that call has to
\* return at the test of init_in_progress, its thread holds pocl_init_lock.
InitDevice(t) ==
  /\ pc[t] = "first" /\ index <= NumDevices /\ init_in_progress
  /\ \/ /\ pocl_devices' = [pocl_devices EXCEPT ![index] = "up"]
        /\ index' = index + 1
        /\ UNCHANGED <<pc, faults>>
     \/ /\ faults < MaxFaults /\ faults' = faults + 1
        /\ Goto(t, "failed")
        /\ UNCHANGED <<pocl_devices, index>>
  /\ UNCHANGED <<init_in_progress, first_init_done, devices_active, pocl_num_devices,
                 ctxVars, init_lock, context_lock, call, seen>>

FirstDone(t) ==
  /\ pc[t] = "first" /\ index > NumDevices
  /\ first_init_done' = TRUE /\ devices_active' = TRUE
  /\ Goto(t, "unlock")
  /\ UNCHANGED <<init_in_progress, index, devVars, ctxVars, init_lock, context_lock,
                 call, seen, faults>>

\* dev_index advances only over devices with uninit and reinit: at the first
\* one without them the loop looks at that device until it ends.
Cycles == index \in Reinitable

ReinitDevice(t) ==
  /\ pc[t] = "reinit" /\ Cycles
  /\ pocl_devices' = [pocl_devices EXCEPT ![index] = "up"]
  /\ index' = index + 1
  /\ UNCHANGED <<init_in_progress, first_init_done, devices_active, pocl_num_devices,
                 ctxVars, init_lock, context_lock, pc, call, seen, faults>>

ReinitDone(t) ==
  /\ pc[t] = "reinit" /\ ~Cycles
  /\ devices_active' = TRUE
  /\ Goto(t, "unlock")
  /\ UNCHANGED <<init_in_progress, first_init_done, index, devVars, ctxVars, init_lock,
                 context_lock, call, seen, faults>>

\* After a failure the caller returns at once.
UnlockInit(t) ==
  /\ pc[t] \in {"unlock", "failed"}
  /\ init_in_progress' = FALSE /\ init_lock' = None
  /\ IF pc[t] = "unlock"
     THEN Goto(t, "read") /\ UNCHANGED <<context_lock, call>>
     ELSE /\ Goto(t, "idle") /\ call' = [call EXCEPT ![t] = "none"]
          /\ context_lock' = IF context_lock = t THEN None ELSE context_lock
  /\ UNCHANGED <<first_init_done, devices_active, index, devVars, ctxVars, seen, faults>>

-----------------------------------------------------------------------------
(* What follows the initialization *)

\* A device that was never initialized is not available.
Available == {i \in DOMAIN pocl_devices : pocl_devices[i] # "zero"}

\* clGetDeviceIDs.
GetDeviceIDs(t) ==
  /\ pc[t] = "read" /\ call[t] = "get"
  /\ seen' = (seen \/ Available # {})
  /\ call' = [call EXCEPT ![t] = "none"]
  /\ Goto(t, "idle")
  /\ UNCHANGED <<initVars, devVars, ctxVars, init_lock, context_lock, faults>>

CountUpUnbounded == cl_context_count + 1
CountUp == (cl_context_count + 1) % UINT
CountDown == (cl_context_count - 2) % UINT

\* clCreateContext and clCreateContextFromType: a context of devices, or a dummy
\* that is not counted if no device has the type asked for.
CreateContext(t, c, found) ==
  /\ pc[t] = "read" /\ call[t] \in {"create", "type"} /\ refs[c] = 0
  /\ ~found => call[t] = "type"
  /\ found => Available # {}
  /\ refs'  = [refs EXCEPT ![c] = 1]
  /\ valid' = [valid EXCEPT ![c] = found]
  /\ cl_context_count' = IF found THEN CountUp ELSE cl_context_count
  /\ context_lock' = None
  /\ call' = [call EXCEPT ![t] = "none"]
  /\ Goto(t, "idle")
  /\ UNCHANGED <<initVars, devVars, init_lock, seen, faults>>

RetainContext(t, c) ==
  /\ pc[t] = "idle" /\ refs[c] \in 1..(MaxRefs - 1)
  /\ refs' = [refs EXCEPT ![c] = @ + 1]
  /\ UNCHANGED <<initVars, devVars, cl_context_count, valid, init_lock, context_lock,
                 pc, call, seen, faults>>

\* clReleaseContext: a dummy is freed by the first release, and not counted.
\* The count goes down by two.
ReleaseContext(t, c) ==
  /\ pc[t] = "idle" /\ refs[c] > 0
  /\ valid[c] => context_lock = None
  /\ refs' = [refs EXCEPT ![c] = IF valid[c] THEN @ - 1 ELSE 0]
  /\ cl_context_count' = IF valid[c] /\ refs[c] = 1 THEN CountDown ELSE cl_context_count
  /\ UNCHANGED <<initVars, devVars, valid, init_lock, context_lock, pc, call, seen, faults>>

-----------------------------------------------------------------------------
(* pocl_check_uninit_devices *)

\* The count is read under the context lock and acted upon after it.
CheckUninit(t) ==
  /\ pc[t] = "idle" /\ context_lock = None
  /\ FirstAlone /\ ~first_init_done => \A u \in Threads : pc[u] = "idle"
  /\ Goto(t, IF cl_context_count = 0 THEN "uninit" ELSE "idle")
  /\ UNCHANGED <<initVars, devVars, ctxVars, init_lock, context_lock, call, seen, faults>>

LockUninit(t) ==
  /\ pc[t] = "uninit" /\ init_lock = None
  /\ init_lock' = t /\ index' = 1
  /\ Goto(t, IF devices_active /\ pocl_num_devices > 0 THEN "down" ELSE "downDone")
  /\ UNCHANGED <<init_in_progress, first_init_done, devices_active, devVars, ctxVars,
                 context_lock, call, seen, faults>>

UninitDevice(t) ==
  /\ pc[t] = "down" /\ Cycles
  /\ pocl_devices' = [pocl_devices EXCEPT ![index] = "down"]
  /\ index' = index + 1
  /\ UNCHANGED <<init_in_progress, first_init_done, devices_active, pocl_num_devices,
                 ctxVars, init_lock, context_lock, pc, call, seen, faults>>

UninitDoneActive(t) ==
  /\ pc[t] = "downDone" \/ (pc[t] = "down" /\ ~Cycles)
  /\ init_lock' = None
  /\ Goto(t, "idle")
  /\ UNCHANGED <<initVars, devVars, ctxVars, context_lock, call, seen, faults>>

UninitDone(t) ==
  /\ pc[t] = "downDone" \/ (pc[t] = "down" /\ ~Cycles)
  /\ devices_active' = FALSE /\ init_lock' = None
  /\ Goto(t, "idle")
  /\ UNCHANGED <<init_in_progress, first_init_done, index, devVars, ctxVars,
                 context_lock, call, seen, faults>>

-----------------------------------------------------------------------------
\* What a thread inside the library does next.
Step(t) ==
  \/ TestInProgress(t) \/ LockInit(t) \/ Probe(t) \/ Allocate(t) \/ InitDevice(t)
  \/ FirstDone(t) \/ ReinitDevice(t) \/ ReinitDone(t) \/ UnlockInit(t) \/ GetDeviceIDs(t)
  \/ \E c \in Contexts, found \in BOOLEAN : CreateContext(t, c, found)
  \/ LockUninit(t) \/ UninitDevice(t) \/ UninitDone(t)

AppStep(t) ==
  \/ CheckUninit(t)
  \/ \E op \in {"get", "create", "type"} :
       Call(t, op) /\ (op # "get" => \E c \in Contexts : refs[c] = 0)
  \/ \E c \in Contexts : RetainContext(t, c) \/ ReleaseContext(t, c)

Next == \E t \in Threads : Step(t) \/ AppStep(t)

Spec == Init /\ [][Next]_vars

\* Threads inside the library keep running, and a thread that waits for a lock
\* that is free again and again gets it at last.
FairSpec == Spec /\ \A t \in Threads : SF_vars(Step(t))

-----------------------------------------------------------------------------
(* Properties *)

\* The values of the variables.
TypeOK ==
  /\ init_in_progress \in BOOLEAN /\ first_init_done \in BOOLEAN /\ devices_active \in BOOLEAN
  /\ pocl_num_devices \in Nat
  /\ pocl_devices \in Seq({"zero", "up", "down"})
  /\ init_lock \in Threads \cup {None} /\ context_lock \in Threads \cup {None}
  /\ cl_context_count \in 0..(UINT - 1)
  /\ refs \in [Contexts -> Nat] /\ valid \in [Contexts -> BOOLEAN]
  /\ pc \in [Threads -> {"idle", "test", "lock", "probe", "allocate", "first", "reinit",
                         "unlock", "failed", "read", "uninit", "down", "downDone"}]
  /\ call \in [Threads -> {"none", "get", "create", "type"}]
  /\ index \in Nat \ {0} /\ seen \in BOOLEAN /\ faults \in 0..MaxFaults

\* Who walks the list of devices, without a lock in clGetDeviceIDs and within
\* the initialization of a device, finds as many as pocl_num_devices says, in
\* spite of initializations that fail and count again (pocl_get_devices,
\* pocl_get_device_type_count).
ListReady ==
  \A t \in Threads : pc[t] \in {"read", "first"} => Len(pocl_devices) = pocl_num_devices

\* A device is initialized again only when it is down and shut down only when
\* it is up, whichever threads do it, and between such calls devices_active
\* says which of the two it is (pocl_init_devices, pocl_uninit_devices).
Cycled == {i \in Reinitable : 1..i \subseteq Reinitable}
AllCycled(s) == \A i \in Cycled : pocl_devices[i] = s
DevicesBalanced ==
  /\ \A t \in Threads :
       /\ pc[t] = "reinit" /\ Cycles => pocl_devices[index] = "down"
       /\ pc[t] = "down" /\ Cycles => pocl_devices[index] = "up"
  /\ first_init_done /\ init_lock = None => AllCycled(IF devices_active THEN "up" ELSE "down")

\* Every call returns: the locks are taken in one order, and the library does
\* not wait for itself when the initialization of a device calls it again.
CallsReturn == \A t \in Threads : pc[t] # "idle" ~> pc[t] = "idle"
=============================================================================
