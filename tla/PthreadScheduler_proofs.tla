------------------------ MODULE PthreadScheduler_proofs ------------------------
(* Theorems about PthreadScheduler, for every value of its constants. *)
EXTENDS PthreadSchedulerInv, FiniteSetTheorems, NaturalsInduction, WellFoundedInduction,
        TLAPS

PcValues == {"start", "sleep", "deal", "unlink", "groups", "leave",
             "finalize", "check", "command", "execute", "push", "exited"}

-----------------------------------------------------------------------------
(* Arithmetic *)

\* Rounding up the share of n threads gives at least one and at most everything.
LEMMA ShareBounds ==
  ASSUME NEW r \in Nat, r > 0, NEW n \in Nat, n > 0
  PROVE  (r - 1) \div n \in 0..(r - 1)
<1> DEFINE q == (r - 1) \div n
<1>1. q \in Int /\ (r - 1) - n * q >= 0 /\ (r - 1) - n * q < n
  OBVIOUS
<1>2. q >= 0
  <2>1. SUFFICES ASSUME q <= -1 PROVE FALSE
    BY <1>1
  <2>2. n * q <= -n
    BY <1>1, <2>1
  <2> QED BY <1>1, <2>2
<1>3. n * q >= q
  BY <1>1, <1>2
<1> QED BY <1>1, <1>2, <1>3

LEMMA SmallMod ==
  ASSUME NEW m \in Nat, NEW x \in Nat, x < m PROVE x % m = x
OBVIOUS

\* A thread is dealt at least one work-group and no more than there are.
LEMMA ChunkBounds ==
  ASSUME SmallKernels, NEW r \in 1..MaxGroups PROVE Chunk(r) \in 1..r
<1> DEFINE most  == MaxWGs * NumThreads
           limit == IF r <= most * NumThreads THEN MinWGs * NumThreads ELSE most
           share == 1 + (r - 1) \div NumThreads
<1>1. MaxWGs \in Nat \ {0} /\ MinWGs \in Nat \ {0} /\ NumThreads \in Nat \ {0} /\ UINT \in Nat /\ MaxGroups \in Nat
  BY ConstantsAssumption
<1>2. most \in Nat \ {0} /\ MinWGs * NumThreads \in Nat \ {0}
  BY <1>1
<1>3. limit \in Nat \ {0}
  BY <1>2
<1>4. (r - 1) \div NumThreads \in 0..(r - 1)
  BY <1>1, ShareBounds
<1>5. share \in 1..r /\ share < UINT
  BY <1>1, <1>4 DEF SmallKernels
<1>6. share % UINT = share
  BY <1>1, <1>5, SmallMod
<1>7. Chunk(r) = Smaller(Smaller(limit, share), r)
  BY <1>6 DEF Chunk
<1> HIDE DEF share, limit
<1> QED BY <1>3, <1>5, <1>7 DEF Smaller

-----------------------------------------------------------------------------
(* Types *)

\* A thread that looks for a command keeps the types of what it changes.
LEMMA TakeCommandType ==
  ASSUME TypeOK, NEW t \in Thread, NEW x \in BOOLEAN, NEW y \in BOOLEAN, TakeCommand(t, x, y)
  PROVE  /\ work_queue' \in SUBSET Command
         /\ cmd' \in [Thread -> Command \cup {None}]
         /\ pc' \in [Thread -> PcValues]
         /\ \A u \in Thread : u # t => pc'[u] = pc[u] /\ cmd'[u] = cmd[u]
         /\ pc'[t] \in {"exited", "start", "sleep", "command"}
         /\ pc'[t] = "command" => cmd'[t] \in Command
BY ZenonT(60) DEF TypeOK, TakeCommand, Goto, PcValues

\* Every variable keeps its type.
LEMMA TypeStep ==
  ASSUME SmallKernels, TypeOK, Dealing, Places, Roles, [Next]_vars PROVE TypeOK'
<1>0. CASE UNCHANGED vars
  BY <1>0 DEF TypeOK, vars, cmdVars, kernelVars, queueVars, localVars, poolVars
<1>1. ASSUME NEW d \in Devices, NEW n \in GroupCounts, PushCommand(d, n) PROVE TypeOK'
  <2>1. n \in 0..MaxGroups /\ pushed + 1 \in Command
    BY <1>1, ConstantsAssumption DEF PushCommand, TypeOK, Command
  <2>2. /\ pc' \in [Thread -> PcValues]
        /\ \A t \in Thread : pc'[t] = pc[t] \/ pc'[t] = "start"
    BY <1>1 DEF PushCommand, TypeOK, PcWoken, Woken, PcValues
  <2>3. /\ device' \in [Command -> Devices \cup {None}] /\ groups' \in [Command -> 0..MaxGroups]
        /\ state' \in [Command -> {"new", "queued", "running", "done"}]
        /\ work_queue' \in SUBSET Command /\ pushed' \in 0..MaxCommands
    BY <1>1, <2>1, ConstantsAssumption, SMTT(30) DEF PushCommand, TypeOK, Command
  <2> QED BY <1>1, <2>2, <2>3 DEF PushCommand, TypeOK, PcValues, kernelVars, localVars, poolVars
<1>2. ASSUME NEW t \in Thread, TakeKernel(t) PROVE TypeOK'
  BY <1>2 DEF TakeKernel, TypeOK, MyKernels, Goto, cmdVars, queueVars, poolVars
<1>3. ASSUME NEW t \in Thread, NoKernel(t) PROVE TypeOK'
  <2>1. TakeCommand(t, shutdown, FALSE) /\ shutdown \in BOOLEAN
    BY <1>3 DEF NoKernel, TypeOK
  <2> QED BY <1>3, <2>1, TakeCommandType, ZenonT(60) DEF NoKernel, TypeOK, PcValues, cmdVars, kernelVars, poolVars
<1>4. ASSUME NEW t \in Thread, Deal(t) PROVE TypeOK'
  <2> DEFINE k == run_cmd[t] r == remaining_wgs[k] n == Chunk(r)
  <2>1. k \in Command /\ state[k] = "running" /\ groups[k] \in 0..MaxGroups
    BY <1>4, ConstantsAssumption DEF Deal, TypeOK, Places, RunKernels, Roles, InKernel
  <2>2. CASE r = 0
    BY <1>4, <2>2 DEF Deal, TypeOK, Goto, cmdVars, queueVars, poolVars
  <2>3. CASE r # 0
    <3>1. r \in 1..MaxGroups
      BY <2>1, <2>3, ConstantsAssumption DEF TypeOK, Dealing, Balanced
    <3>2. n \in 1..r
      BY <3>1, ChunkBounds
    <3>3. /\ remaining_wgs' = [remaining_wgs EXCEPT ![k] = @ - n]
          /\ wgs_dealt' = [wgs_dealt EXCEPT ![k] = @ + n]
          /\ start_index' = [start_index EXCEPT ![t] = wgs_dealt[k] % UINT]
          /\ end_index' = [end_index EXCEPT ![t] = (wgs_dealt[k] + n - 1) % UINT]
          /\ pc' = [pc EXCEPT ![t] = IF r = n THEN "unlink" ELSE "groups"]
      BY <1>4, <2>3 DEF Deal, Goto
    <3>4. wgs_dealt[k] % UINT \in Nat /\ (wgs_dealt[k] + n - 1) % UINT \in Nat
      <4>1. UINT \in Nat \ {0} /\ wgs_dealt[k] \in Nat /\ wgs_dealt[k] + n - 1 \in Nat
        BY <2>1, <3>2, ConstantsAssumption DEF TypeOK, SmallKernels
      <4> HIDE DEF n, k
      <4> QED BY <4>1
    <3> HIDE DEF n
    <3>5. /\ remaining_wgs' \in [Command -> Nat] /\ wgs_dealt' \in [Command -> Nat]
      BY <2>1, <3>1, <3>2, <3>3 DEF TypeOK
    <3>6. start_index' \in [Thread -> Nat] /\ end_index' \in [Thread -> Nat]
      BY <3>3, <3>4 DEF TypeOK
    <3> QED BY <1>4, <3>3, <3>5, <3>6 DEF Deal, TypeOK, cmdVars, queueVars, poolVars
  <2> QED BY <2>2, <2>3
<1>5. ASSUME NEW t \in Thread, Unlink(t) PROVE TypeOK'
  BY <1>5 DEF Unlink, TypeOK, Goto, cmdVars, kernelVars, localVars, poolVars
<1>6. ASSUME NEW t \in Thread, RunGroups(t) PROVE TypeOK'
  <2>1. times' \in [Command -> [Group -> Nat]]
    BY <1>6 DEF RunGroups, TypeOK
  <2> QED BY <1>6, <2>1 DEF RunGroups, TypeOK, Goto, cmdVars, queueVars, kernelVars, localVars, poolVars
<1>7. ASSUME NEW t \in Thread, Leave(t) PROVE TypeOK'
  <2>0. ref_count' \in [Command -> Int] /\ run_cmd[t] \in Command
    BY <1>7 DEF Leave, TypeOK
  <2>1. CASE LastUser(run_cmd[t])
    BY <1>7, <2>0, <2>1 DEF Leave, TypeOK, Goto, cmdVars, poolVars
  <2>2. CASE ~LastUser(run_cmd[t])
    <3>1. TakeCommand(t, do_exit[t], TRUE) /\ do_exit[t] \in BOOLEAN
      BY <1>7, <2>2 DEF Leave, TypeOK
    <3>2. run_cmd' = [run_cmd EXCEPT ![t] = None]
      BY <1>7, <2>2 DEF Leave
    <3>3. /\ work_queue' \in SUBSET Command /\ cmd' \in [Thread -> Command \cup {None}]
          /\ pc' \in [Thread -> PcValues] /\ run_cmd' \in [Thread -> Command \cup {None}]
      BY <3>1, <3>2, TakeCommandType DEF TypeOK
    <3>4. ASSUME NEW u \in Thread
          PROVE  /\ pc'[u] \in {"deal", "unlink", "groups", "leave", "finalize"} => run_cmd'[u] \in Command
                 /\ pc'[u] \in {"command", "execute", "push"} => cmd'[u] \in Command
      <4>1. CASE u = t
        BY <3>1, <4>1, TakeCommandType
      <4>2. CASE u # t
        <5>1. pc'[u] = pc[u] /\ cmd'[u] = cmd[u]
          BY <3>1, <4>2, TakeCommandType
        <5> QED BY <3>2, <4>2, <5>1 DEF TypeOK
      <4> QED BY <4>1, <4>2
    <3> QED BY <1>7, <2>0, <3>3, <3>4 DEF Leave, TypeOK, PcValues, cmdVars, poolVars
  <2> QED BY <2>1, <2>2
<1>8. ASSUME NEW t \in Thread, Finalize(t) PROVE TypeOK'
  BY <1>8 DEF Finalize, TypeOK, Goto, cmdVars, queueVars, kernelVars, poolVars
<1>9. ASSUME NEW t \in Thread, Check(t) PROVE TypeOK'
  <2>1. TakeCommand(t, do_exit[t], TRUE) /\ do_exit[t] \in BOOLEAN
    BY <1>9 DEF Check, TypeOK
  <2> QED BY <1>9, <2>1, TakeCommandType, ZenonT(60) DEF Check, TypeOK, PcValues, cmdVars, kernelVars, poolVars
<1>10. ASSUME NEW t \in Thread, StartCommand(t) PROVE TypeOK'
  <2>1. cmd[t] \in Command /\ groups[cmd[t]] \in Nat
    BY <1>10, ConstantsAssumption DEF StartCommand, TypeOK
  <2> QED BY <1>10, <2>1 DEF StartCommand, TypeOK, Goto, cmdVars, queueVars, localVars, poolVars
<1>11. ASSUME NEW t \in Thread, PushKernel(t) PROVE TypeOK'
  <2>1. \A u \in Thread : pc'[u] \in PcValues
    BY <1>11 DEF PushKernel, TypeOK, PcWoken, Woken, AfterCommand, PcValues
  <2> QED BY <1>11, <2>1 DEF PushKernel, TypeOK, PcWoken, Woken, AfterCommand, PcValues, cmdVars, kernelVars, poolVars
<1>12. ASSUME NEW t \in Thread, ExecCommand(t) PROVE TypeOK'
  BY <1>12 DEF ExecCommand, TypeOK, Goto, AfterCommand, cmdVars, queueVars, kernelVars, poolVars
<1>13. CASE RequestShutdown
  BY <1>13 DEF RequestShutdown, TypeOK, PcWoken, Woken, cmdVars, queueVars, kernelVars, localVars
<1>14. CASE JoinThreads
  BY <1>14 DEF JoinThreads, TypeOK, cmdVars, queueVars, kernelVars, localVars
<1>15. CASE InitPool
  BY <1>15 DEF InitPool, TypeOK, cmdVars, queueVars, kernelVars, localVars
<1> QED BY <1>0, <1>1, <1>2, <1>3, <1>4, <1>5, <1>6, <1>7, <1>8, <1>9, <1>10, <1>11, <1>12,
          <1>13, <1>14, <1>15 DEF Next, ThreadStep

-----------------------------------------------------------------------------
(* Who holds what *)

\* Looking for a command keeps the roles of a thread that has left its kernel.
LEMMA TakeCommandRoles ==
  ASSUME TypeOK, Roles, up' = up, NEW t \in Thread, NEW x \in BOOLEAN, NEW y \in BOOLEAN,
         TakeCommand(t, x, y), cmd[t] = None, run_cmd'[t] = None, pc[t] # "exited",
         \A u \in Thread : u # t => run_cmd'[u] = run_cmd[u]
  PROVE  Roles'
<1>1. None \notin Command
  BY ConstantsAssumption
<1>2. /\ \A u \in Thread : u # t => pc'[u] = pc[u] /\ cmd'[u] = cmd[u]
      /\ \/ pc'[t] \in {"exited", "start", "sleep"} /\ cmd'[t] = None
         \/ pc'[t] = "command" /\ cmd'[t] \in Command
  BY DEF TakeCommand, TypeOK, Goto
<1>3. \A u \in Thread : (InKernel(u)' <=> run_cmd'[u] # None) /\ (InCommand(u)' <=> cmd'[u] # None)
  BY <1>1, <1>2 DEF Roles, InKernel, InCommand
<1>4. up
  BY DEF Roles
<1> QED BY <1>3, <1>4 DEF Roles

\* A thread keeps a kernel or a command exactly where the code uses it.
LEMMA RolesStep ==
  ASSUME TypeOK, Roles, [Next]_vars PROVE Roles'
<1> USE DEF Roles, InKernel, InCommand, TypeOK, Goto
<1>n. None \notin Command
  BY ConstantsAssumption
<1>0. CASE UNCHANGED vars
  BY <1>0 DEF vars, localVars, poolVars
<1>1. ASSUME NEW d \in Devices, NEW n \in GroupCounts, PushCommand(d, n) PROVE Roles'
  BY <1>1 DEF PushCommand, PcWoken, Woken, localVars, poolVars
<1>2. ASSUME NEW t \in Thread, TakeKernel(t) PROVE Roles'
  BY <1>2, <1>n DEF TakeKernel, MyKernels, poolVars
<1>3. ASSUME NEW t \in Thread, NoKernel(t) PROVE Roles'
  <2>1. /\ TakeCommand(t, shutdown, FALSE) /\ cmd[t] = None /\ run_cmd[t] = None /\ pc[t] # "exited"
        /\ UNCHANGED <<up, run_cmd>>
    BY <1>3 DEF NoKernel, poolVars
  <2> QED BY <2>1, TakeCommandRoles
<1>4. ASSUME NEW t \in Thread, Deal(t) PROVE Roles'
  BY <1>4 DEF Deal, poolVars
<1>5. ASSUME NEW t \in Thread, Unlink(t) PROVE Roles'
  BY <1>5 DEF Unlink, localVars, poolVars
<1>6. ASSUME NEW t \in Thread, RunGroups(t) PROVE Roles'
  BY <1>6 DEF RunGroups, localVars, poolVars
<1>7. ASSUME NEW t \in Thread, Leave(t) PROVE Roles'
  <2>1. CASE LastUser(run_cmd[t])
    BY <1>7, <2>1 DEF Leave, poolVars
  <2>2. CASE ~LastUser(run_cmd[t])
    <3>1. /\ TakeCommand(t, do_exit[t], TRUE) /\ cmd[t] = None /\ pc[t] # "exited"
          /\ do_exit[t] \in BOOLEAN /\ run_cmd' = [run_cmd EXCEPT ![t] = None] /\ UNCHANGED up
      BY <1>7, <2>2 DEF Leave, poolVars
    <3>2. run_cmd'[t] = None /\ \A u \in Thread : u # t => run_cmd'[u] = run_cmd[u]
      BY <3>1
    <3> HIDE DEF TypeOK, Roles, InKernel, InCommand, Goto
    <3> QED BY <3>1, <3>2, TakeCommandRoles
  <2> QED BY <2>1, <2>2
<1>8. ASSUME NEW t \in Thread, Finalize(t) PROVE Roles'
  BY <1>8 DEF Finalize, poolVars
<1>9. ASSUME NEW t \in Thread, Check(t) PROVE Roles'
  <2>1. /\ TakeCommand(t, do_exit[t], TRUE) /\ cmd[t] = None /\ run_cmd[t] = None /\ pc[t] # "exited"
        /\ UNCHANGED <<up, run_cmd>>
    BY <1>9 DEF Check, poolVars
  <2> QED BY <2>1, TakeCommandRoles
<1>10. ASSUME NEW t \in Thread, StartCommand(t) PROVE Roles'
  BY <1>10 DEF StartCommand, localVars, poolVars
<1>11. ASSUME NEW t \in Thread, PushKernel(t) PROVE Roles'
  BY <1>11 DEF PushKernel, PcWoken, Woken, AfterCommand, poolVars
<1>12. ASSUME NEW t \in Thread, ExecCommand(t) PROVE Roles'
  BY <1>12 DEF ExecCommand, AfterCommand, poolVars
<1>13. CASE RequestShutdown
  BY <1>13 DEF RequestShutdown, PcWoken, Woken, localVars
<1>14. CASE JoinThreads
  BY <1>14 DEF JoinThreads, localVars
<1>15. CASE InitPool
  BY <1>15 DEF InitPool, localVars
<1> QED BY <1>0, <1>1, <1>2, <1>3, <1>4, <1>5, <1>6, <1>7, <1>8, <1>9, <1>10, <1>11, <1>12,
          <1>13, <1>14, <1>15 DEF Next, ThreadStep

\* Looking for a command keeps every command in one place, whether the thread
\* comes from a kernel or not.
LEMMA TakeCommandPlaces ==
  ASSUME TypeOK, Roles, Places, NEW t \in Thread, NEW x \in BOOLEAN, NEW y \in BOOLEAN,
         TakeCommand(t, x, y), cmd[t] = None,
         run_cmd' = run_cmd \/ run_cmd' = [run_cmd EXCEPT ![t] = None],
         UNCHANGED <<pushed, state, groups, kernel_queue, remaining_wgs, wgs_dealt>>
  PROVE  Places'
<1>n. None \notin Command
  BY ConstantsAssumption
<1>1. /\ \A u \in Thread : pc'[u] # "command" => pc'[u] = pc[u] \/ pc'[u] \in {"exited", "start", "sleep"}
      /\ \A u \in Thread : u # t => pc'[u] = pc[u] /\ cmd'[u] = cmd[u]
      /\ work_queue' \subseteq work_queue
      /\ pc'[t] \in {"exited", "start", "sleep"} => cmd'[t] = None
      /\ pc'[t] \in {"exited", "start", "sleep", "command"}
      /\ pc'[t] = "command" => cmd'[t] \in work_queue /\ cmd'[t] \notin work_queue'
  BY DEF TakeCommand, TypeOK, Goto
<1>2. /\ \A u \in Thread : run_cmd'[u] = run_cmd[u] \/ run_cmd'[u] = None
  BY DEF TypeOK
<1>3. Numbered' /\ Undealt' /\ Queued' /\ QueuedKernels'
  BY <1>1 DEF Places, Numbered, Undealt, Queued, QueuedKernels, TypeOK
<1>4. Taken'
  BY <1>1 DEF Places, Taken, Queued, TypeOK
<1>5. Executing'
  BY <1>1 DEF Places, Executing, TypeOK
<1>6. Pushing'
  BY <1>n, <1>1, <1>2 DEF Places, Pushing, TypeOK
<1>7. OwnCommand'
  BY <1>n, <1>1 DEF Places, OwnCommand, Taken, Executing, Pushing, Queued, TypeOK, Roles, InCommand
<1>8. RunKernels'
  BY <1>2 DEF Places, RunKernels
<1> QED BY <1>3, <1>4, <1>5, <1>6, <1>7, <1>8 DEF Places

\* Every command stays in one place.
LEMMA PlacesStep ==
  ASSUME SmallKernels, TypeOK, Roles, Places, Linked, Dealing, [Next]_vars PROVE Places'
<1>n. None \notin Command
  BY ConstantsAssumption
<1>0. CASE UNCHANGED vars
  BY <1>0 DEF vars, cmdVars, queueVars, kernelVars, localVars, Places, Numbered, Undealt, Queued,
              Taken, Executing, Pushing, OwnCommand, QueuedKernels, RunKernels
<1>1. ASSUME NEW d \in Devices, NEW n \in GroupCounts, PushCommand(d, n) PROVE Places'
  <2> DEFINE c == pushed + 1
  <2>1. /\ c \in Command /\ state[c] = "new" /\ n \in Nat /\ pushed' = c
        /\ groups' = [groups EXCEPT ![c] = n] /\ state' = [state EXCEPT ![c] = "queued"]
        /\ work_queue' = work_queue \cup {c}
        /\ UNCHANGED <<kernel_queue, remaining_wgs, wgs_dealt, run_cmd, cmd>>
    BY <1>1, ConstantsAssumption DEF PushCommand, TypeOK, Command, Places, Numbered, kernelVars, localVars
  <2>2. \A t \in Thread : pc'[t] # "start" => pc'[t] = pc[t]
    BY <1>1 DEF PushCommand, PcWoken, Woken, TypeOK
  <2> HIDE DEF c
  <2>3. Numbered'
    BY <2>1 DEF c, Places, Numbered, TypeOK, Command
  <2>4. Undealt' /\ Queued'
    BY <2>1 DEF Places, Numbered, Undealt, Queued, TypeOK
  <2>5. Taken' /\ Executing'
    BY <2>1, <2>2 DEF Places, Numbered, Taken, Executing, TypeOK
  <2>6. Pushing' /\ OwnCommand'
    BY <2>1, <2>2 DEF Places, Numbered, Pushing, OwnCommand, TypeOK
  <2>7. QueuedKernels' /\ RunKernels'
    BY <1>n, <2>1 DEF Places, Numbered, QueuedKernels, RunKernels, TypeOK
  <2> QED BY <2>3, <2>4, <2>5, <2>6, <2>7 DEF Places
<1>2. ASSUME NEW t \in Thread, TakeKernel(t) PROVE Places'
  BY <1>2, <1>n DEF TakeKernel, MyKernels, cmdVars, queueVars, TypeOK, Goto, Places, Numbered, Undealt,
       Queued, Taken, Executing, Pushing, OwnCommand, QueuedKernels, RunKernels
<1>3. ASSUME NEW t \in Thread, NoKernel(t) PROVE Places'
  <2>1. cmd[t] = None /\ TakeCommand(t, shutdown, FALSE) /\ shutdown \in BOOLEAN
    BY <1>3 DEF NoKernel, Roles, InCommand, TypeOK
  <2> QED BY <1>3, <2>1, TakeCommandPlaces DEF NoKernel, cmdVars, kernelVars
<1>4. ASSUME NEW t \in Thread, Deal(t) PROVE Places'
  <2> DEFINE k == run_cmd[t]
  <2>1. /\ k \in Command /\ state[k] = "running"
        /\ \A c \in Command : c # k => wgs_dealt'[c] = wgs_dealt[c] /\ remaining_wgs'[c] = remaining_wgs[c]
        /\ \A u \in Thread : pc'[u] \notin {"leave", "unlink", "groups"} => pc'[u] = pc[u]
        /\ UNCHANGED <<pushed, state, groups, work_queue, kernel_queue, cmd, run_cmd>>
    BY <1>4, <1>n DEF Deal, Goto, TypeOK, Places, RunKernels, cmdVars, queueVars
  <2> HIDE DEF k
  <2>2. Numbered' /\ Undealt' /\ Queued'
    BY <2>1 DEF Places, Numbered, Undealt, Queued
  <2>3. Taken' /\ Executing' /\ OwnCommand' /\ QueuedKernels' /\ RunKernels'
    BY <2>1 DEF Places, Taken, Executing, OwnCommand, QueuedKernels, RunKernels
  <2>4. Pushing'
    BY <2>1 DEF Places, Pushing, k, TypeOK
  <2> QED BY <2>2, <2>3, <2>4 DEF Places
<1>5. ASSUME NEW t \in Thread, Unlink(t) PROVE Places'
  BY <1>5, <1>n DEF Unlink, cmdVars, kernelVars, localVars, TypeOK, Goto, Places, Numbered, Undealt,
       Queued, Taken, Executing, Pushing, OwnCommand, QueuedKernels, RunKernels
<1>6. ASSUME NEW t \in Thread, RunGroups(t) PROVE Places'
  BY <1>6, <1>n DEF RunGroups, cmdVars, queueVars, kernelVars, localVars, TypeOK, Goto, Places, Numbered,
       Undealt, Queued, Taken, Executing, Pushing, OwnCommand, QueuedKernels, RunKernels
<1>7. ASSUME NEW t \in Thread, Leave(t) PROVE Places'
  <2>1. CASE LastUser(run_cmd[t])
    <3>1. /\ \A u \in Thread : pc'[u] # "finalize" => pc'[u] = pc[u]
          /\ UNCHANGED <<pushed, state, groups, queueVars, remaining_wgs, wgs_dealt, cmd, run_cmd>>
      BY <1>7, <2>1 DEF Leave, Goto, TypeOK, cmdVars, queueVars
    <3> QED BY <3>1 DEF queueVars, Places, Numbered, Undealt, Queued, Taken, Executing, Pushing,
                        OwnCommand, QueuedKernels, RunKernels
  <2>2. CASE ~LastUser(run_cmd[t])
    <3>1. cmd[t] = None /\ TakeCommand(t, do_exit[t], TRUE) /\ do_exit[t] \in BOOLEAN
      BY <1>7, <2>2 DEF Leave, Roles, InCommand, TypeOK
    <3>2. run_cmd' = [run_cmd EXCEPT ![t] = None]
      BY <1>7, <2>2 DEF Leave
    <3> QED BY <1>7, <3>1, <3>2, TakeCommandPlaces DEF Leave, cmdVars
  <2> QED BY <2>1, <2>2
<1>8. ASSUME NEW t \in Thread, Finalize(t) PROVE Places'
  <2> DEFINE k == run_cmd[t]
  <2>1. /\ k \in Command /\ state[k] = "running" /\ groups[k] > 0 /\ k \notin kernel_queue
        /\ \A u \in Thread : u # t => run_cmd[u] # k
        /\ state' = [state EXCEPT ![k] = "done"] /\ run_cmd' = [run_cmd EXCEPT ![t] = None]
        /\ \A u \in Thread : pc'[u] # "check" => pc'[u] = pc[u]
        /\ UNCHANGED <<pushed, groups, queueVars, remaining_wgs, wgs_dealt, cmd>>
    BY <1>8, <1>n DEF Finalize, Goto, TypeOK, Places, RunKernels, Linked, OneFinalizes, cmdVars, kernelVars
  <2>2. Numbered' /\ Undealt' /\ Queued' /\ QueuedKernels'
    BY <2>1 DEF Places, Numbered, Undealt, Queued, QueuedKernels, TypeOK, queueVars
  <2>3. Taken' /\ Executing' /\ OwnCommand'
    BY <2>1 DEF Places, Taken, Executing, OwnCommand, TypeOK, queueVars
  <2>4. Pushing'
    BY <2>1, <1>n DEF Places, Pushing, TypeOK, queueVars
  <2>5. RunKernels'
    BY <2>1, <1>n DEF Places, RunKernels, TypeOK
  <2> QED BY <2>2, <2>3, <2>4, <2>5 DEF Places
<1>9. ASSUME NEW t \in Thread, Check(t) PROVE Places'
  <2>1. cmd[t] = None /\ TakeCommand(t, do_exit[t], TRUE) /\ do_exit[t] \in BOOLEAN
    BY <1>9 DEF Check, Roles, InCommand, TypeOK
  <2> QED BY <1>9, <2>1, TakeCommandPlaces DEF Check, cmdVars, kernelVars
<1>10. ASSUME NEW t \in Thread, StartCommand(t) PROVE Places'
  <2> DEFINE c == cmd[t]
  <2>1. /\ c \in Command /\ state[c] = "queued" /\ c \notin work_queue /\ groups[c] \in Nat
        /\ state' = [state EXCEPT ![c] = "running"]
        /\ remaining_wgs' = [remaining_wgs EXCEPT ![c] = groups[c]]
        /\ wgs_dealt' = [wgs_dealt EXCEPT ![c] = 0]
        /\ pc' = [pc EXCEPT ![t] = IF groups[c] = 0 THEN "execute" ELSE "push"]
        /\ UNCHANGED <<pushed, groups, queueVars, cmd, run_cmd>>
    BY <1>10, ConstantsAssumption DEF StartCommand, Goto, TypeOK, Places, Taken, cmdVars, localVars
  <2>2. Numbered' /\ Undealt' /\ Queued' /\ QueuedKernels' /\ OwnCommand'
    BY <2>1 DEF Places, Numbered, Undealt, Queued, QueuedKernels, OwnCommand, TypeOK, queueVars
  <2>3. Taken' /\ Executing'
    BY <2>1, <1>n DEF Places, Taken, Executing, OwnCommand, TypeOK, queueVars
  <2>4. Pushing'
    <3>1. c \notin kernel_queue /\ \A u \in Thread : run_cmd[u] # c
      BY <2>1, <1>n DEF Places, QueuedKernels, RunKernels, TypeOK
    <3> QED BY <2>1, <3>1 DEF Places, Pushing, TypeOK, queueVars
  <2>5. RunKernels'
    BY <2>1, <1>n DEF Places, RunKernels, TypeOK
  <2> QED BY <2>2, <2>3, <2>4, <2>5 DEF Places
<1>11. ASSUME NEW t \in Thread, PushKernel(t) PROVE Places'
  BY <1>11, <1>n DEF PushKernel, PcWoken, Woken, AfterCommand, cmdVars, kernelVars, TypeOK, Places, Numbered,
       Undealt, Queued, Taken, Executing, Pushing, OwnCommand, QueuedKernels, RunKernels
<1>12. ASSUME NEW t \in Thread, ExecCommand(t) PROVE Places'
  BY <1>12, <1>n DEF ExecCommand, Goto, AfterCommand, cmdVars, queueVars, kernelVars, TypeOK, Places,
       Numbered, Undealt, Queued, Taken, Executing, Pushing, OwnCommand, QueuedKernels, RunKernels
<1>13. CASE RequestShutdown
  BY <1>13 DEF RequestShutdown, PcWoken, Woken, cmdVars, queueVars, kernelVars, localVars, TypeOK, Places,
       Numbered, Undealt, Queued, Taken, Executing, Pushing, OwnCommand, QueuedKernels, RunKernels
<1>14. CASE JoinThreads
  BY <1>14 DEF JoinThreads, cmdVars, queueVars, kernelVars, localVars, Places, Numbered, Undealt, Queued,
       Taken, Executing, Pushing, OwnCommand, QueuedKernels, RunKernels
<1>15. CASE InitPool
  BY <1>15 DEF InitPool, cmdVars, queueVars, kernelVars, localVars, Places, Numbered, Undealt, Queued,
       Taken, Executing, Pushing, OwnCommand, QueuedKernels, RunKernels
<1> QED BY <1>0, <1>1, <1>2, <1>3, <1>4, <1>5, <1>6, <1>7, <1>8, <1>9, <1>10, <1>11, <1>12,
          <1>13, <1>14, <1>15 DEF Next, ThreadStep

-----------------------------------------------------------------------------
(* The reference count of a kernel *)

LEMMA UsersFinite ==
  ASSUME NEW k PROVE IsFiniteSet(Users(k))
<1>1. 0 \in Int /\ NumThreads - 1 \in Int
  BY ConstantsAssumption
<1>2. IsFiniteSet(Thread)
  BY <1>1, FS_Interval DEF Thread
<1> QED BY <1>2, FS_Subset DEF Users

\* The books of a kernel whose users stay the same.
LEMMA CountedQuiet ==
  ASSUME Counted, ref_count' = ref_count,
         \A u \in Thread, k \in Command :
           (run_cmd'[u] = k /\ pc'[u] # "finalize") <=> (run_cmd[u] = k /\ pc[u] # "finalize")
  PROVE  Counted'
<1>1. \A k \in Command : Users(k)' = Users(k)
  BY DEF Users
<1> QED BY <1>1 DEF Counted

\* A kernel's reference count stays the number of its users.
LEMMA CountedStep ==
  ASSUME TypeOK, Roles, Places, Counted, [Next]_vars PROVE Counted'
<1>n. None \notin Command
  BY ConstantsAssumption
<1> USE DEF TypeOK, Goto
<1>0. CASE UNCHANGED vars
  BY <1>0, CountedQuiet DEF vars, kernelVars, localVars
<1>1. ASSUME NEW d \in Devices, NEW n \in GroupCounts, PushCommand(d, n) PROVE Counted'
  BY <1>1, CountedQuiet DEF PushCommand, PcWoken, Woken, kernelVars, localVars
<1>2. ASSUME NEW t \in Thread, TakeKernel(t) PROVE Counted'
  <2>1. PICK k \in kernel_queue : /\ run_cmd' = [run_cmd EXCEPT ![t] = k]
                                  /\ ref_count' = [ref_count EXCEPT ![k] = @ + 1]
    BY <1>2 DEF TakeKernel, MyKernels
  <2>2. run_cmd[t] = None /\ pc[t] = "start" /\ pc' = [pc EXCEPT ![t] = "deal"]
    BY <1>2 DEF TakeKernel, Roles, InKernel
  <2>3. Users(k)' = Users(k) \cup {t} /\ t \notin Users(k)
    BY <1>n, <2>1, <2>2 DEF Users
  <2>4. Cardinality(Users(k)') = Cardinality(Users(k)) + 1
    BY <2>3, UsersFinite, FS_AddElement
  <2>5. ASSUME NEW c \in Command, c # k PROVE Users(c)' = Users(c)
    BY <1>n, <2>1, <2>2, <2>5 DEF Users
  <2> QED BY <2>1, <2>4, <2>5 DEF Counted
<1>3. ASSUME NEW t \in Thread, NoKernel(t) PROVE Counted'
  BY <1>3, CountedQuiet DEF NoKernel, TakeCommand, kernelVars
<1>4. ASSUME NEW t \in Thread, Deal(t) PROVE Counted'
  BY <1>4, CountedQuiet DEF Deal
<1>5. ASSUME NEW t \in Thread, Unlink(t) PROVE Counted'
  BY <1>5, CountedQuiet DEF Unlink, kernelVars, localVars
<1>6. ASSUME NEW t \in Thread, RunGroups(t) PROVE Counted'
  BY <1>6, CountedQuiet DEF RunGroups, kernelVars, localVars
<1>7. ASSUME NEW t \in Thread, Leave(t) PROVE Counted'
  <2>0. PICK k \in Command : k = run_cmd[t]
    BY <1>7 DEF Leave
  <2>1. ref_count' = [ref_count EXCEPT ![k] = @ - 1] /\ t \in Users(k)
    BY <1>7, <2>0 DEF Leave, Users
  <2>2. /\ \A u \in Thread : u # t => pc'[u] = pc[u] /\ run_cmd'[u] = run_cmd[u]
        /\ run_cmd'[t] = None \/ (run_cmd'[t] = k /\ pc'[t] = "finalize")
    BY <1>7, <2>0 DEF Leave, TakeCommand
  <2>3. Users(k)' = Users(k) \ {t}
    BY <1>n, <2>1, <2>2 DEF Users
  <2>4. Cardinality(Users(k)') = Cardinality(Users(k)) - 1
    BY <2>1, <2>3, UsersFinite, FS_RemoveElement, ZenonT(60)
  <2>5. ASSUME NEW c \in Command, c # k PROVE Users(c)' = Users(c)
    BY <1>n, <2>0, <2>2, <2>5 DEF Users
  <2> QED BY <2>1, <2>4, <2>5 DEF Counted
<1>8. ASSUME NEW t \in Thread, Finalize(t) PROVE Counted'
  BY <1>8, <1>n, CountedQuiet DEF Finalize, kernelVars
<1>9. ASSUME NEW t \in Thread, Check(t) PROVE Counted'
  BY <1>9, CountedQuiet DEF Check, TakeCommand, kernelVars
<1>10. ASSUME NEW t \in Thread, StartCommand(t) PROVE Counted'
  <2> DEFINE c == cmd[t]
  <2>1. c \in Command /\ state[c] = "queued" /\ ref_count' = [ref_count EXCEPT ![c] = 0]
    BY <1>10 DEF StartCommand, Places, Taken
  <2>2. \A k \in Command : Users(k)' = Users(k)
    BY <1>10 DEF StartCommand, Users, localVars
  <2>3. Users(c) = {}
    BY <1>n, <2>1 DEF Users, Places, RunKernels
  <2>4. Cardinality(Users(c)) = 0
    BY <2>3, FS_EmptySet
  <2> QED BY <2>1, <2>2, <2>4 DEF Counted
<1>11. ASSUME NEW t \in Thread, PushKernel(t) PROVE Counted'
  BY <1>11, CountedQuiet DEF PushKernel, PcWoken, Woken, AfterCommand, kernelVars
<1>12. ASSUME NEW t \in Thread, ExecCommand(t) PROVE Counted'
  BY <1>12, CountedQuiet DEF ExecCommand, AfterCommand, kernelVars
<1>13. CASE RequestShutdown
  BY <1>13, CountedQuiet DEF RequestShutdown, PcWoken, Woken, kernelVars, localVars
<1>14. CASE JoinThreads
  BY <1>14, CountedQuiet DEF JoinThreads, kernelVars, localVars
<1>15. CASE InitPool
  BY <1>15, CountedQuiet DEF InitPool, kernelVars, localVars, Roles
<1> QED BY <1>0, <1>1, <1>2, <1>3, <1>4, <1>5, <1>6, <1>7, <1>8, <1>9, <1>10, <1>11, <1>12,
          <1>13, <1>14, <1>15 DEF Next, ThreadStep

-----------------------------------------------------------------------------
(* The kernel queue *)

\* A step that moves no thread into or out of the places Linked speaks of.
LEMMA LinkedQuiet ==
  ASSUME Linked, UNCHANGED <<remaining_wgs, kernel_queue, run_cmd>>,
         \A u \in Thread : pc'[u] = pc[u] \/ {pc[u], pc'[u]} \cap {"unlink", "leave", "finalize"} = {}
  PROVE  Linked'
<1>1. \A u \in Thread, p \in {"unlink", "leave", "finalize"} : pc'[u] = p <=> pc[u] = p
  OBVIOUS
<1> QED BY <1>1 DEF Linked, LinkedWhileLeft, OneUnlinks, SomeUnlinks, LeftDealt, OneFinalizes

\* A kernel stays in the queue until one thread removes it, before the last leaves.
LEMMA LinkedStep ==
  ASSUME SmallKernels, TypeOK, Roles, Places, Counted, Linked, Dealing, [Next]_vars PROVE Linked'
<1>n. None \notin Command
  BY ConstantsAssumption
<1> USE DEF TypeOK, Goto
<1>0. CASE UNCHANGED vars
  BY <1>0, LinkedQuiet DEF vars, kernelVars, queueVars, localVars
<1>1. ASSUME NEW d \in Devices, NEW n \in GroupCounts, PushCommand(d, n) PROVE Linked'
  BY <1>1, LinkedQuiet DEF PushCommand, PcWoken, Woken, kernelVars, localVars
<1>2. ASSUME NEW t \in Thread, TakeKernel(t) PROVE Linked'
  <2>1. PICK k \in kernel_queue : run_cmd' = [run_cmd EXCEPT ![t] = k]
    BY <1>2 DEF TakeKernel, MyKernels
  <2>2. /\ k \in Command /\ run_cmd[t] = None /\ pc[t] = "start" /\ pc' = [pc EXCEPT ![t] = "deal"]
        /\ UNCHANGED <<remaining_wgs, kernel_queue>>
    BY <1>2 DEF TakeKernel, Roles, InKernel, queueVars
  <2>3. LinkedWhileLeft' /\ OneUnlinks' /\ SomeUnlinks'
    BY <2>1, <2>2 DEF Linked, LinkedWhileLeft, OneUnlinks, SomeUnlinks
  <2>4. LeftDealt' /\ OneFinalizes'
    BY <2>1, <2>2 DEF Linked, LeftDealt, OneFinalizes
  <2> QED BY <2>3, <2>4 DEF Linked
<1>3. ASSUME NEW t \in Thread, NoKernel(t) PROVE Linked'
  BY <1>3, LinkedQuiet DEF NoKernel, TakeCommand, kernelVars
<1>4. ASSUME NEW t \in Thread, Deal(t) PROVE Linked'
  <2>0. PICK k \in Command : k = run_cmd[t]
    BY <1>4 DEF Deal
  <2> DEFINE r == remaining_wgs[k] n == Chunk(r)
  <2>1. /\ pc[t] = "deal" /\ state[k] = "running"
        /\ UNCHANGED <<kernel_queue, run_cmd>>
    BY <1>4, <1>n, <2>0 DEF Deal, Places, RunKernels, queueVars
  <2>2. CASE r = 0
    <3>1. pc' = [pc EXCEPT ![t] = "leave"] /\ UNCHANGED remaining_wgs
      BY <1>4, <2>0, <2>2 DEF Deal
    <3> QED BY <2>0, <2>1, <2>2, <3>1 DEF Linked, LinkedWhileLeft, OneUnlinks, SomeUnlinks, LeftDealt, OneFinalizes
  <2>3. CASE r # 0
    <3>1. r \in 1..MaxGroups
      BY <2>1, <2>3, ConstantsAssumption DEF Dealing, Balanced
    <3>2. n \in 1..r
      BY <3>1, ChunkBounds
    <3>3. /\ remaining_wgs' = [remaining_wgs EXCEPT ![k] = r - n]
          /\ pc' = [pc EXCEPT ![t] = IF r = n THEN "unlink" ELSE "groups"]
      BY <1>4, <2>0, <2>3 DEF Deal
    <3>4. k \in kernel_queue /\ \A u \in Thread : run_cmd[u] = k => pc[u] \notin {"unlink", "leave", "finalize"}
      BY <1>n, <2>0, <3>1 DEF Linked, LinkedWhileLeft, OneUnlinks, LeftDealt
    <3> HIDE DEF n
    <3>5. LinkedWhileLeft'
      BY <2>0, <2>1, <3>3, <3>4 DEF Linked, LinkedWhileLeft
    <3>6. OneUnlinks'
      BY <2>0, <2>1, <3>1, <3>2, <3>3, <3>4 DEF Linked, OneUnlinks
    <3>7. SomeUnlinks'
      <4>1. CASE r = n
        BY <2>0, <2>1, <3>1, <3>2, <3>3, <3>4, <4>1 DEF Linked, SomeUnlinks
      <4>2. CASE r # n
        <5>1. SUFFICES ASSUME NEW c \in kernel_queue, remaining_wgs'[c] = 0
                       PROVE  \E u \in Thread : pc'[u] = "unlink" /\ run_cmd'[u] = c
          BY <2>1 DEF SomeUnlinks
        <5>2. c # k /\ remaining_wgs[c] = 0
          <6>1. r - n > 0
            <7>1. r \in Int /\ n \in Int /\ n <= r
              BY <3>1, <3>2, ConstantsAssumption
            <7> HIDE DEF r
            <7> QED BY <4>2, <7>1
          <6>2. remaining_wgs'[k] # 0
            BY <3>3, <6>1
          <6> QED BY <3>3, <5>1, <6>2
        <5>3. PICK u \in Thread : pc[u] = "unlink" /\ run_cmd[u] = c
          BY <5>2 DEF Linked, SomeUnlinks
        <5> QED BY <2>0, <2>1, <3>3, <5>2, <5>3
      <4> QED BY <4>1, <4>2
    <3>8. LeftDealt' /\ OneFinalizes'
      BY <2>0, <2>1, <3>3, <3>4 DEF Linked, LeftDealt, OneFinalizes
    <3> QED BY <3>5, <3>6, <3>7, <3>8 DEF Linked
  <2> QED BY <2>2, <2>3
<1>5. ASSUME NEW t \in Thread, Unlink(t) PROVE Linked'
  <2>0. PICK k \in Command : k = run_cmd[t]
    BY <1>5 DEF Unlink
  <2>1. /\ pc[t] = "unlink" /\ pc' = [pc EXCEPT ![t] = "groups"] /\ kernel_queue' = kernel_queue \ {k}
        /\ UNCHANGED <<remaining_wgs, run_cmd>>
    BY <1>5, <2>0 DEF Unlink, kernelVars, localVars
  <2>2. LinkedWhileLeft' /\ OneUnlinks' /\ SomeUnlinks'
    BY <2>0, <2>1 DEF Linked, LinkedWhileLeft, OneUnlinks, SomeUnlinks
  <2>3. LeftDealt' /\ OneFinalizes'
    BY <2>0, <2>1 DEF Linked, LeftDealt, OneFinalizes
  <2> QED BY <2>2, <2>3 DEF Linked
<1>6. ASSUME NEW t \in Thread, RunGroups(t) PROVE Linked'
  BY <1>6, LinkedQuiet DEF RunGroups, kernelVars, queueVars, localVars
<1>7. ASSUME NEW t \in Thread, Leave(t) PROVE Linked'
  <2>0. PICK k \in Command : k = run_cmd[t]
    BY <1>7 DEF Leave
  <2>1. pc[t] = "leave" /\ UNCHANGED <<remaining_wgs, kernel_queue>>
    BY <1>7 DEF Leave
  <2>2. CASE LastUser(k)
    <3>1. pc' = [pc EXCEPT ![t] = "finalize"] /\ UNCHANGED run_cmd
      BY <1>7, <2>0, <2>2 DEF Leave
    <3>2. \A u \in Users(k) : u = t
      <4>1. Cardinality(Users(k)) = 1
        BY <2>2 DEF LastUser, Counted
      <4>2. t \in Users(k)
        BY <2>0, <2>1 DEF Users
      <4>3. \E x : Users(k) = {x}
        BY <4>1, UsersFinite, FS_Singleton
      <4> QED BY <4>2, <4>3
    <3>3. \A u \in Thread : run_cmd[u] = k => u = t
      BY <2>0, <2>1, <3>2 DEF Users, Linked, OneFinalizes
    <3>4. k \notin kernel_queue
      BY <2>0, <2>1, <3>3 DEF Linked, SomeUnlinks, LeftDealt
    <3>5. OneFinalizes'
      BY <2>0, <2>1, <3>1, <3>3, <3>4 DEF Linked, OneFinalizes
    <3>6. LinkedWhileLeft' /\ OneUnlinks' /\ SomeUnlinks' /\ LeftDealt'
      BY <2>0, <2>1, <3>1 DEF Linked, LinkedWhileLeft, OneUnlinks, SomeUnlinks, LeftDealt
    <3> QED BY <3>5, <3>6 DEF Linked
  <2>3. CASE ~LastUser(k)
    <3>1. /\ run_cmd' = [run_cmd EXCEPT ![t] = None]
          /\ \A u \in Thread : u # t => pc'[u] = pc[u]
          /\ pc'[t] \in {"exited", "start", "sleep", "command"}
      BY <1>7, <2>0, <2>3 DEF Leave, TakeCommand
    <3>2. LinkedWhileLeft' /\ OneUnlinks' /\ SomeUnlinks'
      BY <1>n, <2>1, <3>1, SMTT(30) DEF Linked, LinkedWhileLeft, OneUnlinks, SomeUnlinks
    <3>3. LeftDealt' /\ OneFinalizes'
      BY <1>n, <2>1, <3>1 DEF Linked, LeftDealt, OneFinalizes
    <3> QED BY <3>2, <3>3 DEF Linked
  <2> QED BY <2>2, <2>3
<1>8. ASSUME NEW t \in Thread, Finalize(t) PROVE Linked'
  <2>1. /\ pc[t] = "finalize" /\ pc' = [pc EXCEPT ![t] = "check"]
        /\ run_cmd' = [run_cmd EXCEPT ![t] = None]
        /\ UNCHANGED <<remaining_wgs, kernel_queue>>
    BY <1>8 DEF Finalize, queueVars, kernelVars
  <2>2. LinkedWhileLeft' /\ OneUnlinks' /\ SomeUnlinks'
    BY <1>n, <2>1 DEF Linked, LinkedWhileLeft, OneUnlinks, SomeUnlinks
  <2>3. LeftDealt' /\ OneFinalizes'
    BY <1>n, <2>1 DEF Linked, LeftDealt, OneFinalizes
  <2> QED BY <2>2, <2>3 DEF Linked
<1>9. ASSUME NEW t \in Thread, Check(t) PROVE Linked'
  BY <1>9, LinkedQuiet DEF Check, TakeCommand, kernelVars
<1>10. ASSUME NEW t \in Thread, StartCommand(t) PROVE Linked'
  <2>0. PICK c \in Command : c = cmd[t]
    BY <1>10 DEF StartCommand
  <2>1. /\ pc[t] = "command" /\ state[c] = "queued"
        /\ remaining_wgs' = [remaining_wgs EXCEPT ![c] = groups[c]]
        /\ pc' = [pc EXCEPT ![t] = IF groups[c] = 0 THEN "execute" ELSE "push"]
        /\ UNCHANGED <<kernel_queue, run_cmd>>
    BY <1>10, <2>0 DEF StartCommand, Places, Taken, queueVars, localVars
  <2>2. c \notin kernel_queue /\ \A u \in Thread : run_cmd[u] # c
    BY <1>n, <2>1 DEF Places, QueuedKernels, RunKernels
  <2>3. LinkedWhileLeft' /\ OneUnlinks' /\ SomeUnlinks'
    BY <1>n, <2>1, <2>2 DEF Linked, LinkedWhileLeft, OneUnlinks, SomeUnlinks
  <2>4. LeftDealt' /\ OneFinalizes'
    BY <1>n, <2>1, <2>2 DEF Linked, LeftDealt, OneFinalizes
  <2> QED BY <2>3, <2>4 DEF Linked
<1>11. ASSUME NEW t \in Thread, PushKernel(t) PROVE Linked'
  <2>0. PICK c \in Command : c = cmd[t]
    BY <1>11 DEF PushKernel
  <2>1. /\ remaining_wgs[c] > 0 /\ \A u \in Thread : run_cmd[u] # c
        /\ kernel_queue' = kernel_queue \cup {c}
        /\ UNCHANGED <<remaining_wgs, run_cmd>>
    BY <1>11, <2>0 DEF PushKernel, Places, Pushing, kernelVars
  <2>2. \A u \in Thread : pc'[u] = pc[u] \/ {pc[u], pc'[u]} \cap {"unlink", "leave", "finalize"} = {}
    BY <1>11 DEF PushKernel, PcWoken, Woken, AfterCommand
  <2>3. \A u \in Thread, p \in {"unlink", "leave", "finalize"} : pc'[u] = p <=> pc[u] = p
    BY <2>2
  <2>4. LinkedWhileLeft' /\ OneUnlinks' /\ SomeUnlinks'
    BY <2>1, <2>3 DEF Linked, LinkedWhileLeft, OneUnlinks, SomeUnlinks
  <2>5. LeftDealt' /\ OneFinalizes'
    BY <2>1, <2>3 DEF Linked, LeftDealt, OneFinalizes
  <2> QED BY <2>4, <2>5 DEF Linked
<1>12. ASSUME NEW t \in Thread, ExecCommand(t) PROVE Linked'
  BY <1>12, LinkedQuiet DEF ExecCommand, AfterCommand, kernelVars, queueVars
<1>13. CASE RequestShutdown
  BY <1>13, LinkedQuiet DEF RequestShutdown, PcWoken, Woken, kernelVars, queueVars, localVars
<1>14. CASE JoinThreads
  BY <1>14, LinkedQuiet DEF JoinThreads, kernelVars, queueVars, localVars
<1>15. CASE InitPool
  BY <1>15, LinkedQuiet DEF InitPool, kernelVars, queueVars, localVars, Roles
<1> QED BY <1>0, <1>1, <1>2, <1>3, <1>4, <1>5, <1>6, <1>7, <1>8, <1>9, <1>10, <1>11, <1>12,
          <1>13, <1>14, <1>15 DEF Next, ThreadStep

-----------------------------------------------------------------------------
(* The work-groups *)

\* A step in which the threads that hold work-groups keep them.
LEMMA HeldQuiet ==
  ASSUME HeldDealt, Disjoint, Executed, UNCHANGED <<times, wgs_dealt>>,
         \A u \in Thread : Holds(u)' <=> Holds(u),
         \A u \in Thread : Holds(u) =>
           run_cmd'[u] = run_cmd[u] /\ start_index'[u] = start_index[u] /\ end_index'[u] = end_index[u]
  PROVE  HeldDealt' /\ Disjoint' /\ Executed'
<1>1. HeldDealt' /\ Disjoint'
  BY DEF HeldDealt, Disjoint
<1>2. \A k \in Command, g \in Group : Held(k, g)' <=> Held(k, g)
  BY DEF Held, Dealt
<1> QED BY <1>1, <1>2 DEF Executed

\* What Deal does to a kernel that has work-groups left.
LEMMA DealEffect ==
  ASSUME SmallKernels, TypeOK, Roles, Places, Dealing, NEW t \in Thread, Deal(t),
         NEW k \in Command, k = run_cmd[t], remaining_wgs[k] # 0
  PROVE  \E n \in 1..remaining_wgs[k] :
           /\ remaining_wgs' = [remaining_wgs EXCEPT ![k] = @ - n]
           /\ wgs_dealt' = [wgs_dealt EXCEPT ![k] = @ + n]
           /\ start_index' = [start_index EXCEPT ![t] = wgs_dealt[k]]
           /\ end_index' = [end_index EXCEPT ![t] = wgs_dealt[k] + n - 1]
           /\ pc' = [pc EXCEPT ![t] = IF remaining_wgs[k] = n THEN "unlink" ELSE "groups"]
<1> DEFINE r == remaining_wgs[k] n == Chunk(r)
<1>1. state[k] = "running" /\ groups[k] \in 0..MaxGroups /\ r + wgs_dealt[k] = groups[k]
  BY ConstantsAssumption DEF Deal, TypeOK, Places, RunKernels, Dealing, Balanced
<1>2. r \in 1..MaxGroups /\ wgs_dealt[k] \in Nat
  BY <1>1, ConstantsAssumption DEF TypeOK
<1>3. n \in 1..r
  BY <1>2, ChunkBounds
<1>4. /\ remaining_wgs' = [remaining_wgs EXCEPT ![k] = @ - n]
      /\ wgs_dealt' = [wgs_dealt EXCEPT ![k] = @ + n]
      /\ start_index' = [start_index EXCEPT ![t] = wgs_dealt[k] % UINT]
      /\ end_index' = [end_index EXCEPT ![t] = (wgs_dealt[k] + n - 1) % UINT]
      /\ pc' = [pc EXCEPT ![t] = IF r = n THEN "unlink" ELSE "groups"]
  BY DEF Deal, Goto
<1>5. UINT \in Nat /\ MaxGroups \in Nat /\ MaxGroups < UINT
  BY ConstantsAssumption DEF SmallKernels
<1> HIDE DEF n
<1>6. wgs_dealt[k] < UINT /\ wgs_dealt[k] + n - 1 \in Nat /\ wgs_dealt[k] + n - 1 < UINT
  BY <1>1, <1>2, <1>3, <1>5
<1>7. wgs_dealt[k] % UINT = wgs_dealt[k] /\ (wgs_dealt[k] + n - 1) % UINT = wgs_dealt[k] + n - 1
  BY <1>2, <1>5, <1>6, SmallMod
<1> QED BY <1>3, <1>4, <1>7

\* Threads hold disjoint pieces of what was dealt, and the rest was executed once.
LEMMA DealingStep ==
  ASSUME SmallKernels, TypeOK, Roles, Places, Linked, Dealing, Executed, [Next]_vars
  PROVE  Dealing' /\ Executed'
<1>n. None \notin Command
  BY ConstantsAssumption
<1> USE DEF TypeOK, Goto
<1>0. CASE UNCHANGED vars
  <2>1. Balanced'
    BY <1>0 DEF vars, cmdVars, kernelVars, Dealing, Balanced
  <2> QED BY <1>0, <2>1, HeldQuiet DEF vars, kernelVars, localVars, Dealing, Holds
<1>1. ASSUME NEW d \in Devices, NEW n \in GroupCounts, PushCommand(d, n) PROVE Dealing' /\ Executed'
  <2>1. Balanced'
    BY <1>1, ConstantsAssumption DEF PushCommand, Command, Places, Numbered, kernelVars, Dealing, Balanced
  <2>2. \A u \in Thread : Holds(u)' <=> Holds(u)
    BY <1>1 DEF PushCommand, PcWoken, Woken, Holds
  <2> QED BY <1>1, <2>1, <2>2, HeldQuiet DEF PushCommand, kernelVars, localVars, Dealing
<1>2. ASSUME NEW t \in Thread, TakeKernel(t) PROVE Dealing' /\ Executed'
  <2>1. Balanced'
    BY <1>2 DEF TakeKernel, cmdVars, Dealing, Balanced
  <2>2. \A u \in Thread : (Holds(u)' <=> Holds(u)) /\ (Holds(u) => run_cmd'[u] = run_cmd[u])
    BY <1>2 DEF TakeKernel, Holds
  <2> QED BY <1>2, <2>1, <2>2, HeldQuiet DEF TakeKernel, Dealing
<1>3. ASSUME NEW t \in Thread, NoKernel(t) PROVE Dealing' /\ Executed'
  <2>1. Balanced'
    BY <1>3 DEF NoKernel, cmdVars, kernelVars, Dealing, Balanced
  <2>2. \A u \in Thread : Holds(u)' <=> Holds(u)
    BY <1>3 DEF NoKernel, TakeCommand, Holds
  <2> QED BY <1>3, <2>1, <2>2, HeldQuiet DEF NoKernel, kernelVars, Dealing
<1>4. ASSUME NEW t \in Thread, Deal(t) PROVE Dealing' /\ Executed'
  <2>0. PICK k \in Command : k = run_cmd[t]
    BY <1>4 DEF Deal
  <2>1. CASE remaining_wgs[k] = 0
    <3>1. Balanced'
      BY <1>4, <2>0, <2>1 DEF Deal, cmdVars, Dealing, Balanced
    <3>2. \A u \in Thread : Holds(u)' <=> Holds(u)
      BY <1>4, <2>0, <2>1 DEF Deal, Holds
    <3> QED BY <1>4, <2>0, <2>1, <3>1, <3>2, HeldQuiet DEF Deal, Dealing
  <2>2. CASE remaining_wgs[k] # 0
    <3>1. PICK n \in 1..remaining_wgs[k] :
            /\ remaining_wgs' = [remaining_wgs EXCEPT ![k] = @ - n]
            /\ wgs_dealt' = [wgs_dealt EXCEPT ![k] = @ + n]
            /\ start_index' = [start_index EXCEPT ![t] = wgs_dealt[k]]
            /\ end_index' = [end_index EXCEPT ![t] = wgs_dealt[k] + n - 1]
            /\ pc' = [pc EXCEPT ![t] = IF remaining_wgs[k] = n THEN "unlink" ELSE "groups"]
      BY <1>4, <2>0, <2>2, DealEffect, ZenonT(60)
    <3>2. pc[t] = "deal" /\ UNCHANGED <<times, state, groups, run_cmd>>
      BY <1>4 DEF Deal, cmdVars
    <3>3. \A u \in Thread : Holds(u)' <=> (Holds(u) \/ u = t)
      BY <3>1, <3>2 DEF Holds
    <3>4. ~Holds(t)
      BY <3>2 DEF Holds
    <3>5. Balanced'
      BY <3>1, <3>2 DEF Dealing, Balanced
    <3>6. HeldDealt'
      BY <2>0, <3>1, <3>2, <3>3 DEF Dealing, HeldDealt
    <3>7. Disjoint'
      BY <2>0, <3>1, <3>2, <3>3, <3>4 DEF Dealing, HeldDealt, Disjoint
    <3>8. Executed'
      <4>1. ASSUME NEW c \in Command, NEW g \in Group
            PROVE  Held(c, g)' <=> Held(c, g) \/ (c = k /\ g \in wgs_dealt[k]..(wgs_dealt[k] + n - 1))
        BY <2>0, <3>1, <3>2, <3>3, <3>4 DEF Held, Dealt
      <4>2. ASSUME NEW c \in Command, NEW g \in Group
            PROVE  g < wgs_dealt'[c] /\ ~Held(c, g)' <=> g < wgs_dealt[c] /\ ~Held(c, g)
        <5>1. g \in Int /\ wgs_dealt[k] \in Nat /\ n \in Int /\ n >= 1
          BY <3>1, ConstantsAssumption DEF Group
        <5>2. CASE c = k
          <6>1. wgs_dealt'[c] = wgs_dealt[k] + n
            BY <3>1, <5>2
          <6>2. Held(c, g)' <=> Held(c, g) \/ (wgs_dealt[k] <= g /\ g <= wgs_dealt[k] + n - 1)
            BY <4>1, <5>1, <5>2
          <6> QED BY <5>1, <5>2, <6>1, <6>2
        <5>3. CASE c # k
          BY <3>1, <4>1, <5>3
        <5> QED BY <5>2, <5>3
      <4>3. times' = times
        BY <3>2
      <4> QED BY <4>2, <4>3 DEF Executed
    <3> QED BY <3>5, <3>6, <3>7, <3>8 DEF Dealing
  <2> QED BY <2>1, <2>2
<1>5. ASSUME NEW t \in Thread, Unlink(t) PROVE Dealing' /\ Executed'
  <2>1. Balanced'
    BY <1>5 DEF Unlink, cmdVars, kernelVars, Dealing, Balanced
  <2>2. \A u \in Thread : Holds(u)' <=> Holds(u)
    BY <1>5 DEF Unlink, Holds
  <2> QED BY <1>5, <2>1, <2>2, HeldQuiet DEF Unlink, kernelVars, localVars, Dealing
<1>6. ASSUME NEW t \in Thread, RunGroups(t) PROVE Dealing' /\ Executed'
  <2>0. PICK k \in Command : k = run_cmd[t]
    BY <1>6 DEF RunGroups
  <2>1. /\ pc[t] = "groups" /\ pc' = [pc EXCEPT ![t] = "deal"]
        /\ times' = [times EXCEPT ![k] = [g \in Group |-> times[k][g] + IF g \in Dealt(t) THEN 1 ELSE 0]]
        /\ UNCHANGED <<state, groups, remaining_wgs, wgs_dealt, run_cmd, start_index, end_index>>
    BY <1>6, <2>0 DEF RunGroups, cmdVars, kernelVars, localVars
  <2>2. Holds(t) /\ \A u \in Thread : Holds(u)' <=> (Holds(u) /\ u # t)
    BY <2>1 DEF Holds
  <2>3. Balanced' /\ HeldDealt' /\ Disjoint'
    BY <2>1, <2>2 DEF Dealing, Balanced, HeldDealt, Disjoint
  <2>4. ASSUME NEW c \in Command, NEW g \in Group, c # k \/ g \notin Dealt(t)
        PROVE  Held(c, g)' <=> Held(c, g)
    BY <2>0, <2>1, <2>2, <2>4 DEF Held, Dealt
  <2>5. ASSUME NEW g \in Group, g \in Dealt(t)
        PROVE  Held(k, g) /\ ~Held(k, g)' /\ g < wgs_dealt[k]
    <3>1. Held(k, g)
      BY <2>0, <2>2, <2>5 DEF Held
    <3>2. g \in Int /\ start_index[t] <= g /\ g <= end_index[t] /\ end_index[t] < wgs_dealt[k]
      BY <2>0, <2>2, <2>5, ConstantsAssumption DEF Dealt, Group, Dealing, HeldDealt
    <3>3. ASSUME NEW u \in Thread, Holds(u), u # t, run_cmd[u] = k, g \in Dealt(u) PROVE FALSE
      BY <2>0, <2>2, <3>2, <3>3 DEF Dealt, Dealing, Disjoint
    <3>4. ~Held(k, g)'
      BY <2>1, <2>2, <3>3 DEF Held, Dealt
    <3> QED BY <3>1, <3>2, <3>4
  <2>6. Executed'
    <3>1. SUFFICES ASSUME NEW c \in Command, NEW g \in Group
                   PROVE  times'[c][g] = IF g < wgs_dealt[c] /\ ~Held(c, g)' THEN 1 ELSE 0
      BY <2>1 DEF Executed
    <3>2. CASE c = k /\ g \in Dealt(t)
      BY <2>1, <2>5, <3>2 DEF Executed
    <3>3. CASE c = k /\ g \notin Dealt(t)
      BY <2>1, <2>4, <3>3 DEF Executed
    <3>4. CASE c # k
      BY <2>1, <2>4, <3>4 DEF Executed
    <3> QED BY <3>2, <3>3, <3>4
  <2> QED BY <2>3, <2>6 DEF Dealing
<1>7. ASSUME NEW t \in Thread, Leave(t) PROVE Dealing' /\ Executed'
  <2>1. Balanced'
    BY <1>7 DEF Leave, cmdVars, Dealing, Balanced
  <2>2. \A u \in Thread : (Holds(u)' <=> Holds(u)) /\ (Holds(u) => run_cmd'[u] = run_cmd[u])
    BY <1>7 DEF Leave, TakeCommand, Holds
  <2> QED BY <1>7, <2>1, <2>2, HeldQuiet DEF Leave, Dealing
<1>8. ASSUME NEW t \in Thread, Finalize(t) PROVE Dealing' /\ Executed'
  <2>1. Balanced'
    BY <1>8 DEF Finalize, cmdVars, kernelVars, Dealing, Balanced
  <2>2. \A u \in Thread : (Holds(u)' <=> Holds(u)) /\ (Holds(u) => run_cmd'[u] = run_cmd[u])
    BY <1>8 DEF Finalize, Holds
  <2> QED BY <1>8, <2>1, <2>2, HeldQuiet DEF Finalize, kernelVars, Dealing
<1>9. ASSUME NEW t \in Thread, Check(t) PROVE Dealing' /\ Executed'
  <2>1. Balanced'
    BY <1>9 DEF Check, cmdVars, kernelVars, Dealing, Balanced
  <2>2. \A u \in Thread : Holds(u)' <=> Holds(u)
    BY <1>9 DEF Check, TakeCommand, Holds
  <2> QED BY <1>9, <2>1, <2>2, HeldQuiet DEF Check, kernelVars, Dealing
<1>10. ASSUME NEW t \in Thread, StartCommand(t) PROVE Dealing' /\ Executed'
  <2>0. PICK c \in Command : c = cmd[t]
    BY <1>10 DEF StartCommand
  <2>1. /\ state[c] = "queued" /\ wgs_dealt[c] = 0
        /\ state' = [state EXCEPT ![c] = "running"]
        /\ remaining_wgs' = [remaining_wgs EXCEPT ![c] = groups[c]]
        /\ wgs_dealt' = [wgs_dealt EXCEPT ![c] = 0]
        /\ UNCHANGED groups
    BY <1>10, <2>0 DEF StartCommand, cmdVars, Places, Taken, Undealt
  <2>2. wgs_dealt' = wgs_dealt
    BY <2>1
  <2>3. Balanced'
    BY <2>1, ConstantsAssumption DEF Dealing, Balanced
  <2>4. \A u \in Thread : Holds(u)' <=> Holds(u)
    BY <1>10 DEF StartCommand, Holds
  <2> QED BY <1>10, <2>2, <2>3, <2>4, HeldQuiet DEF StartCommand, localVars, Dealing
<1>11. ASSUME NEW t \in Thread, PushKernel(t) PROVE Dealing' /\ Executed'
  <2>1. Balanced'
    BY <1>11 DEF PushKernel, cmdVars, kernelVars, Dealing, Balanced
  <2>2. \A u \in Thread : Holds(u)' <=> Holds(u)
    BY <1>11 DEF PushKernel, PcWoken, Woken, AfterCommand, Holds
  <2> QED BY <1>11, <2>1, <2>2, HeldQuiet DEF PushKernel, kernelVars, Dealing
<1>12. ASSUME NEW t \in Thread, ExecCommand(t) PROVE Dealing' /\ Executed'
  <2>1. Balanced'
    BY <1>12 DEF ExecCommand, cmdVars, kernelVars, Dealing, Balanced
  <2>2. \A u \in Thread : Holds(u)' <=> Holds(u)
    BY <1>12 DEF ExecCommand, AfterCommand, Holds
  <2> QED BY <1>12, <2>1, <2>2, HeldQuiet DEF ExecCommand, kernelVars, Dealing
<1>13. CASE RequestShutdown
  <2>1. Balanced'
    BY <1>13 DEF RequestShutdown, cmdVars, kernelVars, Dealing, Balanced
  <2>2. \A u \in Thread : Holds(u)' <=> Holds(u)
    BY <1>13 DEF RequestShutdown, PcWoken, Woken, Holds
  <2> QED BY <1>13, <2>1, <2>2, HeldQuiet DEF RequestShutdown, kernelVars, localVars, Dealing
<1>14. CASE JoinThreads
  <2>1. Balanced'
    BY <1>14 DEF JoinThreads, cmdVars, kernelVars, Dealing, Balanced
  <2> QED BY <1>14, <2>1, HeldQuiet DEF JoinThreads, kernelVars, localVars, Dealing, Holds
<1>15. CASE InitPool
  <2>1. Balanced'
    BY <1>15 DEF InitPool, cmdVars, kernelVars, Dealing, Balanced
  <2>2. \A u \in Thread : Holds(u)' <=> Holds(u)
    BY <1>15 DEF InitPool, Holds, Roles
  <2> QED BY <1>15, <2>1, <2>2, HeldQuiet DEF InitPool, kernelVars, localVars, Dealing
<1> QED BY <1>0, <1>1, <1>2, <1>3, <1>4, <1>5, <1>6, <1>7, <1>8, <1>9, <1>10, <1>11, <1>12,
          <1>13, <1>14, <1>15 DEF Next, ThreadStep

-----------------------------------------------------------------------------
(* The theorems *)

LEMMA InitInv ==
  ASSUME Init PROVE IInv
<1>1. TypeOK
  <2>1. /\ pushed \in 0..MaxCommands /\ device \in [Command -> Devices \cup {None}]
        /\ groups \in [Command -> 0..MaxGroups]
        /\ state \in [Command -> {"new", "queued", "running", "done"}]
    BY ConstantsAssumption DEF Init
  <2>2. times \in [Command -> [Group -> Nat]]
    BY DEF Init
  <2>3. /\ work_queue \in SUBSET Command /\ kernel_queue \in SUBSET Command
        /\ remaining_wgs \in [Command -> Nat] /\ wgs_dealt \in [Command -> Nat]
        /\ ref_count \in [Command -> Int]
    BY DEF Init
  <2>4. /\ \A t \in Thread : pc[t] = "start" /\ run_cmd[t] = None /\ cmd[t] = None
        /\ pc \in [Thread -> PcValues]
        /\ run_cmd \in [Thread -> Command \cup {None}] /\ cmd \in [Thread -> Command \cup {None}]
        /\ start_index \in [Thread -> Nat] /\ end_index \in [Thread -> Nat]
        /\ do_exit \in [Thread -> BOOLEAN] /\ shutdown \in BOOLEAN /\ up \in BOOLEAN
    BY DEF Init, PcValues
  <2> QED BY <2>1, <2>2, <2>3, <2>4 DEF TypeOK, PcValues
<1>2. Roles /\ Linked
  BY DEF Init, Roles, InKernel, InCommand, Linked, LinkedWhileLeft, OneUnlinks, SomeUnlinks, LeftDealt, OneFinalizes
<1>3. Places
  BY DEF Init, Command, Places, Numbered, Undealt, Queued, Taken, Executing, Pushing, OwnCommand,
         QueuedKernels, RunKernels
<1>4. Counted
  <2>1. None \notin Command
    BY ConstantsAssumption
  <2>2. \A k \in Command : Users(k) = {}
    BY <2>1 DEF Init, Users
  <2> QED BY <2>2, FS_EmptySet DEF Init, Counted
<1>5. Dealing /\ Executed
  BY DEF Init, Dealing, Balanced, HeldDealt, Disjoint, Executed, Holds, Held, Group
<1> QED BY <1>1, <1>2, <1>3, <1>4, <1>5 DEF IInv

LEMMA StepInv ==
  ASSUME SmallKernels, IInv, [Next]_vars PROVE IInv'
BY TypeStep, RolesStep, PlacesStep, CountedStep, LinkedStep, DealingStep DEF IInv

\* If the work-groups of a kernel can be counted in an unsigned, the inductive
\* invariant holds (the whole of pthread_scheduler.c).
THEOREM Invariant == SmallKernels => (Spec => []IInv)
<1> SUFFICES ASSUME SmallKernels PROVE Spec => []IInv
  OBVIOUS
<1> QED BY InitInv, StepInv, PTL DEF Spec

\* Every variable of the scheduler keeps its type, and a thread that works on a
\* kernel or a command has one (pthread_scheduler_get_work).
THEOREM PoolTypeCorrect == SmallKernels => (Spec => []TypeOK)
<1>1. IInv => TypeOK
  BY DEF IInv
<1> QED BY <1>1, Invariant, PTL

\* A kernel is freed only once it has left the queue and every other thread has
\* left it (ref_count in pthread_scheduler_get_work, DL_DELETE in
\* work_group_scheduler).
THEOREM KernelsStayAlive == SmallKernels => (Spec => []KernelsAlive)
<1>1. IInv => KernelsAlive
  BY ConstantsAssumption DEF IInv, TypeOK, Places, QueuedKernels, RunKernels, Linked, OneUnlinks,
       OneFinalizes, KernelsAlive
<1> QED BY <1>1, Invariant, PTL

-----------------------------------------------------------------------------
(* Sub-devices *)

LEMMA OwnCoresStep ==
  ASSUME TypeOK, Roles, Places, OwnCores, [Next]_vars PROVE OwnCores'
<1>n. None \notin Command /\ core_start \in [Devices -> Nat] /\ core_count \in [Devices -> Nat]
      /\ SubDevices \subseteq Devices
  BY ConstantsAssumption
<1> USE DEF TypeOK, Goto
<1> DEFINE Allowed(t, c) ==
      device[c] \in SubDevices =>
        t \in core_start[device[c]]..(core_start[device[c]] + core_count[device[c]] - 1)
<1>a. \A t \in Thread, c \in Command : shall_we_run_this(t, device[c]) => Allowed(t, c)
  BY <1>n, ConstantsAssumption, SMTT(30) DEF shall_we_run_this, Thread
<1>b. \A t \in Thread : /\ run_cmd[t] # None => Allowed(t, run_cmd[t])
                        /\ cmd[t] # None => Allowed(t, cmd[t])
  BY DEF OwnCores
<1> HIDE DEF Allowed
<1>c. ASSUME device' = device,
             \A t \in Thread :
               /\ run_cmd'[t] \in {run_cmd[t], None} \/ (run_cmd'[t] \in Command /\ Allowed(t, run_cmd'[t]))
               /\ cmd'[t] \in {cmd[t], None} \/ (cmd'[t] \in Command /\ Allowed(t, cmd'[t]))
      PROVE  OwnCores'
  BY <1>b, <1>c DEF OwnCores, Allowed
<1>0. CASE UNCHANGED vars
  BY <1>0, <1>c DEF vars, cmdVars, localVars
<1>1. ASSUME NEW d \in Devices, NEW n \in GroupCounts, PushCommand(d, n) PROVE OwnCores'
  <2> DEFINE c == pushed + 1
  <2>1. /\ c \in Command /\ device' = [device EXCEPT ![c] = d] /\ state[c] = "new"
        /\ UNCHANGED <<run_cmd, cmd>>
    BY <1>1, ConstantsAssumption DEF PushCommand, Command, Places, Numbered, localVars
  <2>2. \A t \in Thread : run_cmd[t] # c /\ cmd[t] # c
    BY <1>n, <2>1 DEF Roles, InCommand, Places, RunKernels, Taken, Executing, Pushing
  <2> HIDE DEF c
  <2> QED BY <1>n, <2>1, <2>2 DEF OwnCores
<1>2. ASSUME NEW t \in Thread, TakeKernel(t) PROVE OwnCores'
  BY <1>2, <1>a, <1>c DEF TakeKernel, MyKernels, cmdVars
<1>3. ASSUME NEW t \in Thread, NoKernel(t) PROVE OwnCores'
  BY <1>3, <1>a, <1>c DEF NoKernel, TakeCommand, Mine, cmdVars
<1>4. ASSUME NEW t \in Thread, Deal(t) PROVE OwnCores'
  BY <1>4, <1>c DEF Deal, cmdVars
<1>5. ASSUME NEW t \in Thread, Unlink(t) PROVE OwnCores'
  BY <1>5, <1>c DEF Unlink, cmdVars, localVars
<1>6. ASSUME NEW t \in Thread, RunGroups(t) PROVE OwnCores'
  BY <1>6, <1>c DEF RunGroups, cmdVars, localVars
<1>7. ASSUME NEW t \in Thread, Leave(t) PROVE OwnCores'
  BY <1>7, <1>a, <1>c DEF Leave, TakeCommand, Mine, cmdVars
<1>8. ASSUME NEW t \in Thread, Finalize(t) PROVE OwnCores'
  BY <1>8, <1>c DEF Finalize, cmdVars
<1>9. ASSUME NEW t \in Thread, Check(t) PROVE OwnCores'
  BY <1>9, <1>a, <1>c DEF Check, TakeCommand, Mine, cmdVars
<1>10. ASSUME NEW t \in Thread, StartCommand(t) PROVE OwnCores'
  BY <1>10, <1>c DEF StartCommand, cmdVars, localVars
<1>11. ASSUME NEW t \in Thread, PushKernel(t) PROVE OwnCores'
  BY <1>11, <1>c DEF PushKernel, cmdVars
<1>12. ASSUME NEW t \in Thread, ExecCommand(t) PROVE OwnCores'
  BY <1>12, <1>c DEF ExecCommand, cmdVars
<1>13. CASE RequestShutdown
  BY <1>13, <1>c DEF RequestShutdown, cmdVars, localVars
<1>14. CASE JoinThreads
  BY <1>14, <1>c DEF JoinThreads, cmdVars, localVars
<1>15. CASE InitPool
  BY <1>15, <1>c DEF InitPool, cmdVars, localVars
<1> QED BY <1>0, <1>1, <1>2, <1>3, <1>4, <1>5, <1>6, <1>7, <1>8, <1>9, <1>10, <1>11, <1>12,
          <1>13, <1>14, <1>15 DEF Next, ThreadStep

\* A command of a sub-device stays with the threads of its cores, while the
\* commands of other devices come and go (shall_we_run_this).
THEOREM StaysOnCores == SmallKernels => (Spec => []OwnCores)
<1> SUFFICES ASSUME SmallKernels PROVE Spec => []OwnCores
  OBVIOUS
<1>1. Init => OwnCores
  BY DEF Init, OwnCores
<1>2. IInv /\ OwnCores /\ [Next]_vars => OwnCores'
  BY OwnCoresStep DEF IInv
<1> QED BY <1>1, <1>2, Invariant, PTL DEF Spec

-----------------------------------------------------------------------------
(* Refinement *)

LEMMA PoolStep ==
  ASSUME IInv, [Next]_vars PROVE [Pool!Next]_(Pool!pvars)
<1> USE DEF TypeOK, Goto
<1>n. None \notin Command /\ TypeOK
  BY ConstantsAssumption DEF IInv
<1>0. UNCHANGED <<state, groups, times>> => [Pool!Next]_(Pool!pvars)
  BY DEF Pool!pvars
<1>1. ASSUME NEW d \in Devices, NEW n \in GroupCounts, PushCommand(d, n) PROVE [Pool!Next]_(Pool!pvars)
  <2> DEFINE c == pushed + 1
  <2>1. /\ c \in Command /\ state[c] = "new"
        /\ groups' = [groups EXCEPT ![c] = n] /\ state' = [state EXCEPT ![c] = "queued"]
        /\ UNCHANGED times
    BY <1>1, <1>n, ConstantsAssumption DEF PushCommand, Command, IInv, Places, Numbered
  <2> HIDE DEF c
  <2>2. Pool!Push(c)
    BY <2>1 DEF Pool!Push, Pool!Become
  <2> QED BY <2>1, <2>2 DEF Pool!Next
<1>2. ASSUME NEW t \in Thread, RunGroups(t) PROVE [Pool!Next]_(Pool!pvars)
  <2> DEFINE k == run_cmd[t] S == {g \in Group : g \in Dealt(t)}
  <2>1. /\ k \in Command /\ k # None /\ pc[t] = "groups" /\ UNCHANGED <<state, groups>>
        /\ times' = [times EXCEPT ![k] = [g \in Group |-> times[k][g] + IF g \in Dealt(t) THEN 1 ELSE 0]]
    BY <1>2, <1>n DEF RunGroups, cmdVars
  <2>2. state[k] = "running" /\ remaining_wgs[k] + wgs_dealt[k] = groups[k]
    BY <2>1 DEF IInv, Places, RunKernels, Dealing, Balanced
  <2>3. ASSUME NEW g \in S PROVE g < groups[k] /\ times[k][g] = 0
    <3>1. Holds(t) /\ Held(k, g)
      BY <2>1, <2>3 DEF Holds, Held
    <3>2. times[k][g] = 0
      BY <2>1, <3>1 DEF IInv, Executed
    <3>3. g \in Int /\ g <= end_index[t] /\ end_index[t] < wgs_dealt[k]
      BY <3>1, ConstantsAssumption DEF Dealt, Group, IInv, Dealing, HeldDealt
    <3>4. wgs_dealt[k] <= groups[k]
      BY <1>n, <2>1, <2>2, ConstantsAssumption
    <3> QED BY <1>n, <2>1, <3>2, <3>3, <3>4, ConstantsAssumption
  <2>4. S \in SUBSET Pool!Left(k)
    BY <2>3 DEF Pool!Left
  <2>5. times' = [times EXCEPT ![k] = [g \in Group |-> IF g \in S THEN 1 ELSE times[k][g]]]
    <3>1. ASSUME NEW g \in Group
          PROVE  times[k][g] + (IF g \in Dealt(t) THEN 1 ELSE 0) = IF g \in S THEN 1 ELSE times[k][g]
      <4>1. times[k][g] \in Nat
        BY <1>n, <2>1
      <4> QED BY <2>3, <4>1
    <3> QED BY <2>1, <3>1
  <2> HIDE DEF S, k
  <2>6. Pool!Execute(k)
    BY <2>1, <2>2, <2>4, <2>5 DEF Pool!Execute
  <2> QED BY <2>1, <2>6 DEF Pool!Next
<1>3. ASSUME NEW t \in Thread, Finalize(t) PROVE [Pool!Next]_(Pool!pvars)
  <2>0. PICK k \in Command : k = run_cmd[t]
    BY <1>3, <1>n DEF Finalize
  <2>1. /\ pc[t] = "finalize" /\ state' = [state EXCEPT ![k] = "done"] /\ UNCHANGED <<groups, times>>
    BY <1>3, <2>0 DEF Finalize, cmdVars
  <2>2. state[k] = "running" /\ wgs_dealt[k] = groups[k]
    <3>1. state[k] = "running" /\ remaining_wgs[k] = 0 /\ remaining_wgs[k] + wgs_dealt[k] = groups[k]
      BY <1>n, <2>0, <2>1 DEF IInv, Places, RunKernels, Linked, LeftDealt, Dealing, Balanced
    <3> QED BY <1>n, <3>1
  <2>3. \A g \in Group : ~Held(k, g)
    BY <1>n, <2>0, <2>1 DEF IInv, Linked, OneFinalizes, Held, Holds
  <2>4. Pool!Left(k) = {}
    BY <2>2, <2>3 DEF IInv, Executed, Pool!Left
  <2>5. Pool!Complete(k)
    BY <2>1, <2>2, <2>4 DEF Pool!Complete, Pool!Become
  <2> QED BY <2>5 DEF Pool!Next
<1>4. ASSUME NEW t \in Thread, StartCommand(t) PROVE [Pool!Next]_(Pool!pvars)
  <2>0. PICK c \in Command : c = cmd[t]
    BY <1>4, <1>n DEF StartCommand
  <2>1. Pool!Start(c)
    BY <1>4, <1>n, <2>0 DEF StartCommand, cmdVars, IInv, Places, Taken, Pool!Start, Pool!Become
  <2> QED BY <2>1 DEF Pool!Next
<1>5. ASSUME NEW t \in Thread, ExecCommand(t) PROVE [Pool!Next]_(Pool!pvars)
  <2>0. PICK c \in Command : c = cmd[t]
    BY <1>5, <1>n DEF ExecCommand
  <2>1. state[c] = "running" /\ groups[c] = 0
    BY <1>5, <2>0 DEF ExecCommand, IInv, Places, Executing
  <2>2. Pool!Left(c) = {}
    BY <2>1, ConstantsAssumption DEF Pool!Left, Group
  <2>3. Pool!Complete(c)
    BY <1>5, <2>0, <2>1, <2>2 DEF ExecCommand, cmdVars, Pool!Complete, Pool!Become
  <2> QED BY <2>3 DEF Pool!Next
<1>6. ASSUME NEW t \in Thread, TakeKernel(t) \/ NoKernel(t) \/ Deal(t) \/ Unlink(t) \/ Leave(t)
             \/ Check(t) \/ PushKernel(t)
      PROVE  [Pool!Next]_(Pool!pvars)
  BY <1>0, <1>6 DEF TakeKernel, NoKernel, Deal, Unlink, Leave, Check, PushKernel, cmdVars
<1>7. CASE RequestShutdown \/ JoinThreads \/ InitPool \/ UNCHANGED vars
  BY <1>0, <1>7 DEF RequestShutdown, JoinThreads, InitPool, vars, cmdVars
<1> QED BY <1>1, <1>2, <1>3, <1>4, <1>5, <1>6, <1>7 DEF Next, ThreadStep

\* The scheduler implements the abstract pool: for any number of threads, every
\* work-group of a kernel is executed once and before the event completes
\* (get_wg_index_range, work_group_scheduler and finalize_kernel_command).
THEOREM SchedulerImplementsPool == SmallKernels => (Spec => ImplementsPool)
<1> SUFFICES ASSUME SmallKernels PROVE Spec => ImplementsPool
  OBVIOUS
<1>1. Init => Pool!Init
  BY DEF Init, Pool!Init
<1>2. IInv /\ [Next]_vars => [Pool!Next]_(Pool!pvars)
  BY PoolStep
<1> QED BY <1>1, <1>2, Invariant, PTL DEF Spec, ImplementsPool, Pool!Spec

-----------------------------------------------------------------------------
(* No wake-up of a worker is missed *)

\* Every device has a thread.
DevicesServed == \A d \in Devices : \E t \in Thread : shall_we_run_this(t, d)

\* A sleeping thread has nothing to do: no kernel and no command of its own is
\* queued, and nobody has asked the pool to stop (pthread_scheduler_get_work
\* against pthread_scheduler_push_command, push_kernel and uninit).
SleepersIdle ==
  \A t \in Thread : pc[t] = "sleep" =>
    /\ ~shutdown /\ MyKernels(t) = {}
    /\ \A c \in work_queue : ~shall_we_run_this(t, device[c])

\* An unfinished command is in a queue or with a thread.
Somewhere ==
  \A c \in Command :
    /\ state[c] = "queued" => c \in work_queue \/ \E t \in Thread : cmd[t] = c
    /\ state[c] = "running" => c \in kernel_queue \/ \E t \in Thread : cmd[t] = c \/ run_cmd[t] = c
    /\ state[c] # "new" => device[c] \in Devices

\* When all threads sleep, every command pushed has finished.
AllDone ==
  (\A t \in Thread : pc[t] = "sleep") => \A c \in Command : state[c] \in {"new", "done"}

\* A thread that finds no command of its own leaves none behind.
LEMMA NothingMine ==
  ASSUME NEW t \in Thread, work_queue \in SUBSET Command, \A c \in work_queue : ~Mine(t, c)
  PROVE  \A c \in work_queue : ~shall_we_run_this(t, device[c])
<1> SUFFICES ASSUME NEW c \in work_queue, shall_we_run_this(t, device[c]) PROVE FALSE
  OBVIOUS
<1> DEFINE S == {x \in work_queue : shall_we_run_this(t, device[x])}
<1>1. PICK R : R = OpToRel(<, Nat)
  OBVIOUS
<1>2. \A a, b \in Nat : <<a, b>> \in R <=> a < b
  BY <1>1 DEF OpToRel
<1>3. IsWellFoundedOn(R, Nat)
  BY <1>1, NatLessThanWellFounded
<1>4. S \in SUBSET Nat /\ S # {}
  <2>1. \A x \in work_queue : x \in Nat
    BY ConstantsAssumption DEF Command
  <2>2. c \in S
    OBVIOUS
  <2> QED BY <2>1, <2>2
<1> HIDE DEF S
<1>5. PICK m \in S : \A x \in S : ~(<<x, m>> \in R)
  BY <1>3, <1>4, WFMin
<1>6. ASSUME NEW x \in S PROVE m <= x
  <2>1. m \in Nat /\ x \in Nat /\ ~(<<x, m>> \in R)
    BY <1>4, <1>5
  <2>2. ~(x < m)
    BY <1>2, <2>1
  <2> QED BY <2>1, <2>2
<1>7. m \in work_queue /\ shall_we_run_this(t, device[m])
  BY DEF S
<1>8. \A x \in work_queue : shall_we_run_this(t, device[x]) => m <= x
  BY <1>6 DEF S
<1> QED BY <1>7, <1>8 DEF Mine

LEMMA TakeCommandIdle ==
  ASSUME TypeOK, NEW t \in Thread, NEW x, NEW y, TakeCommand(t, x, y)
  PROVE  /\ \A u \in Thread : u # t => pc'[u] = pc[u] /\ cmd'[u] = cmd[u]
         /\ \/ /\ work_queue' = work_queue /\ cmd' = cmd
               /\ pc'[t] = "sleep" => ~x /\ ~y /\ \A c \in work_queue : ~shall_we_run_this(t, device[c])
            \/ pc'[t] = "command" /\ cmd'[t] \in work_queue /\ work_queue' = work_queue \ {cmd'[t]}
<1>1. CASE \E c \in work_queue : /\ Mine(t, c) /\ work_queue' = work_queue \ {c}
                                 /\ cmd' = [cmd EXCEPT ![t] = c] /\ Goto(t, "command")
  BY <1>1 DEF TypeOK, Goto
<1>2. CASE /\ \A c \in work_queue : ~Mine(t, c)
           /\ Goto(t, IF x THEN "exited" ELSE IF y THEN "start" ELSE "sleep")
           /\ UNCHANGED <<work_queue, cmd>>
  <2>1. \A c \in work_queue : ~shall_we_run_this(t, device[c])
    BY <1>2, NothingMine DEF TypeOK
  <2>2. pc' = [pc EXCEPT ![t] = IF x THEN "exited" ELSE IF y THEN "start" ELSE "sleep"]
    BY <1>2 DEF Goto
  <2>3. pc'[t] = (IF x THEN "exited" ELSE IF y THEN "start" ELSE "sleep") /\ \A u \in Thread : u # t => pc'[u] = pc[u]
    BY <2>2 DEF TypeOK
  <2> QED BY <1>2, <2>1, <2>3
<1> QED BY <1>1, <1>2 DEF TakeCommand

\* A thread that falls asleep has just found nothing, and whatever gives a sleeping
\* thread something to do wakes it.
LEMMA SleepStep ==
  ASSUME TypeOK, SleepersIdle, [Next]_vars PROVE SleepersIdle'
<1>c. ASSUME \A u \in Thread : pc'[u] = "sleep" => pc[u] = "sleep",
             kernel_queue' \in SUBSET kernel_queue, work_queue' \in SUBSET work_queue,
             device' = device, shutdown' = shutdown
      PROVE  SleepersIdle'
  BY <1>c DEF SleepersIdle, MyKernels
<1>d. ASSUME \A u \in Thread : pc'[u] # "sleep" PROVE SleepersIdle'
  BY <1>d DEF SleepersIdle
<1>p. pc \in [Thread -> PcValues]
  BY DEF TypeOK, PcValues
<1>w. \A u \in Thread : PcWoken[u] # "sleep"
  BY <1>p DEF PcWoken, Woken
<1> USE DEF Goto
<1>0. CASE UNCHANGED vars
  BY <1>0, <1>c DEF vars, cmdVars, queueVars, poolVars
<1>1. ASSUME NEW d \in Devices, NEW n \in GroupCounts, PushCommand(d, n) PROVE SleepersIdle'
  BY <1>1, <1>d, <1>w DEF PushCommand
<1>2. ASSUME NEW t \in Thread, TakeKernel(t) PROVE SleepersIdle'
  BY <1>2, <1>c, <1>p DEF TakeKernel, cmdVars, queueVars, poolVars
<1>3. ASSUME NEW t \in Thread, NoKernel(t) PROVE SleepersIdle'
  <2>1. /\ TakeCommand(t, shutdown, FALSE) /\ MyKernels(t) = {}
        /\ UNCHANGED <<kernel_queue, device, shutdown>>
    BY <1>3 DEF NoKernel, cmdVars, poolVars
  <2>2. /\ \A u \in Thread : u # t => pc'[u] = pc[u]
        /\ work_queue' \in SUBSET work_queue
        /\ pc'[t] = "sleep" => ~shutdown /\ \A c \in work_queue : ~shall_we_run_this(t, device[c])
    BY <2>1, TakeCommandIdle
  <2> QED BY <2>1, <2>2 DEF SleepersIdle, MyKernels
<1>4. ASSUME NEW t \in Thread, Deal(t) PROVE SleepersIdle'
  BY <1>4, <1>c, <1>p DEF Deal, cmdVars, queueVars, poolVars
<1>5. ASSUME NEW t \in Thread, Unlink(t) PROVE SleepersIdle'
  BY <1>5, <1>c, <1>p DEF Unlink, cmdVars, poolVars
<1>6. ASSUME NEW t \in Thread, RunGroups(t) PROVE SleepersIdle'
  BY <1>6, <1>c, <1>p DEF RunGroups, cmdVars, queueVars, poolVars
<1>7. ASSUME NEW t \in Thread, Leave(t) PROVE SleepersIdle'
  <2>1. UNCHANGED <<kernel_queue, device, shutdown>>
    BY <1>7 DEF Leave, cmdVars, poolVars
  <2>2. CASE LastUser(run_cmd[t])
    BY <1>7, <1>c, <1>p, <2>1, <2>2 DEF Leave
  <2>3. CASE ~LastUser(run_cmd[t])
    <3>1. TakeCommand(t, do_exit[t], TRUE)
      BY <1>7, <2>3 DEF Leave
    <3>2. /\ \A u \in Thread : u # t => pc'[u] = pc[u]
          /\ work_queue' \in SUBSET work_queue /\ pc'[t] # "sleep"
      BY <3>1, TakeCommandIdle
    <3> QED BY <1>c, <2>1, <3>2
  <2> QED BY <2>2, <2>3
<1>8. ASSUME NEW t \in Thread, Finalize(t) PROVE SleepersIdle'
  BY <1>8, <1>c, <1>p DEF Finalize, cmdVars, queueVars, poolVars
<1>9. ASSUME NEW t \in Thread, Check(t) PROVE SleepersIdle'
  <2>1. TakeCommand(t, do_exit[t], TRUE) /\ UNCHANGED <<kernel_queue, device, shutdown>>
    BY <1>9 DEF Check, cmdVars, poolVars
  <2>2. /\ \A u \in Thread : u # t => pc'[u] = pc[u]
        /\ work_queue' \in SUBSET work_queue /\ pc'[t] # "sleep"
    BY <2>1, TakeCommandIdle
  <2> QED BY <1>c, <2>1, <2>2
<1>10. ASSUME NEW t \in Thread, StartCommand(t) PROVE SleepersIdle'
  BY <1>10, <1>c, <1>p DEF StartCommand, cmdVars, queueVars, poolVars
<1>11. ASSUME NEW t \in Thread, PushKernel(t) PROVE SleepersIdle'
  <2>1. pc' = [PcWoken EXCEPT ![t] = AfterCommand(t)] /\ AfterCommand(t) # "sleep"
    BY <1>11 DEF PushKernel, AfterCommand
  <2>2. DOMAIN PcWoken = Thread
    BY DEF PcWoken
  <2>3. \A u \in Thread : pc'[u] # "sleep"
    BY <1>w, <2>1, <2>2
  <2> QED BY <1>d, <2>3
<1>12. ASSUME NEW t \in Thread, ExecCommand(t) PROVE SleepersIdle'
  BY <1>12, <1>c, <1>p DEF ExecCommand, AfterCommand, cmdVars, queueVars, poolVars
<1>13. CASE RequestShutdown
  BY <1>13, <1>d, <1>w DEF RequestShutdown
<1>14. CASE JoinThreads
  BY <1>14, <1>d DEF JoinThreads
<1>15. CASE InitPool
  BY <1>15, <1>d DEF InitPool
<1> QED BY <1>0, <1>1, <1>2, <1>3, <1>4, <1>5, <1>6, <1>7, <1>8, <1>9, <1>10, <1>11, <1>12,
          <1>13, <1>14, <1>15 DEF Next, ThreadStep

\* A thread that leaves a kernel it is not the last user of leaves another user behind.
LEMMA UsersRemain ==
  ASSUME TypeOK, Counted, NEW t \in Thread, pc[t] = "leave", ~LastUser(run_cmd[t])
  PROVE  \E u \in Thread : u # t /\ run_cmd[u] = run_cmd[t]
<1> DEFINE k == run_cmd[t]
<1>1. k \in Command
  BY DEF TypeOK
<1>2. Cardinality(Users(k)) # 1
  BY <1>1 DEF Counted, LastUser
<1>3. t \in Users(k)
  BY DEF Users
<1>4. Users(k) # {t}
  <2>1. Cardinality({t}) = 1
    BY FS_Singleton
  <2> QED BY <1>2, <2>1
<1>5. PICK u \in Users(k) : u # t
  BY <1>3, <1>4
<1> QED BY <1>5 DEF Users

\* Commands are not lost between the queues and the threads.
LEMMA SomewhereStep ==
  ASSUME TypeOK, Roles, Places, Counted, Somewhere, [Next]_vars PROVE Somewhere'
<1>n. None \notin Command
  BY ConstantsAssumption
<1> USE DEF Goto
<1> DEFINE Keeps(c) ==
      /\ c \in work_queue => c \in work_queue' \/ \E u \in Thread : cmd'[u] = c
      /\ \A u \in Thread : cmd[u] = c =>
           cmd'[u] = c \/ (state[c] = "running" /\ c \in kernel_queue')
      /\ c \in kernel_queue \/ (\E u \in Thread : run_cmd[u] = c) =>
           c \in kernel_queue' \/ \E u \in Thread : run_cmd'[u] = c
<1>c. ASSUME device' = device, state' = state, \A c \in Command : Keeps(c)
      PROVE  Somewhere'
  <2> SUFFICES ASSUME NEW c \in Command
               PROVE  /\ state[c] = "queued" => c \in work_queue' \/ \E t \in Thread : cmd'[t] = c
                      /\ state[c] = "running" =>
                           c \in kernel_queue' \/ \E t \in Thread : cmd'[t] = c \/ run_cmd'[t] = c
                      /\ state[c] # "new" => device[c] \in Devices
    BY <1>c DEF Somewhere
  <2>1. Keeps(c)
    BY <1>c
  <2>2. /\ state[c] = "queued" => c \in work_queue \/ \E t \in Thread : cmd[t] = c
        /\ state[c] = "running" => c \in kernel_queue \/ \E t \in Thread : cmd[t] = c \/ run_cmd[t] = c
        /\ state[c] # "new" => device[c] \in Devices
    BY DEF Somewhere
  <2> QED BY <2>1, <2>2
<1>k. ASSUME NEW t \in Thread, cmd[t] = None, device' = device, state' = state,
             kernel_queue' = kernel_queue,
             \/ work_queue' = work_queue /\ cmd' = cmd
             \/ cmd'[t] \in work_queue /\ work_queue' = work_queue \ {cmd'[t]}
                /\ \A u \in Thread : u # t => cmd'[u] = cmd[u],
             \A c \in Command, u \in Thread : run_cmd[u] = c =>
                c \in kernel_queue' \/ \E v \in Thread : run_cmd'[v] = c
      PROVE  Somewhere'
  <2>1. ASSUME NEW c \in Command PROVE Keeps(c)
    BY <1>k, <1>n
  <2> HIDE DEF Keeps
  <2> QED BY <1>c, <1>k, <2>1
<1>0. CASE UNCHANGED vars
  BY <1>0, <1>c DEF vars, cmdVars, queueVars, localVars
<1>1. ASSUME NEW d \in Devices, NEW n \in GroupCounts, PushCommand(d, n) PROVE Somewhere'
  <2> DEFINE p == pushed + 1
  <2>1. /\ p \in Command /\ device' = [device EXCEPT ![p] = d] /\ state' = [state EXCEPT ![p] = "queued"]
        /\ work_queue' = work_queue \cup {p} /\ UNCHANGED <<kernel_queue, cmd, run_cmd>>
    BY <1>1, ConstantsAssumption DEF PushCommand, Command, TypeOK, localVars
  <2> HIDE DEF p
  <2>2. /\ device'[p] = d /\ state'[p] = "queued"
        /\ \A c \in Command : c # p => device'[c] = device[c] /\ state'[c] = state[c]
    BY <2>1 DEF TypeOK
  <2> QED BY <2>1, <2>2 DEF Somewhere
<1>2. ASSUME NEW t \in Thread, TakeKernel(t) PROVE Somewhere'
  <2>1. PICK k \in kernel_queue : run_cmd' = [run_cmd EXCEPT ![t] = k]
    BY <1>2 DEF TakeKernel, MyKernels
  <2>2. run_cmd[t] = None /\ \A u \in Thread : u # t => run_cmd'[u] = run_cmd[u]
    BY <1>2, <2>1 DEF TakeKernel, TypeOK, Roles, InKernel
  <2>3. UNCHANGED <<device, state, work_queue, kernel_queue, cmd>>
    BY <1>2 DEF TakeKernel, cmdVars, queueVars
  <2> QED BY <1>n, <1>c, <2>2, <2>3
<1>3. ASSUME NEW t \in Thread, NoKernel(t) PROVE Somewhere'
  <2>1. TakeCommand(t, shutdown, FALSE) /\ cmd[t] = None /\ UNCHANGED <<device, state, kernel_queue, run_cmd>>
    BY <1>3 DEF NoKernel, Roles, InCommand, cmdVars
  <2> QED BY <1>k, <2>1, TakeCommandIdle
<1>4. ASSUME NEW t \in Thread, Deal(t) PROVE Somewhere'
  BY <1>4, <1>c DEF Deal, cmdVars, queueVars
<1>5. ASSUME NEW t \in Thread, Unlink(t) PROVE Somewhere'
  <2>1. kernel_queue' = kernel_queue \ {run_cmd[t]} /\ UNCHANGED <<device, state, work_queue, cmd, run_cmd>>
    BY <1>5 DEF Unlink, cmdVars, localVars
  <2> QED BY <1>c, <2>1
<1>6. ASSUME NEW t \in Thread, RunGroups(t) PROVE Somewhere'
  BY <1>6, <1>c DEF RunGroups, cmdVars, queueVars, localVars
<1>7. ASSUME NEW t \in Thread, Leave(t) PROVE Somewhere'
  <2>1. UNCHANGED <<device, state, kernel_queue>> /\ pc[t] = "leave" /\ cmd[t] = None
    BY <1>7 DEF Leave, Roles, InCommand, cmdVars
  <2>2. CASE LastUser(run_cmd[t])
    BY <1>7, <1>c, <2>1, <2>2 DEF Leave
  <2>3. CASE ~LastUser(run_cmd[t])
    <3>1. TakeCommand(t, do_exit[t], TRUE) /\ run_cmd' = [run_cmd EXCEPT ![t] = None]
      BY <1>7, <2>3 DEF Leave
    <3>2. \A u \in Thread : u # t => run_cmd'[u] = run_cmd[u]
      BY <3>1 DEF TypeOK
    <3>3. PICK v \in Thread : v # t /\ run_cmd[v] = run_cmd[t]
      BY <2>1, <2>3, UsersRemain
    <3>4. \A c \in Command, u \in Thread : run_cmd[u] = c => \E w \in Thread : run_cmd'[w] = c
      BY <3>2, <3>3
    <3> QED BY <1>k, <2>1, <3>1, <3>4, TakeCommandIdle
  <2> QED BY <2>2, <2>3
<1>8. ASSUME NEW t \in Thread, Finalize(t) PROVE Somewhere'
  <2>1. /\ state' = [state EXCEPT ![run_cmd[t]] = "done"] /\ run_cmd' = [run_cmd EXCEPT ![t] = None]
        /\ UNCHANGED <<device, work_queue, kernel_queue, cmd>>
    BY <1>8 DEF Finalize, cmdVars, queueVars
  <2>2. /\ \A u \in Thread : u # t => run_cmd'[u] = run_cmd[u]
        /\ \A c \in Command : c # run_cmd[t] => state'[c] = state[c]
        /\ \A c \in Command : c = run_cmd[t] => state'[c] = "done" /\ state[c] = "running"
    BY <2>1, <1>n DEF TypeOK, Places, RunKernels
  <2> QED BY <2>1, <2>2 DEF Somewhere
<1>9. ASSUME NEW t \in Thread, Check(t) PROVE Somewhere'
  <2>1. TakeCommand(t, do_exit[t], TRUE) /\ cmd[t] = None /\ UNCHANGED <<device, state, kernel_queue, run_cmd>>
    BY <1>9 DEF Check, Roles, InCommand, cmdVars
  <2> QED BY <1>k, <2>1, TakeCommandIdle
<1>10. ASSUME NEW t \in Thread, StartCommand(t) PROVE Somewhere'
  <2>1. /\ state' = [state EXCEPT ![cmd[t]] = "running"]
        /\ UNCHANGED <<device, work_queue, kernel_queue, cmd, run_cmd>>
    BY <1>10 DEF StartCommand, cmdVars, queueVars, localVars
  <2>2. cmd[t] \in Command /\ state[cmd[t]] = "queued"
    BY <1>10 DEF StartCommand, TypeOK, Places, Taken
  <2>3. \A c \in Command : IF c = cmd[t] THEN state'[c] = "running" ELSE state'[c] = state[c]
    BY <2>1, <2>2 DEF TypeOK
  <2> QED BY <2>1, <2>2, <2>3 DEF Somewhere
<1>11. ASSUME NEW t \in Thread, PushKernel(t) PROVE Somewhere'
  <2>1. /\ kernel_queue' = kernel_queue \cup {cmd[t]} /\ cmd' = [cmd EXCEPT ![t] = None]
        /\ UNCHANGED <<device, state, work_queue, run_cmd>>
    BY <1>11 DEF PushKernel, cmdVars
  <2>2. state[cmd[t]] = "running" /\ \A u \in Thread : u # t => cmd'[u] = cmd[u]
    BY <1>11, <2>1 DEF PushKernel, TypeOK, Places, Pushing
  <2> QED BY <1>c, <2>1, <2>2
<1>12. ASSUME NEW t \in Thread, ExecCommand(t) PROVE Somewhere'
  <2>1. /\ state' = [state EXCEPT ![cmd[t]] = "done"] /\ cmd' = [cmd EXCEPT ![t] = None]
        /\ UNCHANGED <<device, work_queue, kernel_queue, run_cmd>>
    BY <1>12 DEF ExecCommand, cmdVars, queueVars
  <2>2. /\ \A u \in Thread : u # t => cmd'[u] = cmd[u]
        /\ \A c \in Command : c # cmd[t] => state'[c] = state[c]
        /\ \A c \in Command : c = cmd[t] => state'[c] = "done" /\ state[c] = "running"
    BY <1>12, <2>1, <1>n DEF ExecCommand, TypeOK, Places, Executing
  <2> QED BY <2>1, <2>2 DEF Somewhere
<1>13. CASE RequestShutdown
  BY <1>13, <1>c DEF RequestShutdown, cmdVars, queueVars, localVars
<1>14. CASE JoinThreads
  BY <1>14, <1>c DEF JoinThreads, cmdVars, queueVars, localVars
<1>15. CASE InitPool
  BY <1>15, <1>c DEF InitPool, cmdVars, queueVars, localVars
<1> QED BY <1>0, <1>1, <1>2, <1>3, <1>4, <1>5, <1>6, <1>7, <1>8, <1>9, <1>10, <1>11, <1>12,
          <1>13, <1>14, <1>15 DEF Next, ThreadStep

\* A thread sleeps only while nothing in the queues is for it and nobody has asked the
\* pool to stop: no signal on wake_pool is missed between a thread's look at the queues
\* and its wait (pthread_scheduler_get_work, push_command, push_kernel and uninit).
THEOREM SleepersHaveNothing == SmallKernels => (Spec => []SleepersIdle)
<1> SUFFICES ASSUME SmallKernels PROVE Spec => []SleepersIdle
  OBVIOUS
<1>1. Init => SleepersIdle
  BY DEF Init, SleepersIdle
<1>2. IInv /\ SleepersIdle /\ [Next]_vars => SleepersIdle'
  BY SleepStep DEF IInv
<1> QED BY <1>1, <1>2, Invariant, PTL DEF Spec

\* When every device has a thread and all threads sleep, every command pushed has been
\* executed: none is left in a queue that each thread takes for another's
\* (check_cmd_queue_for_device, check_kernel_queue_for_device).
THEOREM SleepMeansDone == SmallKernels /\ DevicesServed => (Spec => []AllDone)
<1> SUFFICES ASSUME SmallKernels, DevicesServed PROVE Spec => []AllDone
  OBVIOUS
<1>1. Init => SleepersIdle /\ Somewhere
  BY DEF Init, SleepersIdle, Somewhere
<1>2. IInv /\ SleepersIdle /\ Somewhere /\ [Next]_vars => SleepersIdle' /\ Somewhere'
  BY SleepStep, SomewhereStep DEF IInv
<1>3. ASSUME IInv, SleepersIdle, Somewhere PROVE AllDone
  <2> SUFFICES ASSUME \A t \in Thread : pc[t] = "sleep", NEW c \in Command,
                      state[c] \in {"queued", "running"}
               PROVE  FALSE
    BY <1>3 DEF AllDone, IInv, TypeOK
  <2>1. \A t \in Thread : cmd[t] = None /\ run_cmd[t] = None
    BY <1>3 DEF IInv, Roles, InKernel, InCommand
  <2>2. c \in work_queue \cup kernel_queue /\ device[c] \in Devices
    BY <1>3, <2>1, ConstantsAssumption DEF Somewhere
  <2>3. PICK t \in Thread : shall_we_run_this(t, device[c])
    BY <2>2 DEF DevicesServed
  <2> QED BY <1>3, <2>2, <2>3 DEF SleepersIdle, MyKernels
<1> QED BY <1>1, <1>2, <1>3, Invariant, PTL DEF Spec

=============================================================================
