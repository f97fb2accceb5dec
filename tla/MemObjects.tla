----------------------------- MODULE MemObjects -----------------------------
(***************************************************************************)
(* Buffers, sub-buffers and mappings: clEnqueueMapBuffer,                  *)
(* clEnqueueUnmapMemObject, clCreateSubBuffer, clReleaseMemObject, and the *)
(* execution and completion of the two commands (pocl_exec_command,        *)
(* pocl_mem_objs_cleanup).  A command holds a reference to its buffer; a   *)
(* mapping is on the list of the buffer from the call that maps to the     *)
(* execution of the command that unmaps.                                   *)
(*                                                                         *)
(* The queue is out of order; the application lets a command that unmaps   *)
(* wait for the command that mapped.  Both act on the parent of a          *)
(* sub-buffer.  A mapping has the number of the command that makes it.     *)
(*                                                                         *)
(* A definition X preceded by X<Suffix> with the same parameters is the    *)
(* code; the other is a mistake the code could have made.                  *)
(***************************************************************************)
EXTENDS Integers, Sequences, FiniteSets, SequencesExt

CONSTANTS
  Threads,      \* application threads
  Buffers,      \* the buffers and sub-buffers there may be
  Pointers,     \* the addresses mapped, the same offsets in every buffer
  SamePointer,  \* a pointer may be mapped again before it is unmapped, or
                \* after a command that failed to map it
  MayFail,      \* commands may fail with an event they wait for
  MaxCommands,  \* bound on the commands created
  None          \* no buffer, no pointer

ASSUME MemObjectsAssumption ==
  /\ None \notin Buffers \cup Pointers
  /\ SamePointer \in BOOLEAN /\ MayFail \in BOOLEAN /\ MaxCommands \in Nat

Command   == 1..MaxCommands
NoCommand == 0

VARIABLES
  parent,     \* memobj->parent
  refs,       \* memobj->pocl_refcount
  mappings,   \* memobj->mappings, oldest first
  map_count,  \* memobj->map_count
  ptr,        \* mapping->host_ptr
  requested,  \* mapping->unmap_requested
  alive,      \* the mapping is allocated
  created,    \* the commands created
  kind,       \* cmd->type
  target,     \* event->mem_objs[0]
  mapping,    \* cmd->command.map.mapping, cmd->command.unmap.mapping
  after,      \* the command on its wait list
  state,      \* how far a command is
  pc,         \* where a thread is in its call
  cur,        \* the command that call creates
  born,       \* the buffers created so far
  owned,      \* the buffers the application holds a reference to
  undone      \* commands whose mapping the application has unmapped

bufVars == <<parent, refs, mappings, map_count, born, owned>>
mapVars == <<ptr, requested, alive>>
cmdVars == <<created, kind, target, mapping, after>>
vars == <<bufVars, mapVars, cmdVars, state, pc, cur, undone>>

-----------------------------------------------------------------------------
Init ==
  /\ parent = [b \in Buffers |-> None]
  /\ refs = [b \in Buffers |-> 0]
  /\ mappings  = [b \in Buffers |-> <<>>]
  /\ map_count = [b \in Buffers |-> 0]
  /\ ptr = [c \in Command |-> None]
  /\ requested = [c \in Command |-> FALSE]
  /\ alive     = [c \in Command |-> FALSE]
  /\ created = 0
  /\ kind = [c \in Command |-> "none"]
  /\ target = [c \in Command |-> None]
  /\ mapping = [c \in Command |-> NoCommand]
  /\ after   = [c \in Command |-> NoCommand]
  /\ state   = [c \in Command |-> "none"]
  /\ pc  = [t \in Threads |-> "idle"]
  /\ cur = [t \in Threads |-> NoCommand]
  /\ born = {} /\ owned = {} /\ undone = {}

Goto(t, l) == pc' = [pc EXCEPT ![t] = l]

\* clReleaseMemObject: the last reference frees the mappings left and drops the
\* reference to the parent, which is not a sub-buffer itself.
DropMem(b) ==
  LET frees == refs[b] = 1
      freesParent == frees /\ parent[b] # None /\ refs[parent[b]] = 1
      freed == (IF frees THEN {b} ELSE {}) \cup (IF freesParent THEN {parent[b]} ELSE {})
  IN
  /\ refs' = [x \in Buffers |-> IF x = b \/ (frees /\ x = parent[b]) THEN refs[x] - 1 ELSE refs[x]]
  /\ mappings' = [x \in Buffers |-> IF x \in freed THEN <<>> ELSE mappings[x]]
  /\ alive' = [c \in Command |-> alive[c] /\ \A x \in freed : ~Contains(mappings[x], c)]

-----------------------------------------------------------------------------
(* Application calls *)

CreateBuffer(t, b) ==
  /\ pc[t] = "idle" /\ b \notin born
  /\ born' = born \cup {b} /\ owned' = owned \cup {b}
  /\ refs' = [refs EXCEPT ![b] = 1]
  /\ UNCHANGED <<parent, mappings, map_count, mapVars, cmdVars, state, pc, cur, undone>>

ParentKept(p) == refs
ParentRetained(p) == [refs EXCEPT ![p] = @ + 1]

CreateSubBuffer(t, b, p) ==
  /\ pc[t] = "idle" /\ b \notin born /\ p \in owned /\ parent[p] = None
  /\ born' = born \cup {b} /\ owned' = owned \cup {b}
  /\ parent' = [parent EXCEPT ![b] = p]
  /\ refs' = [ParentRetained(p) EXCEPT ![b] = 1]
  /\ UNCHANGED <<mappings, map_count, mapVars, cmdVars, state, pc, cur, undone>>

\* The application drops its reference to a buffer no call of its own is using.
Calling(b) == \E t \in Threads : pc[t] # "idle" /\ target[cur[t]] \in {b, parent[b]}
ReleaseBuffer(t, b) ==
  /\ pc[t] = "idle" /\ b \in owned /\ ~Calling(b)
  /\ owned' = owned \ {b}
  /\ DropMem(b)
  /\ UNCHANGED <<parent, map_count, born, ptr, requested, cmdVars, state, pc, cur, undone>>

Target(b) == IF parent[b] = None THEN b ELSE parent[b]

NewCommand(t, k, b, m, w) ==
  /\ created < MaxCommands /\ created' = created + 1
  /\ kind'    = [kind EXCEPT ![created'] = k]
  /\ target'  = [target EXCEPT ![created'] = Target(b)]
  /\ mapping' = [mapping EXCEPT ![created'] = m]
  /\ after'   = [after EXCEPT ![created'] = w]
  /\ cur' = [cur EXCEPT ![t] = created']

\* clEnqueueMapBuffer up to pocl_create_command: the buffer is retained, the
\* address of the mapping is known.
MapBuffer(t, b, p) ==
  /\ pc[t] = "idle" /\ b \in owned
  /\ SamePointer \/ \A c \in 1..created :
       kind[c] = "map" /\ target[c] = Target(b) /\ ptr[c] = p => c \in undone
  /\ NewCommand(t, "map", b, created + 1, NoCommand)
  /\ ptr'   = [ptr EXCEPT ![created'] = p]
  /\ alive' = [alive EXCEPT ![created'] = TRUE]
  /\ refs'  = [refs EXCEPT ![Target(b)] = @ + 1]
  /\ Goto(t, "append")
  /\ UNCHANGED <<parent, mappings, map_count, born, owned, requested, state, undone>>

AppendMapping(t) ==
  LET c == cur[t] IN
  /\ pc[t] = "append"
  /\ mappings' = [mappings EXCEPT ![target[c]] = Append(@, c)]
  /\ Goto(t, "enqueue")
  /\ UNCHANGED <<parent, refs, map_count, born, owned, mapVars, cmdVars, state, cur, undone>>

\* Where on the list the mappings at an address are that nobody has asked to
\* unmap; the call takes the oldest.
SearchAny(list, p) == {i \in DOMAIN list : ptr[list[i]] = p}
Search(list, p) == {i \in DOMAIN list : ptr[list[i]] = p /\ ~requested[list[i]]}

\* clEnqueueUnmapMemObject for the pointer that the call of command m returned.
UnmapMemObject(t, b, m) ==
  LET list == mappings[Target(b)] found == Search(list, ptr[m]) IN
  /\ pc[t] = "idle" /\ b \in owned
  /\ m \in 1..created \ undone /\ kind[m] = "map" /\ target[m] = Target(b)
  /\ state[m] # "none"
  /\ undone' = undone \cup {m}
  /\ \E i \in found :
       /\ \A j \in found : i <= j
       /\ requested' = [requested EXCEPT ![list[i]] = TRUE]
       /\ NewCommand(t, "unmap", b, list[i], m)
  /\ Goto(t, "retain")
  /\ UNCHANGED <<bufVars, ptr, alive, state>>

\* The command exists, and gets its reference to the buffer.
RetainTarget(t) ==
  /\ pc[t] = "retain"
  /\ refs' = [refs EXCEPT ![target[cur[t]]] = @ + 1]
  /\ Goto(t, "enqueue")
  /\ UNCHANGED <<parent, mappings, map_count, born, owned, mapVars, cmdVars, state, cur, undone>>

Enqueue(t) ==
  /\ pc[t] = "enqueue"
  /\ state' = [state EXCEPT ![cur[t]] = "queued"]
  /\ Goto(t, "idle")
  /\ UNCHANGED <<bufVars, mapVars, cmdVars, cur, undone>>

-----------------------------------------------------------------------------
(* Driver threads *)

\* pocl_exec_command, with the buffer locked.
ExecMap(c) ==
  /\ state[c] = "queued" /\ kind[c] = "map"
  /\ map_count' = [map_count EXCEPT ![target[c]] = @ + 1]
  /\ state' = [state EXCEPT ![c] = "executed"]
  /\ UNCHANGED <<parent, refs, mappings, born, owned, mapVars, cmdVars, pc, cur, undone>>

Without(list, m) ==
  IF Contains(list, m) THEN RemoveAt(list, CHOOSE i \in DOMAIN list : list[i] = m) ELSE list

MayRunEarly(c) == state[c] = "queued"
MayRun(c) == state[c] = "queued" /\ state[after[c]] = "done"
ExecUnmap(c) ==
  /\ kind[c] = "unmap" /\ MayRun(c)
  /\ mappings'  = [mappings EXCEPT ![target[c]] = Without(@, mapping[c])]
  /\ map_count' = [map_count EXCEPT ![target[c]] = @ - 1]
  /\ alive' = [alive EXCEPT ![mapping[c]] = FALSE]
  /\ state' = [state EXCEPT ![c] = "executed"]
  /\ UNCHANGED <<parent, refs, born, owned, ptr, requested, cmdVars, pc, cur, undone>>

\* pocl_update_event_finished drops the reference of the command.
Finish(c) ==
  /\ state[c] = "executed"
  /\ DropMem(target[c])
  /\ state' = [state EXCEPT ![c] = "done"]
  /\ UNCHANGED <<parent, map_count, born, owned, ptr, requested, cmdVars, pc, cur, undone>>

FailKept(c) ==
  /\ state[c] = "queued"
  /\ MayFail \/ (kind[c] = "unmap" /\ state[after[c]] = "failed")
  /\ state' = [state EXCEPT ![c] = "failed"]
  /\ UNCHANGED <<bufVars, mapVars, cmdVars, pc, cur, undone>>

\* pocl_update_event_failed: the command is finished without being executed.
Fail(c) ==
  /\ state[c] = "queued"
  /\ MayFail \/ (kind[c] = "unmap" /\ state[after[c]] = "failed")
  /\ DropMem(target[c])
  /\ state' = [state EXCEPT ![c] = "failed"]
  /\ UNCHANGED <<parent, map_count, born, owned, ptr, requested, cmdVars, pc, cur, undone>>

-----------------------------------------------------------------------------
CallStep(t) == AppendMapping(t) \/ RetainTarget(t) \/ Enqueue(t)
RunStep(c)  == ExecMap(c) \/ ExecUnmap(c) \/ Finish(c) \/ Fail(c)

AppStep(t) == \E b \in Buffers :
  \/ CreateBuffer(t, b) \/ ReleaseBuffer(t, b)
  \/ \E p \in Buffers : CreateSubBuffer(t, b, p)
  \/ \E p \in Pointers : MapBuffer(t, b, p)
  \/ \E m \in Command : UnmapMemObject(t, b, m)

Next == \/ \E t \in Threads : CallStep(t) \/ AppStep(t)
        \/ \E c \in Command : RunStep(c)

Spec == Init /\ [][Next]_vars

\* Calls return, and commands are executed or fail.
FairSpec ==
  /\ Spec
  /\ \A t \in Threads : WF_vars(CallStep(t))
  /\ \A c \in Command : WF_vars(RunStep(c))

-----------------------------------------------------------------------------
(* Properties *)

\* The count of a buffer is the application's reference, the sub-buffers and
\* the commands that are not finished, so a command never works on a freed
\* buffer, and unmapping through a sub-buffer keeps its parent
\* (clEnqueueMapBuffer, clEnqueueUnmapMemObject, pocl_mem_objs_cleanup).
Holding(b) ==
  {c \in 1..created : target[c] = b /\ state[c] \notin {"done", "failed"}
                      /\ \A t \in Threads : cur[t] = c => pc[t] # "retain"}
RefsCounted ==
  \A b \in Buffers :
    refs[b] = Cardinality({b} \cap owned) + Cardinality(Holding(b))
              + Cardinality({s \in Buffers : parent[s] = b /\ refs[s] > 0})

\* A mapping is there until the command that unmaps it has run, which is one
\* command, and no later command or list points to it (unmap_requested, the
\* search of clEnqueueUnmapMemObject, pocl_exec_command).
Pending == {c \in 1..created : state[c] \in {"none", "queued"}}
MappingAlive ==
  /\ \A c \in Pending : alive[mapping[c]]
  /\ \A c, d \in 1..created : kind[c] = "unmap" /\ kind[d] = "unmap" /\ mapping[c] = mapping[d] => c = d
  /\ \A b \in Buffers : \A i \in DOMAIN mappings[b] : alive[mappings[b][i]]

\* The list of a buffer is as long as map_count says, but for the mappings that
\* are on it and not mapped: the command has not been executed yet, or it has
\* failed and never will be (AppendMapping, pocl_exec_command).
NotMapped(b) ==
  {c \in 1..created : kind[c] = "map" /\ target[c] = b /\ state[c] \in {"none", "queued", "failed"}
                      /\ \A t \in Threads : cur[t] = c => pc[t] # "append"}
MapCounted ==
  \A b \in Buffers : refs[b] > 0 => Len(mappings[b]) = map_count[b] + Cardinality(NotMapped(b))

\* A buffer is freed once the application has given up its reference and those
\* to its sub-buffers, whatever commands were in flight.
BuffersFreed ==
  \A b \in Buffers :
    b \in born /\ b \notin owned /\ (\A s \in owned : parent[s] # b) ~> refs[b] = 0
=============================================================================
