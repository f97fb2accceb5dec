---------------------------- MODULE MemObjectsInv ----------------------------
(***************************************************************************)
(* The inductive invariant of MemObjects: who keeps a buffer, which        *)
(* mappings are on its list, and which command a mapping waits for.        *)
(***************************************************************************)
EXTENDS MemObjects

TypeOK ==
  /\ parent \in [Buffers -> Buffers \cup {None}] /\ refs \in [Buffers -> Int]
  /\ mappings \in [Buffers -> Seq(Command)] /\ map_count \in [Buffers -> Int]
  /\ ptr \in [Command -> Pointers \cup {None}]
  /\ requested \in [Command -> BOOLEAN] /\ alive \in [Command -> BOOLEAN]
  /\ created \in 0..MaxCommands
  /\ kind \in [Command -> {"none", "map", "unmap"}]
  /\ target \in [Command -> Buffers \cup {None}]
  /\ mapping \in [Command -> Command \cup {NoCommand}]
  /\ after \in [Command -> Command \cup {NoCommand}]
  /\ state \in [Command -> {"none", "queued", "executed", "done", "failed"}]
  /\ pc \in [Threads -> {"idle", "append", "retain", "enqueue"}]
  /\ cur \in [Threads -> Command \cup {NoCommand}]
  /\ born \subseteq Buffers /\ IsFiniteSet(born) /\ owned \subseteq born /\ undone \subseteq 1..created

\* The parent of a sub-buffer has no parent itself, and what is not created is
\* not used.
Family ==
  \A b \in Buffers :
    /\ parent[b] # None => b \in born /\ parent[b] \in born /\ parent[parent[b]] = None
    /\ b \notin born => refs[b] = 0 /\ mappings[b] = <<>> /\ map_count[b] = 0

\* A command that is being created has one thread, and the application owns a
\* buffer that keeps its target.
Calls ==
  /\ \A t \in Threads : pc[t] # "idle" =>
       /\ cur[t] \in 1..created /\ state[cur[t]] = "none"
       /\ pc[t] = "append" => kind[cur[t]] = "map"
       /\ pc[t] = "retain" => kind[cur[t]] = "unmap"
       /\ \E b \in owned : Target(b) = target[cur[t]]
  /\ \A t, u \in Threads : pc[t] # "idle" /\ pc[u] # "idle" /\ cur[t] = cur[u] => t = u

Commands ==
  /\ \A c \in 1..created :
       /\ kind[c] \in {"map", "unmap"} /\ target[c] \in born /\ parent[target[c]] = None
       /\ kind[c] = "map" => mapping[c] = c
       /\ kind[c] = "unmap" =>
            /\ mapping[c] \in 1..created /\ kind[mapping[c]] = "map"
            /\ target[mapping[c]] = target[c] /\ requested[mapping[c]]
  /\ \A c \in Command \ 1..created : kind[c] = "none" /\ state[c] = "none" /\ ~requested[c]

\* The list of a buffer has mappings of the buffer that are allocated, each
\* once.
Listing(b) ==
  \A i \in DOMAIN mappings[b] :
    LET m == mappings[b][i]
    IN  /\ m \in 1..created /\ kind[m] = "map" /\ target[m] = b /\ alive[m]
        /\ \A t \in Threads : cur[t] = m => pc[t] # "append"
        /\ \A j \in DOMAIN mappings[b] : mappings[b][j] = m => i = j

\* A command that unmaps has a mapping of its own, which is on the list as long
\* as the command has not run.
Lists ==
  /\ \A b \in Buffers : Listing(b)
  /\ \A c \in 1..created : kind[c] = "unmap" =>
       /\ \A t \in Threads : cur[t] = mapping[c] => pc[t] # "append"
       /\ c \in Pending => Contains(mappings[target[c]], mapping[c])
       /\ \A d \in 1..created : kind[d] = "unmap" /\ mapping[c] = mapping[d] => c = d
  /\ \A t \in Threads : pc[t] = "append" => alive[cur[t]]

\* If addresses are unmapped before they are mapped again, the search finds the
\* mapping of the call whose pointer is unmapped, so the command that unmaps
\* waits for the one that maps.
Paired ==
  /\ \A c \in 1..created : kind[c] = "unmap" => mapping[c] = after[c]
  /\ \A c \in 1..created : kind[c] = "map" => (requested[c] <=> c \in undone)
  /\ \A c, d \in 1..created :
       kind[c] = "map" /\ kind[d] = "map" /\ target[c] = target[d] /\ ptr[c] = ptr[d] /\ c # d =>
         c \in undone \/ d \in undone
  /\ \A c \in Pending : kind[c] = "map" => alive[c]

IInv ==
  /\ TypeOK /\ Family /\ Calls /\ Commands /\ Lists /\ (~SamePointer => Paired)
  /\ RefsCounted /\ MapCounted
=============================================================================
