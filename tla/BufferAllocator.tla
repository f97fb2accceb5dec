--------------------------- MODULE BufferAllocator ---------------------------
(***************************************************************************)
(* The allocator of device memory (bufalloc.c).  A region keeps a list of  *)
(* chunks in the order of their addresses; the last of them, the sentinel, *)
(* is the memory not handed out yet.  Records of chunks come from a list   *)
(* of their own and go back to it when chunks are merged.                  *)
(*                                                                         *)
(* Every critical section of a region's lock is one action; an allocation  *)
(* takes the lock up to twice per region.  The clients of a device may     *)
(* call from several threads and give back what they were granted.         *)
(*                                                                         *)
(* A definition X preceded by X<Suffix> with the same parameters is the    *)
(* code; the other is a mistake the code could have made.                  *)
(***************************************************************************)
EXTENDS Integers, Sequences

CONSTANTS
  Threads,
  Base, Size,  \* the regions, in the order of their list
  Alignment,   \* region->alignment
  MaxChunks,   \* MAX_CHUNKS_IN_REGION
  Requests,    \* the sizes asked for
  Strategies   \* the values of region->strategy

Regions == 1..Len(Base)
Chunks  == 0..MaxChunks - 1   \* region->all_chunks
NoChunk == -1                 \* NULL

ASSUME BufferAllocatorAssumption ==
  /\ Base \in Seq(Nat) \ {<<>>} /\ Size \in Seq(Nat) /\ Len(Base) = Len(Size)
  /\ Alignment \in Nat \ {0} /\ MaxChunks \in Nat \ {0}
  /\ Requests \subseteq Nat \ {0}
  /\ Strategies \subseteq {"wasteful", "tight"}
\* free_buffer looks for an address in all regions: an exhausted region must
\* not end where the next one starts.
ASSUME RegionsApart ==
  \A r, s \in Regions : r # s => Base[r] + Size[r] < Base[s] \/ Base[s] + Size[s] < Base[r]

VARIABLES
  region,  \* the regions: chunks, free_chunks, last_chunk, strategy, all_chunks
  pc,      \* where a thread is in alloc_buffer: stage, region and size
  held     \* the chunks the clients were given, with the size they asked for

vars == <<region, pc, held>>

Unused == [start |-> 0, size |-> 0, allocated |-> FALSE]
Idle   == [stage |-> "idle", region |-> 1, want |-> 0]

Init ==
  /\ \E strategy \in [Regions -> Strategies] :
       region = [r \in Regions |->
         [chunks   |-> <<0>>,
          free     |-> Chunks \ {0},
          last     |-> 0,
          strategy |-> strategy[r],
          info     |-> [c \in Chunks |->
            [Unused EXCEPT !.start = IF c = 0 THEN Base[r] ELSE 0,
                           !.size  = IF c = 0 THEN Size[r] ELSE 0]]]]
  /\ pc = [t \in Threads |-> Idle]
  /\ held = {}

-----------------------------------------------------------------------------
\* Allocation.  R is the record of a region, c a chunk of it.
Aligned(a) == ((a + Alignment - 1) \div Alignment) * Alignment

\* chunk_slack: what is left of the chunk behind an aligned buffer of n bytes.
SlackUnaligned(R, c, n) == R.info[c].size - n
Slack(R, c, n) == R.info[c].start + R.info[c].size - (Aligned(R.info[c].start) + n)

\* The records are alike: any one stands for the head of free_chunks.
NextRecord(R) == CHOOSE c \in R.free : TRUE

\* DL_DELETE: the list s without its element c.
Position(s, c) == CHOOSE i \in DOMAIN s : s[i] = c
Without(s, c) ==
  [i \in 1..Len(s) - 1 |-> IF i < Position(s, c) THEN s[i] ELSE s[i + 1]]

\* append_new_chunk: the buffer is cut from the front of the sentinel.
MayAppend(R, n) == Slack(R, R.last, n) >= 0 /\ R.free # {}

Appended(R, n) ==
  LET new   == NextRecord(R)
      start == Aligned(R.info[R.last].start)
  IN  [R EXCEPT
        !.free = @ \ {new},
        !.chunks = Append(Append(Without(@, R.last), new), R.last),
        !.info[new] = [start |-> start, size |-> n, allocated |-> TRUE],
        !.info[R.last].start = start + n,
        !.info[R.last].size = Slack(R, R.last, n)]

\* A chunk given back earlier is used again whole: the first in the list.
Fits(R, c, n) == c # R.last /\ ~R.info[c].allocated /\ Slack(R, c, n) >= 0

Fitting(R, n) == {i \in DOMAIN R.chunks : Fits(R, R.chunks[i], n)}
Reused(R, c) == [R EXCEPT !.info[c].allocated = TRUE]

Stages(r) == IF region[r].strategy = "wasteful" THEN <<"append", "search">>
                                                ELSE <<"search", "append">>

Call(t) ==
  /\ pc[t].stage = "idle"
  /\ \E n \in Requests :
       pc' = [pc EXCEPT ![t] = [stage |-> Stages(1)[1], region |-> 1, want |-> n]]
  /\ UNCHANGED <<region, held>>

\* The chunk c of thread t's region, which has become R.
Grant(t, R, c) ==
  /\ region' = [region EXCEPT ![pc[t].region] = R]
  /\ held' = held \cup {[region |-> pc[t].region, chunk |-> c, want |-> pc[t].want]}
  /\ pc' = [pc EXCEPT ![t] = Idle]

\* The other stage, then the next region, then NULL.
Proceed(t) ==
  LET r == pc[t].region
  IN  /\ UNCHANGED <<region, held>>
      /\ pc' = [pc EXCEPT ![t] =
           IF @.stage = Stages(r)[1] THEN [@ EXCEPT !.stage = Stages(r)[2]]
           ELSE IF r < Len(Base)
                THEN [@ EXCEPT !.region = r + 1, !.stage = Stages(r + 1)[1]]
           ELSE Idle]

AppendChunk(t) ==
  LET R == region[pc[t].region]
  IN  /\ pc[t].stage = "append"
      /\ IF MayAppend(R, pc[t].want)
         THEN Grant(t, Appended(R, pc[t].want), NextRecord(R))
         ELSE Proceed(t)

SearchChunks(t) ==
  LET R    == region[pc[t].region]
      fits == Fitting(R, pc[t].want)
  IN  /\ pc[t].stage = "search"
      /\ \/ \E i \in fits : /\ \A j \in fits : i <= j
                          /\ Grant(t, Reused(R, R.chunks[i]), R.chunks[i])
         \/ fits = {} /\ Proceed(t)

-----------------------------------------------------------------------------
\* Giving back.  The head of the list has the last chunk as its prev.
Prev(R, c) == LET i == Position(R.chunks, c)
              IN  IF i = 1 THEN R.last ELSE R.chunks[i - 1]
Following(R, c) == LET i == Position(R.chunks, c)
                   IN  IF i = Len(R.chunks) THEN NoChunk ELSE R.chunks[i + 1]

MergeableAllocated(R, c, d) ==
  c # NoChunk /\ d # NoChunk /\ R.info[c].start <= R.info[d].start
Mergeable(R, c, d) ==
  /\ c # NoChunk /\ d # NoChunk
  /\ ~R.info[c].allocated /\ ~R.info[d].allocated
  /\ R.info[c].start <= R.info[d].start

\* What the record of d still holds is overwritten before it is used again.
MergedSum(R, c, d) ==
  [R EXCEPT !.info[c].size = @ + R.info[d].size,
            !.info[d] = Unused,
            !.chunks = Without(@, d),
            !.free = @ \cup {d},
            !.last = IF @ = d THEN c ELSE @]
Merged(R, c, d) ==
  [R EXCEPT !.info[c].size = R.info[d].start + R.info[d].size - R.info[c].start,
            !.info[d] = Unused,
            !.chunks = Without(@, d),
            !.free = @ \cup {d},
            !.last = IF @ = d THEN c ELSE @]

\* coalesce_chunks: what the call makes of the record of the region.
Coalesced(R, c, d) == IF Mergeable(R, c, d) THEN Merged(R, c, d) ELSE R

Released(R, c) == [R EXCEPT !.info[c].allocated = FALSE]

\* coalesce_chunks(coalesce_chunks(c->prev, c), c->next).  C does not say which
\* argument of the outer call is evaluated first: after the inner call has
\* merged c into the chunk before it, c has become the end of free_chunks.
Freed(R, c) ==
  LET R0     == Released(R, c)
      before == Mergeable(R0, Prev(R0, c), c)
      first  == IF before THEN Prev(R0, c) ELSE c
      next   == {Following(R0, c)} \cup (IF before THEN {NoChunk} ELSE {})
  IN  {Coalesced(Coalesced(R0, Prev(R0, c), c), first, d) : d \in next}

\* The client gives the chunk back and must not use it again.
FreeChunk ==
  /\ \E h \in held :
       /\ held' = held \ {h}
       /\ \E R \in Freed(region[h.region], h.chunk) :
            region' = [region EXCEPT ![h.region] = R]
  /\ UNCHANGED pc

\* The chunks that start at address a, in the order free_buffer sees them.
Starting(r, a) ==
  {i \in DOMAIN region[r].chunks : region[r].info[region[r].chunks[i]].start = a}

FreeBuffer ==
  /\ \E h \in held, r \in Regions :
       LET found == Starting(r, region[h.region].info[h.chunk].start)
           before == UNION {Starting(s, region[h.region].info[h.chunk].start) : s \in 1..r - 1}
       IN  /\ before = {}
           /\ \E i \in found :
                /\ \A j \in found : i <= j
                /\ \E R \in Freed(region[r], region[r].chunks[i]) :
                     region' = [region EXCEPT ![r] = R]
           /\ held' = held \ {h}
  /\ UNCHANGED pc

Next == \/ \E t \in Threads : Call(t) \/ AppendChunk(t) \/ SearchChunks(t)
        \/ FreeChunk \/ FreeBuffer

Spec == Init /\ [][Next]_vars

-----------------------------------------------------------------------------
(* What is checked *)

\* The values of the variables.
RegionState ==
  [chunks : Seq(Chunks), free : SUBSET Chunks, last : Chunks, strategy : Strategies,
   info : [Chunks -> [start : Nat, size : Nat, allocated : BOOLEAN]]]
TypeOK ==
  /\ region \in [Regions -> RegionState]
  /\ pc \in [Threads -> [stage : {"idle", "append", "search"}, region : Regions, want : Nat]]
  /\ \A t \in Threads : pc[t].stage # "idle" => pc[t].want \in Requests
  /\ held \subseteq [region : Regions, chunk : Chunks, want : Requests]

\* Nothing is lost: every record of a region is either in its list of chunks or
\* free, once; the chunks are in the order of their addresses, end with the
\* sentinel and leave gaps for the alignment only; every buffer except the
\* sentinel is aligned and not empty, and before an unaligned sentinel there is
\* no gap; the chunks in use are those the clients have, and each was given to
\* one client, who asked for no more.  This is about the merging of chunks in
\* coalesce_chunks and the reuse of records in append_new_chunk.
StartOf(R, i) == R.info[R.chunks[i]].start
EndOf(R, i)   == R.info[R.chunks[i]].start + R.info[R.chunks[i]].size
Listed(R)     == {R.chunks[i] : i \in DOMAIN R.chunks}

Records(R) ==
  /\ \A i, j \in DOMAIN R.chunks : R.chunks[i] = R.chunks[j] => i = j
  /\ Listed(R) \cup R.free = Chunks /\ Listed(R) \cap R.free = {}
  /\ R.chunks # <<>> /\ R.chunks[Len(R.chunks)] = R.last /\ ~R.info[R.last].allocated
Tiled(R, from, to) ==
  /\ StartOf(R, 1) >= from /\ StartOf(R, 1) - from < Alignment /\ EndOf(R, Len(R.chunks)) = to
  /\ \A i, j \in DOMAIN R.chunks : i < j => EndOf(R, i) <= StartOf(R, j)
  /\ \A i \in 1..Len(R.chunks) - 1 :
       /\ StartOf(R, i + 1) - EndOf(R, i) < Alignment
       /\ StartOf(R, i) % Alignment = 0 /\ StartOf(R, i) < EndOf(R, i)
  /\ LET n == Len(R.chunks)
     IN  StartOf(R, n) % Alignment = 0 \/ StartOf(R, n) = IF n = 1 THEN from ELSE EndOf(R, n - 1)

InfoOf(h)    == region[h.region].info[h.chunk]
Holders(r)   == {h \in held : h.region = r}
InUse(R)     == {c \in Listed(R) : R.info[c].allocated}
NothingLost ==
  /\ \A r \in Regions :
       /\ Records(region[r]) /\ Tiled(region[r], Base[r], Base[r] + Size[r])
       /\ InUse(region[r]) = {h.chunk : h \in Holders(r)}
  /\ \A g, h \in held : g.region = h.region /\ g.chunk = h.chunk => g = h
  /\ \A h \in held : h.want <= InfoOf(h).size

\* The buffers of the clients.
Buffer(h) == [region |-> h.region, start |-> InfoOf(h).start, size |-> InfoOf(h).size, want |-> h.want]
Granted   == {Buffer(h) : h \in held}

\* The allocator implements the abstract space: a buffer is granted only where
\* it overlaps no other, and stays there, whatever is allocated, given back and
\* merged around it.
Space == INSTANCE BufferSpace WITH
  Regions <- Regions, Base <- Base, Size <- Size, Alignment <- Alignment,
  Requests <- Requests,
  granted <- Granted
ImplementsSpace == Space!Spec
===============================================================================
