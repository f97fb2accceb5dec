----------------------------- MODULE BufferSpace -----------------------------
(***************************************************************************)
(* What an allocator of device memory promises: a buffer that is granted   *)
(* is aligned, lies inside a region, is large enough and overlaps no other *)
(* buffer; it stays where it is until it is given back.  BufferAllocator   *)
(* implements it.                                                          *)
(***************************************************************************)
EXTENDS Integers

CONSTANTS
  Regions,    \* the numbers of the regions
  Base,       \* where each region starts
  Size,       \* and how many bytes it has
  Alignment,  \* buffers start at multiples of it
  Requests    \* the sizes asked for

VARIABLE granted  \* the buffers the clients have

Buffer == [region : Regions, start : Nat, size : Nat, want : Requests]

Overlap(b, c) ==
  /\ b.region = c.region
  /\ b.start < c.start + c.size /\ c.start < b.start + b.size

\* b can be granted next to the buffers there are.
Grantable(b) ==
  /\ b.size >= b.want
  /\ b.start % Alignment = 0
  /\ b.start >= Base[b.region]
  /\ b.start + b.size <= Base[b.region] + Size[b.region]
  /\ \A c \in granted : ~Overlap(b, c)

Init == granted = {}

Next ==
  \/ \E b \in granted' : Grantable(b) /\ granted' = granted \cup {b} /\ b \notin granted
  \/ \E b \in granted : granted' = granted \ {b}

Spec == Init /\ [][Next]_granted
===============================================================================
