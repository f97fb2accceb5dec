-------------------------- MODULE MCBufferAllocator --------------------------
(* A region that starts unaligned and a small one with room for one buffer. *)
EXTENDS BufferAllocator, TLC

TwoBases == <<1, 16>>
TwoSizes == <<9, 2>>
ThreadSymmetry == Permutations(Threads)
===============================================================================
