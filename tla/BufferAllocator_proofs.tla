----------------------- MODULE BufferAllocator_proofs -----------------------
(***************************************************************************)
(* Proofs that the allocator of device memory loses nothing, and that it   *)
(* implements BufferSpace: for any number of regions, chunks and threads,  *)
(* any sizes and any alignment.                                            *)
(***************************************************************************)
EXTENDS BufferAllocator, TLAPS

\* The inductive invariant.
IInv == TypeOK /\ NothingLost

-----------------------------------------------------------------------------
(* Alignment *)

LEMMA Division ==
  ASSUME NEW A \in Nat \ {0}, NEW x \in Int
  PROVE  \E q \in Int, r \in 0..(A - 1) : x \div A = q /\ x % A = r /\ x = A * q + r
<1>1. x \div A \in Int /\ x % A \in 0..(A - 1)
  OBVIOUS
<1>2. A \in Nat /\ A > 0
  OBVIOUS
<1>3. x = A * (x \div A) + (x % A)
  BY <1>2
<1> QED BY <1>1, <1>3

LEMMA SizeFacts ==
  ASSUME NEW f \in [Chunks -> [start : Nat, size : Nat, allocated : BOOLEAN]], NEW c \in Chunks, NEW z \in Nat,
         NEW g, g = [f EXCEPT ![c].size = z]
  PROVE  /\ g \in [Chunks -> [start : Nat, size : Nat, allocated : BOOLEAN]]
         /\ g[c].start = f[c].start /\ g[c].size = z /\ g[c].allocated = f[c].allocated
         /\ \A e \in Chunks : e # c => g[e] = f[e]
<1>1. f[c] \in [start : Nat, size : Nat, allocated : BOOLEAN]
  OBVIOUS
<1>2. [f[c] EXCEPT !.size = z] \in [start : Nat, size : Nat, allocated : BOOLEAN]
  BY <1>1
<1>3. g = [f EXCEPT ![c] = [f[c] EXCEPT !.size = z]]
  OBVIOUS
<1> QED BY <1>1, <1>2, <1>3

LEMMA DistanceFacts ==
  ASSUME NEW x \in Nat, NEW y \in Nat, NEW w \in Nat
  PROVE  /\ x <= y => y + w - x \in Nat
         /\ x + (y + w - x) = y + w
OBVIOUS

LEMMA OnlyMultiple ==
  ASSUME NEW A \in Nat \ {0}, NEW k \in Int, A * k < A, -A < A * k
  PROVE  k = 0
<1>1. k >= 1 => A * k >= A
  OBVIOUS
<1>2. k <= -1 => A * k <= -A
  OBVIOUS
<1> QED BY <1>1, <1>2

LEMMA Multiple ==
  ASSUME NEW A \in Nat \ {0}, NEW q \in Int
  PROVE  (A * q) % A = 0
<1>1. A * q \in Int
  OBVIOUS
<1>2. PICK d \in Int, r \in 0..(A - 1) : (A * q) % A = r /\ A * q = A * d + r
  BY <1>1, Division
<1>3. q - d \in Int /\ r = A * (q - d)
  BY <1>2
<1>4. q - d = 0
  BY <1>3, OnlyMultiple
<1>5. r = 0
  BY <1>3, <1>4
<1> QED BY <1>2, <1>5

LEMMA AlignedFacts ==
  ASSUME NEW a \in Nat
  PROVE  /\ Aligned(a) \in Nat /\ a <= Aligned(a) /\ Aligned(a) - a < Alignment
         /\ Aligned(a) % Alignment = 0
<1>1. Alignment \in Nat \ {0}
  BY BufferAllocatorAssumption
<1>2. PICK x \in Nat : x = a + Alignment - 1
  BY <1>1
<1>3. PICK q \in Int, r \in 0..(Alignment - 1) : x \div Alignment = q /\ x = Alignment * q + r
  BY <1>1, <1>2, Division
<1>4. Aligned(a) = q * Alignment
  BY <1>2, <1>3 DEF Aligned
<1>5. Aligned(a) = Alignment * q
  BY <1>1, <1>4
<1>6. Aligned(a) % Alignment = 0
  BY <1>1, <1>5, Multiple
<1>7. Aligned(a) = x - r /\ Aligned(a) \in Int
  BY <1>1, <1>3, <1>5
<1> QED BY <1>1, <1>2, <1>6, <1>7

LEMMA AlignedSelf ==
  ASSUME NEW a \in Nat, a % Alignment = 0
  PROVE  Aligned(a) = a
<1>1. Alignment \in Nat \ {0}
  BY BufferAllocatorAssumption
<1>2. PICK y \in Nat : y = Aligned(a) /\ a <= y /\ y - a < Alignment /\ y % Alignment = 0
  BY AlignedFacts
<1>3. PICK p \in Int, r \in 0..(Alignment - 1) : y \div Alignment = p /\ y % Alignment = r /\ y = Alignment * p + r
  BY <1>1, Division
<1>4. PICK q \in Int, u \in 0..(Alignment - 1) : a \div Alignment = q /\ a % Alignment = u /\ a = Alignment * q + u
  BY <1>1, Division
<1>5. y - a = Alignment * (p - q) /\ p - q \in Int
  BY <1>1, <1>2, <1>3, <1>4
<1>6. p - q = 0
  BY <1>1, <1>2, <1>5, OnlyMultiple
<1> QED BY <1>1, <1>2, <1>5, <1>6

-----------------------------------------------------------------------------
(* Lists of chunks *)

LEMMA ListFacts ==
  ASSUME NEW S, NEW s \in Seq(S)
  PROVE  Len(s) \in Nat /\ DOMAIN s = 1..Len(s) /\ \A i \in 1..Len(s) : s[i] \in S
OBVIOUS

LEMMA AppendFacts ==
  ASSUME NEW S, NEW s \in Seq(S), NEW e \in S
  PROVE  /\ Append(s, e) \in Seq(S) /\ Len(Append(s, e)) = Len(s) + 1 /\ Append(s, e)[Len(s) + 1] = e
         /\ \A i \in 1..Len(s) : Append(s, e)[i] = s[i]
OBVIOUS

LEMMA WithoutFacts ==
  ASSUME NEW S, NEW s \in Seq(S), \A i, j \in DOMAIN s : s[i] = s[j] => i = j, NEW k \in DOMAIN s
  PROVE  /\ Position(s, s[k]) = k
         /\ Without(s, s[k]) \in Seq(S) /\ Len(Without(s, s[k])) = Len(s) - 1
         /\ \A i \in 1..Len(s) - 1 : Without(s, s[k])[i] = IF i < k THEN s[i] ELSE s[i + 1]
<1>1. Position(s, s[k]) = k
  BY DEF Position
<1>2. Len(s) \in Nat /\ DOMAIN s = 1..Len(s) /\ Len(s) >= 1 /\ k \in 1..Len(s)
      /\ \A i \in 1..Len(s) : s[i] \in S
  OBVIOUS
<1>3. Without(s, s[k]) = [i \in 1..Len(s) - 1 |-> IF i < k THEN s[i] ELSE s[i + 1]]
  <2>1. PICK p : p = Position(s, s[k])
    OBVIOUS
  <2>2. Without(s, s[k]) = [i \in 1..Len(s) - 1 |-> IF i < p THEN s[i] ELSE s[i + 1]]
    BY <2>1 DEF Without
  <2> QED BY <1>1, <2>1, <2>2
<1>4. PICK n \in Nat : Len(s) = n + 1
  <2>1. Len(s) - 1 \in Nat /\ Len(s) = (Len(s) - 1) + 1
    BY <1>2
  <2> QED BY <2>1
<1>5. \A i \in 1..n : (IF i < k THEN s[i] ELSE s[i + 1]) \in S
  BY <1>2, <1>4
<1>6. [i \in 1..n |-> IF i < k THEN s[i] ELSE s[i + 1]] \in Seq(S)
      /\ Len([i \in 1..n |-> IF i < k THEN s[i] ELSE s[i + 1]]) = n
  BY <1>5
<1>7. Len(s) - 1 = n
  BY <1>4
<1> QED BY <1>1, <1>3, <1>6, <1>7

\* What is known of a record that is a state of a region.
Region(R, from, to) == R \in RegionState /\ Records(R) /\ Tiled(R, from, to)

LEMMA RegionFacts ==
  ASSUME NEW from, NEW to, NEW R, Region(R, from, to)
  PROVE  /\ Len(R.chunks) \in Nat /\ Len(R.chunks) >= 1 /\ DOMAIN R.chunks = 1..Len(R.chunks)
         /\ R.chunks \in Seq(Chunks) /\ R.last \in Chunks /\ R.free \subseteq Chunks
         /\ \A i \in 1..Len(R.chunks) : R.chunks[i] \in Chunks /\ R.chunks[i] \in Int
         /\ \A c \in Chunks : /\ R.info[c] \in [start : Nat, size : Nat, allocated : BOOLEAN]
                             /\ R.info[c].start \in Nat /\ R.info[c].size \in Nat /\ R.info[c].allocated \in BOOLEAN
         /\ \A i \in 1..Len(R.chunks) : StartOf(R, i) \in Nat /\ EndOf(R, i) \in Nat /\ StartOf(R, i) <= EndOf(R, i)
<1>1. /\ Len(R.chunks) \in Nat /\ DOMAIN R.chunks = 1..Len(R.chunks)
      /\ R.chunks \in Seq(Chunks) /\ R.last \in Chunks /\ R.free \subseteq Chunks
      /\ R.info \in [Chunks -> [start : Nat, size : Nat, allocated : BOOLEAN]]
  BY DEF Region, RegionState
<1>2. Len(R.chunks) >= 1
  BY <1>1 DEF Region, Records
<1>3. \A i \in 1..Len(R.chunks) : R.chunks[i] \in Chunks /\ R.chunks[i] \in Int
  <2>1. Chunks \subseteq Int
    BY BufferAllocatorAssumption DEF Chunks
  <2>2. R.chunks \in Seq(Chunks)
    BY <1>1
  <2>3. \A i \in 1..Len(R.chunks) : R.chunks[i] \in Chunks
    BY <2>2, ListFacts
  <2> QED BY <2>1, <2>3
<1>4. \A c \in Chunks : /\ R.info[c] \in [start : Nat, size : Nat, allocated : BOOLEAN]
                      /\ R.info[c].start \in Nat /\ R.info[c].size \in Nat /\ R.info[c].allocated \in BOOLEAN
  BY <1>1
<1>5. \A i \in 1..Len(R.chunks) : StartOf(R, i) \in Nat /\ EndOf(R, i) \in Nat /\ StartOf(R, i) <= EndOf(R, i)
  BY <1>3, <1>4 DEF StartOf, EndOf
<1> QED BY <1>1, <1>2, <1>3, <1>4, <1>5

\* Two neighbours that nobody uses become one.
LEMMA MergedFacts ==
  ASSUME NEW from \in Int, NEW to, NEW R, Region(R, from, to), NEW k \in 1..Len(R.chunks) - 1,
         ~R.info[R.chunks[k]].allocated, ~R.info[R.chunks[k + 1]].allocated,
         NEW Q, Q = Merged(R, R.chunks[k], R.chunks[k + 1])
  PROVE  /\ Region(Q, from, to) /\ InUse(Q) = InUse(R)
         /\ \A e \in InUse(R) : Q.info[e] = R.info[e]
         /\ Len(Q.chunks) = Len(R.chunks) - 1
         /\ \A i \in 1..Len(Q.chunks) : Q.chunks[i] = IF i <= k THEN R.chunks[i] ELSE R.chunks[i + 1]
         /\ ~Q.info[R.chunks[k]].allocated
         /\ \A e \in Chunks : e # R.chunks[k + 1] => Q.info[e].allocated = R.info[e].allocated
<1>0. PICK n \in Nat, c \in Chunks, d \in Chunks :
        n = Len(R.chunks) /\ n >= 1 /\ k + 1 <= n /\ 1 <= k /\ c = R.chunks[k] /\ d = R.chunks[k + 1]
  <2>1. Len(R.chunks) \in Nat /\ Len(R.chunks) >= 1 /\ k + 1 <= Len(R.chunks) /\ 1 <= k
        /\ k \in 1..Len(R.chunks) /\ k + 1 \in 1..Len(R.chunks)
    BY RegionFacts
  <2>2. R.chunks[k] \in Chunks /\ R.chunks[k + 1] \in Chunks
    BY <2>1, RegionFacts
  <2> QED BY <2>1, <2>2
<1>n. n \in Nat /\ n >= 2 /\ k \in Nat /\ 1 <= k /\ k + 1 <= n
  BY <1>0
<1>k. k \in 1..n /\ k + 1 \in 1..n
  BY <1>n
<1>s. R.chunks \in Seq(Chunks) /\ DOMAIN R.chunks = 1..n /\ \A i \in 1..n : R.chunks[i] \in Chunks
  BY <1>0, RegionFacts
<1>r. \A e \in Chunks : R.info[e].start \in Nat /\ R.info[e].size \in Nat
  BY RegionFacts
<1>e. \A i \in 1..n : StartOf(R, i) \in Nat /\ EndOf(R, i) \in Nat
  BY <1>0, RegionFacts
<1>9. \A i, j \in 1..n : R.chunks[i] = R.chunks[j] => i = j
  BY <1>s DEF Region, Records
<1>1. c # d
  BY <1>n, <1>k, <1>0, <1>9
<1>2. EndOf(R, k) <= StartOf(R, k + 1)
  BY <1>n, <1>k, <1>s DEF Region, Tiled
<1>3. PICK z \in Nat : z = R.info[d].start + R.info[d].size - R.info[c].start
  <2>1. R.info[c].start <= R.info[d].start
    <3>1. R.info[c].start + R.info[c].size <= R.info[d].start
      BY <1>0, <1>2 DEF StartOf, EndOf
    <3> QED BY <1>r, <3>1
  <2>2. R.info[d].start + R.info[d].size - R.info[c].start \in Nat
    <3>1. R.info[c].start \in Nat /\ R.info[d].start \in Nat /\ R.info[d].size \in Nat
      BY <1>r
    <3> QED BY <2>1, <3>1, DistanceFacts
  <2> QED BY <2>2
<1>4. R.info \in [Chunks -> [start : Nat, size : Nat, allocated : BOOLEAN]] /\ R \in RegionState
  BY DEF Region, RegionState
<1>5. /\ Q.chunks = Without(R.chunks, d) /\ Q.free = R.free \cup {d}
      /\ Q.last = IF R.last = d THEN c ELSE R.last
      /\ Q.strategy = R.strategy
      /\ Q.info = [[R.info EXCEPT ![c].size = z] EXCEPT ![d] = Unused]
      /\ Q = [chunks |-> Q.chunks, free |-> Q.free, last |-> Q.last, strategy |-> Q.strategy, info |-> Q.info]
  BY <1>0, <1>3, <1>4 DEF Merged, RegionState
<1>6. /\ Q.info \in [Chunks -> [start : Nat, size : Nat, allocated : BOOLEAN]]
      /\ Q.info[c].start = R.info[c].start /\ Q.info[c].size = z
      /\ Q.info[c].allocated = R.info[c].allocated
      /\ \A e \in Chunks : e # c /\ e # d => Q.info[e] = R.info[e]
  <2>1. Unused \in [start : Nat, size : Nat, allocated : BOOLEAN]
    BY DEF Unused
  <2>2. PICK f \in [Chunks -> [start : Nat, size : Nat, allocated : BOOLEAN]] : f = [R.info EXCEPT ![c].size = z]
    BY <1>4, SizeFacts
  <2>3. /\ f[c].start = R.info[c].start /\ f[c].size = z /\ f[c].allocated = R.info[c].allocated
        /\ \A e \in Chunks : e # c => f[e] = R.info[e]
    BY <1>4, <2>2, SizeFacts
  <2>4. Q.info = [f EXCEPT ![d] = Unused]
    BY <1>5, <2>2
  <2>5. /\ Q.info \in [Chunks -> [start : Nat, size : Nat, allocated : BOOLEAN]]
        /\ \A e \in Chunks : e # d => Q.info[e] = f[e]
    BY <2>1, <2>4
  <2> QED BY <1>1, <2>3, <2>5
<1>7. /\ Q.chunks \in Seq(Chunks) /\ Len(Q.chunks) = n - 1
      /\ \A i \in 1..n - 1 : Q.chunks[i] = IF i < k + 1 THEN R.chunks[i] ELSE R.chunks[i + 1]
  <2>1. \A i, j \in DOMAIN R.chunks : R.chunks[i] = R.chunks[j] => i = j
    BY DEF Region, Records
  <2>2. k + 1 \in DOMAIN R.chunks /\ d = R.chunks[k + 1]
    BY <1>0, <1>k, <1>s
  <2>3. /\ Without(R.chunks, R.chunks[k + 1]) \in Seq(Chunks)
        /\ Len(Without(R.chunks, R.chunks[k + 1])) = Len(R.chunks) - 1
        /\ \A i \in 1..Len(R.chunks) - 1 :
             Without(R.chunks, R.chunks[k + 1])[i] = IF i < k + 1 THEN R.chunks[i] ELSE R.chunks[i + 1]
    <3>1. R.chunks \in Seq(Chunks)
      BY <1>s
    <3>2. k + 1 \in DOMAIN R.chunks
      BY <2>2
    <3> HIDE <1>s, <1>9, <2>2
    <3> QED BY <2>1, <3>1, <3>2, WithoutFacts
  <2>4. Q.chunks = Without(R.chunks, R.chunks[k + 1]) /\ n = Len(R.chunks)
    BY <1>0, <1>5
  <2> QED BY <2>3, <2>4
<1>8. Q \in RegionState
  <2>1. Q.chunks \in Seq(Chunks) /\ Q.free \in SUBSET Chunks /\ Q.last \in Chunks /\ Q.strategy \in Strategies
    BY <1>0, <1>4, <1>5, <1>7 DEF RegionState
  <2> QED BY <1>5, <1>6, <2>1 DEF RegionState
<1>10. ASSUME NEW i \in 1..n
       PROVE  (i # k => R.chunks[i] # c) /\ (i # k + 1 => R.chunks[i] # d)
  <2>1. R.chunks[i] = R.chunks[k] => i = k
    BY <1>9, <1>k
  <2>2. R.chunks[i] = R.chunks[k + 1] => i = k + 1
    BY <1>9, <1>k
  <2> QED BY <1>0, <2>1, <2>2
<1>11. R.chunks[k] = c /\ R.chunks[k + 1] = d
  BY <1>0
<1>12. \A i \in 1..n - 1 :
         /\ StartOf(Q, i) = IF i <= k THEN StartOf(R, i) ELSE StartOf(R, i + 1)
         /\ EndOf(Q, i) = IF i < k THEN EndOf(R, i) ELSE EndOf(R, i + 1)
  <2> SUFFICES ASSUME NEW i \in 1..n - 1
               PROVE  /\ StartOf(Q, i) = IF i <= k THEN StartOf(R, i) ELSE StartOf(R, i + 1)
                      /\ EndOf(Q, i) = IF i < k THEN EndOf(R, i) ELSE EndOf(R, i + 1)
    OBVIOUS
  <2>i. i \in 1..n /\ i + 1 \in 1..n /\ i \in Int
    BY <1>n
  <2>1. CASE i < k
    <3>1. Q.chunks[i] = R.chunks[i] /\ R.chunks[i] # c /\ R.chunks[i] # d
      <4>1. i < k + 1 /\ i # k /\ i # k + 1
        BY <1>n, <2>1, <2>i
      <4>2. R.chunks[i] # c /\ R.chunks[i] # d
        BY <1>10, <2>i, <4>1
      <4> QED BY <1>7, <4>1, <4>2
    <3>2. Q.info[R.chunks[i]] = R.info[R.chunks[i]]
      BY <1>6, <1>s, <2>i, <3>1
    <3> QED BY <1>n, <2>1, <2>i, <3>1, <3>2 DEF StartOf, EndOf
  <2>2. CASE i = k
    <3>1. Q.chunks[i] = c
      BY <1>7, <1>11, <1>n, <2>2, <2>i
    <3>2. StartOf(Q, i) = R.info[c].start /\ EndOf(Q, i) = R.info[c].start + z
      BY <1>6, <3>1 DEF StartOf, EndOf
    <3>3. R.info[c].start + z = R.info[d].start + R.info[d].size
      <4>1. R.info[c].start \in Nat /\ R.info[d].start \in Nat /\ R.info[d].size \in Nat
        BY <1>r
      <4>2. PICK x \in Nat, y \in Nat, w \in Nat :
              x = R.info[c].start /\ y = R.info[d].start /\ w = R.info[d].size
        BY <4>1
      <4>3. z = y + w - x
        BY <1>3, <4>2
      <4>4. x + z = y + w
        BY <4>3
      <4> QED BY <4>2, <4>4
    <3> QED BY <1>11, <2>2, <3>2, <3>3 DEF StartOf, EndOf
  <2>3. CASE i > k
    <3>1. Q.chunks[i] = R.chunks[i + 1] /\ R.chunks[i + 1] # c /\ R.chunks[i + 1] # d
      <4>1. ~(i < k + 1) /\ i + 1 # k /\ i + 1 # k + 1
        BY <1>n, <2>3, <2>i
      <4>2. R.chunks[i + 1] # c /\ R.chunks[i + 1] # d
        BY <1>10, <2>i, <4>1
      <4> QED BY <1>7, <4>1, <4>2
    <3>2. Q.info[R.chunks[i + 1]] = R.info[R.chunks[i + 1]]
      BY <1>6, <1>s, <2>i, <3>1
    <3> QED BY <1>n, <2>3, <2>i, <3>1, <3>2 DEF StartOf, EndOf
  <2> QED BY <1>n, <2>1, <2>2, <2>3, <2>i
<1>13. Listed(R) = {R.chunks[i] : i \in 1..n}
  BY <1>s DEF Listed
<1>14. Listed(Q) = {Q.chunks[i] : i \in 1..n - 1}
  BY <1>7, ListFacts DEF Listed
<1>15. Listed(Q) = Listed(R) \ {d}
  <2>1. ASSUME NEW e \in Listed(Q) PROVE e \in Listed(R) \ {d}
    <3>1. PICK i \in 1..n - 1 : e = Q.chunks[i]
      BY <1>14
    <3>2. PICK j \in 1..n : j # k + 1 /\ e = R.chunks[j]
      <4>1. CASE i < k + 1
        <5>1. i \in 1..n /\ i # k + 1 /\ e = R.chunks[i]
          BY <1>7, <1>n, <3>1, <4>1
        <5> QED BY <5>1
      <4>2. CASE ~(i < k + 1)
        <5>1. i + 1 \in 1..n /\ i + 1 # k + 1 /\ e = R.chunks[i + 1]
          <6>1. i + 1 \in 1..n /\ i + 1 # k + 1
            BY <1>n, <4>2
          <6> QED BY <1>7, <3>1, <4>2, <6>1
        <5> QED BY <5>1
      <4> QED BY <4>1, <4>2
    <3>3. R.chunks[j] # d
      BY <1>10, <3>2
    <3> QED BY <1>13, <3>2, <3>3
  <2>2. ASSUME NEW e \in Listed(R) \ {d} PROVE e \in Listed(Q)
    <3>1. PICK j \in 1..n : e = R.chunks[j] /\ j # k + 1
      BY <1>11, <1>13, <2>2
    <3>2. PICK i \in 1..n - 1 : e = Q.chunks[i]
      <4>1. CASE j < k + 1
        <5>1. j \in 1..n - 1 /\ Q.chunks[j] = R.chunks[j]
          <6>1. j \in 1..n - 1
            BY <1>n, <4>1
          <6> QED BY <1>7, <4>1, <6>1
        <5> QED BY <3>1, <5>1
      <4>2. CASE ~(j < k + 1)
        <5>1. j - 1 \in 1..n - 1 /\ ~(j - 1 < k + 1) /\ (j - 1) + 1 = j
          BY <1>n, <3>1, <4>2
        <5>2. Q.chunks[j - 1] = R.chunks[j]
          BY <1>7, <5>1
        <5> QED BY <3>1, <5>1, <5>2
      <4> QED BY <4>1, <4>2
    <3> QED BY <1>14, <3>2
  <2> QED BY <2>1, <2>2
<1>16. Records(Q)
  <2>1. \A i, j \in DOMAIN Q.chunks : Q.chunks[i] = Q.chunks[j] => i = j
    <3> SUFFICES ASSUME NEW i \in 1..n - 1, NEW j \in 1..n - 1, Q.chunks[i] = Q.chunks[j]
                 PROVE  i = j
      <4>1. DOMAIN Q.chunks = 1..n - 1
        BY <1>7, ListFacts
      <4> QED BY <4>1
    <3>0. i \in 1..n /\ i + 1 \in 1..n /\ j \in 1..n /\ j + 1 \in 1..n
      BY <1>n
    <3>1. PICK u \in 1..n : u = IF i < k + 1 THEN i ELSE i + 1
      BY <3>0
    <3>2. PICK v \in 1..n : v = IF j < k + 1 THEN j ELSE j + 1
      BY <3>0
    <3>3. R.chunks[u] = Q.chunks[i] /\ R.chunks[v] = Q.chunks[j]
      BY <1>7, <3>1, <3>2
    <3>4. u = v
      BY <1>9, <3>3
    <3> QED BY <1>n, <3>1, <3>2, <3>4
  <2>2. Listed(Q) \cup Q.free = Chunks /\ Listed(Q) \cap Q.free = {}
    <3>1. Listed(R) \cup R.free = Chunks /\ Listed(R) \cap R.free = {}
      BY DEF Region, Records
    <3> QED BY <1>1, <1>5, <1>15, <3>1
  <2>3. Q.chunks # <<>>
    BY <1>7, <1>n
  <2>4. R.chunks[n] = R.last /\ ~R.info[R.last].allocated
    BY <1>0 DEF Region, Records
  <2>5. Q.chunks[n - 1] = Q.last /\ ~Q.info[Q.last].allocated
    <3>1. CASE k + 1 = n
      <4>1. Q.last = c /\ n - 1 = k /\ k \in 1..n - 1
        <5>1. n - 1 = k /\ k \in 1..n - 1
          BY <1>n, <3>1
        <5> QED BY <1>5, <1>11, <2>4, <3>1, <5>1
      <4>2. Q.chunks[k] = c
        BY <1>7, <1>11, <1>n, <4>1
      <4> QED BY <1>6, <1>11, <4>1, <4>2
    <3>2. CASE k + 1 # n
      <4>1. R.last # d /\ R.last # c
        <5>1. n \in 1..n /\ n # k /\ n # k + 1
          BY <1>n, <3>2
        <5>2. R.chunks[n] # d /\ R.chunks[n] # c
          BY <1>10, <5>1
        <5> QED BY <2>4, <5>2
      <4>2. n - 1 \in 1..n - 1 /\ ~(n - 1 < k + 1) /\ (n - 1) + 1 = n
        BY <1>n, <3>2
      <4>3. Q.chunks[n - 1] = R.chunks[n]
        BY <1>7, <4>2
      <4>4. R.last \in Chunks
        BY <1>4 DEF RegionState
      <4> QED BY <1>5, <1>6, <2>4, <4>1, <4>3, <4>4
    <3> QED BY <3>1, <3>2
  <2> QED BY <1>7, <2>1, <2>2, <2>3, <2>5 DEF Records
<1>17. Tiled(Q, from, to)
  <2>1. /\ StartOf(R, 1) >= from /\ StartOf(R, 1) - from < Alignment /\ EndOf(R, n) = to
        /\ \A i, j \in 1..n : i < j => EndOf(R, i) <= StartOf(R, j)
        /\ \A i \in 1..n - 1 :
             /\ StartOf(R, i + 1) - EndOf(R, i) < Alignment
             /\ StartOf(R, i) % Alignment = 0 /\ StartOf(R, i) < EndOf(R, i)
    BY <1>0, <1>s DEF Region, Tiled
  <2>2. StartOf(Q, 1) = StartOf(R, 1) /\ EndOf(Q, n - 1) = EndOf(R, n)
    <3>1. 1 \in 1..n - 1 /\ n - 1 \in 1..n - 1 /\ 1 <= k /\ ~(n - 1 < k) /\ (n - 1) + 1 = n
      BY <1>n
    <3> QED BY <1>12, <3>1
  <2>3. ASSUME NEW i \in 1..n - 1, NEW j \in 1..n - 1, i < j PROVE EndOf(Q, i) <= StartOf(Q, j)
    <3>1. i \in 1..n /\ j \in 1..n /\ i + 1 \in 1..n /\ j + 1 \in 1..n
      BY <1>n
    <3>2. CASE i < k /\ j <= k
      BY <1>12, <2>1, <2>3, <3>1, <3>2
    <3>3. CASE i < k /\ ~(j <= k)
      <4>1. i < j + 1
        BY <2>3
      <4> QED BY <1>12, <2>1, <3>1, <3>3, <4>1
    <3>4. CASE ~(i < k)
      <4>1. ~(j <= k) /\ i + 1 < j + 1
        BY <1>n, <2>3, <3>4
      <4> QED BY <1>12, <2>1, <3>1, <3>4, <4>1
    <3> QED BY <3>2, <3>3, <3>4
  <2>4. ASSUME NEW i \in 1..n - 2
        PROVE  /\ StartOf(Q, i + 1) - EndOf(Q, i) < Alignment
               /\ StartOf(Q, i) % Alignment = 0 /\ StartOf(Q, i) < EndOf(Q, i)
    <3>1. i \in 1..n - 1 /\ i + 1 \in 1..n - 1 /\ i + 1 \in 1..n /\ i \in 1..n /\ i + 2 = (i + 1) + 1
      BY <1>n
    <3>2. CASE i < k
      <4>1. i + 1 <= k /\ i <= k
        BY <1>n, <3>2
      <4>2. StartOf(Q, i) = StartOf(R, i) /\ EndOf(Q, i) = EndOf(R, i) /\ StartOf(Q, i + 1) = StartOf(R, i + 1)
        BY <1>12, <3>1, <3>2, <4>1
      <4> QED BY <2>1, <3>1, <4>2
    <3>3. CASE ~(i < k)
      <4>1. ~(i + 1 <= k)
        BY <1>n, <3>3
      <4>2. EndOf(Q, i) = EndOf(R, i + 1) /\ StartOf(Q, i + 1) = StartOf(R, (i + 1) + 1)
        BY <1>12, <3>1, <3>3, <4>1
      <4>3. StartOf(Q, i) = StartOf(R, i) \/ StartOf(Q, i) = StartOf(R, i + 1)
        BY <1>12, <3>1
      <4>4. StartOf(R, i) < EndOf(R, i) /\ EndOf(R, i) <= StartOf(R, i + 1) /\ StartOf(R, i + 1) < EndOf(R, i + 1)
        BY <2>1, <3>1
      <4>5. StartOf(Q, i) < EndOf(Q, i)
        BY <1>e, <3>1, <4>2, <4>3, <4>4
      <4> QED BY <2>1, <3>1, <4>2, <4>3, <4>5
    <3> QED BY <3>2, <3>3
  <2>5. \A i, j \in DOMAIN Q.chunks : i < j => EndOf(Q, i) <= StartOf(Q, j)
    BY <1>7, <2>3, ListFacts
  <2>6. (n - 1) - 1 = n - 2
    BY <1>n
  <2>7. StartOf(R, n) % Alignment = 0 \/ StartOf(R, n) = IF n = 1 THEN from ELSE EndOf(R, n - 1)
    BY <1>0 DEF Region, Tiled
  <2>8. StartOf(Q, n - 1) % Alignment = 0 \/ StartOf(Q, n - 1) = IF n - 1 = 1 THEN from ELSE EndOf(Q, n - 2)
    <3>1. CASE k = n - 1
      <4>1. n - 1 \in 1..n - 1 /\ n - 1 <= k
        BY <1>n, <3>1
      <4>2. StartOf(Q, n - 1) = StartOf(R, n - 1)
        BY <1>12, <4>1
      <4> QED BY <2>1, <4>1, <4>2
    <3>2. CASE k # n - 1
      <4>1. n - 1 \in 1..n - 1 /\ n - 2 \in 1..n - 1 /\ ~(n - 1 <= k) /\ ~(n - 2 < k)
            /\ (n - 1) + 1 = n /\ (n - 2) + 1 = n - 1 /\ n # 1 /\ n - 1 # 1
        BY <1>n, <3>2
      <4>2. StartOf(Q, n - 1) = StartOf(R, n)
        BY <1>12, <4>1
      <4>3. EndOf(Q, n - 2) = EndOf(R, n - 1)
        BY <1>12, <4>1
      <4> QED BY <2>7, <4>1, <4>2, <4>3
    <3> QED BY <3>1, <3>2
  <2>9. Len(Q.chunks) = n - 1
    BY <1>7
  <2> QED BY <2>1, <2>2, <2>4, <2>5, <2>6, <2>8, <2>9 DEF Tiled
<1>18. InUse(Q) = InUse(R) /\ (\A e \in InUse(R) : Q.info[e] = R.info[e])
  <2>1. c \notin InUse(R) /\ d \notin InUse(R) /\ c \notin InUse(Q) /\ d \notin InUse(Q)
    BY <1>6, <1>11, <1>15 DEF InUse
  <2>2. \A e \in Chunks : e # c /\ e # d => (e \in Listed(Q) <=> e \in Listed(R)) /\ Q.info[e] = R.info[e]
    BY <1>6, <1>15
  <2>3. Listed(R) \subseteq Chunks /\ Listed(Q) \subseteq Chunks
    BY <1>16 DEF Region, Records
  <2> QED BY <2>1, <2>2, <2>3 DEF InUse
<1>19. Len(Q.chunks) = Len(R.chunks) - 1
       /\ \A i \in 1..Len(Q.chunks) : Q.chunks[i] = IF i <= k THEN R.chunks[i] ELSE R.chunks[i + 1]
  <2>1. \A i \in 1..n - 1 : i < k + 1 <=> i <= k
    BY <1>n
  <2> QED BY <1>0, <1>7, <2>1
<1>20. ~Q.info[R.chunks[k]].allocated
  BY <1>6, <1>11
<1>21. \A e \in Chunks : e # R.chunks[k + 1] => Q.info[e].allocated = R.info[e].allocated
  BY <1>6, <1>11
<1> QED BY <1>8, <1>16, <1>17, <1>18, <1>19, <1>20, <1>21 DEF Region

-----------------------------------------------------------------------------
(* Allocation *)

\* A buffer cut from the front of the sentinel.
LEMMA AppendedFacts ==
  ASSUME NEW from \in Nat, NEW to, NEW R, Region(R, from, to), NEW m \in Nat \ {0}, MayAppend(R, m),
         NEW Q, Q = Appended(R, m), NEW new, new = NextRecord(R)
  PROVE  /\ Region(Q, from, to) /\ new \in Chunks \ InUse(R) /\ InUse(Q) = InUse(R) \cup {new}
         /\ \A e \in InUse(R) : Q.info[e] = R.info[e]
         /\ Q.info[new].size = m
<1>0. PICK n \in Nat, last \in Chunks :
        n = Len(R.chunks) /\ n >= 1 /\ last = R.last /\ last = R.chunks[n] /\ ~R.info[last].allocated
  <2>1. Len(R.chunks) \in Nat /\ Len(R.chunks) >= 1 /\ R.last \in Chunks
    BY RegionFacts
  <2> QED BY <2>1 DEF Region, Records
<1>s. R.chunks \in Seq(Chunks) /\ DOMAIN R.chunks = 1..n /\ \A i \in 1..n : R.chunks[i] \in Chunks
  BY <1>0, RegionFacts
<1>r. \A e \in Chunks : R.info[e].start \in Nat /\ R.info[e].size \in Nat
  BY RegionFacts
<1>e. \A i \in 1..n : StartOf(R, i) \in Nat /\ EndOf(R, i) \in Nat /\ StartOf(R, i) <= EndOf(R, i)
  BY <1>0, RegionFacts
<1>9. \A i, j \in 1..n : R.chunks[i] = R.chunks[j] => i = j
  BY <1>s DEF Region, Records
<1>t. /\ StartOf(R, 1) >= from /\ StartOf(R, 1) - from < Alignment /\ EndOf(R, n) = to
      /\ \A i, j \in 1..n : i < j => EndOf(R, i) <= StartOf(R, j)
      /\ \A i \in 1..n - 1 :
           /\ StartOf(R, i + 1) - EndOf(R, i) < Alignment
           /\ StartOf(R, i) % Alignment = 0 /\ StartOf(R, i) < EndOf(R, i)
      /\ StartOf(R, n) % Alignment = 0 \/ StartOf(R, n) = IF n = 1 THEN from ELSE EndOf(R, n - 1)
  BY <1>0, <1>s DEF Region, Tiled
<1>1. new \in R.free /\ new \in Chunks /\ new \notin Listed(R) /\ last \in Listed(R) /\ new # last
  <2>1. new \in R.free
    BY DEF MayAppend, NextRecord
  <2>2. R.free \subseteq Chunks /\ Listed(R) \cap R.free = {}
    <3>1. R \in RegionState /\ Records(R)
      BY DEF Region
    <3>2. R.free \subseteq Chunks
      BY <3>1 DEF RegionState
    <3> QED BY <3>1, <3>2 DEF Records
  <2>3. last \in Listed(R)
    BY <1>0, <1>s DEF Listed
  <2> QED BY <2>1, <2>2, <2>3
<1>2. PICK a \in Nat : a = Aligned(StartOf(R, n)) /\ StartOf(R, n) <= a /\ a - StartOf(R, n) < Alignment
                        /\ a % Alignment = 0
  <2>1. n \in 1..n
    BY <1>0
  <2>2. StartOf(R, n) \in Nat
    BY <1>e, <2>1
  <2> QED BY <2>2, AlignedFacts
<1>3. PICK z \in Nat : z = Slack(R, last, m) /\ to = a + m + z /\ to \in Nat
  <2>1. Slack(R, last, m) = to - (a + m) /\ Slack(R, last, m) >= 0
    <3>1. Slack(R, last, m) >= 0
      BY <1>0 DEF MayAppend
    <3>2. R.info[last].start = StartOf(R, n) /\ R.info[last].start + R.info[last].size = to
      BY <1>0, <1>t DEF StartOf, EndOf
    <3>3. Slack(R, last, m) = to - (a + m)
      <4>1. Aligned(R.info[last].start) = a
        BY <1>2, <3>2
      <4>2. Slack(R, last, m) = R.info[last].start + R.info[last].size - (a + m)
        BY <4>1 DEF Slack
      <4>3. R.info[last].start \in Nat /\ R.info[last].size \in Nat
        BY <1>r
      <4> QED BY <3>2, <4>2, <4>3
    <3> QED BY <3>1, <3>3
  <2>2. to \in Nat
    BY <1>0, <1>e, <1>t
  <2>3. to - (a + m) \in Nat /\ to = a + m + (to - (a + m))
    BY <1>2, <2>1, <2>2
  <2> QED BY <2>1, <2>2, <2>3
<1>4. R.info \in [Chunks -> [start : Nat, size : Nat, allocated : BOOLEAN]] /\ R \in RegionState
  <2>1. R \in RegionState
    BY DEF Region
  <2> QED BY <2>1 DEF RegionState
<1>5. /\ Q.chunks = Append(Append(Without(R.chunks, last), new), last) /\ Q.free = R.free \ {new}
      /\ Q.last = last /\ Q.strategy = R.strategy
      /\ Q.info = [[[R.info EXCEPT ![new] = [start |-> a, size |-> m, allocated |-> TRUE]]
                           EXCEPT ![last].start = a + m] EXCEPT ![last].size = z]
      /\ Q = [chunks |-> Q.chunks, free |-> Q.free, last |-> Q.last, strategy |-> Q.strategy, info |-> Q.info]
  <2>1. a = Aligned(R.info[last].start) /\ R.last = last /\ z = Slack(R, last, m)
    BY <1>0, <1>2, <1>3 DEF StartOf
  <2>2. PICK list, e, y : /\ list = Append(Append(Without(R.chunks, last), new), last)
                          /\ e = [start |-> a, size |-> m, allocated |-> TRUE] /\ y = a + m
    OBVIOUS
  <2>3. Q = [R EXCEPT !.free = @ \ {new}, !.chunks = list, !.info[new] = e,
                      !.info[last].start = y, !.info[last].size = z]
    BY <2>1, <2>2 DEF Appended
  <2>4. Q.chunks = list
    BY <1>4, <2>3 DEF RegionState
  <2>5. Q.free = R.free \ {new} /\ Q.last = last /\ Q.strategy = R.strategy
    BY <1>4, <2>1, <2>3 DEF RegionState
  <2>6. Q.info = [[[R.info EXCEPT ![new] = e] EXCEPT ![last].start = y] EXCEPT ![last].size = z]
    BY <1>4, <2>3 DEF RegionState
  <2>7. Q = [chunks |-> Q.chunks, free |-> Q.free, last |-> Q.last, strategy |-> Q.strategy, info |-> Q.info]
    BY <1>4, <2>3 DEF RegionState
  <2>8. Q.chunks = Append(Append(Without(R.chunks, last), new), last)
    BY <2>2, <2>4
  <2>9. Q.info = [[[R.info EXCEPT ![new] = [start |-> a, size |-> m, allocated |-> TRUE]]
                          EXCEPT ![last].start = a + m] EXCEPT ![last].size = z]
    BY <2>2, <2>6
  <2> QED BY <2>5, <2>7, <2>8, <2>9
<1>6. /\ Q.info \in [Chunks -> [start : Nat, size : Nat, allocated : BOOLEAN]]
      /\ Q.info[new] = [start |-> a, size |-> m, allocated |-> TRUE]
      /\ Q.info[last].start = a + m /\ Q.info[last].size = z /\ ~Q.info[last].allocated
      /\ \A e \in Chunks : e # new /\ e # last => Q.info[e] = R.info[e]
  <2>1. [start |-> a, size |-> m, allocated |-> TRUE] \in [start : Nat, size : Nat, allocated : BOOLEAN]
    BY <1>2
  <2>2. PICK f \in [Chunks -> [start : Nat, size : Nat, allocated : BOOLEAN]] :
          f = [R.info EXCEPT ![new] = [start |-> a, size |-> m, allocated |-> TRUE]]
    BY <1>4, <2>1
  <2>3. /\ f[new] = [start |-> a, size |-> m, allocated |-> TRUE]
        /\ \A e \in Chunks : e # new => f[e] = R.info[e]
    BY <1>1, <1>4, <2>2
  <2>4. PICK g \in [Chunks -> [start : Nat, size : Nat, allocated : BOOLEAN]] : g = [f EXCEPT ![last].start = a + m]
    <3>1. a + m \in Nat
      BY <1>2
    <3> QED BY <3>1
  <2>5. g[last].start = a + m /\ g[last].allocated = f[last].allocated /\ \A e \in Chunks : e # last => g[e] = f[e]
    BY <1>0, <2>4
  <2>6. Q.info = [g EXCEPT ![last].size = z]
    BY <1>5, <2>2, <2>4
  <2>7. /\ Q.info \in [Chunks -> [start : Nat, size : Nat, allocated : BOOLEAN]]
        /\ Q.info[last].start = g[last].start /\ Q.info[last].size = z /\ Q.info[last].allocated = g[last].allocated
        /\ \A e \in Chunks : e # last => Q.info[e] = g[e]
    <3>1. last \in Chunks /\ z \in Nat
      BY <1>0
    <3> QED BY <2>6, <3>1, SizeFacts
  <2> QED BY <1>0, <1>1, <2>3, <2>5, <2>7
<1>7. /\ Q.chunks \in Seq(Chunks) /\ Len(Q.chunks) = n + 1 /\ DOMAIN Q.chunks = 1..n + 1
      /\ \A i \in 1..n - 1 : Q.chunks[i] = R.chunks[i]
      /\ Q.chunks[n] = new /\ Q.chunks[n + 1] = last
  <2>1. \A i, j \in DOMAIN R.chunks : R.chunks[i] = R.chunks[j] => i = j
    BY DEF Region, Records
  <2>2. n \in DOMAIN R.chunks
    BY <1>0, <1>s
  <2>3. PICK w \in Seq(Chunks) : /\ w = Without(R.chunks, last) /\ Len(w) = n - 1
                                 /\ \A i \in 1..n - 1 : w[i] = IF i < n THEN R.chunks[i] ELSE R.chunks[i + 1]
    <3>1. R.chunks \in Seq(Chunks)
      BY <1>s
    <3>2. /\ Without(R.chunks, R.chunks[n]) \in Seq(Chunks) /\ Len(Without(R.chunks, R.chunks[n])) = Len(R.chunks) - 1
          /\ \A i \in 1..Len(R.chunks) - 1 :
               Without(R.chunks, R.chunks[n])[i] = IF i < n THEN R.chunks[i] ELSE R.chunks[i + 1]
      <4> HIDE <1>s, <1>9
      <4> QED BY <2>1, <2>2, <3>1, WithoutFacts
    <3> QED BY <1>0, <3>2
  <2>4. \A i \in 1..n - 1 : w[i] = R.chunks[i]
    BY <1>0, <2>3
  <2>5. PICK v \in Seq(Chunks) : v = Append(w, new) /\ Len(v) = n /\ v[n] = new /\ \A i \in 1..n - 1 : v[i] = w[i]
    <3>1. Len(w) = n - 1 /\ n = (n - 1) + 1 /\ w \in Seq(Chunks)
      BY <1>0, <2>3
    <3>2. /\ Append(w, new) \in Seq(Chunks) /\ Len(Append(w, new)) = Len(w) + 1 /\ Append(w, new)[Len(w) + 1] = new
          /\ \A i \in 1..Len(w) : Append(w, new)[i] = w[i]
      BY <1>1, <3>1, AppendFacts
    <3> QED BY <3>1, <3>2
  <2>6. Q.chunks = Append(v, last)
    BY <1>5, <2>3, <2>5
  <2>7. Q.chunks \in Seq(Chunks) /\ Len(Q.chunks) = n + 1 /\ Q.chunks[n + 1] = last /\ \A i \in 1..n : Q.chunks[i] = v[i]
    <3>1. /\ Append(v, last) \in Seq(Chunks) /\ Len(Append(v, last)) = Len(v) + 1 /\ Append(v, last)[Len(v) + 1] = last
          /\ \A i \in 1..Len(v) : Append(v, last)[i] = v[i]
      BY <1>0, AppendFacts
    <3> QED BY <2>5, <2>6, <3>1
  <2>8. \A i \in 1..n - 1 : i \in 1..n
    BY <1>0
  <2>9. n \in 1..n
    BY <1>0
  <2>10. DOMAIN Q.chunks = 1..n + 1
    BY <2>7, ListFacts
  <2>11. ASSUME NEW i \in 1..n - 1 PROVE Q.chunks[i] = R.chunks[i]
    BY <2>4, <2>5, <2>7, <2>8
  <2> QED BY <2>5, <2>7, <2>9, <2>10, <2>11
<1>8. Q \in RegionState
  <2>1. Q.free \in SUBSET Chunks /\ Q.last \in Chunks /\ Q.strategy \in Strategies
    BY <1>0, <1>4, <1>5 DEF RegionState
  <2> QED BY <1>5, <1>6, <1>7, <2>1 DEF RegionState
<1>10. ASSUME NEW i \in 1..n - 1
       PROVE  /\ R.chunks[i] # last /\ R.chunks[i] # new
              /\ StartOf(Q, i) = StartOf(R, i) /\ EndOf(Q, i) = EndOf(R, i)
  <2>1. i \in 1..n /\ n \in 1..n /\ i # n
    BY <1>0
  <2>2. R.chunks[i] # last
    BY <1>0, <1>9, <2>1
  <2>3. R.chunks[i] # new /\ R.chunks[i] \in Chunks
    BY <1>1, <1>s, <2>1 DEF Listed
  <2>4. Q.info[R.chunks[i]] = R.info[R.chunks[i]] /\ Q.chunks[i] = R.chunks[i]
    BY <1>6, <1>7, <2>2, <2>3
  <2> QED BY <2>2, <2>3, <2>4 DEF StartOf, EndOf
<1>11. /\ StartOf(Q, n) = a /\ EndOf(Q, n) = a + m
       /\ StartOf(Q, n + 1) = a + m /\ EndOf(Q, n + 1) = to
  <2>1. /\ StartOf(Q, n) = Q.info[new].start /\ EndOf(Q, n) = Q.info[new].start + Q.info[new].size
        /\ StartOf(Q, n + 1) = Q.info[last].start /\ EndOf(Q, n + 1) = Q.info[last].start + Q.info[last].size
    BY <1>7 DEF StartOf, EndOf
  <2>2. Q.info[new].start = a /\ Q.info[new].size = m
    BY <1>6
  <2> QED BY <1>3, <1>6, <2>1, <2>2
<1>12. Listed(Q) = Listed(R) \cup {new}
  <2>1. Listed(R) = {R.chunks[i] : i \in 1..n} /\ Listed(Q) = {Q.chunks[i] : i \in 1..n + 1}
    BY <1>s, <1>7 DEF Listed
  <2>2. ASSUME NEW e \in Listed(Q) PROVE e \in Listed(R) \cup {new}
    <3>1. PICK i \in 1..n + 1 : e = Q.chunks[i]
      BY <2>1
    <3>2. i \in 1..n - 1 => i \in 1..n /\ e = R.chunks[i]
      BY <1>0, <1>7, <3>1
    <3>3. i \in 1..n - 1 \/ i = n \/ i = n + 1
      BY <1>0
    <3> QED BY <1>1, <1>7, <2>1, <3>1, <3>2, <3>3
  <2>3. ASSUME NEW e \in Listed(R) PROVE e \in Listed(Q)
    <3>1. PICK i \in 1..n : e = R.chunks[i]
      BY <2>1
    <3>2. CASE i = n
      <4>1. n + 1 \in 1..n + 1 /\ Q.chunks[n + 1] = e
        BY <1>0, <1>7, <3>1, <3>2
      <4> QED BY <2>1, <4>1
    <3>3. CASE i # n
      <4>1. i \in 1..n - 1 /\ i \in 1..n + 1
        BY <1>0, <3>3
      <4>2. Q.chunks[i] = e
        BY <1>7, <3>1, <4>1
      <4> QED BY <2>1, <4>1, <4>2
    <3> QED BY <3>2, <3>3
  <2>4. new \in Listed(Q)
    <3>1. n \in 1..n + 1
      BY <1>0
    <3> QED BY <1>7, <2>1, <3>1
  <2> QED BY <2>2, <2>3, <2>4
<1>13. Records(Q)
  <2>1. ASSUME NEW i \in 1..n + 1, NEW j \in 1..n + 1, Q.chunks[i] = Q.chunks[j], i < j PROVE FALSE
    <3>1. CASE j \in 1..n - 1
      <4>1. i \in 1..n - 1 /\ i \in 1..n /\ j \in 1..n
        BY <1>0, <2>1, <3>1
      <4>2. Q.chunks[i] = R.chunks[i] /\ Q.chunks[j] = R.chunks[j]
        BY <1>7, <3>1, <4>1
      <4>3. R.chunks[i] = R.chunks[j]
        BY <2>1, <4>2
      <4>4. i = j
        BY <1>9, <4>1, <4>3
      <4> QED BY <2>1, <4>4
    <3>2. CASE j = n
      <4>1. i \in 1..n - 1
        BY <1>0, <2>1, <3>2
      <4> QED BY <1>7, <1>10, <2>1, <3>2, <4>1
    <3>3. CASE j = n + 1
      <4>1. i \in 1..n - 1 \/ i = n
        BY <1>0, <2>1, <3>3
      <4> QED BY <1>1, <1>7, <1>10, <2>1, <3>3, <4>1
    <3> QED BY <1>0, <3>1, <3>2, <3>3
  <2>2. \A i, j \in DOMAIN Q.chunks : Q.chunks[i] = Q.chunks[j] => i = j
    <3> SUFFICES ASSUME NEW i \in 1..n + 1, NEW j \in 1..n + 1, Q.chunks[i] = Q.chunks[j] PROVE i = j
      BY <1>7
    <3>1. ~(i < j) /\ ~(j < i)
      BY <2>1
    <3> QED BY <1>0, <3>1
  <2>3. Listed(Q) \cup Q.free = Chunks /\ Listed(Q) \cap Q.free = {}
    <3>1. Listed(R) \cup R.free = Chunks /\ Listed(R) \cap R.free = {}
      BY DEF Region, Records
    <3> QED BY <1>1, <1>5, <1>12, <3>1
  <2>4. Q.chunks # <<>> /\ Q.chunks[Len(Q.chunks)] = Q.last /\ ~Q.info[Q.last].allocated
    <3>1. Q.last = last /\ Len(Q.chunks) = n + 1 /\ Q.chunks[n + 1] = last /\ ~Q.info[last].allocated
      BY <1>5, <1>6, <1>7
    <3>2. Q.chunks # <<>>
      BY <1>0, <3>1
    <3> QED BY <3>1, <3>2
  <2> QED BY <2>2, <2>3, <2>4 DEF Records
<1>14. Tiled(Q, from, to)
  <2>0. Alignment \in Nat \ {0}
    BY BufferAllocatorAssumption
  <2>1. StartOf(Q, 1) >= from /\ StartOf(Q, 1) - from < Alignment
    <3>1. CASE n = 1
      <4>1. StartOf(Q, 1) = a /\ (StartOf(R, 1) % Alignment = 0 \/ StartOf(R, 1) = from)
        BY <1>11, <1>t, <3>1
      <4>2. StartOf(R, 1) \in Nat
        BY <1>e, <3>1
      <4>3. StartOf(R, 1) % Alignment = 0 => a = StartOf(R, 1)
        BY <1>2, <3>1, <4>2, AlignedSelf
      <4> QED BY <1>2, <1>t, <3>1, <4>1, <4>2, <4>3
    <3>2. CASE n # 1
      <4>1. 1 \in 1..n - 1
        <5>1. n >= 2 /\ n \in Nat
          <6>1. n \in Nat /\ n >= 1
            BY <1>0
          <6> HIDE <1>0
          <6> QED BY <3>2, <6>1
        <5> QED BY <5>1
      <4> QED BY <1>10, <1>t, <4>1
    <3> QED BY <3>1, <3>2
  <2>2. ASSUME NEW i \in 1..n + 1, NEW j \in 1..n + 1, i < j PROVE EndOf(Q, i) <= StartOf(Q, j)
    <3>1. CASE j \in 1..n - 1
      <4>1. i \in 1..n - 1 /\ i \in 1..n /\ j \in 1..n
        BY <1>0, <2>2, <3>1
      <4> QED BY <1>10, <1>t, <2>2, <3>1, <4>1
    <3>2. CASE i \in 1..n - 1 /\ j \in {n, n + 1}
      <4>1. i \in 1..n /\ n \in 1..n /\ i < n
        BY <1>0, <3>2
      <4>2. EndOf(Q, i) <= StartOf(R, n) /\ StartOf(R, n) \in Nat /\ EndOf(Q, i) \in Nat
        BY <1>10, <1>e, <1>t, <3>2, <4>1
      <4>3. StartOf(Q, j) = a \/ StartOf(Q, j) = a + m
        BY <1>11, <3>2
      <4> QED BY <1>2, <4>2, <4>3
    <3>3. CASE i = n /\ j = n + 1
      BY <1>2, <1>11, <3>3
    <3> QED BY <1>0, <2>2, <3>1, <3>2, <3>3
  <2>3. ASSUME NEW i \in 1..n
        PROVE  /\ StartOf(Q, i + 1) - EndOf(Q, i) < Alignment
               /\ StartOf(Q, i) % Alignment = 0 /\ StartOf(Q, i) < EndOf(Q, i)
    <3>1. CASE i = n
      <4>1. StartOf(Q, i + 1) - EndOf(Q, i) = 0 /\ a < a + m
        BY <1>2, <1>11, <3>1
      <4> QED BY <1>2, <1>11, <2>0, <3>1, <4>1
    <3>2. CASE i = n - 1
      <4>1. i \in 1..n - 1 /\ i + 1 = n /\ i \in 1..n /\ n \in 1..n /\ n # 1
        BY <1>0, <3>2
      <4>2. /\ StartOf(Q, i) = StartOf(R, i) /\ EndOf(Q, i) = EndOf(R, i) /\ StartOf(Q, i + 1) = a
            /\ StartOf(R, i) % Alignment = 0 /\ StartOf(R, i) < EndOf(R, i)
            /\ StartOf(R, n) - EndOf(R, i) < Alignment
            /\ StartOf(R, n) % Alignment = 0 \/ StartOf(R, n) = EndOf(R, i)
            /\ StartOf(R, n) \in Nat /\ EndOf(R, i) \in Nat
        <5>1. StartOf(Q, i) = StartOf(R, i) /\ EndOf(Q, i) = EndOf(R, i) /\ StartOf(Q, i + 1) = a
          BY <1>10, <1>11, <4>1
        <5>2. /\ StartOf(R, i) % Alignment = 0 /\ StartOf(R, i) < EndOf(R, i)
              /\ StartOf(R, i + 1) - EndOf(R, i) < Alignment
          BY <1>t, <4>1
        <5>3. StartOf(R, n) % Alignment = 0 \/ StartOf(R, n) = EndOf(R, i)
          BY <1>t, <3>2, <4>1
        <5>4. StartOf(R, n) \in Nat /\ EndOf(R, i) \in Nat
          BY <1>e, <4>1
        <5> QED BY <4>1, <5>1, <5>2, <5>3, <5>4
      <4>3. StartOf(R, n) % Alignment = 0 => a = StartOf(R, n)
        BY <1>2, <4>2, AlignedSelf
      <4>4. a - EndOf(R, i) < Alignment
        BY <1>2, <4>2, <4>3
      <4> QED BY <4>2, <4>4
    <3>3. CASE i \in 1..n - 2
      <4>1. i \in 1..n - 1 /\ i + 1 \in 1..n - 1
        BY <1>0, <3>3
      <4>2. /\ StartOf(Q, i) = StartOf(R, i) /\ EndOf(Q, i) = EndOf(R, i)
            /\ StartOf(Q, i + 1) = StartOf(R, i + 1)
        BY <1>10, <4>1
      <4> QED BY <1>t, <4>1, <4>2
    <3> QED BY <1>0, <3>1, <3>2, <3>3
  <2>4. StartOf(Q, n + 1) = IF n + 1 = 1 THEN from ELSE EndOf(Q, (n + 1) - 1)
    BY <1>0, <1>11
  <2>5. (n + 1) - 1 = n
    BY <1>0
  <2> QED BY <1>7, <1>11, <2>1, <2>2, <2>3, <2>4, <2>5 DEF Tiled
<1>15. /\ new \notin InUse(R) /\ InUse(Q) = InUse(R) \cup {new}
       /\ \A e \in InUse(R) : Q.info[e] = R.info[e]
  <2>1. last \notin InUse(R) /\ last \notin InUse(Q) /\ new \notin InUse(R) /\ new \in InUse(Q)
    BY <1>0, <1>1, <1>6, <1>12 DEF InUse
  <2>2. \A e \in Chunks : e # last /\ e # new => (e \in Listed(Q) <=> e \in Listed(R)) /\ Q.info[e] = R.info[e]
    BY <1>6, <1>12
  <2>3. Listed(R) \subseteq Chunks /\ Listed(Q) \subseteq Chunks
    BY <1>13 DEF Region, Records
  <2> QED BY <2>1, <2>2, <2>3 DEF InUse
<1>16. Q.info[new].size = m
  BY <1>6
<1> QED BY <1>1, <1>8, <1>13, <1>14, <1>15, <1>16 DEF Region

\* The chunks lie in the region, in the order of their list.
LEMMA Bounds ==
  ASSUME NEW from \in Nat, NEW to, NEW R, Region(R, from, to), NEW k \in 1..Len(R.chunks)
  PROVE  from <= StartOf(R, k) /\ EndOf(R, k) <= to
<1>1. PICK n \in Nat : n = Len(R.chunks) /\ n >= 1 /\ DOMAIN R.chunks = 1..n /\ 1 \in 1..n /\ n \in 1..n /\ k \in 1..n
  BY RegionFacts
<1>2. \A i \in 1..n : StartOf(R, i) \in Nat /\ EndOf(R, i) \in Nat /\ StartOf(R, i) <= EndOf(R, i)
  BY <1>1, RegionFacts
<1>3. /\ StartOf(R, 1) >= from /\ EndOf(R, n) = to
      /\ \A i, j \in 1..n : i < j => EndOf(R, i) <= StartOf(R, j)
  BY <1>1 DEF Region, Tiled
<1>4. from <= StartOf(R, k)
  <2>1. k = 1 \/ 1 < k
    BY <1>1
  <2>2. 1 < k => EndOf(R, 1) <= StartOf(R, k)
    BY <1>1, <1>3
  <2> QED BY <1>1, <1>2, <1>3, <2>1, <2>2
<1>5. EndOf(R, k) <= to
  <2>1. k = n \/ k < n
    BY <1>1
  <2>2. k < n => EndOf(R, k) <= StartOf(R, n)
    BY <1>1, <1>3
  <2> QED BY <1>1, <1>2, <1>3, <2>1, <2>2
<1> QED BY <1>4, <1>5

\* A buffer is taken into use, or out of it, as it is.
LEMMA FlagFacts ==
  ASSUME NEW from, NEW to, NEW R, Region(R, from, to), NEW c \in Listed(R), c # R.last,
         NEW w \in [start : Nat, size : Nat, allocated : BOOLEAN],
         w.start = R.info[c].start, w.size = R.info[c].size,
         NEW Q, Q = [R EXCEPT !.info[c] = w]
  PROVE  /\ Region(Q, from, to) /\ Q.chunks = R.chunks /\ Q.last = R.last
         /\ w.allocated => InUse(Q) = InUse(R) \cup {c}
         /\ ~w.allocated => InUse(Q) = InUse(R) \ {c}
         /\ Q.info[c] = w
         /\ \A e \in Chunks : Q.info[e].start = R.info[e].start /\ Q.info[e].size = R.info[e].size
         /\ \A e \in Chunks : e # c => Q.info[e] = R.info[e]
<1>1. R.info \in [Chunks -> [start : Nat, size : Nat, allocated : BOOLEAN]] /\ R \in RegionState /\ R.last \in Chunks
  BY DEF Region, RegionState
<1>2. c \in Chunks
  BY DEF Region, Records
<1>3. /\ Q.chunks = R.chunks /\ Q.free = R.free /\ Q.last = R.last /\ Q.strategy = R.strategy
      /\ Q.info = [R.info EXCEPT ![c] = w]
      /\ Q = [chunks |-> Q.chunks, free |-> Q.free, last |-> Q.last, strategy |-> Q.strategy, info |-> Q.info]
  BY <1>1 DEF RegionState
<1>4. /\ Q.info \in [Chunks -> [start : Nat, size : Nat, allocated : BOOLEAN]]
      /\ Q.info[c] = w
      /\ Q.info[c].start = R.info[c].start /\ Q.info[c].size = R.info[c].size
      /\ \A e \in Chunks : e # c => Q.info[e] = R.info[e]
  BY <1>1, <1>2, <1>3
<1>5. \A e \in Chunks : Q.info[e].start = R.info[e].start /\ Q.info[e].size = R.info[e].size
  BY <1>4
<1>6. Q \in RegionState
  BY <1>1, <1>3, <1>4 DEF RegionState
<1>7. Listed(Q) = Listed(R)
  BY <1>3 DEF Listed
<1>8. Records(Q)
  <2>1. ~Q.info[Q.last].allocated
    BY <1>1, <1>3, <1>4 DEF Region, Records
  <2> QED BY <1>3, <1>7, <2>1 DEF Region, Records
<1>9. \A i \in 1..Len(R.chunks) : StartOf(Q, i) = StartOf(R, i) /\ EndOf(Q, i) = EndOf(R, i)
  <2>1. \A i \in 1..Len(R.chunks) : R.chunks[i] \in Chunks
    BY RegionFacts
  <2> QED BY <1>3, <1>5, <2>1 DEF StartOf, EndOf
<1>10. Tiled(Q, from, to)
  <2>1. PICK n \in Nat : n = Len(R.chunks) /\ n >= 1 /\ DOMAIN R.chunks = 1..n
    BY RegionFacts
  <2>2. /\ StartOf(R, 1) >= from /\ StartOf(R, 1) - from < Alignment /\ EndOf(R, n) = to
        /\ \A i, j \in 1..n : i < j => EndOf(R, i) <= StartOf(R, j)
        /\ \A i \in 1..n - 1 :
             /\ StartOf(R, i + 1) - EndOf(R, i) < Alignment
             /\ StartOf(R, i) % Alignment = 0 /\ StartOf(R, i) < EndOf(R, i)
        /\ StartOf(R, n) % Alignment = 0 \/ StartOf(R, n) = IF n = 1 THEN from ELSE EndOf(R, n - 1)
    BY <2>1 DEF Region, Tiled
  <2>3. \A i \in 1..n : StartOf(Q, i) = StartOf(R, i) /\ EndOf(Q, i) = EndOf(R, i)
    BY <1>9, <2>1
  <2>4. 1 \in 1..n /\ n \in 1..n /\ (n # 1 => n - 1 \in 1..n) /\ \A i \in 1..n - 1 : i \in 1..n /\ i + 1 \in 1..n
    <3>1. n \in Nat /\ n >= 1
      BY <2>1
    <3> HIDE <2>1
    <3>2. 1 \in 1..n /\ n \in 1..n /\ \A i \in 1..n - 1 : i \in 1..n /\ i + 1 \in 1..n
      BY <3>1
    <3>3. n # 1 => n - 1 \in 1..n
      BY <3>1
    <3> QED BY <3>2, <3>3
  <2>5. Len(Q.chunks) = n /\ DOMAIN Q.chunks = 1..n
    BY <1>3, <2>1
  <2>6. /\ StartOf(Q, 1) >= from /\ StartOf(Q, 1) - from < Alignment /\ EndOf(Q, n) = to
        /\ \A i, j \in 1..n : i < j => EndOf(Q, i) <= StartOf(Q, j)
    BY <2>2, <2>3, <2>4
  <2>7. ASSUME NEW i \in 1..n - 1
        PROVE  /\ StartOf(Q, i + 1) - EndOf(Q, i) < Alignment
               /\ StartOf(Q, i) % Alignment = 0 /\ StartOf(Q, i) < EndOf(Q, i)
    BY <2>2, <2>3, <2>4
  <2>8. StartOf(Q, n) % Alignment = 0 \/ StartOf(Q, n) = IF n = 1 THEN from ELSE EndOf(Q, n - 1)
    BY <2>2, <2>3, <2>4
  <2>9. \A i, j \in DOMAIN Q.chunks : i < j => EndOf(Q, i) <= StartOf(Q, j)
    BY <2>5, <2>6
  <2>10. Len(Q.chunks) = n
    BY <2>5
  <2>11. StartOf(Q, 1) >= from /\ StartOf(Q, 1) - from < Alignment /\ EndOf(Q, Len(Q.chunks)) = to
    BY <2>6, <2>10
  <2>12. \A i \in 1..Len(Q.chunks) - 1 :
           /\ StartOf(Q, i + 1) - EndOf(Q, i) < Alignment
           /\ StartOf(Q, i) % Alignment = 0 /\ StartOf(Q, i) < EndOf(Q, i)
    BY <2>7, <2>10
  <2>13. LET u == Len(Q.chunks)
         IN  StartOf(Q, u) % Alignment = 0 \/ StartOf(Q, u) = IF u = 1 THEN from ELSE EndOf(Q, u - 1)
    <3>1. StartOf(Q, Len(Q.chunks)) = StartOf(Q, n) /\ EndOf(Q, Len(Q.chunks) - 1) = EndOf(Q, n - 1)
      BY <2>10
    <3>2. Len(Q.chunks) = 1 <=> n = 1
      BY <2>10
    <3> HIDE <2>10
    <3> QED BY <2>8, <3>1, <3>2
  <2> QED BY <2>9, <2>11, <2>12, <2>13 DEF Tiled
<1>11. (w.allocated => InUse(Q) = InUse(R) \cup {c}) /\ (~w.allocated => InUse(Q) = InUse(R) \ {c})
  <2>1. Listed(R) \subseteq Chunks
    BY DEF Region, Records
  <2> QED BY <1>4, <1>7, <2>1 DEF InUse
<1> QED BY <1>3, <1>4, <1>5, <1>6, <1>8, <1>10, <1>11 DEF Region

LEMMA ReleasedFacts ==
  ASSUME NEW from, NEW to, NEW R, Region(R, from, to), NEW c \in Listed(R), c # R.last,
         NEW Q, Q = Released(R, c)
  PROVE  /\ Region(Q, from, to) /\ Q.chunks = R.chunks /\ Q.last = R.last
         /\ InUse(Q) = InUse(R) \ {c}
         /\ \A e \in Chunks : Q.info[e].start = R.info[e].start /\ Q.info[e].size = R.info[e].size
         /\ \A e \in Chunks : e # c => Q.info[e] = R.info[e]
<1>1. c \in Chunks
  BY DEF Region, Records
<1>2. R.info[c] \in [start : Nat, size : Nat, allocated : BOOLEAN]
  BY <1>1, RegionFacts
<1>3. PICK w : w = [R.info[c] EXCEPT !.allocated = FALSE]
  OBVIOUS
<1>4. w.start = R.info[c].start /\ w.size = R.info[c].size /\ ~w.allocated
  BY <1>2, <1>3
<1>5. w \in [start : Nat, size : Nat, allocated : BOOLEAN]
  BY <1>2, <1>3
<1>6. Q = [R EXCEPT !.info[c] = w]
  BY <1>3 DEF Released
<1> QED BY <1>4, <1>5, <1>6, FlagFacts

LEMMA ReusedFacts ==
  ASSUME NEW from, NEW to, NEW R, Region(R, from, to), NEW c \in Listed(R), c # R.last,
         NEW Q, Q = Reused(R, c)
  PROVE  /\ Region(Q, from, to)
         /\ InUse(Q) = InUse(R) \cup {c}
         /\ \A e \in Chunks : Q.info[e].start = R.info[e].start /\ Q.info[e].size = R.info[e].size
         /\ \A e \in Chunks : e # c => Q.info[e] = R.info[e]
<1>1. c \in Chunks
  BY DEF Region, Records
<1>2. R.info[c] \in [start : Nat, size : Nat, allocated : BOOLEAN]
  BY <1>1, RegionFacts
<1>3. PICK w : w = [R.info[c] EXCEPT !.allocated = TRUE]
  OBVIOUS
<1>4. w.start = R.info[c].start /\ w.size = R.info[c].size /\ w.allocated
  BY <1>2, <1>3
<1>5. w \in [start : Nat, size : Nat, allocated : BOOLEAN]
  BY <1>2, <1>3
<1>6. Q = [R EXCEPT !.info[c] = w]
  BY <1>3 DEF Reused
<1> QED BY <1>4, <1>5, <1>6, FlagFacts

-----------------------------------------------------------------------------
(* Giving back *)

LEMMA CoalescedFacts ==
  ASSUME NEW from \in Nat, NEW to, NEW R, Region(R, from, to), NEW k \in 1..Len(R.chunks) - 1,
         NEW Q, Q = Coalesced(R, R.chunks[k], R.chunks[k + 1])
  PROVE  /\ Region(Q, from, to) /\ InUse(Q) = InUse(R)
         /\ \A e \in InUse(R) : Q.info[e] = R.info[e]
         /\ Mergeable(R, R.chunks[k], R.chunks[k + 1]) =>
              /\ Len(Q.chunks) = Len(R.chunks) - 1
              /\ \A i \in 1..Len(Q.chunks) : Q.chunks[i] = IF i <= k THEN R.chunks[i] ELSE R.chunks[i + 1]
<1>1. CASE Mergeable(R, R.chunks[k], R.chunks[k + 1])
  <2>1. ~R.info[R.chunks[k]].allocated /\ ~R.info[R.chunks[k + 1]].allocated
        /\ Q = Merged(R, R.chunks[k], R.chunks[k + 1])
    BY <1>1 DEF Mergeable, Coalesced
  <2> QED BY <2>1, MergedFacts
<1>2. CASE ~Mergeable(R, R.chunks[k], R.chunks[k + 1])
  <2>1. Q = R
    BY <1>2 DEF Coalesced
  <2> QED BY <1>2, <2>1
<1> QED BY <1>1, <1>2

LEMMA FreedFacts ==
  ASSUME NEW from \in Nat, NEW to, NEW R, Region(R, from, to), NEW c \in InUse(R), NEW Q \in Freed(R, c)
  PROVE  /\ Region(Q, from, to) /\ InUse(Q) = InUse(R) \ {c}
         /\ \A e \in InUse(R) \ {c} : Q.info[e] = R.info[e]
<1>1. PICK n \in Nat, last \in Chunks :
        n = Len(R.chunks) /\ n >= 1 /\ last = R.last /\ last = R.chunks[n] /\ ~R.info[last].allocated
  <2>1. Len(R.chunks) \in Nat /\ Len(R.chunks) >= 1 /\ R.last \in Chunks
    BY RegionFacts
  <2> QED BY <2>1 DEF Region, Records
<1>s. R.chunks \in Seq(Chunks) /\ DOMAIN R.chunks = 1..n
  BY <1>1, RegionFacts
<1>2. PICK k \in 1..n : c = R.chunks[k]
  BY <1>s DEF InUse, Listed
<1>3. c # last /\ c \in Listed(R) /\ Listed(R) \subseteq Chunks
  BY <1>1 DEF InUse, Region, Records
<1>4. n \in Nat /\ k \in Nat /\ 1 <= k /\ k < n
  <2>1. k # n
    BY <1>1, <1>2, <1>3
  <2> QED BY <1>1, <2>1
<1>5. PICK R0 : R0 = Released(R, c)
  OBVIOUS
<1>6. /\ Region(R0, from, to) /\ R0.chunks = R.chunks /\ R0.last = last
      /\ InUse(R0) = InUse(R) \ {c}
      /\ \A e \in Chunks : R0.info[e].start = R.info[e].start /\ R0.info[e].size = R.info[e].size
      /\ \A e \in Chunks : e # c => R0.info[e] = R.info[e]
  <2>1. R0 = Released(R, c) /\ c # R.last
    BY <1>1, <1>3, <1>5
  <2>2. c \in Listed(R)
    BY <1>3
  <2>3. /\ Region(R0, from, to) /\ R0.chunks = R.chunks /\ R0.last = R.last
        /\ InUse(R0) = InUse(R) \ {c}
        /\ \A e \in Chunks : R0.info[e].start = R.info[e].start /\ R0.info[e].size = R.info[e].size
        /\ \A e \in Chunks : e # c => R0.info[e] = R.info[e]
    BY <2>1, <2>2, ReleasedFacts
  <2> QED BY <1>1, <2>3
<1>7. Position(R0.chunks, c) = k
  <2>1. \A i, j \in DOMAIN R.chunks : R.chunks[i] = R.chunks[j] => i = j
    BY DEF Region, Records
  <2>2. k \in DOMAIN R.chunks /\ R.chunks \in Seq(Chunks)
    BY <1>s
  <2>3. Position(R.chunks, R.chunks[k]) = k
    <3> HIDE <1>s
    <3> QED BY <2>1, <2>2, WithoutFacts
  <2> QED BY <1>2, <1>6, <2>3
<1>8. Following(R0, c) = R.chunks[k + 1]
  BY <1>1, <1>4, <1>6, <1>7 DEF Following
<1>9. Prev(R0, c) = IF k = 1 THEN last ELSE R.chunks[k - 1]
  BY <1>6, <1>7 DEF Prev
<1>10. \A e \in InUse(R) \ {c} : R0.info[e] = R.info[e]
  BY <1>3, <1>6 DEF InUse
<1>11. k \in 1..Len(R0.chunks) - 1
  BY <1>1, <1>4, <1>6
<1>12. PICK d \in {Following(R0, c), NoChunk} :
         IF Mergeable(R0, Prev(R0, c), c)
         THEN Q = Coalesced(Coalesced(R0, Prev(R0, c), c), Prev(R0, c), d)
         ELSE d = Following(R0, c) /\ Q = Coalesced(R0, c, d)
  <2>1. CASE Mergeable(R0, Prev(R0, c), c)
    BY <1>5, <2>1 DEF Freed
  <2>2. CASE ~Mergeable(R0, Prev(R0, c), c)
    <3>1. Coalesced(R0, Prev(R0, c), c) = R0
      BY <2>2 DEF Coalesced
    <3>2. Q = Coalesced(R0, c, Following(R0, c))
      BY <1>5, <2>2, <3>1 DEF Freed
    <3> QED BY <2>2, <3>2
  <2> QED BY <2>1, <2>2
<1>13. CASE ~Mergeable(R0, Prev(R0, c), c)
  <2>1. Q = Coalesced(R0, R0.chunks[k], R0.chunks[k + 1])
    BY <1>2, <1>6, <1>8, <1>12, <1>13
  <2>2. Region(Q, from, to) /\ InUse(Q) = InUse(R0) /\ \A e \in InUse(R0) : Q.info[e] = R0.info[e]
    BY <1>6, <1>11, <2>1, CoalescedFacts
  <2> QED BY <1>6, <1>10, <2>2
<1>14. CASE Mergeable(R0, Prev(R0, c), c)
  <2>1. k # 1
    <3> SUFFICES ASSUME k = 1 PROVE FALSE
      OBVIOUS
    <3>1. R0.info[last].start <= R0.info[c].start
      BY <1>9, <1>14 DEF Mergeable
    <3>2. R.info[last].start <= R.info[c].start
      BY <1>3, <1>6, <3>1
    <3>3. 1 \in 1..n /\ n \in 1..n /\ 1 < n /\ 1 \in 1..n - 1
      BY <1>4
    <3>4. EndOf(R, 1) <= StartOf(R, n) /\ StartOf(R, 1) < EndOf(R, 1)
      BY <1>1, <1>s, <3>3 DEF Region, Tiled
    <3>5. StartOf(R, 1) = R.info[c].start /\ StartOf(R, n) = R.info[last].start
      BY <1>1, <1>2 DEF StartOf
    <3>6. StartOf(R, 1) \in Nat /\ StartOf(R, n) \in Nat /\ EndOf(R, 1) \in Nat
      BY <1>1, <3>3, RegionFacts
    <3> QED BY <3>2, <3>4, <3>5, <3>6
  <2>2. PICK j \in Nat : k = j + 1 /\ 1 <= j /\ j \in 1..Len(R0.chunks) - 1
    <3>1. k - 1 \in Nat /\ k = (k - 1) + 1 /\ 1 <= k - 1 /\ k - 1 \in 1..n - 1
      BY <1>4, <2>1
    <3> QED BY <1>1, <1>6, <3>1
  <2>3. Prev(R0, c) = R0.chunks[j] /\ c = R0.chunks[j + 1]
    BY <1>2, <1>6, <1>9, <2>1, <2>2
  <2>4. PICK R1 : R1 = Coalesced(R0, R0.chunks[j], R0.chunks[j + 1])
    OBVIOUS
  <2>5. Mergeable(R0, R0.chunks[j], R0.chunks[j + 1])
    BY <1>14, <2>3
  <2>6. /\ Region(R1, from, to) /\ InUse(R1) = InUse(R0)
        /\ \A e \in InUse(R0) : R1.info[e] = R0.info[e]
        /\ Len(R1.chunks) = Len(R0.chunks) - 1
        /\ \A i \in 1..Len(R1.chunks) : R1.chunks[i] = IF i <= j THEN R0.chunks[i] ELSE R0.chunks[i + 1]
    <3>1. Region(R0, from, to)
      BY <1>6
    <3>2. j \in 1..Len(R0.chunks) - 1
      BY <2>2
    <3>3. /\ Region(R1, from, to) /\ InUse(R1) = InUse(R0)
          /\ \A e \in InUse(R0) : R1.info[e] = R0.info[e]
          /\ Mergeable(R0, R0.chunks[j], R0.chunks[j + 1]) =>
               /\ Len(R1.chunks) = Len(R0.chunks) - 1
               /\ \A i \in 1..Len(R1.chunks) : R1.chunks[i] = IF i <= j THEN R0.chunks[i] ELSE R0.chunks[i + 1]
      BY <2>4, <3>1, <3>2, CoalescedFacts
    <3> QED BY <2>5, <3>3
  <2>7. Q = Coalesced(R1, R0.chunks[j], d)
    BY <1>12, <1>14, <2>3, <2>4
  <2>8. CASE d = NoChunk
    <3>1. Q = R1
      BY <2>7, <2>8 DEF Coalesced, Mergeable
    <3> QED BY <1>6, <1>10, <2>6, <3>1
  <2>9. CASE d = Following(R0, c)
    <3>1. /\ j \in 1..Len(R1.chunks) /\ j + 1 \in 1..Len(R1.chunks) /\ j \in 1..Len(R1.chunks) - 1
          /\ ~(j + 1 <= j) /\ (j + 1) + 1 = k + 1
      <4>1. Len(R1.chunks) = n - 1
        BY <1>1, <1>6, <2>6
      <4> QED BY <1>4, <2>2, <4>1
    <3>2. R1.chunks[j] = R0.chunks[j]
      BY <2>6, <3>1
    <3>3. R1.chunks[j + 1] = R0.chunks[k + 1]
      BY <2>6, <3>1
    <3>4. Q = Coalesced(R1, R1.chunks[j], R1.chunks[j + 1])
      BY <1>6, <1>8, <2>7, <2>9, <3>2, <3>3
    <3>5. Region(Q, from, to) /\ InUse(Q) = InUse(R1) /\ \A e \in InUse(R1) : Q.info[e] = R1.info[e]
      BY <2>6, <3>1, <3>4, CoalescedFacts
    <3> QED BY <1>6, <1>10, <2>6, <3>5
  <2> QED BY <2>8, <2>9
<1> QED BY <1>13, <1>14
-----------------------------------------------------------------------------
(* The chunks in use *)

\* A buffer that is in use is aligned, lies in the region and meets no other.
LEMMA InUseFacts ==
  ASSUME NEW from \in Nat, NEW to, NEW R, Region(R, from, to), NEW c \in InUse(R)
  PROVE  /\ R.info[c].start \in Nat /\ R.info[c].size \in Nat /\ R.info[c].size > 0
         /\ R.info[c].start % Alignment = 0
         /\ from <= R.info[c].start /\ R.info[c].start + R.info[c].size <= to
         /\ \A d \in InUse(R) : d # c => \/ R.info[d].start + R.info[d].size <= R.info[c].start
                                        \/ R.info[c].start + R.info[c].size <= R.info[d].start
<1>1. PICK n \in Nat : n = Len(R.chunks) /\ n >= 1 /\ DOMAIN R.chunks = 1..n
  BY RegionFacts
<1>2. PICK k \in 1..n : c = R.chunks[k]
  BY <1>1 DEF InUse, Listed
<1>3. R.chunks[n] = R.last /\ ~R.info[R.last].allocated /\ R.info[c].allocated
  BY <1>1 DEF InUse, Region, Records
<1>4. k # n
  BY <1>2, <1>3
<1>5. k \in 1..n - 1 /\ k \in 1..n
  BY <1>1, <1>4
<1>6. StartOf(R, k) % Alignment = 0 /\ StartOf(R, k) < EndOf(R, k)
  BY <1>1, <1>5 DEF Region, Tiled
<1>7. StartOf(R, k) = R.info[c].start /\ EndOf(R, k) = R.info[c].start + R.info[c].size
  BY <1>2 DEF StartOf, EndOf
<1>8. c \in Chunks
  BY DEF InUse, Region, Records
<1>9. R.info[c].start \in Nat /\ R.info[c].size \in Nat
  BY <1>8, RegionFacts
<1>10. from <= StartOf(R, k) /\ EndOf(R, k) <= to
  <2>1. k \in 1..Len(R.chunks)
    BY <1>1
  <2> QED BY <2>1, Bounds
<1>11. ASSUME NEW d \in InUse(R), d # c
       PROVE  \/ R.info[d].start + R.info[d].size <= R.info[c].start
              \/ R.info[c].start + R.info[c].size <= R.info[d].start
  <2>1. PICK j \in 1..n : d = R.chunks[j]
    BY <1>1 DEF InUse, Listed
  <2>2. StartOf(R, j) = R.info[d].start /\ EndOf(R, j) = R.info[d].start + R.info[d].size
    BY <2>1 DEF StartOf, EndOf
  <2>3. j < k \/ k < j
    BY <1>2, <1>11, <2>1
  <2>4. \A i, l \in 1..n : i < l => EndOf(R, i) <= StartOf(R, l)
    BY <1>1 DEF Region, Tiled
  <2>5. EndOf(R, j) <= StartOf(R, k) \/ EndOf(R, k) <= StartOf(R, j)
    BY <2>3, <2>4
  <2> QED BY <1>7, <2>2, <2>5
<1>12. R.info[c].size > 0
  BY <1>6, <1>7, <1>9
<1>13. R.info[c].start % Alignment = 0
  BY <1>6, <1>7
<1>14. from <= R.info[c].start /\ R.info[c].start + R.info[c].size <= to
  BY <1>7, <1>10
<1> QED BY <1>9, <1>11, <1>12, <1>13, <1>14

\* The only chunk that starts where a buffer in use does is the buffer.
LEMMA StartFacts ==
  ASSUME NEW from \in Nat, NEW to, NEW R, Region(R, from, to), NEW c \in InUse(R),
         NEW i \in DOMAIN R.chunks, R.info[R.chunks[i]].start = R.info[c].start
  PROVE  R.chunks[i] = c
<1>1. PICK n \in Nat : n = Len(R.chunks) /\ n >= 1 /\ DOMAIN R.chunks = 1..n
  BY RegionFacts
<1>2. PICK k \in 1..n : c = R.chunks[k]
  BY <1>1 DEF InUse, Listed
<1>3. R.chunks[n] = R.last /\ ~R.info[R.last].allocated /\ R.info[c].allocated
  BY <1>1 DEF InUse, Region, Records
<1>4. k # n
  BY <1>2, <1>3
<1>5. k \in 1..n - 1 /\ i \in 1..n /\ (i < k => i \in 1..n - 1)
  BY <1>1, <1>4
<1>6. StartOf(R, i) = StartOf(R, k)
  BY <1>2 DEF StartOf
<1>7. /\ \A l \in 1..n - 1 : StartOf(R, l) < EndOf(R, l)
      /\ \A l, j \in 1..n : l < j => EndOf(R, l) <= StartOf(R, j)
  BY <1>1 DEF Region, Tiled
<1>8. \A l \in 1..n : StartOf(R, l) \in Nat /\ EndOf(R, l) \in Nat
  BY <1>1, RegionFacts
<1>9. ~(i < k)
  <2> SUFFICES ASSUME i < k PROVE FALSE
    OBVIOUS
  <2>1. StartOf(R, i) < EndOf(R, i) /\ EndOf(R, i) <= StartOf(R, k)
    BY <1>5, <1>7
  <2> QED BY <1>5, <1>6, <1>8, <2>1
<1>10. ~(k < i)
  <2> SUFFICES ASSUME k < i PROVE FALSE
    OBVIOUS
  <2>1. StartOf(R, k) < EndOf(R, k) /\ EndOf(R, k) <= StartOf(R, i)
    BY <1>5, <1>7
  <2> QED BY <1>5, <1>6, <1>8, <2>1
<1>11. i = k
  BY <1>5, <1>9, <1>10
<1> QED BY <1>2, <1>11

\* What the invariant says of one region.
LEMMA StateFacts ==
  ASSUME IInv, NEW r \in Regions
  PROVE  /\ Region(region[r], Base[r], Base[r] + Size[r]) /\ Base[r] \in Nat /\ Size[r] \in Nat
         /\ InUse(region[r]) = {h.chunk : h \in Holders(r)}
<1>1. Base[r] \in Nat /\ Size[r] \in Nat
  BY BufferAllocatorAssumption DEF Regions
<1>2. region[r] \in RegionState
  BY DEF IInv, TypeOK
<1> QED BY <1>1, <1>2 DEF IInv, NothingLost, Region

LEMMA HeldFacts ==
  ASSUME IInv, NEW h \in held
  PROVE  /\ h.region \in Regions /\ h.chunk \in Chunks /\ h.want \in Requests /\ h.want \in Nat
         /\ h.chunk \in InUse(region[h.region])
         /\ h = [region |-> h.region, chunk |-> h.chunk, want |-> h.want]
<1>1. h \in [region : Regions, chunk : Chunks, want : Requests]
  BY DEF IInv, TypeOK
<1>2. h.region \in Regions /\ h.want \in Nat
  BY <1>1, BufferAllocatorAssumption
<1>3. h \in Holders(h.region)
  BY DEF Holders
<1>4. InUse(region[h.region]) = {g.chunk : g \in Holders(h.region)}
  BY <1>2, StateFacts
<1>5. h.chunk \in InUse(region[h.region])
  BY <1>3, <1>4
<1> QED BY <1>1, <1>2, <1>5
-----------------------------------------------------------------------------
(* Steps: a buffer is granted, a buffer is given back *)

\* A thread is granted the chunk c of region r, which has become R.
Grants(t, R, c) ==
  LET r == pc[t].region
  IN  /\ Region(R, Base[r], Base[r] + Size[r])
      /\ c \in Chunks \ InUse(region[r]) /\ InUse(R) = InUse(region[r]) \cup {c}
      /\ \A e \in InUse(region[r]) : R.info[e] = region[r].info[e]
      /\ R.info[c].size >= pc[t].want
      /\ Grant(t, R, c)

LEMMA GrantKeeps ==
  ASSUME IInv, NEW t \in Threads, pc[t].stage # "idle", NEW R, NEW c, Grants(t, R, c)
  PROVE  IInv' /\ Space!Next
<1>1a. PICK r \in Regions, m \in Requests : \E new :
        r = pc[t].region /\ m = pc[t].want /\ new = [region |-> r, chunk |-> c, want |-> m]
  <2>1. pc[t].region \in Regions /\ pc[t].want \in Requests
    BY DEF IInv, TypeOK
  <2> QED BY <2>1
<1>1. PICK new : r = pc[t].region /\ m = pc[t].want /\ new = [region |-> r, chunk |-> c, want |-> m]
  BY <1>1a
<1>2. /\ Region(R, Base[r], Base[r] + Size[r])
      /\ c \in Chunks /\ c \notin InUse(region[r]) /\ InUse(R) = InUse(region[r]) \cup {c}
      /\ \A e \in InUse(region[r]) : R.info[e] = region[r].info[e]
      /\ R.info[c].size >= m
      /\ region' = [region EXCEPT ![r] = R] /\ held' = held \cup {new} /\ pc' = [pc EXCEPT ![t] = Idle]
  BY <1>1 DEF Grants, Grant
<1>3. region \in [Regions -> RegionState] /\ R \in RegionState
  BY <1>2 DEF IInv, TypeOK, Region
<1>4. region'[r] = R /\ \A s \in Regions : s # r => region'[s] = region[s]
  BY <1>2, <1>3
<1>5. new.region = r /\ new.chunk = c /\ new.want = m
  BY <1>1
<1>6. \A h \in held : h.region = r => h.chunk \in InUse(region[r]) /\ h.chunk # c
  BY <1>2, HeldFacts
<1>7. \A h \in held : region'[h.region].info[h.chunk] = region[h.region].info[h.chunk]
  <2> TAKE h \in held
  <2>1. CASE h.region = r
    BY <1>2, <1>4, <1>6, <2>1
  <2>2. CASE h.region # r
    <3>1. h.region \in Regions
      BY HeldFacts
    <3> QED BY <1>4, <2>2, <3>1
  <2> QED BY <2>1, <2>2
<1>8. TypeOK'
  <2>1. region' \in [Regions -> RegionState]
    BY <1>2, <1>3
  <2>2. held' \subseteq [region : Regions, chunk : Chunks, want : Requests]
    <3>1. new \in [region : Regions, chunk : Chunks, want : Requests]
      BY <1>1, <1>2
    <3>2. held \subseteq [region : Regions, chunk : Chunks, want : Requests]
      BY DEF IInv, TypeOK
    <3> QED BY <1>2, <3>1, <3>2
  <2>3. Idle \in [stage : {"idle", "append", "search"}, region : Regions, want : Nat] /\ Idle.stage = "idle"
    <3>1. 1 \in Regions
      BY BufferAllocatorAssumption DEF Regions
    <3> QED BY <3>1 DEF Idle
  <2>4. /\ pc' \in [Threads -> [stage : {"idle", "append", "search"}, region : Regions, want : Nat]]
        /\ \A u \in Threads : pc'[u] = Idle \/ pc'[u] = pc[u]
    BY <1>2, <2>3 DEF IInv, TypeOK
  <2>5. \A u \in Threads : pc'[u].stage # "idle" => pc'[u].want \in Requests
    BY <2>3, <2>4 DEF IInv, TypeOK
  <2> QED BY <2>1, <2>2, <2>4, <2>5 DEF TypeOK
<1>9. ASSUME NEW s \in Regions
      PROVE  /\ Region(region'[s], Base[s], Base[s] + Size[s])
             /\ InUse(region'[s]) = {h.chunk : h \in {g \in held' : g.region = s}}
  <2>1. Region(region[s], Base[s], Base[s] + Size[s]) /\ InUse(region[s]) = {h.chunk : h \in {g \in held : g.region = s}}
    BY StateFacts DEF Holders
  <2>2. CASE s = r
    <3>1. Region(region'[s], Base[s], Base[s] + Size[s])
      BY <1>2, <1>4, <2>2
    <3>2. InUse(region'[s]) = {h.chunk : h \in {g \in held : g.region = s}} \cup {c}
      BY <1>2, <1>4, <2>1, <2>2
    <3>3. {g \in held' : g.region = s} = {g \in held : g.region = s} \cup {new}
      BY <1>2, <1>5, <2>2
    <3> QED BY <1>5, <3>1, <3>2, <3>3
  <2>3. CASE s # r
    <3>1. {g \in held' : g.region = s} = {g \in held : g.region = s}
      BY <1>2, <1>5, <2>3
    <3> QED BY <1>4, <2>1, <2>3, <3>1
  <2> QED BY <2>2, <2>3
<1>10. NothingLost'
  <2>1. \A s \in Regions :
          /\ Records(region'[s]) /\ Tiled(region'[s], Base[s], Base[s] + Size[s])
          /\ InUse(region'[s]) = {h.chunk : h \in {g \in held' : g.region = s}}
    BY <1>9 DEF Region
  <2>2. \A g, h \in held' : g.region = h.region /\ g.chunk = h.chunk => g = h
    <3>1. \A g, h \in held : g.region = h.region /\ g.chunk = h.chunk => g = h
      BY DEF IInv, NothingLost
    <3> QED BY <1>2, <1>5, <1>6, <3>1
  <2>3. \A h \in held' : h.want <= region'[h.region].info[h.chunk].size
    <3>1. \A h \in held : h.want <= region[h.region].info[h.chunk].size
      BY DEF IInv, NothingLost, InfoOf
    <3>2. new.want <= region'[new.region].info[new.chunk].size
      <4>1. R.info[c].size \in Nat /\ m \in Nat
        BY <1>2, RegionFacts, BufferAllocatorAssumption
      <4> QED BY <1>2, <1>4, <1>5, <4>1
    <3> QED BY <1>2, <1>7, <3>1, <3>2
  <2> QED BY <2>1, <2>2, <2>3 DEF NothingLost, Holders, InfoOf
<1>11. PICK b : b = [region |-> r, start |-> R.info[c].start, size |-> R.info[c].size, want |-> m]
  OBVIOUS
<1>12. b.region = r /\ b.start = R.info[c].start /\ b.size = R.info[c].size /\ b.want = m
  BY <1>11
<1>13. Granted' = Granted \cup {b}
  <2>1. \A h \in held : Buffer(h)' = Buffer(h)
    BY <1>7 DEF Buffer, InfoOf
  <2>2. Buffer(new)' = b
    BY <1>4, <1>5, <1>11 DEF Buffer, InfoOf
  <2>3. Granted' = {Buffer(h)' : h \in held'}
    BY DEF Granted
  <2> QED BY <1>2, <2>1, <2>2, <2>3 DEF Granted
<1>14. Base[r] \in Nat /\ Size[r] \in Nat /\ c \in InUse(R)
  BY <1>2, StateFacts
<1>15. /\ R.info[c].start \in Nat /\ R.info[c].size \in Nat /\ R.info[c].size > 0
       /\ R.info[c].start % Alignment = 0
       /\ Base[r] <= R.info[c].start /\ R.info[c].start + R.info[c].size <= Base[r] + Size[r]
       /\ \A d \in InUse(R) : d # c => \/ R.info[d].start + R.info[d].size <= R.info[c].start
                                      \/ R.info[c].start + R.info[c].size <= R.info[d].start
  BY <1>2, <1>14, InUseFacts
<1>16. ASSUME NEW o \in Granted PROVE ~Space!Overlap(b, o) /\ o # b
  <2>1. PICK h \in held : o = Buffer(h)
    BY DEF Granted
  <2>2. o.region = h.region /\ o.start = region[h.region].info[h.chunk].start /\ o.size = region[h.region].info[h.chunk].size
    BY <2>1 DEF Buffer, InfoOf
  <2>3. CASE h.region # r
    BY <1>12, <2>2, <2>3 DEF Space!Overlap
  <2>4. CASE h.region = r
    <3>1. h.chunk \in InUse(R) /\ h.chunk # c /\ R.info[h.chunk] = region[r].info[h.chunk]
      BY <1>2, <1>6, <2>4
    <3>2. o.start + o.size <= b.start \/ b.start + b.size <= o.start
      BY <1>12, <1>15, <2>2, <2>4, <3>1
    <3>3. h.chunk \in Chunks
      BY HeldFacts
    <3>4. o.start \in Nat /\ o.size \in Nat
      BY <1>2, <2>2, <2>4, <3>1, <3>3, RegionFacts
    <3> QED BY <1>12, <1>15, <3>2, <3>4 DEF Space!Overlap
  <2> QED BY <2>3, <2>4
<1>17. Space!Grantable(b)
  BY <1>2, <1>12, <1>14, <1>15, <1>16 DEF Space!Grantable
<1>18. b \in Granted' /\ b \notin Granted
  BY <1>13, <1>16
<1>19. Space!Next
  BY <1>13, <1>17, <1>18 DEF Space!Next
<1> QED BY <1>8, <1>10, <1>19 DEF IInv

\* The buffer h is given back, and its region becomes R.
GivesBack(h, R) ==
  /\ R \in Freed(region[h.region], h.chunk)
  /\ region' = [region EXCEPT ![h.region] = R]
  /\ held' = held \ {h}
  /\ UNCHANGED pc

LEMMA GiveBackKeeps ==
  ASSUME IInv, NEW h \in held, NEW R, GivesBack(h, R)
  PROVE  IInv' /\ Space!Next
<1>1. PICK r \in Regions, c \in Chunks : r = h.region /\ c = h.chunk /\ c \in InUse(region[r])
  BY HeldFacts
<1>2. Region(region[r], Base[r], Base[r] + Size[r]) /\ Base[r] \in Nat /\ Size[r] \in Nat
  BY StateFacts
<1>3. R \in Freed(region[r], c)
  BY <1>1 DEF GivesBack
<1>4. /\ Region(R, Base[r], Base[r] + Size[r]) /\ InUse(R) = InUse(region[r]) \ {c}
      /\ \A e \in InUse(region[r]) \ {c} : R.info[e] = region[r].info[e]
  BY <1>1, <1>2, <1>3, FreedFacts
<1>5. region' = [region EXCEPT ![r] = R] /\ held' = held \ {h} /\ pc' = pc
  BY <1>1 DEF GivesBack
<1>6. region \in [Regions -> RegionState] /\ R \in RegionState
  BY <1>4 DEF IInv, TypeOK, Region
<1>7. region'[r] = R /\ \A s \in Regions : s # r => region'[s] = region[s]
  BY <1>5, <1>6
<1>8. \A g \in held' : g \in held /\ (g.region = r => g.chunk \in InUse(region[r]) /\ g.chunk # c)
  <2> TAKE g \in held'
  <2>1. g \in held /\ g # h
    BY <1>5
  <2>2. \A x, y \in held : x.region = y.region /\ x.chunk = y.chunk => x = y
    BY DEF IInv, NothingLost
  <2>3. g.chunk \in InUse(region[g.region])
    BY <2>1, HeldFacts
  <2> QED BY <1>1, <2>1, <2>2, <2>3
<1>9. \A g \in held' : region'[g.region].info[g.chunk] = region[g.region].info[g.chunk]
  <2> TAKE g \in held'
  <2>1. CASE g.region = r
    BY <1>4, <1>7, <1>8, <2>1
  <2>2. CASE g.region # r
    <3>1. g.region \in Regions
      BY <1>8, HeldFacts
    <3> QED BY <1>7, <2>2, <3>1
  <2> QED BY <2>1, <2>2
<1>10. TypeOK'
  <2>1. region' \in [Regions -> RegionState]
    BY <1>5, <1>6
  <2> QED BY <1>5, <2>1 DEF IInv, TypeOK
<1>11. ASSUME NEW s \in Regions
       PROVE  /\ Region(region'[s], Base[s], Base[s] + Size[s])
              /\ InUse(region'[s]) = {g.chunk : g \in {x \in held' : x.region = s}}
  <2>1. Region(region[s], Base[s], Base[s] + Size[s]) /\ InUse(region[s]) = {g.chunk : g \in {x \in held : x.region = s}}
    BY StateFacts DEF Holders
  <2>2. CASE s = r
    <3>1. Region(region'[s], Base[s], Base[s] + Size[s])
      BY <1>4, <1>7, <2>2
    <3>2. InUse(region'[s]) = {g.chunk : g \in {x \in held : x.region = s}} \ {c}
      BY <1>4, <1>7, <2>1, <2>2
    <3>3. ASSUME NEW x PROVE x \in {g.chunk : g \in {y \in held : y.region = s}} \ {c}
                             <=> x \in {g.chunk : g \in {y \in held' : y.region = s}}
      <4>1. ASSUME x \in {g.chunk : g \in {y \in held : y.region = s}} \ {c}
            PROVE  x \in {g.chunk : g \in {y \in held' : y.region = s}}
        <5>1. PICK g \in held : g.region = s /\ x = g.chunk /\ x # c
          BY <4>1
        <5>2. g \in held'
          BY <1>1, <1>5, <5>1
        <5> QED BY <5>1, <5>2
      <4>2. ASSUME x \in {g.chunk : g \in {y \in held' : y.region = s}}
            PROVE  x \in {g.chunk : g \in {y \in held : y.region = s}} \ {c}
        <5>1. PICK g \in held' : g.region = s /\ x = g.chunk
          BY <4>2
        <5>2. g \in held /\ x # c
          BY <1>8, <2>2, <5>1
        <5> QED BY <5>1, <5>2
      <4> QED BY <4>1, <4>2
    <3> QED BY <3>1, <3>2, <3>3
  <2>3. CASE s # r
    <3>1. {x \in held' : x.region = s} = {x \in held : x.region = s}
      BY <1>1, <1>5, <2>3
    <3> QED BY <1>7, <2>1, <2>3, <3>1
  <2> QED BY <2>2, <2>3
<1>12. NothingLost'
  <2>1. \A s \in Regions :
          /\ Records(region'[s]) /\ Tiled(region'[s], Base[s], Base[s] + Size[s])
          /\ InUse(region'[s]) = {g.chunk : g \in {x \in held' : x.region = s}}
    BY <1>11 DEF Region
  <2>2. \A x, y \in held' : x.region = y.region /\ x.chunk = y.chunk => x = y
    BY <1>5 DEF IInv, NothingLost
  <2>3. \A g \in held' : g.want <= region'[g.region].info[g.chunk].size
    <3>1. \A g \in held : g.want <= region[g.region].info[g.chunk].size
      BY DEF IInv, NothingLost, InfoOf
    <3> QED BY <1>8, <1>9, <3>1
  <2> QED BY <2>1, <2>2, <2>3 DEF NothingLost, Holders, InfoOf
<1>13. PICK b : b = Buffer(h)
  OBVIOUS
<1>14. \A g \in held' : Buffer(g) # b
  <2> SUFFICES ASSUME NEW g \in held', Buffer(g) = b PROVE FALSE
    OBVIOUS
  <2>1. g.region = h.region /\ region[g.region].info[g.chunk].start = region[h.region].info[h.chunk].start
    BY <1>13 DEF Buffer, InfoOf
  <2>2. g.region = r /\ g.chunk \in InUse(region[r]) /\ g.chunk # c
    BY <1>1, <1>8, <2>1
  <2>3. region[r].info[g.chunk].start = region[r].info[c].start
    BY <1>1, <2>1, <2>2
  <2>4. \/ region[r].info[g.chunk].start + region[r].info[g.chunk].size <= region[r].info[c].start
        \/ region[r].info[c].start + region[r].info[c].size <= region[r].info[g.chunk].start
    BY <1>1, <1>2, <2>2, InUseFacts
  <2>5. /\ region[r].info[c].start \in Nat /\ region[r].info[c].size \in Nat /\ region[r].info[c].size > 0
    BY <1>1, <1>2, InUseFacts
  <2>6. /\ region[r].info[g.chunk].start \in Nat /\ region[r].info[g.chunk].size \in Nat /\ region[r].info[g.chunk].size > 0
    BY <1>2, <2>2, InUseFacts
  <2> QED BY <2>3, <2>4, <2>5, <2>6
<1>15. Granted' = Granted \ {b}
  <2>1. \A g \in held' : Buffer(g)' = Buffer(g)
    BY <1>9 DEF Buffer, InfoOf
  <2>2. Granted' = {Buffer(g)' : g \in held'}
    BY DEF Granted
  <2>3. Granted' = {Buffer(g) : g \in held'}
    BY <2>1, <2>2
  <2> QED BY <1>5, <1>13, <1>14, <2>3 DEF Granted
<1>16. b \in Granted
  BY <1>13 DEF Granted
<1>17. Space!Next
  BY <1>15, <1>16 DEF Space!Next
<1> QED BY <1>10, <1>12, <1>17 DEF IInv
-----------------------------------------------------------------------------
(* The actions *)

LEMMA Initially ==
  ASSUME Init PROVE IInv
<1>0. /\ \A r \in Regions : Base[r] \in Nat /\ Size[r] \in Nat
      /\ Alignment \in Nat /\ Alignment > 0 /\ 0 \in Chunks /\ 1 \in Regions
  BY BufferAllocatorAssumption DEF Regions, Chunks
<1>1. PICK strategy \in [Regions -> Strategies] :
        region = [r \in Regions |->
          [chunks   |-> <<0>>,
           free     |-> Chunks \ {0},
           last     |-> 0,
           strategy |-> strategy[r],
           info     |-> [c \in Chunks |->
             [Unused EXCEPT !.start = IF c = 0 THEN Base[r] ELSE 0,
                            !.size  = IF c = 0 THEN Size[r] ELSE 0]]]]
  BY DEF Init
<1>2. ASSUME NEW r \in Regions
      PROVE  /\ region[r].chunks = <<0>> /\ region[r].free = Chunks \ {0} /\ region[r].last = 0
             /\ region[r].info \in [Chunks -> [start : Nat, size : Nat, allocated : BOOLEAN]]
             /\ region[r].info[0] = [start |-> Base[r], size |-> Size[r], allocated |-> FALSE]
             /\ \A c \in Chunks : ~region[r].info[c].allocated
             /\ region[r] \in RegionState
  <2>1. PICK info : info = [c \in Chunks |->
             [Unused EXCEPT !.start = IF c = 0 THEN Base[r] ELSE 0,
                            !.size  = IF c = 0 THEN Size[r] ELSE 0]]
    OBVIOUS
  <2>2. region[r] = [chunks |-> <<0>>, free |-> Chunks \ {0}, last |-> 0,
                     strategy |-> strategy[r], info |-> info]
    BY <1>1, <2>1
  <2>3. \A c \in Chunks : info[c] = [start |-> IF c = 0 THEN Base[r] ELSE 0,
                                     size |-> IF c = 0 THEN Size[r] ELSE 0, allocated |-> FALSE]
    BY <2>1 DEF Unused
  <2>4. info \in [Chunks -> [start : Nat, size : Nat, allocated : BOOLEAN]]
    <3>1. ASSUME NEW c \in Chunks PROVE info[c] \in [start : Nat, size : Nat, allocated : BOOLEAN]
      <4>1a. PICK a : a = (IF c = 0 THEN Base[r] ELSE 0)
        OBVIOUS
      <4>1b. PICK n : n = (IF c = 0 THEN Size[r] ELSE 0)
        OBVIOUS
      <4>1. a = (IF c = 0 THEN Base[r] ELSE 0) /\ n = (IF c = 0 THEN Size[r] ELSE 0)
        BY <4>1a, <4>1b
      <4>2. a \in Nat /\ n \in Nat
        BY <1>0, <4>1
      <4>3. info[c] = [start |-> a, size |-> n, allocated |-> FALSE]
        BY <2>3, <4>1
      <4> QED BY <4>2, <4>3
    <3>2. info = [c \in Chunks |-> info[c]]
      BY <2>1
    <3> QED BY <3>1, <3>2
  <2>5. <<0>> \in Seq(Chunks)
    BY <1>0
  <2>6. region[r] \in RegionState
    BY <1>0, <2>2, <2>4, <2>5 DEF RegionState
  <2>7. info[0] = [start |-> Base[r], size |-> Size[r], allocated |-> FALSE]
    BY <1>0, <2>3
  <2>8. ASSUME NEW c \in Chunks PROVE ~info[c].allocated
    <3>1a. PICK a : a = (IF c = 0 THEN Base[r] ELSE 0)
      OBVIOUS
    <3>1b. PICK n : n = (IF c = 0 THEN Size[r] ELSE 0)
      OBVIOUS
    <3>1. a = (IF c = 0 THEN Base[r] ELSE 0) /\ n = (IF c = 0 THEN Size[r] ELSE 0)
      BY <3>1a, <3>1b
    <3>2. info[c] = [start |-> a, size |-> n, allocated |-> FALSE]
      BY <2>3, <3>1
    <3> QED BY <3>2
  <2> QED BY <2>2, <2>4, <2>6, <2>7, <2>8
<1>3. held = {} /\ pc = [t \in Threads |-> Idle]
  BY DEF Init
<1>4. TypeOK
  <2>1. region \in [Regions -> RegionState]
    <3>1. region = [r \in Regions |-> region[r]]
      BY <1>1
    <3> QED BY <1>2, <3>1
  <2>2. Idle \in [stage : {"idle", "append", "search"}, region : Regions, want : Nat] /\ Idle.stage = "idle"
    BY <1>0 DEF Idle
  <2> QED BY <1>3, <2>1, <2>2 DEF TypeOK
<1>5. ASSUME NEW r \in Regions
      PROVE  /\ Records(region[r]) /\ Tiled(region[r], Base[r], Base[r] + Size[r])
             /\ InUse(region[r]) = {h.chunk : h \in Holders(r)}
  <2>1. /\ Len(region[r].chunks) = 1 /\ DOMAIN region[r].chunks = {1} /\ region[r].chunks[1] = 0
        /\ region[r].chunks # <<>>
    <3>1. PICK s : s = <<0>>
      OBVIOUS
    <3>2. Len(s) = 1 /\ s[1] = 0 /\ s # <<>>
      BY <3>1
    <3>3. DOMAIN s = {1}
      BY <3>1
    <3> QED BY <1>2, <3>1, <3>2, <3>3
  <2>2. Listed(region[r]) = {0}
    BY <2>1 DEF Listed
  <2>3. Records(region[r])
    <3>1. \A i, j \in DOMAIN region[r].chunks : region[r].chunks[i] = region[r].chunks[j] => i = j
      BY <2>1
    <3>2. Listed(region[r]) \cup region[r].free = Chunks /\ Listed(region[r]) \cap region[r].free = {}
      <4>1. region[r].free = Chunks \ {0} /\ 0 \in Chunks
        BY <1>0, <1>2
      <4> QED BY <2>2, <4>1
    <3>3. region[r].chunks # <<>> /\ region[r].chunks[Len(region[r].chunks)] = region[r].last
      BY <1>2, <2>1
    <3>4. ~region[r].info[region[r].last].allocated
      BY <1>0, <1>2
    <3> QED BY <3>1, <3>2, <3>3, <3>4 DEF Records
  <2>4. StartOf(region[r], 1) = Base[r] /\ EndOf(region[r], 1) = Base[r] + Size[r]
    <3>1. region[r].info[0].start = Base[r] /\ region[r].info[0].size = Size[r]
      <4>1. region[r].info[0] = [start |-> Base[r], size |-> Size[r], allocated |-> FALSE]
        BY <1>2
      <4> QED BY <4>1
    <3> QED BY <2>1, <3>1 DEF StartOf, EndOf
  <2>5. Tiled(region[r], Base[r], Base[r] + Size[r])
    <3>1. PICK R : R = region[r]
      OBVIOUS
    <3>2. Len(R.chunks) = 1 /\ DOMAIN R.chunks = {1} /\ StartOf(R, 1) = Base[r] /\ EndOf(R, 1) = Base[r] + Size[r]
      BY <2>1, <2>4, <3>1
    <3>3. StartOf(R, 1) >= Base[r] /\ StartOf(R, 1) - Base[r] < Alignment /\ EndOf(R, Len(R.chunks)) = Base[r] + Size[r]
      BY <1>0, <3>2
    <3>4. \A i, j \in DOMAIN R.chunks : i < j => EndOf(R, i) <= StartOf(R, j)
      BY <3>2
    <3>5. \A i \in 1..Len(R.chunks) - 1 :
            /\ StartOf(R, i + 1) - EndOf(R, i) < Alignment
            /\ StartOf(R, i) % Alignment = 0 /\ StartOf(R, i) < EndOf(R, i)
      <4>1. 1..Len(R.chunks) - 1 = {}
        BY <3>2
      <4> QED BY <4>1
    <3>6. LET n == Len(R.chunks)
          IN  StartOf(R, n) % Alignment = 0 \/ StartOf(R, n) = IF n = 1 THEN Base[r] ELSE EndOf(R, n - 1)
      BY <3>2
    <3> QED BY <3>1, <3>3, <3>4, <3>5, <3>6 DEF Tiled
  <2>6. InUse(region[r]) = {} /\ Holders(r) = {}
    BY <1>0, <1>2, <1>3, <2>2 DEF InUse, Holders
  <2> QED BY <2>3, <2>5, <2>6
<1>6. NothingLost
  BY <1>3, <1>5 DEF NothingLost
<1> QED BY <1>4, <1>6 DEF IInv

\* A step that moves only a thread.
LEMMA MoveKeeps ==
  ASSUME IInv, UNCHANGED <<region, held>>,
         pc' \in [Threads -> [stage : {"idle", "append", "search"}, region : Regions, want : Nat]],
         \A t \in Threads : pc'[t].stage # "idle" => pc'[t].want \in Requests
  PROVE  IInv' /\ Granted' = Granted
<1>1. TypeOK'
  BY DEF IInv, TypeOK
<1>2. NothingLost'
  <2>0. NothingLost
    BY DEF IInv
  <2>1. ASSUME NEW r \in Regions PROVE Records(region[r])'
    <3>1. Records(region[r])
      BY <2>0 DEF NothingLost
    <3> QED BY <3>1 DEF Records, Listed
  <2>2. ASSUME NEW r \in Regions PROVE Tiled(region[r], Base[r], Base[r] + Size[r])'
    <3>1. Tiled(region[r], Base[r], Base[r] + Size[r])
      BY <2>0 DEF NothingLost
    <3>2. Tiled(region'[r], Base[r], Base[r] + Size[r])
      BY <3>1
    <3> QED BY <3>2
  <2>3. ASSUME NEW r \in Regions PROVE InUse(region[r])' = {h.chunk : h \in Holders(r)'}
    <3>1. InUse(region[r]) = {h.chunk : h \in Holders(r)}
      BY <2>0 DEF NothingLost
    <3>2. InUse(region[r])' = InUse(region[r])
      BY DEF InUse, Listed
    <3> QED BY <3>1, <3>2 DEF Holders
  <2>4. \A g, h \in held' : g.region = h.region /\ g.chunk = h.chunk => g = h
    BY <2>0 DEF NothingLost
  <2>5. \A h \in held' : h.want <= InfoOf(h)'.size
    BY <2>0 DEF NothingLost, InfoOf
  <2>6. \A r \in Regions :
          /\ Records(region[r])' /\ Tiled(region[r], Base[r], Base[r] + Size[r])'
          /\ InUse(region[r])' = {h.chunk : h \in Holders(r)'}
    BY <2>1, <2>2, <2>3
  <2> QED BY <2>4, <2>5, <2>6 DEF NothingLost
<1>3. Granted' = Granted
  BY DEF Granted, Buffer, InfoOf
<1> QED BY <1>1, <1>2, <1>3 DEF IInv

LEMMA StagesFacts ==
  ASSUME NEW r
  PROVE  Stages(r)[1] \in {"append", "search"} /\ Stages(r)[2] \in {"append", "search"}
BY DEF Stages

LEMMA CallKeeps ==
  ASSUME IInv, NEW t \in Threads, Call(t)
  PROVE  IInv' /\ Granted' = Granted
<1>1. PICK n \in Requests : pc' = [pc EXCEPT ![t] = [stage |-> Stages(1)[1], region |-> 1, want |-> n]]
  BY DEF Call
<1>2. n \in Nat /\ 1 \in Regions
  BY BufferAllocatorAssumption DEF Regions
<1>3. Stages(1)[1] \in {"append", "search"}
  BY StagesFacts
<1>4. PICK p : p = [stage |-> Stages(1)[1], region |-> 1, want |-> n]
  OBVIOUS
<1>5. p \in [stage : {"idle", "append", "search"}, region : Regions, want : Nat] /\ p.want = n
  BY <1>2, <1>3, <1>4
<1>6. pc' \in [Threads -> [stage : {"idle", "append", "search"}, region : Regions, want : Nat]]
      /\ \A u \in Threads : pc'[u] = pc[u] \/ pc'[u] = p
  BY <1>1, <1>4, <1>5 DEF IInv, TypeOK
<1>7. \A u \in Threads : pc'[u].stage # "idle" => pc'[u].want \in Requests
  BY <1>5, <1>6 DEF IInv, TypeOK
<1>8. UNCHANGED <<region, held>>
  BY DEF Call
<1> QED BY <1>6, <1>7, <1>8, MoveKeeps

LEMMA ProceedKeeps ==
  ASSUME IInv, NEW t \in Threads, pc[t].stage # "idle", Proceed(t)
  PROVE  IInv' /\ Granted' = Granted
<1>1a. PICK r \in Regions, m \in Requests : \E old :
        old = pc[t] /\ r = pc[t].region /\ m = pc[t].want
        /\ old \in [stage : {"idle", "append", "search"}, region : Regions, want : Nat]
  BY DEF IInv, TypeOK
<1>1. PICK old :
        old = pc[t] /\ r = pc[t].region /\ m = pc[t].want
        /\ old \in [stage : {"idle", "append", "search"}, region : Regions, want : Nat]
  BY <1>1a
<1>2. PICK p : p = IF old.stage = Stages(r)[1] THEN [old EXCEPT !.stage = Stages(r)[2]]
                   ELSE IF r < Len(Base)
                        THEN [old EXCEPT !.region = r + 1, !.stage = Stages(r + 1)[1]]
                   ELSE Idle
  OBVIOUS
<1>3. pc' = [pc EXCEPT ![t] = p]
  BY <1>1, <1>2 DEF Proceed, IInv, TypeOK
<1>4. p \in [stage : {"idle", "append", "search"}, region : Regions, want : Nat] /\ (p.stage # "idle" => p.want = m)
  <2>1. CASE old.stage = Stages(r)[1]
    <3>1. p = [old EXCEPT !.stage = Stages(r)[2]]
      BY <1>2, <2>1
    <3> QED BY <1>1, <3>1, StagesFacts
  <2>2. CASE old.stage # Stages(r)[1] /\ r < Len(Base)
    <3>1. p = [old EXCEPT !.region = r + 1, !.stage = Stages(r + 1)[1]]
      BY <1>2, <2>2
    <3>2. r + 1 \in Regions
      BY <2>2, BufferAllocatorAssumption DEF Regions
    <3> QED BY <1>1, <3>1, <3>2, StagesFacts
  <2>3. CASE old.stage # Stages(r)[1] /\ ~(r < Len(Base))
    <3>1. p = Idle
      BY <1>2, <2>3
    <3>2. 1 \in Regions
      BY BufferAllocatorAssumption DEF Regions
    <3> QED BY <3>1, <3>2 DEF Idle
  <2> QED BY <2>1, <2>2, <2>3
<1>5. pc' \in [Threads -> [stage : {"idle", "append", "search"}, region : Regions, want : Nat]]
      /\ \A u \in Threads : pc'[u] = pc[u] \/ pc'[u] = p
  BY <1>3, <1>4 DEF IInv, TypeOK
<1>6. \A u \in Threads : pc'[u].stage # "idle" => pc'[u].want \in Requests
  BY <1>4, <1>5 DEF IInv, TypeOK
<1>7. UNCHANGED <<region, held>>
  BY DEF Proceed
<1> QED BY <1>5, <1>6, <1>7, MoveKeeps

LEMMA AppendChunkKeeps ==
  ASSUME IInv, NEW t \in Threads, AppendChunk(t)
  PROVE  IInv' /\ (Space!Next \/ Granted' = Granted)
<1>1. pc[t].stage # "idle"
  BY DEF AppendChunk
<1>2a. PICK r \in Regions, m \in Nat \ {0} : \E R :
        r = pc[t].region /\ m = pc[t].want /\ R = region[r]
  <2>1. pc[t].region \in Regions /\ pc[t].want \in Requests
    BY <1>1 DEF IInv, TypeOK
  <2>2. pc[t].want \in Nat \ {0}
    BY <2>1, BufferAllocatorAssumption
  <2> QED BY <2>1, <2>2
<1>2. PICK R : r = pc[t].region /\ m = pc[t].want /\ R = region[r]
  BY <1>2a
<1>3. CASE MayAppend(R, m)
  <2>1. Grant(t, Appended(R, m), NextRecord(R))
    BY <1>2, <1>3 DEF AppendChunk
  <2>2a. PICK Q : Q = Appended(R, m)
    OBVIOUS
  <2>2b. PICK new : new = NextRecord(R)
    OBVIOUS
  <2>2. Q = Appended(R, m) /\ new = NextRecord(R)
    BY <2>2a, <2>2b
  <2>3. Region(R, Base[r], Base[r] + Size[r]) /\ Base[r] \in Nat
    BY <1>2, StateFacts
  <2>4. /\ Region(Q, Base[r], Base[r] + Size[r]) /\ new \in Chunks \ InUse(R) /\ InUse(Q) = InUse(R) \cup {new}
        /\ \A e \in InUse(R) : Q.info[e] = R.info[e]
        /\ Q.info[new].size = m
    BY <1>3, <2>2, <2>3, AppendedFacts
  <2>5. Grants(t, Q, new)
    <3>1. Grant(t, Q, new) /\ Q.info[new].size >= m
      BY <1>2, <2>1, <2>2, <2>4
    <3> QED BY <1>2, <2>4, <3>1 DEF Grants
  <2> QED BY <1>1, <2>5, GrantKeeps
<1>4. CASE ~MayAppend(R, m)
  <2>1. Proceed(t)
    BY <1>2, <1>4 DEF AppendChunk
  <2> QED BY <1>1, <2>1, ProceedKeeps
<1> QED BY <1>3, <1>4

LEMMA SearchChunksKeeps ==
  ASSUME IInv, NEW t \in Threads, SearchChunks(t)
  PROVE  IInv' /\ (Space!Next \/ Granted' = Granted)
<1>1. pc[t].stage # "idle"
  BY DEF SearchChunks
<1>2a. PICK r \in Regions, m \in Nat \ {0} : \E R :
        r = pc[t].region /\ m = pc[t].want /\ R = region[r]
  <2>1. pc[t].region \in Regions /\ pc[t].want \in Requests
    BY <1>1 DEF IInv, TypeOK
  <2>2. pc[t].want \in Nat \ {0}
    BY <2>1, BufferAllocatorAssumption
  <2> QED BY <2>1, <2>2
<1>2. PICK R : r = pc[t].region /\ m = pc[t].want /\ R = region[r]
  BY <1>2a
<1>3. CASE \E i \in Fitting(R, m) : Grant(t, Reused(R, R.chunks[i]), R.chunks[i])
  <2>1. PICK i \in DOMAIN R.chunks : Fits(R, R.chunks[i], m) /\ Grant(t, Reused(R, R.chunks[i]), R.chunks[i])
    BY <1>3 DEF Fitting
  <2>2a. PICK c : c = R.chunks[i]
    OBVIOUS
  <2>2b. PICK Q : Q = Reused(R, c)
    OBVIOUS
  <2>2. c = R.chunks[i] /\ Q = Reused(R, c)
    BY <2>2a, <2>2b
  <2>3. Region(R, Base[r], Base[r] + Size[r]) /\ Base[r] \in Nat
    BY <1>2, StateFacts
  <2>4. c \in Listed(R) /\ c # R.last /\ ~R.info[c].allocated /\ Slack(R, c, m) >= 0
    BY <2>1, <2>2 DEF Fits, Listed
  <2>5. c \in Chunks /\ c \notin InUse(R)
    <3>1. Listed(R) \subseteq Chunks
      BY <2>3 DEF Region, Records
    <3>2. c \notin InUse(R)
      BY <2>4 DEF InUse
    <3> QED BY <2>4, <3>1, <3>2
  <2>6. /\ Region(Q, Base[r], Base[r] + Size[r]) /\ InUse(Q) = InUse(R) \cup {c}
        /\ \A e \in Chunks : Q.info[e].start = R.info[e].start /\ Q.info[e].size = R.info[e].size
        /\ \A e \in Chunks : e # c => Q.info[e] = R.info[e]
    BY <2>2, <2>3, <2>4, ReusedFacts
  <2>7. Q.info[c].size >= m
    <3>1. PICK n \in Nat : n = Len(R.chunks) /\ DOMAIN R.chunks = 1..n /\ R.chunks[n] = R.last
      BY <2>3, RegionFacts DEF Region, Records
    <3>2. i \in 1..n - 1
      <4>1. i # n /\ i \in 1..n
        BY <2>2, <2>4, <3>1
      <4> QED BY <3>1, <4>1
    <3>3. StartOf(R, i) % Alignment = 0
      BY <2>3, <3>1, <3>2 DEF Region, Tiled
    <3>4. R.info[c].start % Alignment = 0
      BY <2>2, <3>3 DEF StartOf
    <3>5. R.info[c].start \in Nat /\ R.info[c].size \in Nat
      BY <2>3, <2>5, RegionFacts
    <3>6. Aligned(R.info[c].start) = R.info[c].start
      BY <3>4, <3>5, AlignedSelf
    <3>7. R.info[c].start + R.info[c].size - (R.info[c].start + m) >= 0
      BY <2>4, <3>6 DEF Slack
    <3> QED BY <2>5, <2>6, <3>5, <3>7
  <2>8. \A e \in InUse(R) : Q.info[e] = R.info[e]
    <3>1. \A e \in InUse(R) : e \in Chunks /\ e # c
      <4>1. Listed(R) \subseteq Chunks
        BY <2>3 DEF Region, Records
      <4>2. InUse(R) \subseteq Listed(R)
        BY DEF InUse
      <4> QED BY <2>5, <4>1, <4>2
    <3> QED BY <2>6, <3>1
  <2>9. Grants(t, Q, c)
    <3>1. Grant(t, Q, c) /\ c \in Chunks \ InUse(R)
      BY <2>1, <2>2, <2>5
    <3>2. Region(Q, Base[r], Base[r] + Size[r]) /\ InUse(Q) = InUse(R) \cup {c}
      BY <2>6
    <3> QED BY <1>2, <2>7, <2>8, <3>1, <3>2 DEF Grants
  <2> QED BY <1>1, <2>9, GrantKeeps
<1>4. CASE Proceed(t)
  BY <1>1, <1>4, ProceedKeeps
<1> QED BY <1>2, <1>3, <1>4 DEF SearchChunks

LEMMA FreeChunkKeeps ==
  ASSUME IInv, FreeChunk
  PROVE  IInv' /\ Space!Next
<1>1a. PICK h \in held : \E R : GivesBack(h, R)
  BY DEF FreeChunk, GivesBack
<1>1. PICK R : GivesBack(h, R)
  BY <1>1a
<1> QED BY <1>1, GiveBackKeeps

\* Looking a buffer up by its address finds that buffer: no other chunk of any
\* region starts where it does.
LEMMA FreeBufferKeeps ==
  ASSUME IInv, FreeBuffer
  PROVE  IInv' /\ Space!Next
<1>1a. PICK h \in held, r \in Regions : \E i, R :
        /\ i \in DOMAIN region[r].chunks
        /\ region[r].info[region[r].chunks[i]].start = region[h.region].info[h.chunk].start
        /\ R \in Freed(region[r], region[r].chunks[i])
        /\ region' = [region EXCEPT ![r] = R] /\ held' = held \ {h} /\ pc' = pc
  BY DEF FreeBuffer, Starting
<1>1b. PICK i : \E R :
        /\ i \in DOMAIN region[r].chunks
        /\ region[r].info[region[r].chunks[i]].start = region[h.region].info[h.chunk].start
        /\ R \in Freed(region[r], region[r].chunks[i])
        /\ region' = [region EXCEPT ![r] = R] /\ held' = held \ {h} /\ pc' = pc
  BY <1>1a
<1>1. PICK R :
        /\ i \in DOMAIN region[r].chunks
        /\ region[r].info[region[r].chunks[i]].start = region[h.region].info[h.chunk].start
        /\ R \in Freed(region[r], region[r].chunks[i])
        /\ region' = [region EXCEPT ![r] = R] /\ held' = held \ {h} /\ pc' = pc
  BY <1>1b
<1>2a. PICK s \in Regions : \E c : s = h.region /\ c = h.chunk /\ c \in InUse(region[s])
  BY HeldFacts
<1>2. PICK c : s = h.region /\ c = h.chunk /\ c \in InUse(region[s])
  BY <1>2a
<1>3. Region(region[s], Base[s], Base[s] + Size[s]) /\ Base[s] \in Nat /\ Size[s] \in Nat
  BY StateFacts
<1>4. /\ region[s].info[c].start \in Nat /\ region[s].info[c].size \in Nat /\ region[s].info[c].size > 0
      /\ Base[s] <= region[s].info[c].start
      /\ region[s].info[c].start + region[s].info[c].size <= Base[s] + Size[s]
  BY <1>2, <1>3, InUseFacts
<1>5. r = s
  <2> SUFFICES ASSUME r # s PROVE FALSE
    OBVIOUS
  <2>1. Region(region[r], Base[r], Base[r] + Size[r]) /\ Base[r] \in Nat /\ Size[r] \in Nat
    BY StateFacts
  <2>2. i \in 1..Len(region[r].chunks)
    BY <1>1, <2>1, RegionFacts
  <2>3. Base[r] <= StartOf(region[r], i) /\ EndOf(region[r], i) <= Base[r] + Size[r]
    BY <2>1, <2>2, Bounds
  <2>4. StartOf(region[r], i) \in Nat /\ EndOf(region[r], i) \in Nat /\ StartOf(region[r], i) <= EndOf(region[r], i)
    BY <2>1, <2>2, RegionFacts
  <2>5. StartOf(region[r], i) = region[s].info[c].start
    BY <1>1, <1>2 DEF StartOf
  <2>6. Base[r] + Size[r] < Base[s] \/ Base[s] + Size[s] < Base[r]
    BY RegionsApart
  <2> QED BY <1>3, <1>4, <2>1, <2>3, <2>4, <2>5, <2>6
<1>6. region[s].chunks[i] = c
  <2>1. i \in DOMAIN region[s].chunks /\ region[s].info[region[s].chunks[i]].start = region[s].info[c].start
    BY <1>1, <1>2, <1>5
  <2> QED BY <1>2, <1>3, <2>1, StartFacts
<1>7. GivesBack(h, R)
  BY <1>1, <1>2, <1>5, <1>6 DEF GivesBack
<1> QED BY <1>7, GiveBackKeeps

LEMMA Steps ==
  ASSUME IInv, [Next]_vars
  PROVE  IInv' /\ [Space!Next]_Granted
<1>1. ASSUME NEW t \in Threads, Call(t) PROVE IInv' /\ Granted' = Granted
  BY <1>1, CallKeeps
<1>2. ASSUME NEW t \in Threads, AppendChunk(t) PROVE IInv' /\ (Space!Next \/ Granted' = Granted)
  BY <1>2, AppendChunkKeeps
<1>3. ASSUME NEW t \in Threads, SearchChunks(t) PROVE IInv' /\ (Space!Next \/ Granted' = Granted)
  BY <1>3, SearchChunksKeeps
<1>4. CASE FreeChunk
  BY <1>4, FreeChunkKeeps
<1>5. CASE FreeBuffer
  BY <1>5, FreeBufferKeeps
<1>6. CASE UNCHANGED vars
  <2>1. UNCHANGED <<region, held>> /\ pc' = pc
    BY <1>6 DEF vars
  <2>2. /\ pc' \in [Threads -> [stage : {"idle", "append", "search"}, region : Regions, want : Nat]]
        /\ \A t \in Threads : pc'[t].stage # "idle" => pc'[t].want \in Requests
    BY <2>1 DEF IInv, TypeOK
  <2> QED BY <2>1, <2>2, MoveKeeps
<1> QED BY <1>1, <1>2, <1>3, <1>4, <1>5, <1>6 DEF Next

-----------------------------------------------------------------------------
(* The theorems *)

\* For any regions, any alignment and any number of threads: the chunks of a
\* region tile it, every record is listed or free, once, and what is in use is
\* what the clients have, whatever append_new_chunk, the search for a chunk to
\* use again and coalesce_chunks do, under any interleaving of their locks.
THEOREM Invariance == Spec => []IInv
<1>1. Init => IInv
  BY Initially
<1>2. IInv /\ [Next]_vars => IInv'
  BY Steps
<1> QED BY <1>1, <1>2, PTL DEF Spec

\* The variables have their types: a thread in alloc_buffer looks at an existing
\* region for a size somebody asked for.
THEOREM TypeCorrect == Spec => []TypeOK
<1>1. IInv => TypeOK
  BY DEF IInv
<1> QED BY <1>1, Invariance, PTL

\* No chunk of a region is lost, listed twice or given to two clients.
THEOREM ChunksKept == Spec => []NothingLost
<1>1. IInv => NothingLost
  BY DEF IInv
<1> QED BY <1>1, Invariance, PTL

\* The allocator implements BufferSpace: alloc_buffer grants aligned buffers of
\* the size asked for that lie in a region and overlap no other, free_chunk and
\* free_buffer take back exactly the buffer they are given, and no buffer moves
\* or shrinks while a client has it.
THEOREM SpaceImplemented == Spec => ImplementsSpace
<1>1. Init => Space!Init
  BY DEF Init, Space!Init, Granted
<1>2. IInv /\ [Next]_vars => [Space!Next]_Granted
  BY Steps
<1> QED BY <1>1, <1>2, Invariance, PTL DEF Spec, ImplementsSpace, Space!Spec
=============================================================================
