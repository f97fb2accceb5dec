-------------------------- MODULE MemObjects_proofs --------------------------
(***************************************************************************)
(* Proofs that the reference counts of buffers, the lists of mappings and  *)
(* the map counters are right, for any number of threads, buffers and      *)
(* commands, whatever fails.                                               *)
(***************************************************************************)
EXTENDS MemObjectsInv, FiniteSetTheorems, SequenceTheorems, TLAPS

LEMMA Numbers ==
  /\ MaxCommands \in Nat /\ Command = 1..MaxCommands /\ NoCommand \notin Command
  /\ None \notin Buffers /\ None \notin Pointers
BY MemObjectsAssumption DEF Command, NoCommand

LEMMA Grown ==
  ASSUME NEW S, NEW T, NEW x, IsFiniteSet(S), x \notin S, T = S \cup {x}
  PROVE  IsFiniteSet(T) /\ Cardinality(T) = Cardinality(S) + 1
BY FS_AddElement

LEMMA Shrunk ==
  ASSUME NEW S, NEW T, NEW x, IsFiniteSet(S), x \in S, T = S \ {x}
  PROVE  IsFiniteSet(T) /\ Cardinality(T) = Cardinality(S) - 1
BY FS_RemoveElement

\* The list without its element m.
LEMMA WithoutFacts ==
  ASSUME NEW S, NEW s \in Seq(S), NEW m, Contains(s, m),
         \A i, j \in DOMAIN s : s[i] = s[j] => i = j
  PROVE  /\ Without(s, m) \in Seq(S) /\ Len(Without(s, m)) = Len(s) - 1
         /\ \A j \in DOMAIN Without(s, m) : Without(s, m)[j] # m /\ Contains(s, Without(s, m)[j])
         /\ \A x : Contains(s, x) /\ x # m => Contains(Without(s, m), x)
         /\ \A i, j \in DOMAIN Without(s, m) : Without(s, m)[i] = Without(s, m)[j] => i = j
<1>1. PICK n \in Nat : n = Len(s) /\ DOMAIN s = 1..n
  OBVIOUS
<1>2. PICK k : k = CHOOSE i \in DOMAIN s : s[i] = m
  OBVIOUS
<1>3. k \in 1..n /\ s[k] = m
  <2>1. \E i \in DOMAIN s : s[i] = m
    BY <1>1 DEF Contains
  <2> QED BY <1>1, <1>2, <2>1
<1>4a. PICK a : a = SubSeq(s, 1, k - 1)
  OBVIOUS
<1>4b. PICK z : z = SubSeq(s, k + 1, n)
  OBVIOUS
<1>4c. PICK r : r = Without(s, m)
  OBVIOUS
<1>4. a = SubSeq(s, 1, k - 1) /\ z = SubSeq(s, k + 1, n) /\ r = Without(s, m)
  BY <1>4a, <1>4b, <1>4c
<1>5. r = a \o z
  BY <1>1, <1>2, <1>4 DEF Without, RemoveAt
<1>6. a \in Seq(S) /\ Len(a) = k - 1 /\ \A i \in 1..k - 1 : a[i] = s[i]
  <2>1. \A i \in 1..k - 1 : s[i] \in S
    BY <1>1, <1>3
  <2>2. 1 \in Int /\ k - 1 \in Int /\ (k - 1) - 1 + 1 = k - 1 /\ 1..(k - 1) \subseteq 1..n
    BY <1>3
  <2>3. /\ a \in Seq(S) /\ Len(a) = IF 1 <= k - 1 THEN (k - 1) - 1 + 1 ELSE 0
        /\ \A i \in 1..(k - 1) - 1 + 1 : a[i] = s[1 + i - 1]
    BY <1>1, <1>3, <1>4, <2>2, SubSeqProperties
  <2>4. \A i \in 1..k - 1 : 1 + i - 1 = i
    OBVIOUS
  <2> QED BY <1>3, <2>2, <2>3, <2>4
<1>7. z \in Seq(S) /\ Len(z) = n - k /\ \A i \in 1..n - k : z[i] = s[k + i]
  <2>1. k + 1 \in Int /\ n \in Int /\ n - (k + 1) + 1 = n - k /\ (k + 1)..n \subseteq 1..n
    BY <1>3
  <2>2. /\ z \in Seq(S) /\ Len(z) = IF k + 1 <= n THEN n - (k + 1) + 1 ELSE 0
        /\ \A i \in 1..n - (k + 1) + 1 : z[i] = s[k + 1 + i - 1]
    BY <1>1, <1>3, <1>4, <2>1, SubSeqProperties
  <2>3. \A i \in 1..n - k : k + 1 + i - 1 = k + i
    BY <1>3
  <2> QED BY <1>3, <2>1, <2>2, <2>3
<1>8. r \in Seq(S) /\ Len(r) = n - 1 /\ DOMAIN r = 1..n - 1
  <2>0. a \in Seq(S) /\ z \in Seq(S)
    BY <1>6, <1>7
  <2>1. r \in Seq(S) /\ Len(r) = Len(a) + Len(z) /\ DOMAIN r = 1..Len(r)
    BY <1>5, <2>0
  <2>2. Len(r) = n - 1
    BY <1>3, <1>6, <1>7, <2>1
  <2> QED BY <2>1, <2>2
<1>9. \A i \in 1..n - 1 : r[i] = IF i < k THEN s[i] ELSE s[i + 1]
  <2> SUFFICES ASSUME NEW i \in 1..n - 1 PROVE r[i] = IF i < k THEN s[i] ELSE s[i + 1]
    OBVIOUS
  <2>1. r[i] = IF i <= Len(a) THEN a[i] ELSE z[i - Len(a)]
    BY <1>5, <1>6, <1>7, <1>8
  <2>2. CASE i < k
    <3>1. i \in 1..k - 1 /\ i <= k - 1
      BY <1>3, <2>2
    <3> QED BY <1>6, <2>1, <2>2, <3>1
  <2>3. CASE ~(i < k)
    <3>1. ~(i <= k - 1) /\ i - (k - 1) \in 1..n - k /\ k + (i - (k - 1)) = i + 1
      BY <1>3, <2>3
    <3> QED BY <1>6, <1>7, <2>1, <2>3, <3>1
  <2> QED BY <2>2, <2>3
<1>10. ASSUME NEW j \in 1..n - 1 PROVE r[j] # m /\ Contains(s, r[j])
  <2>1. PICK i \in 1..n : i # k /\ r[j] = s[i]
    <3>1. CASE j < k
      BY <1>3, <1>9, <3>1
    <3>2. CASE ~(j < k)
      BY <1>3, <1>9, <3>2
    <3> QED BY <3>1, <3>2
  <2> QED BY <1>1, <1>3, <2>1 DEF Contains
<1>11. ASSUME NEW x, Contains(s, x), x # m PROVE Contains(r, x)
  <2>1. PICK i \in 1..n : s[i] = x
    BY <1>1, <1>11 DEF Contains
  <2>2. i # k
    BY <1>3, <1>11, <2>1
  <2>3. \E j \in 1..n - 1 : r[j] = s[i]
    <3>1. CASE i < k
      <4>1. i \in 1..n - 1
        BY <1>3, <3>1
      <4> QED BY <1>9, <3>1, <4>1
    <3>2. CASE ~(i < k)
      <4>1. i - 1 \in 1..n - 1 /\ ~(i - 1 < k) /\ (i - 1) + 1 = i
        BY <1>3, <2>2, <3>2
      <4> QED BY <1>9, <4>1
    <3> QED BY <3>1, <3>2
  <2> QED BY <1>8, <2>1, <2>3 DEF Contains
<1>12. ASSUME NEW i \in 1..n - 1, NEW j \in 1..n - 1, r[i] = r[j] PROVE i = j
  <2>1. PICK p \in 1..n : r[i] = s[p] /\ p = IF i < k THEN i ELSE i + 1
    BY <1>3, <1>9
  <2>2. PICK q \in 1..n : r[j] = s[q] /\ q = IF j < k THEN j ELSE j + 1
    BY <1>3, <1>9
  <2>3. p = q
    BY <1>1, <1>12, <2>1, <2>2
  <2> QED BY <1>3, <2>1, <2>2, <2>3
<1> QED BY <1>1, <1>4, <1>8, <1>10, <1>11, <1>12
-----------------------------------------------------------------------------
(* Types *)

Freed(b) == {x \in Buffers : refs[b] = 1 /\ (x = b \/ (x = parent[b] /\ refs[x] = 1))}

\* What clReleaseMemObject does.
LEMMA DropFacts ==
  ASSUME TypeOK, NEW b \in Buffers, DropMem(b)
  PROVE  /\ refs' \in [Buffers -> Int] /\ mappings' \in [Buffers -> Seq(Command)]
         /\ alive' \in [Command -> BOOLEAN]
         /\ \A x \in Buffers : refs'[x] = IF x = b \/ (refs[b] = 1 /\ x = parent[b]) THEN refs[x] - 1 ELSE refs[x]
         /\ \A x \in Buffers : mappings'[x] = IF x \in Freed(b) THEN <<>> ELSE mappings[x]
         /\ \A c \in Command : alive'[c] <=> alive[c] /\ \A x \in Freed(b) : ~Contains(mappings[x], c)
         /\ \A x \in Freed(b) : refs'[x] = 0
<1> DEFINE frees == refs[b] = 1
           freesParent == frees /\ parent[b] # None /\ refs[parent[b]] = 1
           freed == (IF frees THEN {b} ELSE {}) \cup (IF freesParent THEN {parent[b]} ELSE {})
<1>1. /\ refs' = [x \in Buffers |-> IF x = b \/ (frees /\ x = parent[b]) THEN refs[x] - 1 ELSE refs[x]]
      /\ mappings' = [x \in Buffers |-> IF x \in freed THEN <<>> ELSE mappings[x]]
      /\ alive' = [c \in Command |-> alive[c] /\ \A x \in freed : ~Contains(mappings[x], c)]
  BY DEF DropMem
<1>2. refs \in [Buffers -> Int] /\ parent[b] \in Buffers \cup {None} /\ mappings \in [Buffers -> Seq(Command)]
  BY DEF TypeOK
<1>3. freed = Freed(b)
  <2>1. CASE refs[b] = 1
    <3>1. freed \subseteq Buffers
      BY <1>2
    <3>2. \A x \in Buffers : x \in freed <=> x = b \/ (x = parent[b] /\ refs[x] = 1)
      BY <1>2, <2>1, Numbers
    <3> QED BY <2>1, <3>1, <3>2 DEF Freed
  <2>2. CASE refs[b] # 1
    BY <2>2 DEF Freed
  <2> QED BY <2>1, <2>2
<1>4. PICK F : F = freed /\ F = Freed(b)
  BY <1>3
<1>5. /\ mappings' = [x \in Buffers |-> IF x \in F THEN <<>> ELSE mappings[x]]
      /\ alive' = [c \in Command |-> alive[c] /\ \A x \in F : ~Contains(mappings[x], c)]
  BY <1>1, <1>4
<1> HIDE DEF freed, freesParent
<1>6. refs' \in [Buffers -> Int]
  BY <1>1, <1>2
<1>7. mappings' \in [Buffers -> Seq(Command)]
  <2>1. \A x \in Buffers : mappings[x] \in Seq(Command) /\ <<>> \in Seq(Command)
    BY <1>2
  <2>2. \A x \in Buffers : (IF x \in F THEN <<>> ELSE mappings[x]) \in Seq(Command)
    BY <2>1
  <2> QED BY <1>5, <2>2
<1>8. alive' \in [Command -> BOOLEAN]
  <2>1. \A c \in Command : (alive[c] /\ \A x \in F : ~Contains(mappings[x], c)) \in BOOLEAN
    OBVIOUS
  <2> QED BY <1>5, <2>1
<1>9. \A x \in Freed(b) : refs'[x] = 0
  BY <1>1, <1>2 DEF Freed
<1> QED BY <1>1, <1>4, <1>5, <1>6, <1>7, <1>8, <1>9

LEMMA TargetType ==
  ASSUME TypeOK, NEW b \in Buffers
  PROVE  Target(b) \in Buffers
BY DEF TypeOK, Target

\* What every new command is.
LEMMA NewFacts ==
  ASSUME TypeOK, NEW t \in Threads, NEW b \in Buffers, NEW k \in {"map", "unmap"},
         NEW m \in Command \cup {NoCommand}, NEW w \in Command \cup {NoCommand},
         NewCommand(t, k, b, m, w)
  PROVE  /\ created' = created + 1 /\ created' \in Command /\ created' \notin 1..created
         /\ 1..created' = 1..created \cup {created'} /\ created \in Nat
         /\ kind' = [kind EXCEPT ![created'] = k] /\ target' = [target EXCEPT ![created'] = Target(b)]
         /\ mapping' = [mapping EXCEPT ![created'] = m] /\ after' = [after EXCEPT ![created'] = w]
         /\ cur' = [cur EXCEPT ![t] = created']
         /\ kind' \in [Command -> {"none", "map", "unmap"}] /\ target' \in [Command -> Buffers \cup {None}]
         /\ mapping' \in [Command -> Command \cup {NoCommand}] /\ after' \in [Command -> Command \cup {NoCommand}]
         /\ cur' \in [Threads -> Command \cup {NoCommand}] /\ created' \in 0..MaxCommands
<1>1. created \in 0..MaxCommands /\ created < MaxCommands /\ created' = created + 1
  BY DEF TypeOK, NewCommand
<1>2. created' \in Command /\ created' \notin 1..created /\ 1..created' = 1..created \cup {created'}
  BY <1>1, Numbers
<1>3. created' \in 0..MaxCommands /\ created \in Nat
  BY <1>1, Numbers
<1>4. /\ kind' = [kind EXCEPT ![created'] = k] /\ target' = [target EXCEPT ![created'] = Target(b)]
      /\ mapping' = [mapping EXCEPT ![created'] = m] /\ after' = [after EXCEPT ![created'] = w]
      /\ cur' = [cur EXCEPT ![t] = created']
  BY DEF NewCommand
<1>5. Target(b) \in Buffers
  BY TargetType
<1>6. /\ kind \in [Command -> {"none", "map", "unmap"}] /\ target \in [Command -> Buffers \cup {None}]
      /\ mapping \in [Command -> Command \cup {NoCommand}] /\ after \in [Command -> Command \cup {NoCommand}]
      /\ cur \in [Threads -> Command \cup {NoCommand}]
  BY DEF TypeOK
<1>7. kind' \in [Command -> {"none", "map", "unmap"}] /\ target' \in [Command -> Buffers \cup {None}]
  BY <1>4, <1>5, <1>6
<1>8. mapping' \in [Command -> Command \cup {NoCommand}] /\ after' \in [Command -> Command \cup {NoCommand}]
  BY <1>4, <1>6
<1>9. cur' \in [Threads -> Command \cup {NoCommand}]
  BY <1>2, <1>4, <1>6
<1> QED BY <1>1, <1>2, <1>3, <1>4, <1>7, <1>8, <1>9

\* The mapping the search finds.
LEMMA SearchFacts ==
  ASSUME TypeOK, NEW b \in Buffers, NEW p, NEW i \in Search(mappings[b], p)
  PROVE  /\ i \in DOMAIN mappings[b] /\ mappings[b][i] \in Command
         /\ ptr[mappings[b][i]] = p /\ ~requested[mappings[b][i]]
<1>1. mappings[b] \in Seq(Command)
  BY DEF TypeOK
<1> QED BY <1>1 DEF Search

LEMMA UnmapFacts ==
  ASSUME TypeOK, NEW t \in Threads, NEW b \in Buffers, NEW m \in Command, UnmapMemObject(t, b, m)
  PROVE  \E h \in Command :
           /\ \E i \in DOMAIN mappings[Target(b)] : mappings[Target(b)][i] = h
           /\ ptr[h] = ptr[m] /\ ~requested[h]
           /\ requested' = [requested EXCEPT ![h] = TRUE] /\ NewCommand(t, "unmap", b, h, m)
           /\ pc[t] = "idle" /\ b \in owned /\ pc' = [pc EXCEPT ![t] = "retain"]
           /\ m \in 1..created /\ m \notin undone /\ kind[m] = "map" /\ target[m] = Target(b) /\ state[m] # "none"
           /\ undone' = undone \cup {m}
<1>1. PICK B \in Buffers : B = Target(b)
  BY TargetType
<1>2. PICK i \in Search(mappings[B], ptr[m]) :
         requested' = [requested EXCEPT ![mappings[B][i]] = TRUE] /\ NewCommand(t, "unmap", b, mappings[B][i], m)
  BY <1>1 DEF UnmapMemObject
<1>3. PICK h \in Command : h = mappings[B][i]
  BY SearchFacts
<1>4. i \in DOMAIN mappings[B] /\ ptr[h] = ptr[m] /\ ~requested[h]
  BY <1>3, SearchFacts
<1>5. /\ pc[t] = "idle" /\ b \in owned /\ pc' = [pc EXCEPT ![t] = "retain"]
      /\ m \in 1..created /\ m \notin undone /\ kind[m] = "map" /\ target[m] = Target(b) /\ state[m] # "none"
      /\ undone' = undone \cup {m}
  BY DEF UnmapMemObject, Goto
<1> QED BY <1>1, <1>2, <1>3, <1>4, <1>5
LEMMA Parts ==
  ASSUME IInv
  PROVE  /\ TypeOK /\ Family /\ Calls /\ Commands /\ Lists /\ RefsCounted /\ MapCounted
         /\ created \in Nat /\ created <= MaxCommands /\ 1..created \subseteq Command
<1>1. created \in 0..MaxCommands
  BY DEF IInv, TypeOK
<1>2. created \in Nat /\ created <= MaxCommands /\ 1..created \subseteq Command
  BY <1>1, Numbers
<1> QED BY <1>2 DEF IInv

\* A command that has been enqueued.
LEMMA CommandFacts ==
  ASSUME IInv, NEW c \in Command, state[c] # "none"
  PROVE  /\ c \in 1..created /\ target[c] \in Buffers /\ target[c] \in born /\ parent[target[c]] = None
         /\ \A t \in Threads : cur[t] = c => pc[t] = "idle"
<1>1. c \in 1..created
  BY Parts DEF Commands
<1>2. target[c] \in born /\ parent[target[c]] = None /\ born \subseteq Buffers
  BY <1>1, Parts DEF Commands, TypeOK
<1>3. \A t \in Threads : cur[t] = c => pc[t] = "idle"
  BY Parts DEF Calls
<1> QED BY <1>1, <1>2, <1>3

\* The list L is the list s without m.
OffList(L, s, m) ==
  /\ \A j \in DOMAIN L : L[j] # m /\ Contains(s, L[j])
  /\ \A x : Contains(s, x) /\ x # m => Contains(L, x)
  /\ \A i, j \in DOMAIN L : L[i] = L[j] => i = j

\* The mapping is taken off the list it is on.
LEMMA ExecUnmapFacts ==
  ASSUME IInv, NEW c \in Command, ExecUnmap(c), NEW L, L = Without(mappings[target[c]], mapping[c])
  PROVE  /\ state[c] = "queued" /\ kind[c] = "unmap" /\ state[after[c]] = "done"
         /\ mappings' = [mappings EXCEPT ![target[c]] = L] /\ alive' = [alive EXCEPT ![mapping[c]] = FALSE]
         /\ mapping[c] \in 1..created /\ kind[mapping[c]] = "map" /\ target[mapping[c]] = target[c]
         /\ L \in Seq(Command) /\ Len(L) = Len(mappings[target[c]]) - 1
         /\ OffList(L, mappings[target[c]], mapping[c])
<1>1. /\ state[c] = "queued" /\ kind[c] = "unmap" /\ state[after[c]] = "done"
      /\ mappings' = [mappings EXCEPT ![target[c]] = L] /\ alive' = [alive EXCEPT ![mapping[c]] = FALSE]
  BY DEF ExecUnmap, MayRun
<1>2. c \in 1..created /\ target[c] \in Buffers
  BY <1>1, CommandFacts
<1>3. mapping[c] \in 1..created /\ kind[mapping[c]] = "map" /\ target[mapping[c]] = target[c]
  BY <1>1, <1>2, Parts DEF Commands
<1>4a. PICK s \in Seq(Command) : \E m : s = mappings[target[c]] /\ m = mapping[c]
  BY <1>2, Parts DEF TypeOK
<1>4. PICK m : s = mappings[target[c]] /\ m = mapping[c]
  BY <1>4a
<1>5. Contains(s, m) /\ \A i, j \in DOMAIN s : s[i] = s[j] => i = j
  <2>1. c \in Pending
    BY <1>1, <1>2 DEF Pending
  <2>2. Contains(s, m)
    <3>1. Lists /\ c \in 1..created /\ kind[c] = "unmap"
      BY <1>1, <1>2, Parts
    <3>2. Contains(mappings[target[c]], mapping[c])
      BY <2>1, <3>1 DEF Lists
    <3> QED BY <1>4, <3>2
  <2>3. \A i, j \in DOMAIN s : s[i] = s[j] => i = j
    BY <1>2, <1>4, Parts DEF Lists, Listing
  <2> QED BY <2>2, <2>3
<1>6. L \in Seq(Command) /\ Len(L) = Len(s) - 1 /\ OffList(L, s, m)
  <2>1. L = Without(s, m)
    BY <1>4
  <2> QED BY <1>5, <2>1, WithoutFacts DEF OffList
<1> QED BY <1>1, <1>3, <1>4, <1>6

LEMMA TypeStep ==
  ASSUME IInv, [Next]_vars
  PROVE  TypeOK'
<1> TypeOK
  BY Parts
<1>0. /\ parent \in [Buffers -> Buffers \cup {None}] /\ refs \in [Buffers -> Int]
      /\ mappings \in [Buffers -> Seq(Command)] /\ map_count \in [Buffers -> Int]
      /\ ptr \in [Command -> Pointers \cup {None}]
      /\ requested \in [Command -> BOOLEAN] /\ alive \in [Command -> BOOLEAN]
      /\ state \in [Command -> {"none", "queued", "executed", "done", "failed"}]
      /\ pc \in [Threads -> {"idle", "append", "retain", "enqueue"}]
  BY DEF TypeOK
<1>1. /\ born \subseteq Buffers /\ IsFiniteSet(born) /\ owned \subseteq born /\ undone \subseteq 1..created
      /\ created \in 0..MaxCommands /\ target \in [Command -> Buffers \cup {None}]
  BY DEF TypeOK
<1>2. ASSUME NEW t \in Threads, NEW b \in Buffers, CreateBuffer(t, b) PROVE TypeOK'
  <2>1. IsFiniteSet(born \cup {b})
    BY <1>1, FS_AddElement
  <2>2. refs' \in [Buffers -> Int] /\ born' \subseteq Buffers /\ IsFiniteSet(born') /\ owned' \subseteq born'
    BY <1>0, <1>1, <1>2, <2>1 DEF CreateBuffer
  <2> QED BY <1>2, <2>2 DEF TypeOK, CreateBuffer, mapVars, cmdVars
<1>3. ASSUME NEW t \in Threads, NEW b \in Buffers, NEW p \in Buffers, CreateSubBuffer(t, b, p) PROVE TypeOK'
  <2>1. IsFiniteSet(born \cup {b})
    BY <1>1, FS_AddElement
  <2>2. parent' \in [Buffers -> Buffers \cup {None}]
    BY <1>0, <1>3 DEF CreateSubBuffer
  <2>3. refs' \in [Buffers -> Int] /\ born' \subseteq Buffers /\ IsFiniteSet(born') /\ owned' \subseteq born'
    BY <1>0, <1>1, <1>3, <2>1 DEF CreateSubBuffer, ParentRetained
  <2> QED BY <1>3, <2>2, <2>3 DEF TypeOK, CreateSubBuffer, mapVars, cmdVars
<1>4. ASSUME NEW t \in Threads, NEW b \in Buffers, ReleaseBuffer(t, b) PROVE TypeOK'
  <2>1. refs' \in [Buffers -> Int] /\ mappings' \in [Buffers -> Seq(Command)] /\ alive' \in [Command -> BOOLEAN]
    BY <1>4, DropFacts DEF ReleaseBuffer
  <2>2. owned' \subseteq born' /\ born' = born
    BY <1>1, <1>4 DEF ReleaseBuffer
  <2> QED BY <1>4, <2>1, <2>2 DEF TypeOK, ReleaseBuffer, cmdVars
<1>5. ASSUME NEW t \in Threads, NEW b \in Buffers, NEW p \in Pointers, MapBuffer(t, b, p) PROVE TypeOK'
  <2>0. NewCommand(t, "map", b, created + 1, NoCommand)
    BY <1>5 DEF MapBuffer
  <2>1. created + 1 \in Command
    BY <1>1, <2>0, Numbers DEF NewCommand
  <2>2. /\ created' = created + 1 /\ created' \in Command /\ 1..created' = 1..created \cup {created'}
        /\ kind' \in [Command -> {"none", "map", "unmap"}] /\ target' \in [Command -> Buffers \cup {None}]
        /\ mapping' \in [Command -> Command \cup {NoCommand}] /\ after' \in [Command -> Command \cup {NoCommand}]
        /\ cur' \in [Threads -> Command \cup {NoCommand}] /\ created' \in 0..MaxCommands
    BY <2>0, <2>1, NewFacts
  <2>3. ptr' \in [Command -> Pointers \cup {None}] /\ alive' \in [Command -> BOOLEAN]
    BY <1>0, <1>5 DEF MapBuffer
  <2>4. refs' \in [Buffers -> Int]
    <3>1. Target(b) \in Buffers
      BY TargetType
    <3>2. refs' = [refs EXCEPT ![Target(b)] = @ + 1]
      BY <1>5 DEF MapBuffer
    <3> QED BY <1>0, <3>1, <3>2
  <2>5. pc' \in [Threads -> {"idle", "append", "retain", "enqueue"}]
    BY <1>0, <1>5 DEF MapBuffer, Goto
  <2>6. undone' \subseteq 1..created'
    BY <1>1, <1>5, <2>2 DEF MapBuffer
  <2> QED BY <1>5, <2>2, <2>3, <2>4, <2>5, <2>6 DEF TypeOK, MapBuffer
<1>6. ASSUME NEW t \in Threads, NEW b \in Buffers, NEW m \in Command, UnmapMemObject(t, b, m) PROVE TypeOK'
  <2>1. PICK h \in Command :
          /\ requested' = [requested EXCEPT ![h] = TRUE] /\ NewCommand(t, "unmap", b, h, m)
          /\ pc' = [pc EXCEPT ![t] = "retain"] /\ m \in 1..created /\ undone' = undone \cup {m}
    BY <1>6, UnmapFacts
  <2>2. /\ created' = created + 1 /\ created' \in Command /\ 1..created' = 1..created \cup {created'}
        /\ kind' \in [Command -> {"none", "map", "unmap"}] /\ target' \in [Command -> Buffers \cup {None}]
        /\ mapping' \in [Command -> Command \cup {NoCommand}] /\ after' \in [Command -> Command \cup {NoCommand}]
        /\ cur' \in [Threads -> Command \cup {NoCommand}] /\ created' \in 0..MaxCommands
    BY <2>1, NewFacts
  <2>3. requested' \in [Command -> BOOLEAN] /\ undone' \subseteq 1..created'
    BY <1>0, <1>1, <2>1, <2>2
  <2>4. pc' \in [Threads -> {"idle", "append", "retain", "enqueue"}]
    BY <1>0, <2>1
  <2> QED BY <1>6, <2>2, <2>3, <2>4 DEF TypeOK, UnmapMemObject, bufVars
<1>7. ASSUME NEW t \in Threads, AppendMapping(t) PROVE TypeOK'
  <2>1. mappings' \in [Buffers -> Seq(Command)]
    <3>1. cur[t] \in Command
      BY <1>7, Parts DEF Calls, AppendMapping
    <3>2. \A x \in Buffers : Append(mappings[x], cur[t]) \in Seq(Command)
      BY <1>0, <3>1
    <3> QED BY <1>0, <1>7, <3>2 DEF AppendMapping
  <2>2. pc' \in [Threads -> {"idle", "append", "retain", "enqueue"}]
    BY <1>0, <1>7 DEF AppendMapping, Goto
  <2> QED BY <1>7, <2>1, <2>2 DEF TypeOK, AppendMapping, mapVars, cmdVars
<1>8. ASSUME NEW t \in Threads, RetainTarget(t) PROVE TypeOK'
  <2>1. refs' \in [Buffers -> Int] /\ pc' \in [Threads -> {"idle", "append", "retain", "enqueue"}]
    <3>1. cur[t] \in 1..created /\ pc[t] = "retain"
      BY <1>8, Parts DEF Calls, RetainTarget
    <3>2. target[cur[t]] \in Buffers
      BY <1>1, <3>1, Parts DEF Commands
    <3>3. refs' = [refs EXCEPT ![target[cur[t]]] = @ + 1] /\ pc' = [pc EXCEPT ![t] = "enqueue"]
      BY <1>8 DEF RetainTarget, Goto
    <3> QED BY <1>0, <3>2, <3>3
  <2> QED BY <1>8, <2>1 DEF TypeOK, RetainTarget, mapVars, cmdVars
<1>9. ASSUME NEW t \in Threads, Enqueue(t) PROVE TypeOK'
  <2>1. /\ state' \in [Command -> {"none", "queued", "executed", "done", "failed"}]
        /\ pc' \in [Threads -> {"idle", "append", "retain", "enqueue"}]
    BY <1>0, <1>9 DEF Enqueue, Goto
  <2> QED BY <1>9, <2>1 DEF TypeOK, Enqueue, bufVars, mapVars, cmdVars
<1>10. ASSUME NEW c \in Command, ExecMap(c) PROVE TypeOK'
  <2>1. /\ state' \in [Command -> {"none", "queued", "executed", "done", "failed"}]
        /\ map_count' \in [Buffers -> Int]
    <3>1. target[c] \in Buffers
      BY <1>10, CommandFacts DEF ExecMap
    <3> QED BY <1>0, <1>10, <3>1 DEF ExecMap
  <2> QED BY <1>10, <2>1 DEF TypeOK, ExecMap, mapVars, cmdVars
<1>11. ASSUME NEW c \in Command, ExecUnmap(c) PROVE TypeOK'
  <2>1. PICK L \in Seq(Command) : mappings' = [mappings EXCEPT ![target[c]] = L]
    BY <1>11, ExecUnmapFacts
  <2>2. mappings' \in [Buffers -> Seq(Command)]
    BY <1>0, <2>1
  <2>3. /\ state' \in [Command -> {"none", "queued", "executed", "done", "failed"}]
        /\ map_count' \in [Buffers -> Int] /\ alive' \in [Command -> BOOLEAN]
    <3>1. target[c] \in Buffers
      BY <1>11, CommandFacts, ExecUnmapFacts
    <3>2. /\ map_count' = [map_count EXCEPT ![target[c]] = @ - 1] /\ alive' = [alive EXCEPT ![mapping[c]] = FALSE]
          /\ state' = [state EXCEPT ![c] = "executed"]
      BY <1>11 DEF ExecUnmap
    <3>3. map_count' \in [Buffers -> Int]
      BY <1>0, <3>1, <3>2
    <3>4. alive' \in [Command -> BOOLEAN]
      BY <1>0, <3>2
    <3> QED BY <1>0, <3>2, <3>3, <3>4
  <2> QED BY <1>11, <2>2, <2>3 DEF TypeOK, ExecUnmap, cmdVars
<1>12. ASSUME NEW c \in Command, Finish(c) \/ Fail(c) PROVE TypeOK'
  <2>0. state[c] # "none" /\ DropMem(target[c])
    BY <1>12 DEF Finish, Fail
  <2>1. target[c] \in Buffers
    BY <2>0, CommandFacts
  <2>2. refs' \in [Buffers -> Int] /\ mappings' \in [Buffers -> Seq(Command)] /\ alive' \in [Command -> BOOLEAN]
    BY <2>0, <2>1, DropFacts
  <2>3. state' \in [Command -> {"none", "queued", "executed", "done", "failed"}]
    BY <1>0, <1>12 DEF Finish, Fail
  <2> QED BY <1>12, <2>2, <2>3 DEF TypeOK, Finish, Fail, cmdVars
<1>13. ASSUME UNCHANGED vars PROVE TypeOK'
  BY <1>13 DEF TypeOK, vars, bufVars, mapVars, cmdVars
<1> QED BY <1>2, <1>3, <1>4, <1>5, <1>6, <1>7, <1>8, <1>9, <1>10, <1>11, <1>12, <1>13
    DEF Next, CallStep, RunStep, AppStep
-----------------------------------------------------------------------------
(* Sub-buffers, calls and commands *)

LEMMA FamilyStep ==
  ASSUME IInv, [Next]_vars
  PROVE  Family'
<1> TypeOK /\ Family
  BY Parts
<1>0. /\ parent \in [Buffers -> Buffers \cup {None}] /\ refs \in [Buffers -> Int]
      /\ mappings \in [Buffers -> Seq(Command)] /\ map_count \in [Buffers -> Int]
      /\ born \subseteq Buffers /\ owned \subseteq born /\ None \notin Buffers
  BY Numbers DEF TypeOK
<1>1. ASSUME UNCHANGED parent, born' = born,
             \A b \in Buffers : b \notin born =>
               refs'[b] = refs[b] /\ mappings'[b] = mappings[b] /\ map_count'[b] = map_count[b]
      PROVE  Family'
  BY <1>1 DEF Family
<1>2. ASSUME NEW t \in Threads, NEW b \in Buffers, CreateBuffer(t, b) PROVE Family'
  <2>1. \A x \in Buffers : x \notin born' => x \notin born /\ refs'[x] = refs[x]
    BY <1>0, <1>2 DEF CreateBuffer
  <2>2. born \subseteq born'
    BY <1>2 DEF CreateBuffer
  <2> QED BY <1>2, <2>1, <2>2 DEF Family, CreateBuffer
<1>3. ASSUME NEW t \in Threads, NEW b \in Buffers, NEW p \in Buffers, CreateSubBuffer(t, b, p) PROVE Family'
  <2>1. /\ b \notin born /\ p \in born /\ parent[p] = None /\ parent[b] = None /\ b # p
        /\ born' = born \cup {b} /\ parent' = [parent EXCEPT ![b] = p]
        /\ mappings' = mappings /\ map_count' = map_count
    BY <1>0, <1>3 DEF CreateSubBuffer, Family
  <2>2. \A x \in Buffers : x # b /\ x # p => refs'[x] = refs[x]
    BY <1>0, <1>3 DEF CreateSubBuffer, ParentRetained
  <2>3. ASSUME NEW x \in Buffers, parent'[x] # None
        PROVE  x \in born' /\ parent'[x] \in born' /\ parent'[parent'[x]] = None
    <3>1. CASE x = b
      BY <1>0, <2>1, <3>1
    <3>2. CASE x # b
      <4>1. parent'[x] = parent[x] /\ x \in born /\ parent[x] \in born /\ parent[parent[x]] = None
        BY <1>0, <2>1, <2>3, <3>2 DEF Family
      <4>2. parent[x] # b
        BY <2>1, <4>1
      <4> QED BY <1>0, <2>1, <4>1, <4>2
    <3> QED BY <3>1, <3>2
  <2>4. ASSUME NEW x \in Buffers, x \notin born'
        PROVE  refs'[x] = 0 /\ mappings'[x] = <<>> /\ map_count'[x] = 0
    <3>1. x \notin born /\ x # b /\ x # p
      BY <2>1, <2>4
    <3> QED BY <2>1, <2>2, <3>1 DEF Family
  <2> QED BY <2>3, <2>4 DEF Family
<1>4. ASSUME NEW b \in Buffers, b \in born, DropMem(b), UNCHANGED <<parent, born, map_count>> PROVE Family'
  <2>1. \A x \in Buffers : x \notin born => x # b /\ x # parent[b]
    BY <1>4, <1>0 DEF Family
  <2>2. \A x \in Buffers : x \notin born => refs'[x] = refs[x] /\ mappings'[x] = mappings[x]
    <3>1. /\ \A x \in Buffers : refs'[x] = IF x = b \/ (refs[b] = 1 /\ x = parent[b]) THEN refs[x] - 1 ELSE refs[x]
          /\ \A x \in Buffers : mappings'[x] = IF x \in Freed(b) THEN <<>> ELSE mappings[x]
      BY <1>4, DropFacts
    <3>2. \A x \in Buffers : x \notin born => x \notin Freed(b)
      BY <2>1 DEF Freed
    <3> QED BY <2>1, <3>1, <3>2
  <2> QED BY <1>1, <1>4, <2>2
<1>5. ASSUME NEW t \in Threads, NEW b \in Buffers, ReleaseBuffer(t, b) PROVE Family'
  BY <1>0, <1>4, <1>5 DEF ReleaseBuffer
<1>6. ASSUME NEW t \in Threads, NEW b \in Buffers, NEW p \in Pointers, MapBuffer(t, b, p) PROVE Family'
  <2>1. Target(b) \in born
    BY <1>0, <1>6 DEF MapBuffer, Target, Family
  <2>2. \A x \in Buffers : x \notin born => refs'[x] = refs[x]
    BY <1>0, <1>6, <2>1 DEF MapBuffer
  <2> QED BY <1>1, <1>6, <2>2 DEF MapBuffer
<1>7. ASSUME NEW t \in Threads, NEW b \in Buffers, NEW m \in Command, UnmapMemObject(t, b, m) PROVE Family'
  BY <1>1, <1>7 DEF UnmapMemObject, bufVars
<1>8. ASSUME NEW t \in Threads, pc[t] # "idle" PROVE cur[t] \in 1..created /\ target[cur[t]] \in born
  BY <1>8, Parts DEF Calls, Commands
<1>9. ASSUME NEW t \in Threads, AppendMapping(t) PROVE Family'
  <2>1. \A x \in Buffers : x \notin born => mappings'[x] = mappings[x]
    BY <1>0, <1>8, <1>9 DEF AppendMapping
  <2> QED BY <1>1, <1>9, <2>1 DEF AppendMapping
<1>10. ASSUME NEW t \in Threads, RetainTarget(t) PROVE Family'
  <2>1. \A x \in Buffers : x \notin born => refs'[x] = refs[x]
    BY <1>0, <1>8, <1>10 DEF RetainTarget
  <2> QED BY <1>1, <1>10, <2>1 DEF RetainTarget
<1>11. ASSUME NEW t \in Threads, Enqueue(t) PROVE Family'
  BY <1>1, <1>11 DEF Enqueue, bufVars
<1>12. ASSUME NEW c \in Command, ExecMap(c) PROVE Family'
  <2>1. target[c] \in born
    BY <1>12, CommandFacts DEF ExecMap
  <2>2. \A x \in Buffers : x \notin born => map_count'[x] = map_count[x]
    BY <1>0, <1>12, <2>1 DEF ExecMap
  <2> QED BY <1>1, <1>12, <2>2 DEF ExecMap
<1>13. ASSUME NEW c \in Command, ExecUnmap(c) PROVE Family'
  <2>1. target[c] \in born
    BY <1>13, CommandFacts DEF ExecUnmap, MayRun
  <2>2. \A x \in Buffers : x \notin born => map_count'[x] = map_count[x] /\ mappings'[x] = mappings[x]
    BY <1>0, <1>13, <2>1 DEF ExecUnmap
  <2> QED BY <1>1, <1>13, <2>2 DEF ExecUnmap
<1>14. ASSUME NEW c \in Command, Finish(c) \/ Fail(c) PROVE Family'
  <2>1. state[c] # "none" /\ DropMem(target[c]) /\ UNCHANGED <<parent, born, map_count>>
    BY <1>14 DEF Finish, Fail
  <2>2. target[c] \in Buffers /\ target[c] \in born
    BY <2>1, CommandFacts
  <2> QED BY <1>4, <2>1, <2>2
<1>15. ASSUME UNCHANGED vars PROVE Family'
  BY <1>1, <1>15 DEF vars, bufVars
<1> QED BY <1>2, <1>3, <1>5, <1>6, <1>7, <1>9, <1>10, <1>11, <1>12, <1>13, <1>14, <1>15
    DEF Next, CallStep, RunStep, AppStep
\* What is said of a thread in a call.
Call(t) ==
  /\ cur[t] \in 1..created /\ state[cur[t]] = "none"
  /\ pc[t] = "append" => kind[cur[t]] = "map"
  /\ pc[t] = "retain" => kind[cur[t]] = "unmap"
  /\ \E b \in owned : Target(b) = target[cur[t]]

LEMMA CallsStep ==
  ASSUME IInv, [Next]_vars
  PROVE  Calls'
<1> TypeOK /\ Family /\ Calls
  BY Parts
<1>0. /\ parent \in [Buffers -> Buffers \cup {None}] /\ born \subseteq Buffers /\ owned \subseteq born
      /\ pc \in [Threads -> {"idle", "append", "retain", "enqueue"}]
      /\ cur \in [Threads -> Command \cup {NoCommand}] /\ created \in Nat
      /\ state \in [Command -> {"none", "queued", "executed", "done", "failed"}]
      /\ 1..created \subseteq Command
  BY Parts DEF TypeOK
<1>1. \A u \in Threads : pc[u] # "idle" => Call(u)
  BY DEF Calls, Call
<1>2. ASSUME \A u \in Threads : pc'[u] # "idle" => Call(u)',
             \A u \in Threads : pc'[u] # "idle" => pc[u] # "idle" /\ cur'[u] = cur[u]
      PROVE  Calls'
  BY <1>2 DEF Calls, Call
<1>3. ASSUME NEW t \in Threads, NEW b \in Buffers, CreateBuffer(t, b) PROVE Calls'
  BY <1>1, <1>2, <1>3 DEF CreateBuffer, Call, Target, cmdVars
<1>4. ASSUME NEW t \in Threads, NEW b \in Buffers, NEW p \in Buffers, CreateSubBuffer(t, b, p) PROVE Calls'
  <2>1. b \notin owned /\ owned \subseteq owned' /\ parent' = [parent EXCEPT ![b] = p]
    BY <1>0, <1>4 DEF CreateSubBuffer
  <2>2. \A x \in owned : Target(x)' = Target(x)
    BY <1>0, <2>1 DEF Target
  <2> QED BY <1>1, <1>2, <1>4, <2>1, <2>2 DEF CreateSubBuffer, Call, cmdVars
<1>5. ASSUME NEW t \in Threads, NEW b \in Buffers, ReleaseBuffer(t, b) PROVE Calls'
  <2>1. /\ ~Calling(b) /\ owned' = owned \ {b} /\ UNCHANGED <<parent, state, pc, cur, cmdVars>>
    BY <1>5 DEF ReleaseBuffer
  <2>2. ASSUME NEW u \in Threads, pc'[u] # "idle" PROVE Call(u)'
    <3>1. pc[u] # "idle" /\ Call(u)
      BY <1>1, <2>1, <2>2
    <3>2. PICK x \in owned : Target(x) = target[cur[u]]
      BY <3>1 DEF Call
    <3>3. x # b
      BY <2>1, <3>1, <3>2 DEF Calling, Target
    <3>4. Target(x)' = target'[cur'[u]]
      BY <2>1, <3>2 DEF Target, cmdVars
    <3> QED BY <2>1, <3>1, <3>3, <3>4 DEF Call, cmdVars
  <2> QED BY <1>2, <2>1, <2>2
<1>6. ASSUME NEW t \in Threads, NEW b \in owned, NEW k \in {"map", "unmap"},
             NEW m \in Command \cup {NoCommand}, NEW w \in Command \cup {NoCommand}, NEW l,
             NewCommand(t, k, b, m, w), pc' = [pc EXCEPT ![t] = l], l = "append" => k = "map",
             l = "retain" => k = "unmap", UNCHANGED <<parent, owned, state>>
      PROVE  Calls'
  <2>0. b \in Buffers
    BY <1>0
  <2>1. /\ created' = created + 1 /\ created' \in Command /\ created' \notin 1..created
        /\ 1..created' = 1..created \cup {created'}
        /\ kind' = [kind EXCEPT ![created'] = k] /\ target' = [target EXCEPT ![created'] = Target(b)]
        /\ cur' = [cur EXCEPT ![t] = created']
    BY <1>6, <2>0, NewFacts
  <2>2. \A x \in owned : Target(x)' = Target(x)
    BY <1>6 DEF Target
  <2>3. kind'[created'] = k /\ target'[created'] = Target(b) /\ cur'[t] = created' /\ pc'[t] = l
    BY <1>0, <1>6, <2>1 DEF TypeOK
  <2>4. state[created'] = "none"
    BY <2>1, Parts DEF Commands
  <2>5. Call(t)'
    BY <1>6, <2>1, <2>2, <2>3, <2>4 DEF Call
  <2>6. ASSUME NEW u \in Threads, u # t, pc'[u] # "idle"
        PROVE  /\ pc[u] # "idle" /\ cur'[u] = cur[u] /\ cur'[u] # cur'[t] /\ Call(u)'
    <3>1. pc'[u] = pc[u] /\ cur'[u] = cur[u]
      BY <1>6, <2>1, <2>6
    <3>2. Call(u) /\ cur[u] \in 1..created /\ cur[u] # created'
      BY <1>1, <2>1, <2>6, <3>1 DEF Call
    <3>3. kind'[cur[u]] = kind[cur[u]] /\ target'[cur[u]] = target[cur[u]]
      BY <2>1, <3>2
    <3>4. Call(u)'
      <4>1. PICK x \in owned : Target(x) = target[cur[u]]
        BY <3>2 DEF Call
      <4>2. Target(x)' = target'[cur'[u]] /\ x \in owned'
        BY <1>6, <2>2, <3>1, <3>3, <4>1
      <4> QED BY <1>6, <2>1, <3>1, <3>2, <3>3, <4>2 DEF Call
    <3> QED BY <2>3, <2>6, <3>1, <3>2, <3>4
  <2>7. \A u \in Threads : pc'[u] # "idle" => Call(u)'
    BY <2>5, <2>6
  <2>8. ASSUME NEW u \in Threads, NEW v \in Threads, pc'[u] # "idle", pc'[v] # "idle", cur'[u] = cur'[v]
        PROVE  u = v
    BY <2>6, <2>8 DEF Calls
  <2> QED BY <2>7, <2>8 DEF Calls, Call
<1>7. ASSUME NEW t \in Threads, NEW b \in Buffers, NEW p \in Pointers, MapBuffer(t, b, p) PROVE Calls'
  <2>1. /\ b \in owned /\ NewCommand(t, "map", b, created + 1, NoCommand) /\ pc' = [pc EXCEPT ![t] = "append"]
        /\ UNCHANGED <<parent, owned, state>>
    BY <1>7 DEF MapBuffer, Goto
  <2>2. created + 1 \in Command
    BY <1>0, <2>1, Numbers DEF NewCommand
  <2> QED BY <1>6, <2>1, <2>2
<1>8. ASSUME NEW t \in Threads, NEW b \in Buffers, NEW m \in Command, UnmapMemObject(t, b, m) PROVE Calls'
  <2>1. PICK h \in Command :
          b \in owned /\ NewCommand(t, "unmap", b, h, m) /\ pc' = [pc EXCEPT ![t] = "retain"]
    BY <1>8, UnmapFacts
  <2>2. UNCHANGED <<parent, owned, state>>
    BY <1>8 DEF UnmapMemObject, bufVars
  <2> QED BY <1>6, <2>1, <2>2
<1>9. ASSUME NEW t \in Threads, NEW l, l \in {"enqueue", "idle"}, pc[t] # "idle", pc' = [pc EXCEPT ![t] = l],
             l = "enqueue" => state' = state, l = "idle" => state' = [state EXCEPT ![cur[t]] = "queued"],
             UNCHANGED <<parent, owned, cmdVars, cur>>
      PROVE  Calls'
  <2>1. ASSUME NEW u \in Threads, pc'[u] # "idle" PROVE Call(u)' /\ pc[u] # "idle"
    <3>1. pc[u] # "idle" /\ Call(u)
      BY <1>0, <1>1, <1>9, <2>1
    <3>2. state'[cur[u]] = state[cur[u]]
      <4>1. CASE l = "enqueue"
        BY <1>9, <4>1
      <4>2. CASE l = "idle"
        <5>1. u # t
          BY <1>0, <1>9, <2>1, <4>2
        <5>2. cur[u] # cur[t]
          BY <1>9, <3>1, <5>1 DEF Calls
        <5> QED BY <1>0, <1>9, <3>1, <4>2, <5>2 DEF Call
      <4> QED BY <1>9, <4>1, <4>2
    <3>3. pc'[u] \in {"append", "retain"} => pc[u] = pc'[u]
      BY <1>0, <1>9
    <3> QED BY <1>9, <3>1, <3>2, <3>3 DEF Call, Target, cmdVars
  <2> QED BY <1>2, <1>9, <2>1
<1>10. ASSUME NEW t \in Threads, AppendMapping(t) \/ RetainTarget(t) \/ Enqueue(t) PROVE Calls'
  <2>1. CASE AppendMapping(t) \/ RetainTarget(t)
    <3>1. pc[t] # "idle" /\ pc' = [pc EXCEPT ![t] = "enqueue"] /\ UNCHANGED <<state, parent, owned, cmdVars, cur>>
      BY <2>1 DEF AppendMapping, RetainTarget, Goto
    <3> QED BY <1>9, <3>1
  <2>2. CASE Enqueue(t)
    <3>1. /\ pc[t] # "idle" /\ pc' = [pc EXCEPT ![t] = "idle"] /\ state' = [state EXCEPT ![cur[t]] = "queued"]
          /\ UNCHANGED <<parent, owned, cmdVars, cur>>
      BY <2>2 DEF Enqueue, Goto, bufVars
    <3> QED BY <1>9, <3>1
  <2> QED BY <1>10, <2>1, <2>2
<1>11. ASSUME NEW c \in Command, ExecMap(c) \/ ExecUnmap(c) \/ Finish(c) \/ Fail(c) PROVE Calls'
  <2>1. state[c] # "none" /\ UNCHANGED <<parent, owned, pc, cur, cmdVars>>
    BY <1>11 DEF ExecMap, ExecUnmap, Finish, Fail, MayRun
  <2>2. \A d : d # c => state'[d] = state[d]
    <3>1. PICK q : state' = [state EXCEPT ![c] = q]
      BY <1>11 DEF ExecMap, ExecUnmap, Finish, Fail
    <3> QED BY <1>0, <3>1
  <2>3. ASSUME NEW u \in Threads, pc'[u] # "idle" PROVE Call(u)'
    <3>1. Call(u) /\ cur[u] # c
      BY <1>1, <2>1, <2>3 DEF Call
    <3> QED BY <2>1, <2>2, <3>1 DEF Call, Target, cmdVars
  <2> QED BY <1>2, <2>1, <2>3
<1>12. ASSUME UNCHANGED vars PROVE Calls'
  BY <1>12 DEF vars, bufVars, cmdVars, Calls, Target
<1> QED BY <1>3, <1>4, <1>5, <1>7, <1>8, <1>10, <1>11, <1>12
    DEF Next, CallStep, RunStep, AppStep

LEMMA CommandsStep ==
  ASSUME IInv, [Next]_vars
  PROVE  Commands'
<1> TypeOK /\ Family /\ Calls /\ Commands
  BY Parts
<1>0. /\ parent \in [Buffers -> Buffers \cup {None}] /\ born \subseteq Buffers /\ owned \subseteq born
      /\ requested \in [Command -> BOOLEAN] /\ created \in Nat
      /\ state \in [Command -> {"none", "queued", "executed", "done", "failed"}]
      /\ 1..created \subseteq Command
  BY Parts DEF TypeOK
<1>1. ASSUME UNCHANGED cmdVars, born \subseteq born', \A b \in born : parent'[b] = parent[b],
             UNCHANGED requested, \A c \in Command \ 1..created : state'[c] = state[c]
      PROVE  Commands'
  BY <1>1 DEF Commands, cmdVars
<1>2. ASSUME NEW t \in Threads, NEW b \in Buffers, CreateBuffer(t, b) \/ ReleaseBuffer(t, b) PROVE Commands'
  <2>1. UNCHANGED <<cmdVars, requested, parent, state>> /\ born \subseteq born'
    BY <1>2 DEF CreateBuffer, ReleaseBuffer, mapVars
  <2> QED BY <1>1, <2>1
<1>3. ASSUME NEW t \in Threads, NEW b \in Buffers, NEW p \in Buffers, CreateSubBuffer(t, b, p) PROVE Commands'
  <2>1. UNCHANGED <<cmdVars, requested, state>> /\ born \subseteq born' /\ b \notin born
    BY <1>3 DEF CreateSubBuffer, mapVars
  <2>2. \A x \in born : parent'[x] = parent[x]
    BY <1>0, <1>3, <2>1 DEF CreateSubBuffer
  <2> QED BY <1>1, <2>1, <2>2
<1>4. ASSUME NEW t \in Threads, NEW b \in owned, NEW k \in {"map", "unmap"},
             NEW m \in Command \cup {NoCommand}, NEW w \in Command \cup {NoCommand},
             NewCommand(t, k, b, m, w), UNCHANGED <<parent, born, state>>,
             requested' \in [Command -> BOOLEAN],
             \A c \in Command : requested'[c] <=> requested[c] \/ (k = "unmap" /\ c = m),
             k = "map" => m = created + 1,
             k = "unmap" => m \in 1..created /\ kind[m] = "map" /\ target[m] = Target(b)
      PROVE  Commands'
  <2>0. b \in Buffers
    BY <1>0
  <2>1. /\ created' = created + 1 /\ created' \in Command /\ created' \notin 1..created
        /\ 1..created' = 1..created \cup {created'}
        /\ kind' = [kind EXCEPT ![created'] = k] /\ target' = [target EXCEPT ![created'] = Target(b)]
        /\ mapping' = [mapping EXCEPT ![created'] = m]
    BY <1>4, <2>0, NewFacts
  <2>2. kind'[created'] = k /\ target'[created'] = Target(b) /\ mapping'[created'] = m
    BY <2>1 DEF TypeOK
  <2>3. \A c \in 1..created : kind'[c] = kind[c] /\ target'[c] = target[c] /\ mapping'[c] = mapping[c]
    BY <2>1
  <2>4. Target(b) \in born /\ parent[Target(b)] = None
    BY <1>0 DEF Target, Family
  <2>5. ASSUME NEW c \in 1..created'
        PROVE  /\ kind'[c] \in {"map", "unmap"} /\ target'[c] \in born' /\ parent'[target'[c]] = None
               /\ kind'[c] = "map" => mapping'[c] = c
               /\ kind'[c] = "unmap" =>
                    /\ mapping'[c] \in 1..created' /\ kind'[mapping'[c]] = "map"
                    /\ target'[mapping'[c]] = target'[c] /\ requested'[mapping'[c]]
    <3>1. CASE c = created'
      <4>1. k = "unmap" => kind'[m] = "map" /\ target'[m] = target'[created'] /\ requested'[m] /\ m \in 1..created'
        BY <1>0, <1>4, <2>1, <2>2, <2>3
      <4> QED BY <1>4, <2>1, <2>2, <2>4, <3>1, <4>1
    <3>2. CASE c \in 1..created
      <4>1. /\ kind[c] \in {"map", "unmap"} /\ target[c] \in born /\ parent[target[c]] = None
            /\ kind[c] = "map" => mapping[c] = c
            /\ kind[c] = "unmap" =>
                 /\ mapping[c] \in 1..created /\ kind[mapping[c]] = "map"
                 /\ target[mapping[c]] = target[c] /\ requested[mapping[c]]
        BY <3>2 DEF Commands
      <4>2. kind'[c] = kind[c] /\ target'[c] = target[c] /\ mapping'[c] = mapping[c]
        BY <2>3, <3>2
      <4>3. kind[c] = "unmap" =>
              /\ kind'[mapping[c]] = "map" /\ target'[mapping[c]] = target[c]
              /\ requested'[mapping[c]] /\ mapping[c] \in 1..created'
        BY <1>0, <1>4, <2>1, <2>3, <4>1
      <4> QED BY <1>4, <4>1, <4>2, <4>3
    <3> QED BY <2>1, <3>1, <3>2
  <2>6. ASSUME NEW c \in Command \ 1..created'
        PROVE  kind'[c] = "none" /\ state'[c] = "none" /\ ~requested'[c]
    <3>1. c \in Command \ 1..created /\ c # created'
      BY <2>1
    <3> QED BY <1>4, <2>1, <3>1 DEF Commands
  <2> QED BY <2>5, <2>6 DEF Commands
<1>5. ASSUME NEW t \in Threads, NEW b \in Buffers, NEW p \in Pointers, MapBuffer(t, b, p) PROVE Commands'
  <2>1. b \in owned /\ NewCommand(t, "map", b, created + 1, NoCommand) /\ UNCHANGED <<parent, born, state, requested>>
    BY <1>5 DEF MapBuffer
  <2>2. created + 1 \in Command
    BY <1>0, <2>1, Numbers DEF NewCommand
  <2> QED BY <1>0, <1>4, <2>1, <2>2
<1>6. ASSUME NEW t \in Threads, NEW b \in Buffers, NEW m \in Command, UnmapMemObject(t, b, m) PROVE Commands'
  <2>1. PICK h \in Command :
          /\ \E i \in DOMAIN mappings[Target(b)] : mappings[Target(b)][i] = h
          /\ requested' = [requested EXCEPT ![h] = TRUE] /\ b \in owned /\ NewCommand(t, "unmap", b, h, m)
    BY <1>6, UnmapFacts
  <2>2. UNCHANGED <<parent, born, state>>
    BY <1>6 DEF UnmapMemObject, bufVars
  <2>3. Target(b) \in Buffers
    BY TargetType
  <2>4. h \in 1..created /\ kind[h] = "map" /\ target[h] = Target(b)
    BY <2>1, <2>3, Parts DEF Lists, Listing
  <2>5. requested' \in [Command -> BOOLEAN] /\ \A c \in Command : requested'[c] <=> requested[c] \/ c = h
    BY <1>0, <2>1
  <2> QED BY <1>4, <2>1, <2>2, <2>4, <2>5
<1>7. ASSUME NEW t \in Threads, AppendMapping(t) \/ RetainTarget(t) PROVE Commands'
  <2>1. UNCHANGED <<cmdVars, parent, born, requested, state>>
    BY <1>7 DEF AppendMapping, RetainTarget, mapVars
  <2> QED BY <1>1, <2>1
<1>8. ASSUME NEW c \in Command, c \in 1..created, \A d : d # c => state'[d] = state[d],
             UNCHANGED <<cmdVars, parent, born, requested>>
      PROVE  Commands'
  BY <1>1, <1>8
<1>9. ASSUME NEW t \in Threads, Enqueue(t) PROVE Commands'
  <2>1. UNCHANGED <<cmdVars, parent, born, requested>> /\ state' = [state EXCEPT ![cur[t]] = "queued"]
    BY <1>9 DEF Enqueue, bufVars, mapVars
  <2>2. cur[t] \in 1..created
    BY <1>9 DEF Enqueue, Calls
  <2>3. \A d : d # cur[t] => state'[d] = state[d]
    BY <1>0, <2>1
  <2> QED BY <1>0, <1>8, <2>1, <2>2, <2>3
<1>10. ASSUME NEW c \in Command, ExecMap(c) \/ ExecUnmap(c) \/ Finish(c) \/ Fail(c) PROVE Commands'
  <2>1. state[c] # "none" /\ UNCHANGED <<cmdVars, parent, born, requested>>
    BY <1>10 DEF ExecMap, ExecUnmap, Finish, Fail, MayRun, mapVars
  <2>2. \A d : d # c => state'[d] = state[d]
    <3>1. PICK q : state' = [state EXCEPT ![c] = q]
      BY <1>10 DEF ExecMap, ExecUnmap, Finish, Fail
    <3> QED BY <1>0, <3>1
  <2> QED BY <1>8, <2>1, <2>2, CommandFacts
<1>11. ASSUME UNCHANGED vars PROVE Commands'
  BY <1>1, <1>11 DEF vars, bufVars, mapVars
<1> QED BY <1>2, <1>3, <1>5, <1>6, <1>7, <1>9, <1>10, <1>11
    DEF Next, CallStep, RunStep, AppStep
-----------------------------------------------------------------------------
(* References *)

Retaining(c) == \E t \in Threads : cur[t] = c /\ pc[t] = "retain"
Ended(c)     == state[c] \in {"done", "failed"}
Subs(b)      == {s \in Buffers : parent[s] = b /\ refs[s] > 0}
Users(b)     == Cardinality({b} \cap owned) + Cardinality(Holding(b))
Counted(b)   == refs[b] = Users(b) + Cardinality(Subs(b))

LEMMA HoldingDef ==
  \A b : Holding(b) = {c \in 1..created : target[c] = b /\ ~Ended(c) /\ ~Retaining(c)}
BY DEF Holding, Ended, Retaining

LEMMA HoldingDefNext ==
  \A b : Holding(b)' = {c \in 1..created' : target'[c] = b /\ ~Ended(c)' /\ ~Retaining(c)'}
BY DEF Holding, Ended, Retaining

LEMMA CountedDef == RefsCounted <=> \A b \in Buffers : Counted(b)
BY DEF RefsCounted, Counted, Users, Subs

LEMMA CountedNext == RefsCounted' <=> \A b \in Buffers : Counted(b)'
BY DEF RefsCounted, Counted, Users, Subs

AllFinite ==
  \A b \in Buffers :
    /\ IsFiniteSet(Holding(b)) /\ Cardinality(Holding(b)) \in Nat
    /\ IsFiniteSet(Subs(b)) /\ Cardinality(Subs(b)) \in Nat
    /\ Cardinality({b} \cap owned) = IF b \in owned THEN 1 ELSE 0
    /\ Users(b) \in Nat /\ refs[b] \in Int

LEMMA Finite == TypeOK /\ Family => AllFinite
<1> SUFFICES ASSUME TypeOK, Family, NEW b \in Buffers
    PROVE  /\ IsFiniteSet(Holding(b)) /\ Cardinality(Holding(b)) \in Nat
           /\ IsFiniteSet(Subs(b)) /\ Cardinality(Subs(b)) \in Nat
           /\ Cardinality({b} \cap owned) = IF b \in owned THEN 1 ELSE 0
           /\ Users(b) \in Nat /\ refs[b] \in Int
  BY DEF AllFinite
<1>1. created \in Int /\ IsFiniteSet(1..created) /\ Holding(b) \subseteq 1..created
  <2>1. created \in Int
    BY Numbers DEF TypeOK
  <2>2. IsFiniteSet(1..created)
    BY <2>1, FS_Interval
  <2> QED BY <2>1, <2>2 DEF Holding
<1>2. IsFiniteSet(Holding(b)) /\ Cardinality(Holding(b)) \in Nat
  BY <1>1, FS_Subset, FS_CardinalityType
<1>3. Subs(b) \subseteq born /\ IsFiniteSet(born)
  BY Numbers DEF Subs, Family, TypeOK
<1>4. IsFiniteSet(Subs(b)) /\ Cardinality(Subs(b)) \in Nat
  BY <1>3, FS_Subset, FS_CardinalityType
<1>5. Cardinality({b} \cap owned) = IF b \in owned THEN 1 ELSE 0
  <2>1. CASE b \in owned
    <3>1. {b} \cap owned = {b}
      BY <2>1
    <3> QED BY <2>1, <3>1, FS_Singleton
  <2>2. CASE b \notin owned
    <3>1. {b} \cap owned = {}
      BY <2>2
    <3> QED BY <2>2, <3>1, FS_EmptySet
  <2> QED BY <2>1, <2>2
<1>6. Users(b) \in Nat /\ refs[b] \in Int
  BY <1>2, <1>5 DEF Users, TypeOK
<1> QED BY <1>2, <1>4, <1>5, <1>6

LEMMA FiniteNext == TypeOK' /\ Family' => AllFinite'
BY Finite, PTL

\* Who is owned, or is the target of a command that has not ended, is kept.
AllKept ==
  /\ \A b \in owned : refs[b] >= 1 /\ refs[Target(b)] >= 1
  /\ \A c \in 1..created : ~Ended(c) => refs[target[c]] >= 1

LEMMA Kept == TypeOK /\ Family /\ Calls /\ Commands /\ RefsCounted => AllKept
<1> SUFFICES ASSUME TypeOK, Family, Calls, Commands, RefsCounted
    PROVE  /\ \A b \in owned : refs[b] >= 1 /\ refs[Target(b)] >= 1
           /\ \A c \in 1..created : ~Ended(c) => refs[target[c]] >= 1
  BY DEF AllKept
<1>0. /\ owned \subseteq Buffers /\ born \subseteq Buffers
      /\ \A b \in Buffers : Counted(b) /\ refs[b] \in Int
      /\ \A b \in Buffers : Cardinality(Holding(b)) \in Nat /\ Cardinality(Subs(b)) \in Nat /\ Users(b) \in Nat
      /\ \A b \in Buffers : IsFiniteSet(Subs(b)) /\ IsFiniteSet(Holding(b))
      /\ \A b \in Buffers : Cardinality({b} \cap owned) = IF b \in owned THEN 1 ELSE 0
  BY Finite, CountedDef DEF TypeOK, AllFinite
<1>1. ASSUME NEW b \in owned PROVE refs[b] >= 1 /\ refs[Target(b)] >= 1
  <2>0. b \in Buffers
    BY <1>0
  <2>1. refs[b] >= 1
    <3>1. Counted(b) /\ Cardinality({b} \cap owned) = 1 /\ Cardinality(Holding(b)) \in Nat /\ Cardinality(Subs(b)) \in Nat
      BY <1>0, <2>0
    <3> QED BY <3>1 DEF Counted, Users
  <2>2. CASE parent[b] = None
    BY <2>1, <2>2 DEF Target
  <2>3. CASE parent[b] # None
    <3>1. PICK p \in Buffers : p = parent[b] /\ p = Target(b)
      BY <2>0, <2>3 DEF TypeOK, Target
    <3>2. refs[b] > 0
      BY <1>0, <2>0, <2>1
    <3>3. b \in Subs(p)
      BY <2>0, <3>1, <3>2 DEF Subs
    <3>4. Cardinality(Subs(p)) # 0 /\ Cardinality(Subs(p)) \in Nat /\ Users(p) \in Nat
      BY <1>0, <3>3, FS_EmptySet
    <3>5. refs[p] = Users(p) + Cardinality(Subs(p))
      BY <1>0 DEF Counted
    <3> QED BY <2>1, <3>1, <3>4, <3>5
  <2> QED BY <2>2, <2>3
<1>2. ASSUME NEW c \in 1..created, ~Ended(c) PROVE refs[target[c]] >= 1
  <2>1. PICK b \in Buffers : b = target[c]
    BY <1>0 DEF Commands
  <2>2. CASE Retaining(c)
    <3>1. PICK x \in owned : Target(x) = b
      BY <2>1, <2>2 DEF Retaining, Calls
    <3> QED BY <1>1, <2>1, <3>1
  <2>3. CASE ~Retaining(c)
    <3>1. c \in Holding(b)
      BY <1>2, <2>1, <2>3, HoldingDef
    <3>2. Cardinality(Holding(b)) # 0 /\ Cardinality(Holding(b)) \in Nat
      BY <1>0, <3>1, FS_EmptySet
    <3>3. Counted(b) /\ Cardinality({b} \cap owned) \in Nat /\ Cardinality(Subs(b)) \in Nat
      BY <1>0
    <3> QED BY <2>1, <3>2, <3>3 DEF Counted, Users
  <2> QED BY <2>2, <2>3
<1> QED BY <1>1, <1>2

LEMMA KeptNext == TypeOK' /\ Family' /\ Calls' /\ Commands' /\ RefsCounted' => AllKept'
BY Kept, PTL

\* One user of b drops its reference.
LEMMA DropCounted ==
  ASSUME TypeOK, Family, RefsCounted, NEW b \in Buffers, DropMem(b), UNCHANGED parent,
         \A x \in Buffers : Users(x)' = IF x = b THEN Users(x) - 1 ELSE Users(x),
         Users(b)' \in Nat
  PROVE  RefsCounted'
<1>1. /\ \A x \in Buffers : refs'[x] = IF x = b \/ (refs[b] = 1 /\ x = parent[b]) THEN refs[x] - 1 ELSE refs[x]
      /\ \A x \in Buffers : refs[x] \in Int
  BY DropFacts, Finite DEF AllFinite
<1>2. \A x \in Buffers : /\ refs[x] = Users(x) + Cardinality(Subs(x)) /\ Users(x) \in Nat
                        /\ Cardinality(Subs(x)) \in Nat /\ IsFiniteSet(Subs(x))
  BY CountedDef, Finite DEF Counted, AllFinite
<1>3. Users(b) >= 1 /\ refs[b] >= 1
  BY <1>2
<1>4. /\ parent[b] # None => parent[b] \in Buffers /\ parent[b] # b /\ parent[parent[b]] = None
      /\ None \notin Buffers
  BY Numbers DEF TypeOK, Family
<1>5. ASSUME NEW x \in Buffers PROVE Counted(x)'
  <2>1. Subs(x)' = IF refs[b] = 1 /\ x = parent[b] THEN Subs(x) \ {b} ELSE Subs(x)
    <3>1. ASSUME NEW s \in Buffers, parent[s] = x, s # b PROVE refs'[s] = refs[s]
      BY <1>1, <1>4, <3>1
    <3>2. Subs(x)' = {s \in Buffers : parent[s] = x /\ refs'[s] > 0}
      BY DEF Subs
    <3>3. CASE refs[b] = 1 /\ x = parent[b]
      <4>1. ~(refs'[b] > 0)
        BY <1>1, <3>3
      <4> QED BY <3>1, <3>2, <3>3, <4>1 DEF Subs
    <3>4. CASE refs[b] # 1
      <4>1. refs'[b] > 0 /\ refs[b] > 0
        BY <1>1, <1>3, <1>4, <3>4
      <4> QED BY <3>1, <3>2, <3>4, <4>1 DEF Subs
    <3>5. CASE x # parent[b]
      BY <3>1, <3>2, <3>5 DEF Subs
    <3> QED BY <3>3, <3>4, <3>5
  <2>2. CASE refs[b] = 1 /\ x = parent[b]
    <3>1. b \in Subs(x)
      BY <2>2 DEF Subs
    <3>2. Cardinality(Subs(x)') = Cardinality(Subs(x)) - 1
      BY <1>2, <2>1, <2>2, <3>1, Shrunk
    <3>3. x # b /\ refs'[x] = refs[x] - 1
      BY <1>1, <1>4, <2>2
    <3>4. Users(x)' = Users(x)
      BY <3>3
    <3>5. refs[x] = Users(x) + Cardinality(Subs(x)) /\ Users(x) \in Nat /\ Cardinality(Subs(x)) \in Nat
      BY <1>2
    <3>6. refs'[x] = Users(x)' + Cardinality(Subs(x)')
      BY <3>2, <3>3, <3>4, <3>5
    <3> QED BY <3>6 DEF Counted
  <2>3. CASE ~(refs[b] = 1 /\ x = parent[b])
    <3>1. Cardinality(Subs(x)') = Cardinality(Subs(x))
      BY <2>1, <2>3
    <3>2. refs'[x] = IF x = b THEN refs[x] - 1 ELSE refs[x]
      BY <1>1, <2>3
    <3>3. refs[x] = Users(x) + Cardinality(Subs(x)) /\ Users(x) \in Nat /\ Cardinality(Subs(x)) \in Nat
      BY <1>2
    <3>4. refs'[x] = Users(x)' + Cardinality(Subs(x)')
      BY <3>1, <3>2, <3>3
    <3> QED BY <3>4 DEF Counted
  <2> QED BY <2>2, <2>3
<1> QED BY <1>5, CountedNext
LEMMA HoldingSame ==
  ASSUME UNCHANGED <<created, target>>,
         \A c \in 1..created : (Ended(c)' <=> Ended(c)) /\ (Retaining(c)' <=> Retaining(c))
  PROVE  \A b : Holding(b)' = Holding(b)
BY HoldingDef, HoldingDefNext

LEMMA RefsSame ==
  ASSUME RefsCounted, UNCHANGED <<refs, parent, owned>>, \A b : Holding(b)' = Holding(b)
  PROVE  RefsCounted'
<1>1. \A b \in Buffers : Counted(b)' <=> Counted(b)
  BY DEF Counted, Users, Subs
<1> QED BY <1>1, CountedDef, CountedNext

\* A command takes a reference to x.
LEMMA RefsGrown ==
  ASSUME TypeOK, Family, RefsCounted, NEW x \in Buffers, parent[x] = None, UNCHANGED <<parent, owned>>,
         refs' = [refs EXCEPT ![x] = @ + 1], NEW c, c \notin Holding(x),
         \A b : Holding(b)' = IF b = x THEN Holding(b) \cup {c} ELSE Holding(b)
  PROVE  RefsCounted'
<1>0. /\ \A b \in Buffers : Counted(b) /\ refs[b] \in Int
      /\ \A b \in Buffers : Cardinality(Holding(b)) \in Nat /\ Cardinality(Subs(b)) \in Nat
      /\ \A b \in Buffers : IsFiniteSet(Holding(b)) /\ Cardinality({b} \cap owned) \in Nat
  <2>1. AllFinite /\ \A b \in Buffers : Counted(b)
    BY CountedDef, Finite
  <2>2. \A b \in Buffers : Cardinality({b} \cap owned) \in Nat
    BY <2>1 DEF AllFinite
  <2> QED BY <2>1, <2>2 DEF AllFinite
<1>1. refs \in [Buffers -> Int]
  BY DEF TypeOK
<1>2. ASSUME NEW b \in Buffers PROVE Counted(b)'
  <2>1. Subs(b)' = Subs(b)
    <3>1. \A s \in Buffers : parent[s] = b => s # x
      BY Numbers
    <3>2. \A s \in Buffers : s # x => refs'[s] = refs[s]
      BY <1>1
    <3> QED BY <3>1, <3>2 DEF Subs
  <2>2. CASE b = x
    <3>1. Cardinality(Holding(b)') = Cardinality(Holding(b)) + 1
      BY <1>0, <2>2, Grown
    <3>2. refs'[b] = refs[b] + 1
      BY <1>1, <2>2
    <3>3. refs[b] = Cardinality({b} \cap owned) + Cardinality(Holding(b)) + Cardinality(Subs(b))
      BY <1>0 DEF Counted, Users
    <3>4. PICK i \in Nat, j \in Nat, k \in Nat :
            i = Cardinality({b} \cap owned) /\ j = Cardinality(Holding(b)) /\ k = Cardinality(Subs(b))
      BY <1>0
    <3>5. refs'[b] = i + (j + 1) + k
      BY <3>2, <3>3, <3>4
    <3> QED BY <2>1, <3>1, <3>4, <3>5 DEF Counted, Users
  <2>3. CASE b # x
    <3>1. refs'[b] = refs[b] /\ Holding(b)' = Holding(b)
      BY <1>1, <2>3
    <3> QED BY <1>0, <2>1, <3>1 DEF Counted, Users
  <2> QED BY <2>2, <2>3
<1> QED BY <1>2, CountedNext

\* Nothing changes for the commands there are when another one is created.
LEMMA NewHolding ==
  ASSUME IInv, NEW t \in Threads, pc[t] = "idle", NEW l, pc' = [pc EXCEPT ![t] = l],
         created' = created + 1, cur' = [cur EXCEPT ![t] = created'],
         NEW B, target' = [target EXCEPT ![created'] = B], created' \in Command, state' = state
  PROVE  /\ \A b : Holding(b)' = IF b = B /\ l # "retain" THEN Holding(b) \cup {created'} ELSE Holding(b)
         /\ \A b : created' \notin Holding(b)
<1>0. /\ TypeOK /\ Calls /\ Commands /\ created \in Nat /\ 1..created \subseteq Command
      /\ pc \in [Threads -> {"idle", "append", "retain", "enqueue"}] /\ cur \in [Threads -> Command \cup {NoCommand}]
      /\ target \in [Command -> Buffers \cup {None}]
  BY Parts DEF TypeOK
<1>n. PICK n : n = created'
  OBVIOUS
<1>1. n \in Command /\ n \notin 1..created /\ 1..n = 1..created \cup {n}
  BY <1>0, <1>n
<1>2. \A b : n \notin Holding(b)
  BY <1>1, HoldingDef
<1>3. ASSUME NEW c \in 1..created
      PROVE  (Ended(c)' <=> Ended(c)) /\ (Retaining(c)' <=> Retaining(c)) /\ target'[c] = target[c]
  <2>1. c # n /\ target'[c] = target[c]
    BY <1>0, <1>1, <1>n
  <2>2. \A u \in Threads : cur'[u] = c /\ pc'[u] = "retain" <=> cur[u] = c /\ pc[u] = "retain"
    BY <1>0, <1>n, <2>1
  <2> QED BY <2>1, <2>2 DEF Ended, Retaining
<1>4. ~Ended(n)' /\ target'[n] = B /\ (Retaining(n)' <=> l = "retain")
  <2>1. state[n] = "none"
    BY <1>0, <1>1 DEF Commands
  <2>2. \A u \in Threads : u # t /\ pc[u] = "retain" => cur[u] # n
    BY <1>0, <1>1, <1>n DEF Calls
  <2>3. \A u \in Threads : cur'[u] = n /\ pc'[u] = "retain" <=> u = t /\ l = "retain"
    BY <1>0, <1>n, <2>2
  <2>4. ~Ended(n)'
    BY <2>1 DEF Ended
  <2>5. target'[n] = B
    BY <1>0, <1>1, <1>n
  <2> QED BY <2>3, <2>4, <2>5 DEF Retaining
<1>5. ASSUME NEW b
      PROVE  Holding(b)' = IF b = B /\ l # "retain" THEN Holding(b) \cup {n} ELSE Holding(b)
  <2>1. Holding(b)' = {c \in 1..n : target'[c] = b /\ ~Ended(c)' /\ ~Retaining(c)'}
    BY <1>n, HoldingDefNext
  <2>2. Holding(b) = {c \in 1..created : target[c] = b /\ ~Ended(c) /\ ~Retaining(c)}
    BY HoldingDef
  <2>3. CASE b = B /\ l # "retain"
    BY <1>1, <1>3, <1>4, <2>1, <2>2, <2>3
  <2>4. CASE ~(b = B /\ l # "retain")
    BY <1>1, <1>3, <1>4, <2>1, <2>2, <2>4
  <2> QED BY <2>3, <2>4
<1> QED BY <1>2, <1>5, <1>n

LEMMA RefsStep ==
  ASSUME IInv, [Next]_vars, TypeOK', Family'
  PROVE  RefsCounted'
<1> TypeOK /\ Family /\ Calls /\ Commands /\ RefsCounted
  BY Parts
<1>0. /\ parent \in [Buffers -> Buffers \cup {None}] /\ refs \in [Buffers -> Int]
      /\ born \subseteq Buffers /\ owned \subseteq born /\ None \notin Buffers
      /\ pc \in [Threads -> {"idle", "append", "retain", "enqueue"}]
      /\ cur \in [Threads -> Command \cup {NoCommand}]
      /\ state \in [Command -> {"none", "queued", "executed", "done", "failed"}]
      /\ 1..created \subseteq Command
  BY Numbers, Parts DEF TypeOK
<1>f. /\ \A b \in Buffers : refs[b] = Cardinality({b} \cap owned) + Cardinality(Holding(b)) + Cardinality(Subs(b))
      /\ \A b \in Buffers : refs[b] \in Int /\ Cardinality(Holding(b)) \in Nat /\ Cardinality(Subs(b)) \in Nat
      /\ \A b \in Buffers : IsFiniteSet(Holding(b)) /\ IsFiniteSet(Subs(b))
      /\ \A b \in Buffers : Cardinality({b} \cap owned) = IF b \in owned THEN 1 ELSE 0
  BY CountedDef, Finite DEF Counted, Users, AllFinite
<1>g. \A b \in Buffers : Cardinality({b} \cap owned') = (IF b \in owned' THEN 1 ELSE 0) /\ Users(b)' \in Nat
  BY FiniteNext DEF AllFinite
<1>1. ASSUME NEW t \in Threads, NEW b \in Buffers, NEW p, p = None \/ (p \in owned /\ parent[p] = None),
             b \notin born, owned' = owned \cup {b}, parent' = [parent EXCEPT ![b] = p],
             refs' = [[x \in Buffers |-> IF x = p THEN refs[x] + 1 ELSE refs[x]] EXCEPT ![b] = 1],
             \A x : Holding(x)' = Holding(x)
      PROVE  RefsCounted'
  <2>1. b # p /\ parent[b] = None /\ refs[b] = 0 /\ b \notin owned
    BY <1>0, <1>1 DEF Family
  <2>2. /\ refs'[b] = 1
        /\ \A x \in Buffers : x # b => refs'[x] = IF x = p THEN refs[x] + 1 ELSE refs[x]
    BY <1>1
  <2>3. parent'[b] = p /\ \A x \in Buffers : x # b => parent'[x] = parent[x]
    BY <1>0, <1>1
  <2>4. ASSUME NEW x \in Buffers PROVE Subs(x)' = IF x = p THEN Subs(x) \cup {b} ELSE Subs(x)
    <3>1. \A s \in Buffers : s # b /\ parent[s] = x => refs'[s] = refs[s]
      BY <1>0, <1>1, <2>2
    <3>2. b \notin Subs(x)
      BY <2>1, <1>0 DEF Subs
    <3>3. \A s \in Buffers : s # b => (s \in Subs(x)' <=> s \in Subs(x))
      BY <2>3, <3>1 DEF Subs
    <3>4. b \in Subs(x)' <=> x = p
      BY <2>2, <2>3 DEF Subs
    <3>5. Subs(x)' \subseteq Buffers /\ Subs(x) \subseteq Buffers
      BY DEF Subs
    <3> QED BY <3>2, <3>3, <3>4, <3>5
  <2>5. ASSUME NEW x \in Buffers PROVE Counted(x)'
    <3>1. PICK i \in Nat, j \in Nat, k \in Nat :
            /\ i = Cardinality({x} \cap owned) /\ j = Cardinality(Holding(x)) /\ k = Cardinality(Subs(x))
            /\ refs[x] = i + j + k
      <4>1. Cardinality({x} \cap owned) \in Nat
        BY <1>f
      <4> QED BY <1>f, <4>1
    <3>2. Cardinality(Holding(x)') = j
      BY <1>1, <3>1
    <3>3. Cardinality(Subs(x)') = IF x = p THEN k + 1 ELSE k
      <4>1. b \notin Subs(x)
        BY <2>1, <1>0 DEF Subs
      <4>2. CASE x = p
        BY <1>f, <2>4, <3>1, <4>1, <4>2, Grown
      <4>3. CASE x # p
        BY <2>4, <3>1, <4>3
      <4> QED BY <4>2, <4>3
    <3>4. Cardinality({x} \cap owned') = IF x = b THEN 1 ELSE i
      BY <1>1, <1>f, <1>g, <3>1
    <3>5. refs'[x] = Cardinality({x} \cap owned') + Cardinality(Holding(x)') + Cardinality(Subs(x)')
      <4>1. CASE x = b
        <5>1. i = 0 /\ refs[x] = 0
          BY <1>f, <2>1, <3>1, <4>1
        <5>2. j = 0 /\ k = 0
          BY <3>1, <5>1
        <5> QED BY <2>1, <2>2, <3>2, <3>3, <3>4, <4>1, <5>2
      <4>2. CASE x # b
        BY <2>2, <3>1, <3>2, <3>3, <3>4, <4>2
      <4> QED BY <4>1, <4>2
    <3> QED BY <3>5 DEF Counted, Users
  <2> QED BY <2>5, CountedNext
<1>2. ASSUME NEW t \in Threads, NEW b \in Buffers, CreateBuffer(t, b) PROVE RefsCounted'
  <2>1. \A x : Holding(x)' = Holding(x)
    BY <1>2, HoldingSame DEF CreateBuffer, cmdVars, Ended, Retaining
  <2>2. refs' = [[x \in Buffers |-> IF x = None THEN refs[x] + 1 ELSE refs[x]] EXCEPT ![b] = 1]
    BY <1>0, <1>2 DEF CreateBuffer
  <2>3. parent' = [parent EXCEPT ![b] = None]
    <3>1. parent[b] = None
      BY <1>2 DEF Family, CreateBuffer
    <3> QED BY <1>0, <1>2, <3>1 DEF CreateBuffer
  <2> QED BY <1>1, <1>2, <2>1, <2>2, <2>3 DEF CreateBuffer
<1>3. ASSUME NEW t \in Threads, NEW b \in Buffers, NEW p \in Buffers, CreateSubBuffer(t, b, p) PROVE RefsCounted'
  <2>1. \A x : Holding(x)' = Holding(x)
    BY <1>3, HoldingSame DEF CreateSubBuffer, cmdVars, Ended, Retaining
  <2>2. refs' = [[x \in Buffers |-> IF x = p THEN refs[x] + 1 ELSE refs[x]] EXCEPT ![b] = 1]
    <3>1. [refs EXCEPT ![p] = @ + 1] = [x \in Buffers |-> IF x = p THEN refs[x] + 1 ELSE refs[x]]
      BY <1>0
    <3> QED BY <1>3, <3>1 DEF CreateSubBuffer, ParentRetained
  <2> QED BY <1>1, <1>3, <2>1, <2>2 DEF CreateSubBuffer
<1>4. ASSUME NEW t \in Threads, NEW b \in Buffers, ReleaseBuffer(t, b) PROVE RefsCounted'
  <2>1. \A x : Holding(x)' = Holding(x)
    BY <1>4, HoldingSame DEF ReleaseBuffer, cmdVars, Ended, Retaining
  <2>2. b \in owned /\ owned' = owned \ {b} /\ DropMem(b) /\ UNCHANGED parent
    BY <1>4 DEF ReleaseBuffer
  <2>3. ASSUME NEW x \in Buffers PROVE Users(x)' = IF x = b THEN Users(x) - 1 ELSE Users(x)
    <3>1. Users(x)' = Cardinality({x} \cap owned') + Cardinality(Holding(x))
      BY <2>1 DEF Users
    <3>2. Cardinality({x} \cap owned') = (IF x \in owned' THEN 1 ELSE 0) /\ Cardinality(Holding(x)) \in Nat
          /\ Cardinality({x} \cap owned) = IF x \in owned THEN 1 ELSE 0
      BY <1>f, <1>g
    <3> QED BY <2>2, <3>1, <3>2 DEF Users
  <2> QED BY <1>g, <2>2, <2>3, DropCounted
<1>5. ASSUME NEW t \in Threads, NEW b \in Buffers, NEW p \in Pointers, MapBuffer(t, b, p) PROVE RefsCounted'
  <2>1. /\ NewCommand(t, "map", b, created + 1, NoCommand) /\ refs' = [refs EXCEPT ![Target(b)] = @ + 1]
        /\ pc[t] = "idle" /\ pc' = [pc EXCEPT ![t] = "append"] /\ UNCHANGED <<parent, owned, state>>
    BY <1>5 DEF MapBuffer, Goto
  <2>2. created + 1 \in Command
    BY <2>1, Parts, Numbers DEF NewCommand
  <2>3. /\ created' = created + 1 /\ cur' = [cur EXCEPT ![t] = created'] /\ created' \in Command
        /\ target' = [target EXCEPT ![created'] = Target(b)]
    BY <2>1, <2>2, NewFacts
  <2>4. /\ \A x : Holding(x)' = IF x = Target(b) THEN Holding(x) \cup {created'} ELSE Holding(x)
        /\ \A x : created' \notin Holding(x)
    <3>1a. PICK l : l = "append"
      OBVIOUS
    <3>1b. PICK B : B = Target(b)
      OBVIOUS
    <3>1. l = "append" /\ B = Target(b)
      BY <3>1a, <3>1b
    <3>2. /\ \A x : Holding(x)' = IF x = B /\ l # "retain" THEN Holding(x) \cup {created'} ELSE Holding(x)
          /\ \A x : created' \notin Holding(x)
      <4>1. pc' = [pc EXCEPT ![t] = l] /\ target' = [target EXCEPT ![created'] = B] /\ state' = state
        BY <2>1, <2>3, <3>1
      <4> QED BY <2>1, <2>3, <4>1, NewHolding
    <3> QED BY <3>1, <3>2
  <2>5. Target(b) \in Buffers /\ parent[Target(b)] = None
    BY <1>0, TargetType DEF Target, Family
  <2> QED BY <2>1, <2>4, <2>5, RefsGrown
<1>6. ASSUME NEW t \in Threads, NEW b \in Buffers, NEW m \in Command, UnmapMemObject(t, b, m) PROVE RefsCounted'
  <2>1. PICK h \in Command :
          NewCommand(t, "unmap", b, h, m) /\ pc[t] = "idle" /\ pc' = [pc EXCEPT ![t] = "retain"]
    BY <1>6, UnmapFacts
  <2>2. UNCHANGED <<parent, owned, refs, state>>
    BY <1>6 DEF UnmapMemObject, bufVars
  <2>3. /\ created' = created + 1 /\ cur' = [cur EXCEPT ![t] = created'] /\ created' \in Command
        /\ target' = [target EXCEPT ![created'] = Target(b)]
    BY <2>1, NewFacts
  <2>4. \A x : Holding(x)' = Holding(x)
    BY <2>1, <2>2, <2>3, NewHolding
  <2> QED BY <2>2, <2>4, RefsSame
<1>7. ASSUME NEW t \in Threads, AppendMapping(t) \/ Enqueue(t) PROVE RefsCounted'
  <2>1. /\ pc[t] \in {"append", "enqueue"} /\ \E l \in {"enqueue", "idle"} : pc' = [pc EXCEPT ![t] = l]
        /\ UNCHANGED <<refs, parent, owned, cmdVars, cur>>
    BY <1>7 DEF AppendMapping, Enqueue, Goto, bufVars
  <2>2. \A c : Retaining(c)' <=> Retaining(c)
    <3>1. \A u \in Threads : pc'[u] = "retain" <=> pc[u] = "retain"
      BY <1>0, <2>1
    <3> QED BY <2>1, <3>1 DEF Retaining
  <2>3. \A c \in 1..created : Ended(c)' <=> Ended(c)
    <3>1. CASE AppendMapping(t)
      BY <3>1 DEF AppendMapping, Ended
    <3>2. CASE Enqueue(t)
      <4>1. cur[t] \in 1..created /\ state[cur[t]] = "none" /\ state' = [state EXCEPT ![cur[t]] = "queued"]
        BY <3>2 DEF Enqueue, Calls
      <4> QED BY <1>0, <4>1 DEF Ended
    <3> QED BY <1>7, <3>1, <3>2
  <2>4. \A b : Holding(b)' = Holding(b)
    BY <2>1, <2>2, <2>3, HoldingSame DEF cmdVars
  <2> QED BY <2>1, <2>4, RefsSame
<1>8. ASSUME NEW t \in Threads, RetainTarget(t) PROVE RefsCounted'
  <2>1. PICK c \in 1..created : c = cur[t] /\ state[c] = "none"
    BY <1>8 DEF RetainTarget, Calls
  <2>2. target[c] \in Buffers /\ parent[target[c]] = None
    BY <1>0, <2>1 DEF Commands
  <2>3. /\ pc[t] = "retain" /\ pc' = [pc EXCEPT ![t] = "enqueue"] /\ refs' = [refs EXCEPT ![target[c]] = @ + 1]
        /\ UNCHANGED <<parent, owned, cmdVars, cur, state>>
    BY <1>8, <2>1 DEF RetainTarget, Goto
  <2>4. Retaining(c) /\ ~Retaining(c)' /\ \A d : d # c => (Retaining(d)' <=> Retaining(d))
    <3>1. \A u \in Threads : u # t /\ pc[u] # "idle" => cur[u] # c
      BY <2>1, <2>3 DEF Calls
    <3>2. \A u \in Threads : u # t => pc'[u] = pc[u]
      BY <1>0, <2>3
    <3>3. pc'[t] = "enqueue"
      BY <1>0, <2>3
    <3> QED BY <2>1, <2>3, <3>1, <3>2, <3>3 DEF Retaining
  <2>5. \A d : Ended(d)' <=> Ended(d)
    BY <2>3 DEF Ended
  <2>6. ~Ended(c)
    BY <2>1 DEF Ended
  <2>7. c \notin Holding(target[c])
    BY <2>4, HoldingDef
  <2>8. ASSUME NEW b PROVE Holding(b)' = IF b = target[c] THEN Holding(b) \cup {c} ELSE Holding(b)
    <3>1. Holding(b)' = {d \in 1..created : target[d] = b /\ ~Ended(d) /\ ~Retaining(d)'}
      BY <2>3, <2>5, HoldingDefNext DEF cmdVars
    <3>2. Holding(b) = {d \in 1..created : target[d] = b /\ ~Ended(d) /\ ~Retaining(d)}
      BY HoldingDef
    <3> QED BY <2>1, <2>4, <2>6, <3>1, <3>2
  <2> QED BY <2>2, <2>3, <2>7, <2>8, RefsGrown
<1>9. ASSUME NEW c \in Command, ExecMap(c) \/ ExecUnmap(c) PROVE RefsCounted'
  <2>1. /\ state[c] = "queued" /\ state' = [state EXCEPT ![c] = "executed"]
        /\ UNCHANGED <<refs, parent, owned, cmdVars, cur, pc>>
    BY <1>9 DEF ExecMap, ExecUnmap, MayRun
  <2>2. \A d \in 1..created : (Ended(d)' <=> Ended(d)) /\ (Retaining(d)' <=> Retaining(d))
    BY <1>0, <2>1 DEF Ended, Retaining
  <2>3. \A b : Holding(b)' = Holding(b)
    BY <2>1, <2>2, HoldingSame DEF cmdVars
  <2> QED BY <2>1, <2>3, RefsSame
<1>10. ASSUME NEW c \in Command, Finish(c) \/ Fail(c) PROVE RefsCounted'
  <2>1. /\ state[c] \in {"queued", "executed"} /\ DropMem(target[c])
        /\ UNCHANGED <<parent, owned, cmdVars, cur, pc>>
    BY <1>10 DEF Finish, Fail
  <2>2. PICK q \in {"done", "failed"} : state' = [state EXCEPT ![c] = q]
    BY <1>10 DEF Finish, Fail
  <2>3. /\ c \in 1..created /\ target[c] \in Buffers
        /\ \A u \in Threads : cur[u] = c => pc[u] = "idle"
    BY <2>1, CommandFacts
  <2>4. ~Ended(c) /\ ~Retaining(c) /\ Ended(c)'
    BY <1>0, <2>1, <2>2, <2>3 DEF Ended, Retaining
  <2>5. \A d \in 1..created : (d # c => (Ended(d)' <=> Ended(d))) /\ (Retaining(d)' <=> Retaining(d))
    BY <1>0, <2>1, <2>2 DEF Ended, Retaining
  <2>6. ASSUME NEW b PROVE Holding(b)' = IF b = target[c] THEN Holding(b) \ {c} ELSE Holding(b)
    <3>1. Holding(b)' = {d \in 1..created : target[d] = b /\ ~Ended(d)' /\ ~Retaining(d)'}
      BY <2>1, HoldingDefNext DEF cmdVars
    <3>2. Holding(b) = {d \in 1..created : target[d] = b /\ ~Ended(d) /\ ~Retaining(d)}
      BY HoldingDef
    <3> QED BY <2>3, <2>4, <2>5, <3>1, <3>2
  <2>7. c \in Holding(target[c])
    BY <2>3, <2>4, HoldingDef
  <2>8. ASSUME NEW x \in Buffers PROVE Users(x)' = IF x = target[c] THEN Users(x) - 1 ELSE Users(x)
    <3>1. Users(x)' = Cardinality({x} \cap owned) + Cardinality(Holding(x)')
      BY <2>1 DEF Users
    <3>2. Cardinality({x} \cap owned) \in Nat /\ Cardinality(Holding(x)) \in Nat /\ IsFiniteSet(Holding(x))
      BY <1>f
    <3>3. CASE x = target[c]
      <4>1. Cardinality(Holding(x)') = Cardinality(Holding(x)) - 1
        BY <2>6, <2>7, <3>2, <3>3, Shrunk
      <4> QED BY <3>1, <3>2, <3>3, <4>1 DEF Users
    <3>4. CASE x # target[c]
      BY <2>6, <3>1, <3>4 DEF Users
    <3> QED BY <3>3, <3>4
  <2> QED BY <1>g, <2>1, <2>3, <2>8, DropCounted
<1>11. ASSUME UNCHANGED vars PROVE RefsCounted'
  <2>1. \A b : Holding(b)' = Holding(b)
    BY <1>11 DEF vars, cmdVars, Holding
  <2> QED BY <1>11, <2>1, RefsSame DEF vars, bufVars
<1> QED BY <1>2, <1>3, <1>4, <1>5, <1>6, <1>7, <1>8, <1>9, <1>10, <1>11
    DEF Next, CallStep, RunStep, AppStep
-----------------------------------------------------------------------------
(* The lists of mappings *)

Unmapping(c) ==
  /\ \A t \in Threads : cur[t] = mapping[c] => pc[t] # "append"
  /\ c \in Pending => Contains(mappings[target[c]], mapping[c])
  /\ \A d \in 1..created : kind[d] = "unmap" /\ mapping[c] = mapping[d] => c = d

LEMMA ListsDef ==
  Lists <=> /\ \A b \in Buffers : Listing(b)
            /\ \A c \in 1..created : kind[c] = "unmap" => Unmapping(c)
            /\ \A t \in Threads : pc[t] = "append" => alive[cur[t]]
BY DEF Lists, Unmapping

LEMMA ListsDefNext ==
  Lists' <=> /\ \A b \in Buffers : Listing(b)'
             /\ \A c \in 1..created' : kind'[c] = "unmap" => Unmapping(c)'
             /\ \A t \in Threads : pc'[t] = "append" => alive'[cur'[t]]
BY DEF Lists, Unmapping

\* What is on the list of a buffer.
LEMMA Listed ==
  ASSUME TypeOK, Lists, NEW b \in Buffers, NEW m, Contains(mappings[b], m)
  PROVE  /\ m \in 1..created /\ kind[m] = "map" /\ target[m] = b /\ alive[m]
         /\ \A t \in Threads : cur[t] = m => pc[t] # "append"
<1>1. mappings[b] \in Seq(Command)
  BY DEF TypeOK
<1>2. PICK i \in DOMAIN mappings[b] : mappings[b][i] = m
  BY <1>1 DEF Contains
<1> QED BY <1>2 DEF Lists, Listing

\* A step that leaves the lists, the threads before an append and the mappings
\* alone, and makes no command pending.
LEMMA ListsQuiet ==
  ASSUME Lists, UNCHANGED <<created, kind, target, mapping, mappings, alive, cur>>,
         \A t \in Threads : pc'[t] = "append" => pc[t] = "append", Pending' \subseteq Pending
  PROVE  Lists'
<1>1. \A b \in Buffers : Listing(b)'
  BY DEF Lists, Listing
<1>2. \A c \in 1..created' : kind'[c] = "unmap" => Unmapping(c)'
  BY DEF Lists, Unmapping
<1> QED BY <1>1, <1>2, ListsDefNext DEF Lists

\* Freed buffers have no command that could still use their mappings.
LEMMA ListsDrop ==
  ASSUME TypeOK, Lists, AllKept', Commands, NEW b \in Buffers, DropMem(b),
         UNCHANGED <<created, kind, target, mapping, cur, pc>>, Pending' \subseteq Pending,
         \A t \in Threads : pc[t] = "append" => cur[t] \in Command
  PROVE  Lists'
<1>1. /\ \A x \in Buffers : mappings'[x] = IF x \in Freed(b) THEN <<>> ELSE mappings[x]
      /\ \A c \in Command : alive'[c] <=> alive[c] /\ \A x \in Freed(b) : ~Contains(mappings[x], c)
      /\ \A x \in Freed(b) : refs'[x] = 0
      /\ Freed(b) \subseteq Buffers
  BY DropFacts DEF Freed
<1>2. ASSUME NEW x \in Buffers PROVE Listing(x)'
  <2>1. CASE x \in Freed(b)
    <3>1. DOMAIN mappings'[x] = {}
      BY <1>1, <2>1
    <3> QED BY <3>1 DEF Listing
  <2>2. CASE x \notin Freed(b)
    <3>1. mappings'[x] = mappings[x]
      BY <1>1, <2>2
    <3>2. Listing(x) /\ mappings[x] \in Seq(Command)
      BY DEF Lists, TypeOK
    <3>3. ASSUME NEW i \in DOMAIN mappings[x] PROVE alive'[mappings[x][i]]
      <4>1. /\ target[mappings[x][i]] = x /\ alive[mappings[x][i]] /\ mappings[x][i] \in Command
        BY <3>2 DEF Listing
      <4>2. \A y \in Freed(b) : ~Contains(mappings[y], mappings[x][i])
        BY <1>1, <2>2, <4>1, Listed
      <4> QED BY <1>1, <4>1, <4>2
    <3> QED BY <3>1, <3>2, <3>3 DEF Listing
  <2> QED BY <2>1, <2>2
<1>3. ASSUME NEW c \in 1..created, kind[c] = "unmap" PROVE Unmapping(c)'
  <2>1. Unmapping(c)
    BY <1>3, ListsDef
  <2>2. c \in Pending' => target[c] \in Buffers /\ target[c] \notin Freed(b)
    <3> SUFFICES ASSUME c \in Pending' PROVE target[c] \in Buffers /\ target[c] \notin Freed(b)
      OBVIOUS
    <3>1. ~Ended(c)'
      BY DEF Pending, Ended
    <3>2. refs'[target[c]] >= 1
      BY <3>1 DEF AllKept
    <3>3. target[c] \in Buffers
      BY DEF Commands, TypeOK
    <3> QED BY <1>1, <3>2, <3>3
  <2>3. c \in Pending' => c \in Pending /\ Contains(mappings'[target[c]], mapping[c])
    BY <1>1, <2>1, <2>2 DEF Unmapping
  <2> QED BY <2>1, <2>3 DEF Unmapping
<1>4. ASSUME NEW t \in Threads, pc[t] = "append" PROVE alive'[cur[t]]
  <2>1. alive[cur[t]] /\ cur[t] \in Command
    BY <1>4 DEF Lists
  <2>2. \A x \in Freed(b) : ~Contains(mappings[x], cur[t])
    BY <1>1, <1>4, Listed
  <2> QED BY <1>1, <2>1, <2>2
<1> QED BY <1>2, <1>3, <1>4, ListsDefNext

\* A command is created.
LEMMA ListsNew ==
  ASSUME IInv, NEW t \in Threads, pc[t] = "idle", NEW n, n \in Command, n \notin 1..created, created' = n,
         1..n = 1..created \cup {n}, cur' = [cur EXCEPT ![t] = n], NEW l, pc' = [pc EXCEPT ![t] = l],
         NEW k, kind' = [kind EXCEPT ![n] = k], NEW B \in Buffers, target' = [target EXCEPT ![n] = B],
         NEW h, mapping' = [mapping EXCEPT ![n] = h], alive' \in [Command -> BOOLEAN],
         UNCHANGED <<mappings, state>>,
         \A c \in 1..created : alive'[c] = alive[c],
         l = "append" => alive'[n],
         k = "unmap" => Contains(mappings[B], h) /\ ~requested[h]
  PROVE  Lists'
<1>0. /\ TypeOK /\ Lists /\ Calls /\ Commands /\ 1..created \subseteq Command
      /\ pc \in [Threads -> {"idle", "append", "retain", "enqueue"}] /\ cur \in [Threads -> Command \cup {NoCommand}]
      /\ kind \in [Command -> {"none", "map", "unmap"}] /\ target \in [Command -> Buffers \cup {None}]
      /\ mapping \in [Command -> Command \cup {NoCommand}] /\ mappings \in [Buffers -> Seq(Command)]
  BY Parts DEF TypeOK
<1>1. \A c \in 1..created : c # n /\ kind'[c] = kind[c] /\ target'[c] = target[c] /\ mapping'[c] = mapping[c]
  BY <1>0
<1>2. kind'[n] = k /\ target'[n] = B /\ mapping'[n] = h /\ cur'[t] = n /\ pc'[t] = l
  BY <1>0
<1>3. \A u \in Threads : u # t => cur'[u] = cur[u] /\ pc'[u] = pc[u]
  BY <1>0
<1>4. ASSUME NEW c \in 1..created, NEW u \in Threads, cur[u] = c => pc[u] # "append"
      PROVE  cur'[u] = c => pc'[u] # "append"
  BY <1>1, <1>2, <1>3, <1>4
<1>5. ASSUME NEW b \in Buffers PROVE Listing(b)'
  <2>1. ASSUME NEW i \in DOMAIN mappings[b], NEW m, m = mappings[b][i]
        PROVE  /\ m \in 1..n /\ kind'[m] = "map" /\ target'[m] = b /\ alive'[m]
               /\ \A u \in Threads : cur'[u] = m => pc'[u] # "append"
               /\ \A j \in DOMAIN mappings[b] : mappings[b][j] = m => i = j
    <3>1. /\ m \in 1..created /\ kind[m] = "map" /\ target[m] = b /\ alive[m]
          /\ \A u \in Threads : cur[u] = m => pc[u] # "append"
          /\ \A j \in DOMAIN mappings[b] : mappings[b][j] = m => i = j
      BY <1>0, <2>1 DEF Lists, Listing
    <3>2. \A u \in Threads : cur'[u] = m => pc'[u] # "append"
      BY <1>4, <3>1
    <3> QED BY <1>1, <3>1, <3>2
  <2> QED BY <2>1 DEF Listing
<1>6. \A c : c \in Pending' => c = n \/ c \in Pending
  BY DEF Pending
<1>7. ASSUME NEW c \in 1..n, kind'[c] = "unmap" PROVE Unmapping(c)'
  <2>1. CASE c \in 1..created
    <3>1. Unmapping(c) /\ kind[c] = "unmap" /\ mapping[c] \in 1..created /\ requested[mapping[c]]
      BY <1>0, <1>1, <1>7, <2>1, ListsDef DEF Commands
    <3>2. \A u \in Threads : cur'[u] = mapping[c] => pc'[u] # "append"
      BY <1>4, <3>1 DEF Unmapping
    <3>3. c \in Pending' => Contains(mappings'[target'[c]], mapping'[c])
      BY <1>1, <1>6, <2>1, <3>1 DEF Unmapping
    <3>4. \A d \in 1..n : kind'[d] = "unmap" /\ mapping'[c] = mapping'[d] => c = d
      BY <1>1, <1>2, <2>1, <3>1 DEF Unmapping
    <3> QED BY <1>1, <2>1, <3>2, <3>3, <3>4 DEF Unmapping
  <2>2. CASE c = n
    <3>1. Contains(mappings[B], h) /\ ~requested[h]
      BY <1>2, <1>7, <2>2
    <3>2. h \in 1..created /\ \A u \in Threads : cur[u] = h => pc[u] # "append"
      BY <1>0, <3>1, Listed
    <3>3. \A u \in Threads : cur'[u] = h => pc'[u] # "append"
      BY <1>4, <3>2
    <3>4. \A d \in 1..created : kind'[d] = "unmap" => mapping'[d] # h
      BY <1>0, <1>1, <3>1 DEF Commands
    <3>5. \A d \in 1..n : kind'[d] = "unmap" /\ h = mapping'[d] => n = d
      BY <3>4
    <3> QED BY <1>2, <2>2, <3>1, <3>3, <3>5 DEF Unmapping
  <2> QED BY <2>1, <2>2
<1>8. ASSUME NEW u \in Threads, pc'[u] = "append" PROVE alive'[cur'[u]]
  <2>1. CASE u = t
    BY <1>2, <1>8, <2>1
  <2>2. CASE u # t
    <3>1. cur'[u] = cur[u] /\ alive[cur[u]] /\ cur[u] \in 1..created
      BY <1>0, <1>3, <1>8, <2>2 DEF Lists, Calls
    <3> QED BY <3>1
  <2> QED BY <2>1, <2>2
<1> QED BY <1>5, <1>7, <1>8, ListsDefNext
LEMMA AppendFacts ==
  ASSUME NEW S, NEW s \in Seq(S), NEW c \in S
  PROVE  /\ Append(s, c) \in Seq(S) /\ Len(Append(s, c)) = Len(s) + 1
         /\ \A i \in DOMAIN Append(s, c) :
              (i \in DOMAIN s /\ Append(s, c)[i] = s[i]) \/ (i = Len(s) + 1 /\ Append(s, c)[i] = c)
         /\ \A x : Contains(s, x) => Contains(Append(s, c), x)
<1>1. PICK n \in Nat : n = Len(s) /\ DOMAIN s = 1..n
  OBVIOUS
<1>2. PICK a : a = Append(s, c)
  OBVIOUS
<1>3. a \in Seq(S) /\ Len(a) = n + 1 /\ DOMAIN a = 1..n + 1
  BY <1>1, <1>2
<1>4. (\A i \in 1..n : a[i] = s[i]) /\ a[n + 1] = c
  BY <1>1, <1>2
<1>5. \A i \in 1..n + 1 : i \in 1..n \/ i = n + 1
  BY <1>1
<1>6. ASSUME NEW x, Contains(s, x) PROVE Contains(a, x)
  <2>1. PICK i \in 1..n : s[i] = x
    BY <1>1, <1>6 DEF Contains
  <2>2. i \in 1..n + 1
    BY <1>1
  <2> QED BY <1>3, <1>4, <2>1, <2>2 DEF Contains
<1> QED BY <1>1, <1>2, <1>3, <1>4, <1>5, <1>6

LEMMA ListsAppend ==
  ASSUME IInv, NEW t \in Threads, AppendMapping(t)
  PROVE  Lists'
<1>0. TypeOK /\ Lists /\ Calls /\ Commands /\ 1..created \subseteq Command
  BY Parts
<1>1. PICK c \in 1..created : c = cur[t] /\ kind[c] = "map" /\ pc[t] = "append"
  BY <1>0 DEF AppendMapping, Calls
<1>2. PICK B \in Buffers : B = target[c]
  BY <1>0 DEF Commands, TypeOK
<1>3. PICK s \in Seq(Command) : s = mappings[B]
  BY DEF IInv, TypeOK
<1>4. PICK a : a = Append(s, c)
  OBVIOUS
<1>5. /\ mappings' = [mappings EXCEPT ![B] = a] /\ pc' = [pc EXCEPT ![t] = "enqueue"]
      /\ UNCHANGED <<created, kind, target, mapping, alive, cur, state>>
  BY <1>1, <1>2, <1>3, <1>4 DEF AppendMapping, Goto, mapVars, cmdVars
<1>6. /\ mappings \in [Buffers -> Seq(Command)] /\ pc \in [Threads -> {"idle", "append", "retain", "enqueue"}]
  BY <1>0 DEF TypeOK
<1>7. \A u \in Threads : u # t => pc'[u] = pc[u] /\ (pc[u] # "idle" => cur[u] # c)
  BY <1>0, <1>1, <1>5, <1>6 DEF Calls
<1>8. pc'[t] = "enqueue"
  BY <1>5, <1>6
<1>9. \A i \in DOMAIN a : (i \in DOMAIN s /\ a[i] = s[i]) \/ (i = Len(s) + 1 /\ a[i] = c)
  BY <1>0, <1>4, AppendFacts
<1>10. \A x : Contains(s, x) => Contains(a, x)
  BY <1>0, <1>4, AppendFacts
<1>11. alive[c] /\ ~Contains(s, c)
  <2>1. alive[c]
    BY <1>0, <1>1 DEF Lists
  <2> QED BY <1>0, <1>1, <1>3, <2>1, Listed
<1>12. mappings'[B] = a /\ \A b \in Buffers : b # B => mappings'[b] = mappings[b]
  BY <1>5, <1>6
<1>13. ASSUME NEW b \in Buffers PROVE Listing(b)'
  <2>0. Listing(b)
    BY <1>0 DEF Lists
  <2>1. CASE b # B
    <3>1. mappings'[b] = mappings[b]
      BY <1>12, <2>1
    <3>2. \A u \in Threads : pc'[u] = "append" => pc[u] = "append"
      BY <1>7, <1>8
    <3> QED BY <1>5, <2>0, <3>1, <3>2 DEF Listing
  <2>2. CASE b = B
    <3>1. ASSUME NEW i \in DOMAIN s, NEW m, m = s[i]
          PROVE  /\ m \in 1..created /\ kind[m] = "map" /\ target[m] = B /\ alive[m] /\ m # c
                 /\ \A u \in Threads : cur[u] = m => pc'[u] # "append"
                 /\ \A j \in DOMAIN s : s[j] = m => i = j
      <4>1. /\ m \in 1..created /\ kind[m] = "map" /\ target[m] = B /\ alive[m]
            /\ \A u \in Threads : cur[u] = m => pc[u] # "append"
            /\ \A j \in DOMAIN s : s[j] = m => i = j
        BY <1>3, <2>0, <2>2, <3>1 DEF Listing
      <4>2. \A u \in Threads : cur[u] = m => pc'[u] # "append"
        BY <1>7, <1>8, <4>1
      <4>3. m # c
        BY <1>1, <4>1
      <4> QED BY <4>1, <4>2, <4>3
    <3>2. /\ c \in 1..created /\ kind[c] = "map" /\ target[c] = B /\ alive[c]
          /\ \A u \in Threads : cur[u] = c => pc'[u] # "append"
      BY <1>1, <1>2, <1>7, <1>8, <1>11
    <3>3. ASSUME NEW i \in DOMAIN a, NEW m, m = a[i]
          PROVE  /\ m \in 1..created /\ kind[m] = "map" /\ target[m] = B /\ alive[m]
                 /\ \A u \in Threads : cur[u] = m => pc'[u] # "append"
                 /\ \A j \in DOMAIN a : a[j] = m => i = j
      <4>1. CASE i \in DOMAIN s /\ a[i] = s[i]
        <5>1. \A j \in DOMAIN a : a[j] = m => i = j
          BY <1>9, <3>1, <3>3, <4>1
        <5> QED BY <3>1, <3>3, <4>1, <5>1
      <4>2. CASE i = Len(s) + 1 /\ a[i] = c
        <5>1. \A j \in DOMAIN a : a[j] = m => i = j
          BY <1>9, <3>1, <3>3, <4>2
        <5> QED BY <3>2, <3>3, <4>2, <5>1
      <4> QED BY <1>9, <4>1, <4>2
    <3> QED BY <1>5, <1>12, <2>2, <3>3 DEF Listing
  <2> QED BY <2>1, <2>2
<1>14. ASSUME NEW d \in 1..created, kind[d] = "unmap" PROVE Unmapping(d)'
  <2>1. Unmapping(d)
    BY <1>0, <1>14, ListsDef
  <2>2. \A u \in Threads : cur[u] = mapping[d] => pc'[u] # "append"
    BY <1>7, <1>8, <2>1 DEF Unmapping
  <2>3. d \in Pending' => d \in Pending
    BY <1>5 DEF Pending
  <2>4. target[d] \in Buffers
    BY <1>0 DEF Commands, TypeOK
  <2>5. d \in Pending' => Contains(mappings'[target[d]], mapping[d])
    BY <1>3, <1>10, <1>12, <2>1, <2>3, <2>4 DEF Unmapping
  <2> QED BY <1>5, <2>1, <2>2, <2>5 DEF Unmapping
<1>15. \A u \in Threads : pc'[u] = "append" => alive'[cur'[u]]
  BY <1>0, <1>5, <1>7, <1>8 DEF Lists
<1> QED BY <1>5, <1>13, <1>14, <1>15, ListsDefNext

LEMMA ListsExecUnmap ==
  ASSUME IInv, NEW c \in Command, ExecUnmap(c)
  PROVE  Lists'
<1>0. TypeOK /\ Lists /\ Commands /\ 1..created \subseteq Command
  BY Parts
<1>1. PICK L : L = Without(mappings[target[c]], mapping[c])
  OBVIOUS
<1>2. /\ state[c] = "queued" /\ kind[c] = "unmap"
      /\ mappings' = [mappings EXCEPT ![target[c]] = L] /\ alive' = [alive EXCEPT ![mapping[c]] = FALSE]
      /\ mapping[c] \in 1..created /\ target[mapping[c]] = target[c]
  BY <1>1, ExecUnmapFacts
<1>3. c \in 1..created /\ target[c] \in Buffers
  BY <1>2, CommandFacts
<1>4. PICK h \in 1..created, B \in Buffers : h = mapping[c] /\ B = target[c] /\ target[h] = B
  BY <1>2, <1>3
<1>5. OffList(L, mappings[B], h)
  <2>1. OffList(L, mappings[target[c]], mapping[c])
    BY <1>1, ExecUnmapFacts
  <2> QED BY <1>4, <2>1
<1>6. /\ state' = [state EXCEPT ![c] = "executed"] /\ UNCHANGED <<created, kind, target, mapping, cur, pc>>
  BY DEF ExecUnmap, cmdVars
<1>7. /\ mappings \in [Buffers -> Seq(Command)] /\ alive \in [Command -> BOOLEAN]
      /\ state \in [Command -> {"none", "queued", "executed", "done", "failed"}]
  BY <1>0 DEF TypeOK
<1>8. /\ mappings'[B] = L /\ \A b \in Buffers : b # B => mappings'[b] = mappings[b]
      /\ \A m \in Command : m # h => alive'[m] = alive[m]
  BY <1>2, <1>4, <1>7
<1>9. Unmapping(c)
  BY <1>0, <1>2, <1>3, ListsDef
<1>10. ASSUME NEW b \in Buffers PROVE Listing(b)'
  <2>1. CASE b # B
    <3>1. Listing(b) /\ mappings'[b] = mappings[b]
      BY <1>0, <1>8, <2>1 DEF Lists
    <3>2. \A i \in DOMAIN mappings[b] : mappings[b][i] \in Command /\ mappings[b][i] # h
      BY <1>0, <1>4, <2>1, <3>1 DEF Listing
    <3> QED BY <1>6, <1>8, <3>1, <3>2 DEF Listing
  <2>2. CASE b = B
    <3>1. ASSUME NEW i \in DOMAIN L, NEW m, m = L[i]
          PROVE  /\ m \in 1..created /\ kind[m] = "map" /\ target[m] = B /\ alive'[m]
                 /\ \A u \in Threads : cur[u] = m => pc[u] # "append"
                 /\ \A j \in DOMAIN L : L[j] = m => i = j
      <4>1. m # h /\ Contains(mappings[B], m) /\ \A j \in DOMAIN L : L[j] = m => i = j
        BY <1>5, <3>1 DEF OffList
      <4>2. /\ m \in 1..created /\ kind[m] = "map" /\ target[m] = B /\ alive[m]
            /\ \A u \in Threads : cur[u] = m => pc[u] # "append"
        BY <1>0, <4>1, Listed
      <4>3. alive'[m]
        BY <1>0, <1>8, <4>1, <4>2
      <4> QED BY <4>1, <4>2, <4>3
    <3> QED BY <1>6, <1>8, <2>2, <3>1 DEF Listing
  <2> QED BY <2>1, <2>2
<1>11. ASSUME NEW d \in 1..created, kind[d] = "unmap" PROVE Unmapping(d)'
  <2>1. Unmapping(d) /\ target[d] \in Buffers
    BY <1>0, <1>11, ListsDef DEF Commands, TypeOK
  <2>2. d \in Pending' => d \in Pending /\ d # c
    BY <1>0, <1>3, <1>6, <1>7 DEF Pending
  <2>3. d # c => mapping[d] # h
    BY <1>3, <1>4, <1>9, <1>11, <1>2 DEF Unmapping
  <2>4. d \in Pending' => Contains(mappings'[target[d]], mapping[d])
    BY <1>5, <1>8, <2>1, <2>2, <2>3 DEF Unmapping, OffList
  <2> QED BY <1>6, <2>1, <2>4 DEF Unmapping
<1>12. ASSUME NEW u \in Threads, pc[u] = "append" PROVE alive'[cur[u]]
  <2>1. alive[cur[u]] /\ cur[u] # h /\ cur[u] \in Command
    BY <1>0, <1>4, <1>9, <1>12, Parts DEF Lists, Unmapping, Calls
  <2> QED BY <1>8, <2>1
<1> QED BY <1>6, <1>10, <1>11, <1>12, ListsDefNext
LEMMA ListsStep ==
  ASSUME IInv, [Next]_vars, AllKept'
  PROVE  Lists'
<1>0. /\ TypeOK /\ Family /\ Lists /\ Calls /\ Commands /\ 1..created \subseteq Command
      /\ pc \in [Threads -> {"idle", "append", "retain", "enqueue"}]
      /\ state \in [Command -> {"none", "queued", "executed", "done", "failed"}]
      /\ alive \in [Command -> BOOLEAN]
  BY Parts DEF TypeOK
<1>1. ASSUME NEW t \in Threads, NEW b \in Buffers,
             CreateBuffer(t, b) \/ \E p \in Buffers : CreateSubBuffer(t, b, p)
      PROVE  Lists'
  <2>1. UNCHANGED <<created, kind, target, mapping, mappings, alive, cur, pc, state>>
    BY <1>1 DEF CreateBuffer, CreateSubBuffer, mapVars, cmdVars
  <2>2. Pending' = Pending
    BY <2>1 DEF Pending
  <2> QED BY <1>0, <2>1, <2>2, ListsQuiet
<1>2. ASSUME NEW t \in Threads, NEW b \in Buffers, ReleaseBuffer(t, b) PROVE Lists'
  <2>1. DropMem(b) /\ UNCHANGED <<created, kind, target, mapping, cur, pc, state>>
    BY <1>2 DEF ReleaseBuffer, cmdVars
  <2>2. Pending' = Pending
    BY <2>1 DEF Pending
  <2>3. \A u \in Threads : pc[u] = "append" => cur[u] \in Command
    BY <1>0 DEF Calls
  <2> QED BY <1>0, <2>1, <2>2, <2>3, ListsDrop
<1>3. ASSUME NEW t \in Threads, NEW b \in Buffers, NEW p \in Pointers, MapBuffer(t, b, p) PROVE Lists'
  <2>1. /\ NewCommand(t, "map", b, created + 1, NoCommand) /\ alive' = [alive EXCEPT ![created'] = TRUE]
        /\ pc[t] = "idle" /\ pc' = [pc EXCEPT ![t] = "append"] /\ UNCHANGED <<mappings, state>>
    BY <1>3 DEF MapBuffer, Goto
  <2>2. created + 1 \in Command
    BY <2>1, Parts, Numbers DEF NewCommand
  <2>3. Target(b) \in Buffers
    BY <1>0, TargetType
  <2>n. PICK n : n = created'
    OBVIOUS
  <2>B. PICK B \in Buffers : B = Target(b)
    BY <2>3
  <2>4. /\ n = created + 1 /\ n \in Command /\ n \notin 1..created /\ 1..n = 1..created \cup {n}
        /\ kind' = [kind EXCEPT ![n] = "map"] /\ target' = [target EXCEPT ![n] = B]
        /\ mapping' = [mapping EXCEPT ![n] = created + 1] /\ cur' = [cur EXCEPT ![t] = n]
    BY <1>0, <2>1, <2>2, <2>n, <2>B, NewFacts
  <2>5. alive' \in [Command -> BOOLEAN] /\ (\A c \in 1..created : alive'[c] = alive[c]) /\ alive'[n]
    BY <1>0, <2>1, <2>n, <2>4
  <2>6a. PICK l : l = "append"
    OBVIOUS
  <2>6b. PICK k : k = "map"
    OBVIOUS
  <2>6c. PICK h : h = created + 1
    OBVIOUS
  <2>6. l = "append" /\ k = "map" /\ h = created + 1
    BY <2>6a, <2>6b, <2>6c
  <2>7. k # "unmap"
    BY <2>6
  <2> QED BY <2>1, <2>n, <2>4, <2>5, <2>6, <2>7, ListsNew
<1>4. ASSUME NEW t \in Threads, NEW b \in Buffers, NEW m \in Command, UnmapMemObject(t, b, m) PROVE Lists'
  <2>1. PICK h \in Command :
          /\ \E i \in DOMAIN mappings[Target(b)] : mappings[Target(b)][i] = h
          /\ ~requested[h] /\ NewCommand(t, "unmap", b, h, m)
          /\ pc[t] = "idle" /\ pc' = [pc EXCEPT ![t] = "retain"]
    BY <1>0, <1>4, UnmapFacts
  <2>2. UNCHANGED <<mappings, state, alive>>
    BY <1>4 DEF UnmapMemObject, bufVars
  <2>3. Target(b) \in Buffers
    BY <1>0, TargetType
  <2>n. PICK n : n = created'
    OBVIOUS
  <2>B. PICK B \in Buffers : B = Target(b)
    BY <2>3
  <2>4. /\ n = created + 1 /\ n \in Command /\ n \notin 1..created /\ 1..n = 1..created \cup {n}
        /\ kind' = [kind EXCEPT ![n] = "unmap"] /\ target' = [target EXCEPT ![n] = B]
        /\ mapping' = [mapping EXCEPT ![n] = h] /\ cur' = [cur EXCEPT ![t] = n]
    BY <1>0, <2>1, <2>n, <2>B, NewFacts
  <2>5. Contains(mappings[B], h)
    <3>1. mappings[B] \in Seq(Command)
      BY <1>0 DEF TypeOK
    <3> QED BY <2>1, <2>B, <3>1 DEF Contains
  <2>6a. PICK l : l = "retain"
    OBVIOUS
  <2>6b. PICK k : k = "unmap"
    OBVIOUS
  <2>6. l = "retain" /\ k = "unmap"
    BY <2>6a, <2>6b
  <2>7. l # "append" /\ alive' = alive
    BY <2>2, <2>6
  <2> QED BY <1>0, <2>1, <2>2, <2>n, <2>4, <2>5, <2>6, <2>7, ListsNew
<1>5. ASSUME NEW t \in Threads, RetainTarget(t) \/ Enqueue(t) PROVE Lists'
  <2>1. /\ pc[t] \in {"retain", "enqueue"} /\ \E l \in {"enqueue", "idle"} : pc' = [pc EXCEPT ![t] = l]
        /\ UNCHANGED <<created, kind, target, mapping, mappings, alive, cur>>
    BY <1>5 DEF RetainTarget, Enqueue, Goto, bufVars, mapVars, cmdVars
  <2>2. \A u \in Threads : pc'[u] = "append" => pc[u] = "append"
    BY <1>0, <2>1
  <2>3. Pending' \subseteq Pending
    <3>1. CASE RetainTarget(t)
      BY <2>1, <3>1 DEF RetainTarget, Pending
    <3>2. CASE Enqueue(t)
      <4>1. state' = [state EXCEPT ![cur[t]] = "queued"] /\ state[cur[t]] = "none" /\ cur[t] \in 1..created
        BY <1>0, <3>2 DEF Enqueue, Calls
      <4> QED BY <1>0, <2>1, <4>1 DEF Pending
    <3> QED BY <1>5, <3>1, <3>2
  <2> QED BY <1>0, <2>1, <2>2, <2>3, ListsQuiet
<1>6. ASSUME NEW c \in Command, ExecMap(c) PROVE Lists'
  <2>1. /\ state' = [state EXCEPT ![c] = "executed"]
        /\ UNCHANGED <<created, kind, target, mapping, mappings, alive, cur, pc>>
    BY <1>6 DEF ExecMap, mapVars, cmdVars
  <2>2. Pending' \subseteq Pending
    BY <1>0, <2>1 DEF Pending
  <2> QED BY <1>0, <2>1, <2>2, ListsQuiet
<1>7. ASSUME NEW c \in Command, Finish(c) \/ Fail(c) PROVE Lists'
  <2>1. state[c] # "none" /\ DropMem(target[c]) /\ UNCHANGED <<created, kind, target, mapping, cur, pc>>
    BY <1>7 DEF Finish, Fail, cmdVars
  <2>2. PICK B \in Buffers : B = target[c]
    BY <2>1, CommandFacts
  <2>3. \E q \in {"done", "failed"} : state' = [state EXCEPT ![c] = q]
    BY <1>7 DEF Finish, Fail
  <2>4. Pending' \subseteq Pending
    BY <1>0, <2>1, <2>3 DEF Pending
  <2>5. \A u \in Threads : pc[u] = "append" => cur[u] \in Command
    BY <1>0 DEF Calls
  <2>6. DropMem(B)
    BY <2>1, <2>2
  <2> QED BY <1>0, <2>1, <2>4, <2>5, <2>6, ListsDrop
<1>8. ASSUME UNCHANGED vars PROVE Lists'
  <2>1. UNCHANGED <<created, kind, target, mapping, mappings, alive, cur, pc, state>>
    BY <1>8 DEF vars, bufVars, mapVars, cmdVars
  <2>2. Pending' = Pending
    BY <2>1 DEF Pending
  <2> QED BY <1>0, <2>1, <2>2, ListsQuiet
<1> QED BY <1>1, <1>2, <1>3, <1>4, <1>5, <1>6, <1>7, <1>8, ListsAppend, ListsExecUnmap
    DEF Next, CallStep, RunStep, AppStep-----------------------------------------------------------------------------
(* Addresses *)

LEMMA PairedSame ==
  ASSUME Paired, UNCHANGED <<created, kind, target, mapping, after, ptr, requested, undone>>,
         \A c \in Pending' : kind[c] = "map" => alive'[c]
  PROVE  Paired'
BY DEF Paired

LEMMA PairedDrop ==
  ASSUME TypeOK, Lists, Paired, AllKept', NEW b \in Buffers, DropMem(b), Pending' \subseteq Pending,
         1..created \subseteq Command,
         UNCHANGED <<created, kind, target, mapping, after, ptr, requested, undone>>
  PROVE  Paired'
<1>1. /\ \A c \in Command : alive'[c] <=> alive[c] /\ \A x \in Freed(b) : ~Contains(mappings[x], c)
      /\ \A x \in Freed(b) : refs'[x] = 0
      /\ Freed(b) \subseteq Buffers
  BY DropFacts DEF Freed
<1>2. ASSUME NEW c \in Pending', kind[c] = "map" PROVE alive'[c]
  <2>1. c \in Pending /\ c \in 1..created /\ ~Ended(c)'
    BY DEF Pending, Ended
  <2>2. alive[c] /\ refs'[target[c]] >= 1
    BY <1>2, <2>1 DEF Paired, AllKept
  <2>3. \A x \in Freed(b) : ~Contains(mappings[x], c)
    BY <1>1, <2>2, Listed
  <2> QED BY <1>1, <2>1, <2>2, <2>3
<1> QED BY <1>2, PairedSame

LEMMA PairedMap ==
  ASSUME IInv, ~SamePointer, Paired,
         NEW t \in Threads, NEW b \in Buffers, NEW p \in Pointers, MapBuffer(t, b, p)
  PROVE  Paired'
<1>0. /\ TypeOK /\ Commands /\ 1..created \subseteq Command /\ undone \subseteq 1..created
      /\ kind \in [Command -> {"none", "map", "unmap"}] /\ target \in [Command -> Buffers \cup {None}]
      /\ mapping \in [Command -> Command \cup {NoCommand}] /\ after \in [Command -> Command \cup {NoCommand}]
      /\ ptr \in [Command -> Pointers \cup {None}] /\ alive \in [Command -> BOOLEAN]
  BY Parts DEF TypeOK
<1>1. /\ NewCommand(t, "map", b, created + 1, NoCommand) /\ alive' = [alive EXCEPT ![created'] = TRUE]
      /\ ptr' = [ptr EXCEPT ![created'] = p] /\ UNCHANGED <<requested, state, undone>>
  BY DEF MapBuffer
<1>2. created + 1 \in Command
  BY <1>1, Parts, Numbers DEF NewCommand
<1>n. PICK n : n = created'
  OBVIOUS
<1>B. PICK B \in Buffers : B = Target(b)
  BY <1>0, TargetType
<1>3. /\ n \in Command /\ n \notin 1..created /\ 1..n = 1..created \cup {n}
      /\ kind' = [kind EXCEPT ![n] = "map"] /\ target' = [target EXCEPT ![n] = B]
      /\ mapping' = [mapping EXCEPT ![n] = created + 1] /\ after' = [after EXCEPT ![n] = NoCommand]
  BY <1>0, <1>1, <1>2, <1>n, <1>B, NewFacts
<1>4. \A c \in 1..created : kind[c] = "map" /\ target[c] = B /\ ptr[c] = p => c \in undone
  BY <1>B DEF MapBuffer
<1>5. \A c \in 1..created : /\ c # n /\ kind'[c] = kind[c] /\ target'[c] = target[c] /\ mapping'[c] = mapping[c]
                            /\ after'[c] = after[c] /\ ptr'[c] = ptr[c] /\ alive'[c] = alive[c]
  BY <1>0, <1>1, <1>n, <1>3
<1>6. kind'[n] = "map" /\ target'[n] = B /\ ptr'[n] = p /\ alive'[n] /\ n \notin undone /\ ~requested[n]
  BY <1>0, <1>1, <1>n, <1>3 DEF Commands
<1>7. \A c \in 1..n : kind'[c] = "unmap" => mapping'[c] = after'[c]
  BY <1>3, <1>5, <1>6 DEF Paired
<1>8. \A c \in 1..n : kind'[c] = "map" => (requested[c] <=> c \in undone)
  BY <1>3, <1>5, <1>6 DEF Paired
<1>9. ASSUME NEW c \in 1..n, NEW d \in 1..n, kind'[c] = "map", kind'[d] = "map", target'[c] = target'[d],
             ptr'[c] = ptr'[d], c # d
      PROVE  c \in undone \/ d \in undone
  <2>1. CASE c = n
    BY <1>3, <1>4, <1>5, <1>6, <1>9, <2>1
  <2>2. CASE d = n
    BY <1>3, <1>4, <1>5, <1>6, <1>9, <2>2
  <2>3. CASE c # n /\ d # n
    <3>1. c \in 1..created /\ d \in 1..created
      BY <1>3, <2>3
    <3> QED BY <1>5, <1>9, <3>1 DEF Paired
  <2> QED BY <2>1, <2>2, <2>3
<1>10. ASSUME NEW c \in Pending', kind'[c] = "map" PROVE alive'[c]
  <2>1. c = n \/ c \in Pending
    BY <1>1, <1>n, <1>3 DEF Pending
  <2>2. CASE c \in Pending
    BY <1>5, <1>10, <2>2 DEF Paired, Pending
  <2> QED BY <1>6, <2>1, <2>2
<1> QED BY <1>1, <1>n, <1>7, <1>8, <1>9, <1>10 DEF Paired

\* The mapping found is the one the call was asked to unmap.
LEMMA PairedUnmap ==
  ASSUME IInv, Paired, NEW t \in Threads, NEW b \in Buffers, NEW m \in Command, UnmapMemObject(t, b, m)
  PROVE  Paired'
<1>0. /\ TypeOK /\ Commands /\ Lists /\ 1..created \subseteq Command /\ undone \subseteq 1..created
      /\ kind \in [Command -> {"none", "map", "unmap"}] /\ target \in [Command -> Buffers \cup {None}]
      /\ mapping \in [Command -> Command \cup {NoCommand}] /\ after \in [Command -> Command \cup {NoCommand}]
      /\ requested \in [Command -> BOOLEAN]
  BY Parts DEF TypeOK
<1>n. PICK n : n = created'
  OBVIOUS
<1>B. PICK B \in Buffers : B = Target(b)
  BY <1>0, TargetType
<1>1. PICK h \in Command :
        /\ \E i \in DOMAIN mappings[Target(b)] : mappings[Target(b)][i] = h
        /\ ptr[h] = ptr[m] /\ ~requested[h]
        /\ requested' = [requested EXCEPT ![h] = TRUE] /\ NewCommand(t, "unmap", b, h, m)
        /\ m \in 1..created /\ m \notin undone /\ kind[m] = "map" /\ target[m] = Target(b)
        /\ undone' = undone \cup {m}
  BY <1>0, UnmapFacts
<1>2. /\ n \in Command /\ n \notin 1..created /\ 1..n = 1..created \cup {n}
      /\ kind' = [kind EXCEPT ![n] = "unmap"] /\ target' = [target EXCEPT ![n] = B]
      /\ mapping' = [mapping EXCEPT ![n] = h] /\ after' = [after EXCEPT ![n] = m]
  <2>1. NewCommand(t, "unmap", b, h, m) /\ TypeOK
    BY <1>0, <1>1
  <2> QED BY <2>1, <1>n, <1>B, NewFacts
<1>3. h \in 1..created /\ kind[h] = "map" /\ target[h] = B
  BY <1>0, <1>1, <1>B DEF Lists, Listing
<1>4. h = m
  BY <1>1, <1>3, <1>B DEF Paired
<1>5. UNCHANGED <<ptr, alive, state>>
  BY DEF UnmapMemObject
<1>6. \A c \in 1..created : /\ c # n /\ kind'[c] = kind[c] /\ target'[c] = target[c] /\ mapping'[c] = mapping[c]
                            /\ after'[c] = after[c]
  BY <1>0, <1>2
<1>7. kind'[n] = "unmap" /\ mapping'[n] = h /\ after'[n] = m
  BY <1>0, <1>2
<1>8. \A c \in 1..n : kind'[c] = "unmap" => mapping'[c] = after'[c]
  BY <1>2, <1>4, <1>6, <1>7 DEF Paired
<1>9. \A c \in 1..n : kind'[c] = "map" => (requested'[c] <=> c \in undone')
  BY <1>0, <1>1, <1>2, <1>4, <1>6, <1>7 DEF Paired
<1>10. ASSUME NEW c \in 1..n, NEW d \in 1..n, kind'[c] = "map", kind'[d] = "map", target'[c] = target'[d],
              ptr'[c] = ptr'[d], c # d
       PROVE  c \in undone' \/ d \in undone'
  <2>1. c \in 1..created /\ d \in 1..created
    BY <1>2, <1>7, <1>10
  <2> QED BY <1>1, <1>5, <1>6, <1>10, <2>1 DEF Paired
<1>11. ASSUME NEW c \in Pending', kind'[c] = "map" PROVE alive'[c]
  <2>1. c \in Pending
    BY <1>2, <1>5, <1>n, <1>7, <1>11 DEF Pending
  <2> QED BY <1>5, <1>6, <1>11, <2>1 DEF Paired, Pending
<1> QED BY <1>n, <1>8, <1>9, <1>10, <1>11 DEF Paired

LEMMA PairedStep ==
  ASSUME IInv, [Next]_vars, AllKept', ~SamePointer
  PROVE  Paired'
<1>0. /\ TypeOK /\ Lists /\ Calls /\ Commands /\ Paired /\ 1..created \subseteq Command
      /\ state \in [Command -> {"none", "queued", "executed", "done", "failed"}]
      /\ alive \in [Command -> BOOLEAN]
  BY Parts DEF TypeOK, IInv
<1>1. ASSUME UNCHANGED <<cmdVars, mapVars, undone>>, Pending' \subseteq Pending PROVE Paired'
  BY <1>0, <1>1, PairedSame DEF Paired, cmdVars, mapVars
<1>2. ASSUME NEW t \in Threads, NEW b \in Buffers,
             CreateBuffer(t, b) \/ \E p \in Buffers : CreateSubBuffer(t, b, p)
      PROVE  Paired'
  <2>1. UNCHANGED <<cmdVars, mapVars, undone, state>>
    BY <1>2 DEF CreateBuffer, CreateSubBuffer
  <2>2. Pending' = Pending
    BY <2>1 DEF Pending, cmdVars
  <2> QED BY <1>1, <2>1, <2>2
<1>3. ASSUME NEW t \in Threads, NEW b \in Buffers, ReleaseBuffer(t, b) PROVE Paired'
  <2>1. DropMem(b) /\ UNCHANGED <<cmdVars, ptr, requested, undone, state>>
    BY <1>3 DEF ReleaseBuffer
  <2>2. Pending' = Pending
    BY <2>1 DEF Pending, cmdVars
  <2> QED BY <1>0, <2>1, <2>2, PairedDrop DEF cmdVars
<1>4. ASSUME NEW t \in Threads, AppendMapping(t) \/ RetainTarget(t) \/ Enqueue(t) PROVE Paired'
  <2>1. UNCHANGED <<cmdVars, mapVars, undone>>
    BY <1>4 DEF AppendMapping, RetainTarget, Enqueue
  <2>2. CASE AppendMapping(t) \/ RetainTarget(t)
    <3>1. Pending' = Pending
      BY <2>2, <2>1 DEF AppendMapping, RetainTarget, Pending, cmdVars
    <3> QED BY <1>1, <2>1, <3>1
  <2>3. CASE Enqueue(t)
    <3>1. state' = [state EXCEPT ![cur[t]] = "queued"] /\ state[cur[t]] = "none" /\ cur[t] \in 1..created
      BY <1>0, <2>3 DEF Enqueue, Calls
    <3>2. Pending' \subseteq Pending
      BY <1>0, <2>1, <3>1 DEF Pending, cmdVars
    <3> QED BY <1>1, <2>1, <3>2
  <2> QED BY <1>4, <2>2, <2>3
<1>5. ASSUME NEW c \in Command, ExecMap(c) PROVE Paired'
  <2>1. UNCHANGED <<cmdVars, mapVars, undone>> /\ state' = [state EXCEPT ![c] = "executed"]
    BY <1>5 DEF ExecMap
  <2>2. Pending' \subseteq Pending
    BY <1>0, <2>1 DEF Pending, cmdVars
  <2> QED BY <1>1, <2>1, <2>2
<1>6. ASSUME NEW c \in Command, ExecUnmap(c) PROVE Paired'
  <2>1. /\ state[c] = "queued" /\ kind[c] = "unmap" /\ state[after[c]] = "done"
        /\ alive' = [alive EXCEPT ![mapping[c]] = FALSE] /\ mapping[c] \in 1..created
    BY <1>6, ExecUnmapFacts
  <2>2. UNCHANGED <<cmdVars, ptr, requested, undone>> /\ state' = [state EXCEPT ![c] = "executed"]
    BY <1>6 DEF ExecUnmap
  <2>3. mapping[c] = after[c]
    BY <1>0, <2>1, CommandFacts DEF Paired
  <2>4. ASSUME NEW d \in Pending', kind[d] = "map" PROVE alive'[d]
    <3>1. d \in Pending /\ d \in 1..created
      BY <1>0, <2>2 DEF Pending, cmdVars
    <3>2. d # mapping[c]
      BY <2>1, <2>3, <3>1 DEF Pending
    <3>3. alive[d]
      BY <1>0, <2>4, <3>1 DEF Paired
    <3> QED BY <1>0, <2>1, <3>1, <3>2, <3>3
  <2> QED BY <1>0, <2>2, <2>4, PairedSame DEF cmdVars
<1>7. ASSUME NEW c \in Command, Finish(c) \/ Fail(c) PROVE Paired'
  <2>1. state[c] # "none" /\ DropMem(target[c]) /\ UNCHANGED <<cmdVars, ptr, requested, undone>>
    BY <1>7 DEF Finish, Fail
  <2>2. PICK B \in Buffers : B = target[c] /\ DropMem(B)
    BY <2>1, CommandFacts
  <2>3. \E q \in {"done", "failed"} : state' = [state EXCEPT ![c] = q]
    BY <1>7 DEF Finish, Fail
  <2>4. Pending' \subseteq Pending
    BY <1>0, <2>1, <2>3 DEF Pending, cmdVars
  <2> QED BY <1>0, <2>1, <2>2, <2>4, PairedDrop DEF cmdVars
<1>8. ASSUME UNCHANGED vars PROVE Paired'
  <2>1. UNCHANGED <<cmdVars, mapVars, undone, state>>
    BY <1>8 DEF vars
  <2>2. Pending' = Pending
    BY <2>1 DEF Pending, cmdVars
  <2> QED BY <1>1, <2>1, <2>2
<1> QED BY <1>0, <1>2, <1>3, <1>4, <1>5, <1>6, <1>7, <1>8, PairedMap, PairedUnmap
    DEF Next, CallStep, RunStep, AppStep-----------------------------------------------------------------------------
(* Map counters *)

Appending(c) == \E t \in Threads : cur[t] = c /\ pc[t] = "append"
Unmade(c)    == state[c] \in {"none", "queued", "failed"}
Balanced(b)  == refs[b] > 0 => Len(mappings[b]) = map_count[b] + Cardinality(NotMapped(b))

LEMMA NotMappedDef ==
  \A b : NotMapped(b) = {c \in 1..created : kind[c] = "map" /\ target[c] = b /\ Unmade(c) /\ ~Appending(c)}
BY DEF NotMapped, Unmade, Appending

LEMMA NotMappedDefNext ==
  \A b : NotMapped(b)' = {c \in 1..created' : kind'[c] = "map" /\ target'[c] = b /\ Unmade(c)' /\ ~Appending(c)'}
BY DEF NotMapped, Unmade, Appending

LEMMA MapCountedDef == MapCounted <=> \A b \in Buffers : Balanced(b)
BY DEF MapCounted, Balanced

LEMMA MapCountedNext == MapCounted' <=> \A b \in Buffers : Balanced(b)'
BY DEF MapCounted, Balanced

LEMMA NotMappedFinite ==
  ASSUME created \in Nat, NEW b
  PROVE  IsFiniteSet(NotMapped(b)) /\ Cardinality(NotMapped(b)) \in Nat
<1>1. IsFiniteSet(1..created)
  <2>1. created \in Int
    OBVIOUS
  <2> QED BY <2>1, FS_Interval
<1>2. NotMapped(b) \subseteq 1..created
  BY DEF NotMapped
<1> QED BY <1>1, <1>2, FS_Subset, FS_CardinalityType

LEMMA NotMappedSame ==
  ASSUME UNCHANGED <<created, kind, target>>,
         \A c \in 1..created : kind[c] = "map" => (Unmade(c)' <=> Unmade(c)) /\ (Appending(c)' <=> Appending(c))
  PROVE  \A b : NotMapped(b)' = NotMapped(b)
BY NotMappedDef, NotMappedDefNext

LEMMA BalancedSame ==
  ASSUME MapCounted, \A b : NotMapped(b)' = NotMapped(b),
         \A b \in Buffers : refs'[b] > 0 =>
           refs[b] > 0 /\ mappings'[b] = mappings[b] /\ map_count'[b] = map_count[b]
  PROVE  MapCounted'
<1>1. ASSUME NEW b \in Buffers PROVE Balanced(b)'
  <2>1. Balanced(b)
    BY MapCountedDef
  <2> QED BY <2>1 DEF Balanced
<1> QED BY <1>1, MapCountedNext

\* A buffer is not freed by more than its counter says.
LEMMA BalancedDrop ==
  ASSUME TypeOK, MapCounted, NEW b \in Buffers, DropMem(b), \A x : NotMapped(x)' = NotMapped(x),
         UNCHANGED map_count
  PROVE  MapCounted'
<1>1. /\ \A x \in Buffers : refs'[x] = IF x = b \/ (refs[b] = 1 /\ x = parent[b]) THEN refs[x] - 1 ELSE refs[x]
      /\ \A x \in Buffers : mappings'[x] = IF x \in Freed(b) THEN <<>> ELSE mappings[x]
      /\ \A x \in Freed(b) : refs'[x] = 0
  BY DropFacts
<1>2. \A x \in Buffers : refs[x] \in Int
  BY DEF TypeOK
<1>3. ASSUME NEW x \in Buffers, refs'[x] > 0
      PROVE  refs[x] > 0 /\ mappings'[x] = mappings[x] /\ map_count'[x] = map_count[x]
  <2>1. x \notin Freed(b)
    BY <1>1, <1>2, <1>3
  <2>2. refs[x] > 0
    BY <1>1, <1>2, <1>3
  <2> QED BY <1>1, <2>1, <2>2
<1> QED BY <1>3, BalancedSame

\* A command that is created is on no list yet.
LEMMA NotMappedNew ==
  ASSUME IInv, NEW t \in Threads, pc[t] = "idle", NEW l, pc' = [pc EXCEPT ![t] = l],
         NEW n, n \in Command, n \notin 1..created, created' = n, 1..n = 1..created \cup {n},
         cur' = [cur EXCEPT ![t] = n], NEW B, target' = [target EXCEPT ![n] = B],
         NEW k, kind' = [kind EXCEPT ![n] = k], state' = state, k = "map" => l = "append"
  PROVE  \A b : NotMapped(b)' = NotMapped(b)
<1>0. /\ TypeOK /\ Calls /\ Commands /\ 1..created \subseteq Command
      /\ pc \in [Threads -> {"idle", "append", "retain", "enqueue"}] /\ cur \in [Threads -> Command \cup {NoCommand}]
      /\ target \in [Command -> Buffers \cup {None}] /\ kind \in [Command -> {"none", "map", "unmap"}]
  BY Parts DEF TypeOK
<1>1. ASSUME NEW c \in 1..created
      PROVE  /\ (Unmade(c)' <=> Unmade(c)) /\ (Appending(c)' <=> Appending(c))
             /\ target'[c] = target[c] /\ kind'[c] = kind[c] /\ c # n
  <2>1. c # n /\ target'[c] = target[c] /\ kind'[c] = kind[c]
    BY <1>0
  <2>2. \A u \in Threads : cur'[u] = c /\ pc'[u] = "append" <=> cur[u] = c /\ pc[u] = "append"
    BY <1>0, <2>1
  <2> QED BY <2>1, <2>2 DEF Unmade, Appending
<1>2. kind'[n] = "map" => Appending(n)'
  <2>1. kind'[n] = k /\ cur'[t] = n /\ pc'[t] = l
    BY <1>0
  <2> QED BY <2>1 DEF Appending
<1>3. ASSUME NEW b PROVE NotMapped(b)' = NotMapped(b)
  <2>1. NotMapped(b)' = {c \in 1..n : kind'[c] = "map" /\ target'[c] = b /\ Unmade(c)' /\ ~Appending(c)'}
    BY NotMappedDefNext
  <2>2. NotMapped(b) = {c \in 1..created : kind[c] = "map" /\ target[c] = b /\ Unmade(c) /\ ~Appending(c)}
    BY NotMappedDef
  <2> QED BY <1>1, <1>2, <2>1, <2>2
<1> QED BY <1>3

\* A mapping is put on the list, but not mapped yet.
LEMMA MapCountedAppend ==
  ASSUME IInv, NEW t \in Threads, AppendMapping(t)
  PROVE  MapCounted'
<1>0. /\ TypeOK /\ Calls /\ Commands /\ MapCounted /\ 1..created \subseteq Command /\ created \in Nat
      /\ pc \in [Threads -> {"idle", "append", "retain", "enqueue"}]
      /\ mappings \in [Buffers -> Seq(Command)] /\ map_count \in [Buffers -> Int]
  BY Parts DEF TypeOK
<1>1. PICK c \in 1..created : c = cur[t] /\ kind[c] = "map" /\ pc[t] = "append" /\ state[c] = "none"
  BY <1>0 DEF AppendMapping, Calls
<1>2. PICK B \in Buffers : B = target[c]
  BY <1>0 DEF Commands, TypeOK
<1>3. PICK s \in Seq(Command) : s = mappings[B]
  BY <1>0
<1>4. PICK a : a = Append(s, c)
  OBVIOUS
<1>5. /\ mappings' = [mappings EXCEPT ![B] = a] /\ pc' = [pc EXCEPT ![t] = "enqueue"]
      /\ UNCHANGED <<created, kind, target, refs, map_count, cur, state>>
  BY <1>1, <1>2, <1>3, <1>4 DEF AppendMapping, Goto, cmdVars
<1>6. mappings'[B] = a /\ \A b \in Buffers : b # B => mappings'[b] = mappings[b]
  BY <1>0, <1>5
<1>7. Len(a) = Len(s) + 1 /\ Len(s) \in Nat
  <2>1. c \in Command
    BY <1>0
  <2> QED BY <1>4, <2>1
<1>8. Appending(c) /\ ~Appending(c)' /\ \A d : d # c => (Appending(d)' <=> Appending(d))
  <2>1. \A u \in Threads : u # t /\ pc[u] # "idle" => cur[u] # c
    BY <1>0, <1>1 DEF Calls
  <2>2. \A u \in Threads : u # t => pc'[u] = pc[u]
    BY <1>0, <1>5
  <2>3. pc'[t] = "enqueue"
    BY <1>0, <1>5
  <2> QED BY <1>1, <1>5, <2>1, <2>2, <2>3 DEF Appending
<1>9. (\A d : Unmade(d)' <=> Unmade(d)) /\ Unmade(c)
  BY <1>1, <1>5 DEF Unmade
<1>10. ASSUME NEW b PROVE NotMapped(b)' = IF b = B THEN NotMapped(b) \cup {c} ELSE NotMapped(b)
  <2>1. NotMapped(b)' = {d \in 1..created : kind[d] = "map" /\ target[d] = b /\ Unmade(d)' /\ ~Appending(d)'}
    BY <1>5, NotMappedDefNext
  <2>2. NotMapped(b) = {d \in 1..created : kind[d] = "map" /\ target[d] = b /\ Unmade(d) /\ ~Appending(d)}
    BY NotMappedDef
  <2> QED BY <1>1, <1>2, <1>8, <1>9, <2>1, <2>2
<1>11. c \notin NotMapped(B)
  BY <1>8, NotMappedDef
<1>12. ASSUME NEW b \in Buffers PROVE Balanced(b)'
  <2>1. Balanced(b)
    BY <1>0, MapCountedDef
  <2>2. CASE b = B
    <3>1. Cardinality(NotMapped(b)') = Cardinality(NotMapped(b)) + 1 /\ Cardinality(NotMapped(b)) \in Nat
      BY <1>0, <1>10, <1>11, <2>2, NotMappedFinite, Grown
    <3>2. map_count[b] \in Int
      BY <1>0
    <3>3. refs[b] > 0 => Len(s) = map_count[b] + Cardinality(NotMapped(b))
      BY <1>3, <2>1, <2>2 DEF Balanced
    <3>4. refs[b] > 0 => Len(a) = map_count[b] + Cardinality(NotMapped(b)')
      BY <1>7, <3>1, <3>2, <3>3
    <3> QED BY <1>5, <1>6, <2>2, <3>4 DEF Balanced
  <2>3. CASE b # B
    BY <1>5, <1>6, <1>10, <2>1, <2>3 DEF Balanced
  <2> QED BY <2>2, <2>3
<1> QED BY <1>12, MapCountedNext

LEMMA MapCountedMap ==
  ASSUME IInv, NEW c \in Command, ExecMap(c)
  PROVE  MapCounted'
<1>0. /\ TypeOK /\ MapCounted /\ 1..created \subseteq Command /\ created \in Nat
      /\ mappings \in [Buffers -> Seq(Command)] /\ map_count \in [Buffers -> Int]
      /\ state \in [Command -> {"none", "queued", "executed", "done", "failed"}]
  BY Parts DEF TypeOK
<1>1. /\ state[c] = "queued" /\ kind[c] = "map" /\ state' = [state EXCEPT ![c] = "executed"]
      /\ map_count' = [map_count EXCEPT ![target[c]] = @ + 1]
      /\ UNCHANGED <<created, kind, target, refs, mappings, cur, pc>>
  BY DEF ExecMap, cmdVars
<1>2. c \in 1..created /\ \A u \in Threads : cur[u] = c => pc[u] = "idle"
  BY <1>1, CommandFacts
<1>3. PICK B \in Buffers : B = target[c]
  BY <1>1, CommandFacts
<1>4. Unmade(c) /\ ~Unmade(c)' /\ ~Appending(c)
  BY <1>0, <1>1, <1>2 DEF Unmade, Appending
<1>5. \A d : (d # c => (Unmade(d)' <=> Unmade(d))) /\ (Appending(d)' <=> Appending(d))
  BY <1>0, <1>1 DEF Unmade, Appending
<1>6. ASSUME NEW b PROVE NotMapped(b)' = IF b = B THEN NotMapped(b) \ {c} ELSE NotMapped(b)
  <2>1. NotMapped(b)' = {d \in 1..created : kind[d] = "map" /\ target[d] = b /\ Unmade(d)' /\ ~Appending(d)'}
    BY <1>1, NotMappedDefNext
  <2>2. NotMapped(b) = {d \in 1..created : kind[d] = "map" /\ target[d] = b /\ Unmade(d) /\ ~Appending(d)}
    BY NotMappedDef
  <2> QED BY <1>3, <1>4, <1>5, <2>1, <2>2
<1>7. c \in NotMapped(B)
  BY <1>1, <1>2, <1>3, <1>4, NotMappedDef
<1>8. map_count'[B] = map_count[B] + 1 /\ \A b \in Buffers : b # B => map_count'[b] = map_count[b]
  BY <1>0, <1>1, <1>3
<1>9. ASSUME NEW b \in Buffers PROVE Balanced(b)'
  <2>1. Balanced(b)
    BY <1>0, MapCountedDef
  <2>2. CASE b = B
    <3>1. Cardinality(NotMapped(b)') = Cardinality(NotMapped(b)) - 1 /\ Cardinality(NotMapped(b)) \in Nat
      BY <1>0, <1>6, <1>7, <2>2, NotMappedFinite, Shrunk
    <3>2. map_count[b] \in Int
      BY <1>0
    <3>3. refs[b] > 0 => Len(mappings[b]) = map_count[b] + Cardinality(NotMapped(b))
      BY <2>1 DEF Balanced
    <3>4. refs[b] > 0 => Len(mappings[b]) = map_count'[b] + Cardinality(NotMapped(b)')
      BY <1>8, <2>2, <3>1, <3>2, <3>3
    <3> QED BY <1>1, <3>4 DEF Balanced
  <2>3. CASE b # B
    BY <1>1, <1>6, <1>8, <2>1, <2>3 DEF Balanced
  <2> QED BY <2>2, <2>3
<1> QED BY <1>9, MapCountedNext

LEMMA MapCountedUnmap ==
  ASSUME IInv, NEW c \in Command, ExecUnmap(c)
  PROVE  MapCounted'
<1>0. /\ TypeOK /\ MapCounted /\ 1..created \subseteq Command /\ created \in Nat
      /\ mappings \in [Buffers -> Seq(Command)] /\ map_count \in [Buffers -> Int]
      /\ state \in [Command -> {"none", "queued", "executed", "done", "failed"}]
  BY Parts DEF TypeOK
<1>1. PICK L : L = Without(mappings[target[c]], mapping[c])
  OBVIOUS
<1>2. /\ state[c] = "queued" /\ kind[c] = "unmap" /\ mappings' = [mappings EXCEPT ![target[c]] = L]
      /\ Len(L) = Len(mappings[target[c]]) - 1
  BY <1>1, ExecUnmapFacts
<1>3. PICK B \in Buffers : B = target[c]
  BY <1>2, CommandFacts
<1>4. /\ state' = [state EXCEPT ![c] = "executed"] /\ map_count' = [map_count EXCEPT ![target[c]] = @ - 1]
      /\ UNCHANGED <<created, kind, target, refs, cur, pc>>
  BY DEF ExecUnmap, cmdVars
<1>5. \A d : (d # c => (Unmade(d)' <=> Unmade(d))) /\ (Appending(d)' <=> Appending(d))
  BY <1>0, <1>4 DEF Unmade, Appending
<1>6. \A b : NotMapped(b)' = NotMapped(b)
  BY <1>2, <1>4, <1>5, NotMappedSame
<1>7. /\ map_count'[B] = map_count[B] - 1 /\ mappings'[B] = L
      /\ \A b \in Buffers : b # B => map_count'[b] = map_count[b] /\ mappings'[b] = mappings[b]
  BY <1>0, <1>2, <1>3, <1>4
<1>8. ASSUME NEW b \in Buffers PROVE Balanced(b)'
  <2>1. Balanced(b)
    BY <1>0, MapCountedDef
  <2>2. CASE b = B
    <3>1. Cardinality(NotMapped(b)) \in Nat /\ map_count[b] \in Int
      BY <1>0, NotMappedFinite
    <3>2. refs[b] > 0 => Len(mappings[b]) = map_count[b] + Cardinality(NotMapped(b))
      BY <2>1 DEF Balanced
    <3>3. refs[b] > 0 => Len(L) = map_count'[b] + Cardinality(NotMapped(b))
      BY <1>2, <1>3, <1>7, <2>2, <3>1, <3>2
    <3> QED BY <1>4, <1>6, <1>7, <2>2, <3>3 DEF Balanced
  <2>3. CASE b # B
    BY <1>4, <1>6, <1>7, <2>1, <2>3 DEF Balanced
  <2> QED BY <2>2, <2>3
<1> QED BY <1>8, MapCountedNext
LEMMA MapCountedStep ==
  ASSUME IInv, [Next]_vars
  PROVE  MapCounted'
<1>0. /\ TypeOK /\ Family /\ Lists /\ Calls /\ Commands /\ MapCounted /\ 1..created \subseteq Command
      /\ pc \in [Threads -> {"idle", "append", "retain", "enqueue"}]
      /\ state \in [Command -> {"none", "queued", "executed", "done", "failed"}]
      /\ refs \in [Buffers -> Int] /\ parent \in [Buffers -> Buffers \cup {None}]
      /\ owned \subseteq born /\ born \subseteq Buffers
  BY Parts DEF TypeOK
<1>k. /\ \A b \in owned : refs[b] >= 1 /\ refs[Target(b)] >= 1
      /\ \A c \in 1..created : ~Ended(c) => refs[target[c]] >= 1
  BY Parts, Kept DEF AllKept
<1>1. ASSUME NEW b \in Buffers, b \notin born, refs'[b] = 1,
             \A x \in Buffers : x # b /\ refs'[x] > 0 => refs[x] > 0,
             UNCHANGED <<mappings, map_count, cmdVars, state, pc, cur>>
      PROVE  MapCounted'
  <2>1. \A x : NotMapped(x)' = NotMapped(x)
    BY <1>1 DEF NotMapped, cmdVars
  <2>2. mappings[b] = <<>> /\ map_count[b] = 0
    BY <1>0, <1>1 DEF Family
  <2>3. NotMapped(b) = {}
    BY <1>0, <1>1 DEF NotMapped, Commands
  <2>4. ASSUME NEW x \in Buffers PROVE Balanced(x)'
    <3>1. CASE x = b
      <4>1. Len(mappings[b]) = 0 /\ Cardinality(NotMapped(b)) = 0
        BY <2>2, <2>3, FS_EmptySet
      <4> QED BY <1>1, <2>1, <2>2, <3>1, <4>1 DEF Balanced
    <3>2. CASE x # b
      <4>1. Balanced(x)
        BY <1>0, MapCountedDef
      <4> QED BY <1>1, <2>1, <3>2, <4>1 DEF Balanced
    <3> QED BY <3>1, <3>2
  <2> QED BY <2>4, MapCountedNext
<1>2. ASSUME NEW t \in Threads, NEW b \in Buffers, CreateBuffer(t, b) PROVE MapCounted'
  <2>1. \A x \in Buffers : x # b => refs'[x] = refs[x]
    BY <1>0, <1>2 DEF CreateBuffer
  <2>2. refs'[b] = 1
    BY <1>0, <1>2 DEF CreateBuffer
  <2> QED BY <1>1, <1>2, <2>1, <2>2 DEF CreateBuffer
<1>3. ASSUME NEW t \in Threads, NEW b \in Buffers, NEW p \in Buffers, CreateSubBuffer(t, b, p) PROVE MapCounted'
  <2>1. refs[p] > 0
    <3>1. refs[p] >= 1 /\ refs[p] \in Int
      BY <1>0, <1>3, <1>k DEF CreateSubBuffer
    <3> QED BY <3>1
  <2>2. \A x \in Buffers : x # b /\ x # p => refs'[x] = refs[x]
    BY <1>0, <1>3 DEF CreateSubBuffer, ParentRetained
  <2>3. refs'[b] = 1
    BY <1>0, <1>3 DEF CreateSubBuffer, ParentRetained
  <2> QED BY <1>1, <1>3, <2>1, <2>2, <2>3 DEF CreateSubBuffer
<1>4. ASSUME NEW t \in Threads, NEW b \in Buffers, ReleaseBuffer(t, b) PROVE MapCounted'
  <2>1. DropMem(b) /\ UNCHANGED <<map_count, cmdVars, state, pc, cur>>
    BY <1>4 DEF ReleaseBuffer
  <2>2. \A x : NotMapped(x)' = NotMapped(x)
    BY <2>1 DEF NotMapped, cmdVars
  <2> QED BY <1>0, <2>1, <2>2, BalancedDrop
<1>5. ASSUME NEW t \in Threads, NEW b \in Buffers, NEW p \in Pointers, MapBuffer(t, b, p) PROVE MapCounted'
  <2>1. /\ NewCommand(t, "map", b, created + 1, NoCommand) /\ refs' = [refs EXCEPT ![Target(b)] = @ + 1]
        /\ pc[t] = "idle" /\ pc' = [pc EXCEPT ![t] = "append"] /\ b \in owned
        /\ UNCHANGED <<mappings, map_count, state>>
    BY <1>5 DEF MapBuffer, Goto
  <2>2. created + 1 \in Command
    BY <2>1, Parts, Numbers DEF NewCommand
  <2>n. PICK n : n = created'
    OBVIOUS
  <2>B. PICK B \in Buffers : B = Target(b)
    BY <1>0, TargetType
  <2>3. /\ n \in Command /\ n \notin 1..created /\ 1..n = 1..created \cup {n}
        /\ kind' = [kind EXCEPT ![n] = "map"] /\ target' = [target EXCEPT ![n] = B]
        /\ cur' = [cur EXCEPT ![t] = n]
    BY <1>0, <2>1, <2>2, <2>n, <2>B, NewFacts
  <2>4a. PICK l : l = "append"
    OBVIOUS
  <2>4b. PICK k : k = "map"
    OBVIOUS
  <2>4. l = "append" /\ k = "map"
    BY <2>4a, <2>4b
  <2>5. \A x : NotMapped(x)' = NotMapped(x)
    BY <2>1, <2>3, <2>4, <2>n, NotMappedNew
  <2>6. \A x \in Buffers : refs'[x] > 0 => refs[x] > 0
    <3>1. refs[B] >= 1 /\ refs[B] \in Int
      BY <1>0, <1>k, <2>1, <2>B
    <3>2. \A x \in Buffers : x # B => refs'[x] = refs[x]
      BY <1>0, <2>1, <2>B
    <3> QED BY <3>1, <3>2
  <2> QED BY <1>0, <2>1, <2>5, <2>6, BalancedSame
<1>6. ASSUME NEW t \in Threads, NEW b \in Buffers, NEW m \in Command, UnmapMemObject(t, b, m) PROVE MapCounted'
  <2>1. PICK h \in Command : /\ NewCommand(t, "unmap", b, h, m)
                             /\ pc[t] = "idle" /\ pc' = [pc EXCEPT ![t] = "retain"]
    BY <1>0, <1>6, UnmapFacts
  <2>2. UNCHANGED <<refs, mappings, map_count, state>>
    BY <1>6 DEF UnmapMemObject, bufVars
  <2>n. PICK n : n = created'
    OBVIOUS
  <2>B. PICK B \in Buffers : B = Target(b)
    BY <1>0, TargetType
  <2>3. /\ n \in Command /\ n \notin 1..created /\ 1..n = 1..created \cup {n}
        /\ kind' = [kind EXCEPT ![n] = "unmap"] /\ target' = [target EXCEPT ![n] = B]
        /\ cur' = [cur EXCEPT ![t] = n]
    BY <1>0, <2>1, <2>n, <2>B, NewFacts
  <2>4a. PICK l : l = "retain"
    OBVIOUS
  <2>4b. PICK k : k = "unmap"
    OBVIOUS
  <2>4. l = "retain" /\ k = "unmap"
    BY <2>4a, <2>4b
  <2>5. k # "map"
    BY <2>4
  <2>6. \A x : NotMapped(x)' = NotMapped(x)
    BY <2>1, <2>2, <2>3, <2>4, <2>5, <2>n, NotMappedNew
  <2> QED BY <1>0, <2>2, <2>6, BalancedSame
<1>7. ASSUME NEW t \in Threads, RetainTarget(t) \/ Enqueue(t) PROVE MapCounted'
  <2>1. /\ pc[t] \in {"retain", "enqueue"} /\ \E l \in {"enqueue", "idle"} : pc' = [pc EXCEPT ![t] = l]
        /\ UNCHANGED <<created, kind, target, mappings, map_count, cur>>
    BY <1>7 DEF RetainTarget, Enqueue, Goto, bufVars, cmdVars
  <2>2. \A c : Appending(c)' <=> Appending(c)
    <3>1. \A u \in Threads : pc'[u] = "append" <=> pc[u] = "append"
      BY <1>0, <2>1
    <3> QED BY <2>1, <3>1 DEF Appending
  <2>3. PICK c \in 1..created : c = cur[t] /\ state[c] = "none"
    BY <1>0, <2>1 DEF Calls
  <2>4. \A d \in 1..created : Unmade(d)' <=> Unmade(d)
    <3>1. CASE RetainTarget(t)
      BY <3>1 DEF RetainTarget, Unmade
    <3>2. CASE Enqueue(t)
      <4>1. state' = [state EXCEPT ![c] = "queued"]
        BY <2>3, <3>2 DEF Enqueue
      <4> QED BY <1>0, <2>3, <4>1 DEF Unmade
    <3> QED BY <1>7, <3>1, <3>2
  <2>5. \A x : NotMapped(x)' = NotMapped(x)
    BY <2>1, <2>2, <2>4, NotMappedSame
  <2>6. \A x \in Buffers : refs'[x] > 0 => refs[x] > 0
    <3>1. CASE RetainTarget(t)
      <4>1. PICK B \in Buffers : B = target[c]
        BY <1>0 DEF Commands
      <4>2. refs' = [refs EXCEPT ![B] = @ + 1]
        BY <2>3, <3>1, <4>1 DEF RetainTarget
      <4>3. refs[B] >= 1 /\ refs[B] \in Int
        BY <1>0, <1>k, <2>3, <4>1 DEF Ended
      <4>4. \A x \in Buffers : x # B => refs'[x] = refs[x]
        BY <1>0, <4>2
      <4> QED BY <4>3, <4>4
    <3>2. CASE Enqueue(t)
      BY <3>2 DEF Enqueue, bufVars
    <3> QED BY <1>7, <3>1, <3>2
  <2> QED BY <1>0, <2>1, <2>5, <2>6, BalancedSame
<1>8. ASSUME NEW c \in Command, Finish(c) \/ Fail(c) PROVE MapCounted'
  <2>1. state[c] # "none" /\ DropMem(target[c]) /\ UNCHANGED <<map_count, created, kind, target, cur, pc>>
    BY <1>8 DEF Finish, Fail, cmdVars
  <2>2. PICK B \in Buffers : B = target[c] /\ DropMem(B)
    BY <2>1, CommandFacts
  <2>3. \A d : Appending(d)' <=> Appending(d)
    BY <2>1 DEF Appending
  <2>4. \A d \in 1..created : Unmade(d)' <=> Unmade(d)
    <3>1. \/ state[c] = "executed" /\ state' = [state EXCEPT ![c] = "done"]
          \/ state[c] = "queued" /\ state' = [state EXCEPT ![c] = "failed"]
      BY <1>8 DEF Finish, Fail
    <3> QED BY <1>0, <3>1 DEF Unmade
  <2>5. \A x : NotMapped(x)' = NotMapped(x)
    BY <2>1, <2>3, <2>4, NotMappedSame
  <2> QED BY <1>0, <2>1, <2>2, <2>5, BalancedDrop
<1>9. ASSUME UNCHANGED vars PROVE MapCounted'
  <2>1. UNCHANGED <<refs, mappings, map_count, created, kind, target, state, pc, cur>>
    BY <1>9 DEF vars, bufVars, cmdVars
  <2>2. \A x : NotMapped(x)' = NotMapped(x)
    BY <2>1 DEF NotMapped
  <2> QED BY <1>0, <2>1, <2>2, BalancedSame
<1> QED BY <1>2, <1>3, <1>4, <1>5, <1>6, <1>7, <1>8, <1>9, MapCountedAppend, MapCountedMap, MapCountedUnmap
    DEF Next, CallStep, RunStep, AppStep
-----------------------------------------------------------------------------
(* The theorems *)

LEMMA InitIInv == Init => IInv
<1> SUFFICES ASSUME Init PROVE IInv
  OBVIOUS
<1>1. created = 0 /\ owned = {} /\ born = {} /\ undone = {} /\ 1..created = {}
  BY DEF Init
<1>2. TypeOK
  <2>1. created \in 0..MaxCommands
    BY <1>1, Numbers
  <2>2. <<>> \in Seq(Command) /\ IsFiniteSet({})
    BY FS_EmptySet
  <2>3. mappings \in [Buffers -> Seq(Command)] /\ IsFiniteSet(born)
    BY <1>1, <2>2 DEF Init
  <2> QED BY <2>1, <2>3 DEF Init, TypeOK
<1>3. Family
  BY DEF Init, Family
<1>4. Calls
  BY DEF Init, Calls
<1>5. Commands
  BY <1>1 DEF Init, Commands
<1>6. Lists
  BY <1>1 DEF Init, Lists, Listing
<1>7. Paired
  BY <1>1 DEF Init, Paired, Pending
<1>8. \A b \in Buffers : Holding(b) = {} /\ NotMapped(b) = {} /\ Subs(b) = {} /\ {b} \cap owned = {}
  BY <1>1 DEF Init, Holding, NotMapped, Subs
<1>9. RefsCounted
  <2>1. \A b \in Buffers : refs[b] = 0
    BY DEF Init
  <2>2. \A b \in Buffers : Counted(b)
    BY <1>8, <2>1, FS_EmptySet DEF Counted, Users
  <2> QED BY <2>2, CountedDef
<1>10. MapCounted
  <2>1. \A b \in Buffers : refs[b] = 0
    BY DEF Init
  <2> QED BY <2>1 DEF MapCounted
<1> QED BY <1>2, <1>3, <1>4, <1>5, <1>6, <1>7, <1>9, <1>10 DEF IInv

LEMMA StepIInv == IInv /\ [Next]_vars => IInv'
<1> SUFFICES ASSUME IInv, [Next]_vars PROVE IInv'
  OBVIOUS
<1>1. TypeOK' /\ Family'
  BY TypeStep, FamilyStep
<1>2. Calls' /\ Commands' /\ RefsCounted'
  BY <1>1, CallsStep, CommandsStep, RefsStep
<1>3. AllKept'
  BY <1>1, <1>2, KeptNext
<1>4. Lists' /\ (~SamePointer => Paired')
  BY <1>3, ListsStep, PairedStep
<1>5. MapCounted'
  BY MapCountedStep
<1> QED BY <1>1, <1>2, <1>4, <1>5 DEF IInv

\* The inductive invariant holds in every state: commands that are created,
\* executed, finished or failed by any number of threads keep the counts, lists
\* and counters of the buffers in step.
THEOREM Invariance == Spec => []IInv
<1>1. Init => IInv
  BY InitIInv
<1>2. IInv /\ [Next]_vars => IInv'
  BY StepIInv
<1> QED BY <1>1, <1>2, PTL DEF Spec

\* Variables have the values they are declared for.
THEOREM TypeCorrect == Spec => []TypeOK
<1>1. IInv => TypeOK
  BY DEF IInv
<1> QED BY <1>1, Invariance, PTL

\* pocl_refcount of a buffer is always the application's reference, the
\* commands that have not ended and the sub-buffers that are not freed.
THEOREM ReferencesCounted == Spec => []RefsCounted
<1>1. IInv => RefsCounted
  BY DEF IInv
<1> QED BY <1>1, Invariance, PTL

\* map_count and the list of a buffer that is not freed agree, but for the
\* mappings whose command has not been executed.
THEOREM MapsCounted == Spec => []MapCounted
<1>1. IInv => MapCounted
  BY DEF IInv
<1> QED BY <1>1, Invariance, PTL

\* If an address is unmapped before it is mapped again, no command and no list
\* points to a mapping that has been freed, and no two commands unmap the same.
THEOREM MappingsAlive == ~SamePointer => (Spec => []MappingAlive)
<1> SUFFICES ASSUME ~SamePointer PROVE Spec => []MappingAlive
  OBVIOUS
<1>1. ASSUME IInv PROVE MappingAlive
  <2>1. TypeOK /\ Lists /\ Commands /\ Paired
    BY <1>1, Parts DEF IInv
  <2>2. ASSUME NEW c \in Pending PROVE alive[mapping[c]]
    <3>1. c \in 1..created /\ kind[c] \in {"map", "unmap"}
      BY <2>1 DEF Pending, Commands
    <3>2. CASE kind[c] = "map"
      BY <2>1, <3>1, <3>2 DEF Paired, Commands
    <3>3. CASE kind[c] = "unmap"
      <4>1. Contains(mappings[target[c]], mapping[c]) /\ target[c] \in Buffers
        BY <2>1, <3>1, <3>3 DEF Lists, Commands, TypeOK
      <4> QED BY <2>1, <4>1, Listed
    <3> QED BY <3>1, <3>2, <3>3
  <2>3. \A c, d \in 1..created : kind[c] = "unmap" /\ kind[d] = "unmap" /\ mapping[c] = mapping[d] => c = d
    BY <2>1 DEF Lists
  <2>4. \A b \in Buffers : \A i \in DOMAIN mappings[b] : alive[mappings[b][i]]
    BY <2>1 DEF Lists, Listing
  <2> QED BY <2>2, <2>3, <2>4 DEF MappingAlive
<1>2. IInv => MappingAlive
  BY <1>1
<1> QED BY <1>2, Invariance, PTL
=============================================================================
