----------------------- MODULE EventCallbacks_proofs -----------------------
(***************************************************************************)
(* Proofs that callbacks are called once, in their order and in the status *)
(* they wait for, and that pocl_event_updated keeps to its locking rule:   *)
(* for any number of threads, events and callbacks, and whatever the       *)
(* callbacks call; and that callbacks which keep to their own event never  *)
(* make threads wait for each other in a circle.                           *)
(***************************************************************************)
EXTENDS EventCallbacksInv, WellFoundedInduction, TLAPS

\* A set of natural numbers has a least element.
LEMMA Smallest ==
  ASSUME NEW S \in SUBSET Nat, S # {}
  PROVE  \E m \in S : \A k \in S : m <= k
<1>1. PICK R : R = OpToRel(<, Nat)
  OBVIOUS
<1>2. \A a, b \in Nat : <<a, b>> \in R <=> a < b
  BY <1>1 DEF OpToRel
<1>3. IsWellFoundedOn(R, Nat)
  BY <1>1, NatLessThanWellFounded
<1>4. PICK m \in S : \A k \in S : ~(<<k, m>> \in R)
  BY <1>3, WFMin
<1>5. \A k \in S : m <= k
  <2> TAKE k \in S
  <2>1. k \in Nat /\ m \in Nat /\ ~(<<k, m>> \in R)
    BY <1>4
  <2>2. ~(k < m)
    BY <1>2, <2>1
  <2> QED BY <2>1, <2>2
<1> QED BY <1>5

-----------------------------------------------------------------------------
(* Stacks *)

LEMMA PushedFacts ==
  ASSUME NEW S, NEW s \in Seq(S), NEW T, NEW fs \in Seq(T), NEW q, q = fs \o s
  PROVE  /\ q \in Seq(S \cup T) /\ Len(q) = Len(fs) + Len(s)
         /\ \A i \in 1..Len(fs) : q[i] = fs[i]
         /\ \A i \in 1..Len(s) : q[Len(fs) + i] = s[i]
<1>1. s \in Seq(S \cup T) /\ fs \in Seq(S \cup T)
  OBVIOUS
<1>2. q \in Seq(S \cup T) /\ Len(q) = Len(fs) + Len(s)
  BY <1>1
<1>3. \A i \in 1..Len(fs) : q[i] = fs[i]
  BY <1>1
<1>4. \A i \in 1..Len(s) : q[Len(fs) + i] = s[i]
  <2> TAKE i \in 1..Len(s)
  <2>1. Len(fs) \in Nat /\ Len(s) \in Nat
    BY <1>1
  <2>2. Len(fs) + i \in 1..(Len(fs) + Len(s)) /\ ~(Len(fs) + i <= Len(fs)) /\ (Len(fs) + i) - Len(fs) = i
    BY <2>1
  <2> QED BY <1>1, <2>2
<1> QED BY <1>2, <1>3, <1>4

LEMMA TailFacts ==
  ASSUME NEW S, NEW s \in Seq(S), s # <<>>
  PROVE  /\ Tail(s) \in Seq(S) /\ Len(Tail(s)) = Len(s) - 1 /\ Len(s) \in Nat /\ Len(s) >= 1
         /\ \A i \in 1..Len(s) - 1 : Tail(s)[i] = s[i + 1]
         /\ Head(s) = s[1]
OBVIOUS

LEMMA OwnSeq ==
  ASSUME NEW S, NEW q \in Seq(S)
  PROVE  q \in Seq({q[i] : i \in DOMAIN q})
<1>1. Len(q) \in Nat /\ DOMAIN q = 1..Len(q) /\ q = [i \in 1..Len(q) |-> q[i]]
  OBVIOUS
<1>2. \A i \in 1..Len(q) : q[i] \in {q[j] : j \in DOMAIN q}
  BY <1>1
<1> QED BY <1>1, <1>2

\* The d frames on top of the stack of t are replaced by fs.
Changed(t, fs, d) ==
  /\ Stacked'
  /\ \A u \in Thread : u # t => stack'[u] = stack[u]
  /\ Len(stack'[t]) = Len(fs) + Len(stack[t]) - d
  /\ \A i \in 1..Len(fs) : stack'[t][i] = fs[i]
  /\ \A i \in 1..Len(stack[t]) : i > d => stack'[t][i - d + Len(fs)] = stack[t][i]

LEMMA SpotFacts ==
  ASSUME Stacked, NEW t \in Thread
  PROVE  /\ Len(stack[t]) \in Nat /\ DOMAIN stack[t] = 1..Len(stack[t])
         /\ stack[t] \in Seq(Frames(t))
BY DEF Stacked

LEMMA SpotFactsNext ==
  ASSUME Stacked', NEW t \in Thread
  PROVE  /\ Len(stack'[t]) \in Nat /\ DOMAIN stack'[t] = 1..Len(stack'[t])
         /\ stack'[t] \in Seq(Frames(t)')
<1>1. stack'[t] \in Seq(Frames(t)')
  BY DEF Stacked
<1>2a. PICK S : S = Frames(t)'
  OBVIOUS
<1>2b. PICK q : q = stack'[t]
  OBVIOUS
<1>2. S = Frames(t)' /\ q = stack'[t] /\ q \in Seq(S)
  BY <1>1, <1>2a, <1>2b
<1> QED BY <1>2

LEMMA ChangedStacked ==
  ASSUME Stacked, NEW t \in Thread, NEW T, NEW q \in Seq(T), stack' = [stack EXCEPT ![t] = q]
  PROVE  Stacked' /\ stack'[t] = q /\ \A u \in Thread : u # t => stack'[u] = stack[u]
<1>1. /\ stack' = [u \in Thread |-> stack'[u]] /\ stack'[t] = q
      /\ \A u \in Thread : u # t => stack'[u] = stack[u]
  BY DEF Stacked
<1>2. ASSUME NEW u \in Thread PROVE stack'[u] \in Seq({stack'[u][i] : i \in DOMAIN stack'[u]})
  <2>1. CASE u = t
    BY <1>1, <2>1, OwnSeq
  <2>2. CASE u # t
    <3>1. stack'[u] = stack[u] /\ stack[u] \in Seq(Frames(u))
      BY <1>1, <2>2, SpotFacts
    <3> QED BY <3>1, OwnSeq
  <2> QED BY <2>1, <2>2
<1> QED BY <1>1, <1>2 DEF Stacked, Frames

LEMMA Replaced ==
  ASSUME Stacked, NEW t \in Thread, stack[t] # <<>>, NEW T, NEW fs \in Seq(T),
         stack' = [stack EXCEPT ![t] = fs \o Tail(stack[t])]
  PROVE  Changed(t, fs, 1)
<1>1a. PICK s \in Seq(Frames(t)) : \E q : s = stack[t] /\ q = fs \o Tail(s) /\ s # <<>>
  BY SpotFacts
<1>1. PICK q : s = stack[t] /\ q = fs \o Tail(s) /\ s # <<>>
  BY <1>1a
<1>2. /\ Tail(s) \in Seq(Frames(t)) /\ Len(Tail(s)) = Len(s) - 1 /\ Len(s) \in Nat /\ Len(s) >= 1
      /\ \A i \in 1..Len(s) - 1 : Tail(s)[i] = s[i + 1]
  BY <1>1, TailFacts
<1>3. PICK r : r = Tail(s)
  OBVIOUS
<1>4. /\ q \in Seq(Frames(t) \cup T) /\ Len(q) = Len(fs) + Len(r)
      /\ \A i \in 1..Len(fs) : q[i] = fs[i]
      /\ \A i \in 1..Len(r) : q[Len(fs) + i] = r[i]
  <2>1. r \in Seq(Frames(t)) /\ q = fs \o r
    BY <1>1, <1>2, <1>3
  <2> QED BY <2>1, PushedFacts
<1>5. Stacked' /\ stack'[t] = q /\ \A u \in Thread : u # t => stack'[u] = stack[u]
  <2>1. stack' = [stack EXCEPT ![t] = q]
    BY <1>1
  <2> QED BY <1>4, <2>1, ChangedStacked
<1>6. PICK m \in Nat, n \in Nat : m = Len(fs) /\ n = Len(s) /\ n >= 1 /\ Len(r) = n - 1
  <2>1. Len(fs) \in Nat
    OBVIOUS
  <2>2. Len(r) = Len(s) - 1
    BY <1>2, <1>3
  <2> QED BY <1>2, <2>1, <2>2
<1>7. \A i \in 1..Len(s) : i > 1 => q[i - 1 + Len(fs)] = s[i]
  <2> SUFFICES ASSUME NEW i \in 1..n, i > 1 PROVE q[i - 1 + m] = s[i]
    BY <1>6
  <2>1. i - 1 \in 1..n - 1 /\ (i - 1) + 1 = i /\ i - 1 + m = m + (i - 1)
    BY <1>6
  <2>2. q[m + (i - 1)] = r[i - 1]
    BY <1>4, <1>6, <2>1
  <2>3. r[i - 1] = s[(i - 1) + 1]
    BY <1>2, <1>3, <1>6, <2>1
  <2> QED BY <2>1, <2>2, <2>3
<1>8. Len(q) = Len(fs) + Len(s) - 1
  BY <1>4, <1>6
<1> QED BY <1>1, <1>4, <1>5, <1>7, <1>8 DEF Changed

LEMMA Entered ==
  ASSUME Stacked, NEW t \in Thread, NEW T, NEW fs \in Seq(T),
         stack' = [stack EXCEPT ![t] = fs \o stack[t]]
  PROVE  Changed(t, fs, 0)
<1>1a. PICK s \in Seq(Frames(t)) : \E q : s = stack[t] /\ q = fs \o s
  BY SpotFacts
<1>1. PICK q : s = stack[t] /\ q = fs \o s
  BY <1>1a
<1>2. /\ q \in Seq(Frames(t) \cup T) /\ Len(q) = Len(fs) + Len(s)
      /\ \A i \in 1..Len(fs) : q[i] = fs[i]
      /\ \A i \in 1..Len(s) : q[Len(fs) + i] = s[i]
  BY <1>1, PushedFacts
<1>3. Stacked' /\ stack'[t] = q /\ \A u \in Thread : u # t => stack'[u] = stack[u]
  <2>1. stack' = [stack EXCEPT ![t] = q]
    BY <1>1
  <2> QED BY <1>2, <2>1, ChangedStacked
<1>4. Len(fs) \in Nat /\ Len(s) \in Nat
  BY <1>1
<1>5. \A i \in 1..Len(s) : q[i - 0 + Len(fs)] = s[i]
  <2> TAKE i \in 1..Len(s)
  <2>1. i - 0 + Len(fs) = Len(fs) + i
    BY <1>4
  <2> QED BY <1>2, <2>1
<1>6. Len(q) = Len(fs) + Len(s) - 0
  BY <1>2, <1>4
<1> QED BY <1>1, <1>2, <1>3, <1>5, <1>6 DEF Changed

LEMMA NotChanged ==
  ASSUME Stacked, NEW t \in Thread, UNCHANGED stack
  PROVE  Changed(t, <<>>, 0)
<1>1. Stacked'
  BY DEF Stacked, Frames
<1>2. Len(stack[t]) \in Nat
  BY SpotFacts
<1>3. PICK fs : fs = <<>>
  OBVIOUS
<1>4. Len(fs) = 0
  BY <1>3
<1>5. Changed(t, fs, 0)
  <2>1. \A i \in 1..Len(stack[t]) : i - 0 + Len(fs) = i
    BY <1>2, <1>4
  <2>2. Len(stack[t]) = Len(fs) + Len(stack[t]) - 0
    BY <1>2, <1>4
  <2>3. 1..Len(fs) = {}
    BY <1>4
  <2> QED BY <1>1, <2>1, <2>2, <2>3 DEF Changed
<1> QED BY <1>3, <1>5

\* Frames that stay, and where they are afterwards.
Kept(t, d, u, i) == i \in DOMAIN stack[u] /\ (u = t => i > d)
Place(t, fs, d, u, i) == IF u = t THEN i - d + Len(fs) ELSE i

LEMMA KeptFacts ==
  ASSUME Stacked, NEW t \in Thread, NEW T, NEW fs \in Seq(T), NEW d \in {0, 1}, d <= Len(stack[t]),
         Changed(t, fs, d), NEW u \in Thread, NEW i, Kept(t, d, u, i)
  PROVE  /\ Place(t, fs, d, u, i) \in DOMAIN stack'[u]
         /\ stack'[u][Place(t, fs, d, u, i)] = stack[u][i]
         /\ i \in Nat /\ Place(t, fs, d, u, i) \in Nat
         /\ u = t => Place(t, fs, d, u, i) > Len(fs)
<1>1. PICK m \in Nat, n \in Nat : m = Len(fs) /\ n = Len(stack[u]) /\ DOMAIN stack[u] = 1..n
  BY SpotFacts
<1>2. PICK k \in Nat : k = Len(stack'[u]) /\ DOMAIN stack'[u] = 1..k
  <2>1. Stacked'
    BY DEF Changed
  <2> QED BY <2>1, SpotFactsNext
<1>3. i \in 1..n /\ (u = t => i > d)
  BY <1>1 DEF Kept
<1>4. CASE u = t
  <2>1. k = m + n - d /\ stack'[u][i - d + m] = stack[u][i]
    BY <1>1, <1>2, <1>3, <1>4 DEF Changed
  <2>2. i - d + m \in 1..k /\ i - d + m > m
    BY <1>3, <1>4, <2>1
  <2> QED BY <1>1, <1>2, <1>3, <1>4, <2>1, <2>2 DEF Place
<1>5. CASE u # t
  <2>1. stack'[u] = stack[u]
    BY <1>5 DEF Changed
  <2> QED BY <1>1, <1>3, <1>5, <2>1 DEF Place
<1> QED BY <1>4, <1>5

LEMMA Origin ==
  ASSUME Stacked, NEW t \in Thread, NEW T, NEW fs \in Seq(T), NEW d \in {0, 1}, d <= Len(stack[t]),
         Changed(t, fs, d), NEW u \in Thread, NEW p \in DOMAIN stack'[u]
  PROVE  \/ u = t /\ p \in 1..Len(fs) /\ stack'[u][p] = fs[p]
         \/ \E i \in DOMAIN stack[u] : Kept(t, d, u, i) /\ p = Place(t, fs, d, u, i) /\ stack'[u][p] = stack[u][i]
<1>1. PICK m \in Nat, n \in Nat : m = Len(fs) /\ n = Len(stack[u]) /\ DOMAIN stack[u] = 1..n
  BY SpotFacts
<1>2. PICK k \in Nat : k = Len(stack'[u]) /\ DOMAIN stack'[u] = 1..k
  <2>1. Stacked'
    BY DEF Changed
  <2> QED BY <2>1, SpotFactsNext
<1>3. CASE u = t
  <2>1. k = m + n - d /\ (p \in 1..m => stack'[u][p] = fs[p])
    BY <1>1, <1>2, <1>3 DEF Changed
  <2>2. CASE p \in 1..m
    BY <1>1, <1>3, <2>1, <2>2
  <2>3. CASE p \notin 1..m
    <3>1. PICK i \in 1..n : i = p - m + d /\ i > d /\ p = i - d + m
      <4>1. p \in 1..k /\ p > m
        BY <1>2, <2>3
      <4>2. p - m + d \in 1..n /\ p - m + d > d /\ p = (p - m + d) - d + m
        BY <2>1, <4>1
      <4> QED BY <4>2
    <3>2. stack'[u][p] = stack[u][i]
      BY <1>1, <1>3, <3>1 DEF Changed
    <3>3. Kept(t, d, u, i) /\ p = Place(t, fs, d, u, i) /\ i \in DOMAIN stack[u]
      BY <1>1, <1>3, <3>1 DEF Kept, Place
    <3> QED BY <3>2, <3>3
  <2> QED BY <2>2, <2>3
<1>4. CASE u # t
  <2>1. stack'[u] = stack[u]
    BY <1>4 DEF Changed
  <2> QED BY <1>4, <2>1 DEF Kept, Place
<1> QED BY <1>3, <1>4
\* Such a step of thread t.
Step(t, fs, d) ==
  /\ Stacked /\ Changed(t, fs, d) /\ d \in {0, 1} /\ d <= Len(stack[t])
  /\ fs \in Seq({fs[i] : i \in DOMAIN fs})
IsKept(t, d, f) == \E u \in Thread : \E i \in DOMAIN stack[u] : Kept(t, d, u, i) /\ f = stack[u][i]

LEMMA StepFacts ==
  ASSUME NEW t \in Thread, NEW fs, NEW d, Step(t, fs, d), NEW u \in Thread, NEW p \in DOMAIN stack'[u]
  PROVE  \/ u = t /\ p \in 1..Len(fs) /\ stack'[u][p] = fs[p]
         \/ \E i \in DOMAIN stack[u] : Kept(t, d, u, i) /\ p = Place(t, fs, d, u, i) /\ stack'[u][p] = stack[u][i]
<1>1. PICK T : fs \in Seq(T)
  BY DEF Step
<1> QED BY <1>1, Origin DEF Step

LEMMA StepKept ==
  ASSUME NEW t \in Thread, NEW fs, NEW d, Step(t, fs, d), NEW u \in Thread, NEW i, Kept(t, d, u, i)
  PROVE  /\ Place(t, fs, d, u, i) \in DOMAIN stack'[u]
         /\ stack'[u][Place(t, fs, d, u, i)] = stack[u][i]
         /\ i \in Nat /\ Place(t, fs, d, u, i) \in Nat
         /\ u = t => Place(t, fs, d, u, i) > Len(fs)
<1>1. PICK T : fs \in Seq(T)
  BY DEF Step
<1> QED BY <1>1, KeptFacts DEF Step

LEMMA StepReplaced ==
  ASSUME Stacked, NEW t \in Thread, stack[t] # <<>>, NEW T, NEW fs \in Seq(T),
         stack' = [stack EXCEPT ![t] = fs \o Tail(stack[t])]
  PROVE  Step(t, fs, 1)
<1>1. Changed(t, fs, 1)
  BY Replaced
<1>2. 1 <= Len(stack[t])
  BY SpotFacts, TailFacts
<1>3. fs \in Seq({fs[i] : i \in DOMAIN fs})
  BY OwnSeq
<1> QED BY <1>1, <1>2, <1>3 DEF Step

LEMMA StepEntered ==
  ASSUME Stacked, NEW t \in Thread, NEW T, NEW fs \in Seq(T),
         stack' = [stack EXCEPT ![t] = fs \o stack[t]]
  PROVE  Step(t, fs, 0)
<1>1. Changed(t, fs, 0)
  BY Entered
<1>2. 0 <= Len(stack[t])
  BY SpotFacts
<1>3. fs \in Seq({fs[i] : i \in DOMAIN fs})
  BY OwnSeq
<1> QED BY <1>1, <1>2, <1>3 DEF Step

LEMMA StepNone ==
  ASSUME Stacked, NEW t \in Thread, UNCHANGED stack
  PROVE  Step(t, <<>>, 0)
<1>1. Changed(t, <<>>, 0)
  BY NotChanged
<1>2. 0 <= Len(stack[t])
  BY SpotFacts
<1>3. PICK fs : fs = <<>>
  OBVIOUS
<1>4. fs \in Seq({})
  BY <1>3
<1>5. fs \in Seq({fs[i] : i \in DOMAIN fs})
  BY <1>4, OwnSeq
<1> QED BY <1>1, <1>2, <1>3, <1>5 DEF Step

\* What may be said of every frame, and of neighbours.
LEMMA MeantKeeps ==
  ASSUME NEW t \in Thread, NEW fs, NEW d, Step(t, fs, d),
         \A f : IsKept(t, d, f) => Meant(f)',
         \A i \in 1..Len(fs) : Meant(fs[i])'
  PROVE  FramesMeant'
<1> SUFFICES ASSUME NEW u \in Thread, NEW p \in DOMAIN stack'[u], NEW f, f = stack'[u][p]
             PROVE  Meant(f)'
  BY DEF FramesMeant
<1>1. CASE u = t /\ p \in 1..Len(fs) /\ stack'[u][p] = fs[p]
  BY <1>1
<1>2. CASE \E i \in DOMAIN stack[u] : Kept(t, d, u, i) /\ p = Place(t, fs, d, u, i) /\ stack'[u][p] = stack[u][i]
  <2>1. IsKept(t, d, f)
    BY <1>2 DEF IsKept
  <2> QED BY <2>1
<1> QED BY <1>1, <1>2, StepFacts

LEMMA SameSymmetric ==
  ASSUME NEW f, NEW g, Same(f, g) PROVE Same(g, f)
BY DEF Same, Walking

LEMMA UniqueKeeps ==
  ASSUME NEW t \in Thread, NEW fs, NEW d, Step(t, fs, d), Unique,
         \A i \in 1..Len(fs) : \A f : IsKept(t, d, f) => ~Same(fs[i], f),
         \A i, k \in 1..Len(fs) : Same(fs[i], fs[k]) => i = k
  PROVE  Unique'
<1> SUFFICES ASSUME NEW u \in Thread, NEW v \in Thread, NEW p \in DOMAIN stack'[u], NEW q \in DOMAIN stack'[v],
                    NEW f, NEW g, f = stack'[u][p], g = stack'[v][q], Same(f, g)
             PROVE  u = v /\ p = q
  BY DEF Unique, Same, Walking
<1>1. \/ u = t /\ p \in 1..Len(fs) /\ stack'[u][p] = fs[p]
      \/ \E i \in DOMAIN stack[u] : Kept(t, d, u, i) /\ p = Place(t, fs, d, u, i) /\ stack'[u][p] = stack[u][i]
  BY StepFacts
<1>2. \/ v = t /\ q \in 1..Len(fs) /\ stack'[v][q] = fs[q]
      \/ \E i \in DOMAIN stack[v] : Kept(t, d, v, i) /\ q = Place(t, fs, d, v, i) /\ stack'[v][q] = stack[v][i]
  BY StepFacts
<1>3. CASE /\ u = t /\ p \in 1..Len(fs) /\ stack'[u][p] = fs[p]
           /\ v = t /\ q \in 1..Len(fs) /\ stack'[v][q] = fs[q]
  BY <1>3
<1>4. CASE /\ u = t /\ p \in 1..Len(fs) /\ stack'[u][p] = fs[p]
           /\ \E i \in DOMAIN stack[v] : Kept(t, d, v, i) /\ q = Place(t, fs, d, v, i) /\ stack'[v][q] = stack[v][i]
  <2>1. IsKept(t, d, g)
    BY <1>4 DEF IsKept
  <2> QED BY <1>4, <2>1
<1>5. CASE /\ \E i \in DOMAIN stack[u] : Kept(t, d, u, i) /\ p = Place(t, fs, d, u, i) /\ stack'[u][p] = stack[u][i]
           /\ v = t /\ q \in 1..Len(fs) /\ stack'[v][q] = fs[q]
  <2>1. IsKept(t, d, f)
    BY <1>5 DEF IsKept
  <2>2. Same(g, f)
    BY SameSymmetric
  <2> QED BY <1>5, <2>1, <2>2
<1>6. CASE /\ \E i \in DOMAIN stack[u] : Kept(t, d, u, i) /\ p = Place(t, fs, d, u, i) /\ stack'[u][p] = stack[u][i]
           /\ \E i \in DOMAIN stack[v] : Kept(t, d, v, i) /\ q = Place(t, fs, d, v, i) /\ stack'[v][q] = stack[v][i]
  <2>1. PICK i \in DOMAIN stack[u] : p = Place(t, fs, d, u, i) /\ f = stack[u][i]
    BY <1>6
  <2>2. PICK j \in DOMAIN stack[v] : q = Place(t, fs, d, v, j) /\ g = stack[v][j]
    BY <1>6
  <2>3. u = v /\ i = j
    BY <2>1, <2>2 DEF Unique
  <2> QED BY <2>1, <2>2, <2>3
<1> QED BY <1>1, <1>2, <1>3, <1>4, <1>5, <1>6

LEMMA ShapeKeeps ==
  ASSUME NEW t \in Thread, NEW fs, NEW d, Step(t, fs, d), Shape,
         \A f, g : IsKept(t, d, f) /\ IsKept(t, d, g) /\ Over(f, g) => Over(f, g)',
         \A f : IsKept(t, d, f) /\ Lowest(f) => Lowest(f)',
         \A i \in 1..Len(fs) : i < Len(fs) => Over(fs[i], fs[i + 1])',
         \A g : Len(fs) >= 1 /\ Len(stack[t]) > d /\ g = stack[t][d + 1] => Over(fs[Len(fs)], g)',
         Len(fs) >= 1 /\ Len(stack[t]) = d => Lowest(fs[Len(fs)])'
  PROVE  Shape'
<1>1. PICK m \in Nat : m = Len(fs) /\ d \in {0, 1} /\ d <= Len(stack[t])
  BY DEF Step
<1>2. Stacked /\ Stacked'
  BY DEF Step, Changed
<1> SUFFICES ASSUME NEW u \in Thread, NEW p \in DOMAIN stack'[u], NEW f, f = stack'[u][p],
                    NEW g, g = stack'[u][p + 1]
             PROVE  /\ p = Len(stack'[u]) => Lowest(f)'
                    /\ p # Len(stack'[u]) => Over(f, g)'
  BY DEF Shape
<1>3. PICK n \in Nat, k \in Nat : n = Len(stack[u]) /\ DOMAIN stack[u] = 1..n /\ k = Len(stack'[u]) /\ DOMAIN stack'[u] = 1..k
  BY <1>2, SpotFacts, SpotFactsNext
<1>4. k = IF u = t THEN m + n - d ELSE n
  BY <1>1, <1>3 DEF Step, Changed
<1>5. \A i \in DOMAIN stack[u] : Kept(t, d, u, i) => IsKept(t, d, stack[u][i])
  BY DEF IsKept
<1>6. CASE u = t /\ p \in 1..Len(fs) /\ stack'[u][p] = fs[p]
  <2>1. p \in 1..m /\ f = fs[p]
    BY <1>1, <1>6
  <2>2. CASE p < m
    <3>1. p + 1 \in 1..m
      BY <1>1, <2>1, <2>2
    <3>2. g = fs[p + 1]
      BY <1>1, <1>6, <3>1 DEF Step, Changed
    <3>3. p # k
      BY <1>1, <1>3, <1>4, <1>6, <2>1, <2>2
    <3> QED BY <1>1, <1>3, <1>6, <2>1, <2>2, <3>2, <3>3
  <2>3. CASE p = m
    <3>1. CASE n = d
      <4>1. p = k
        BY <1>1, <1>4, <1>6, <2>3, <3>1
      <4> QED BY <1>1, <1>3, <1>6, <2>1, <2>3, <3>1, <4>1
    <3>2. CASE n # d
      <4>1. n > d /\ p # k /\ d + 1 \in 1..n /\ d + 1 > d /\ (d + 1) - d + m = p + 1 /\ m >= 1
        <5>1. d \in Nat /\ n \in Nat /\ m \in Nat /\ d <= n /\ k = m + n - d /\ p = m /\ m >= 1 /\ n # d
          BY <1>1, <1>3, <1>4, <1>6, <2>1, <2>3, <3>2
        <5> HIDE <1>1, <1>3, <1>4, <1>6, <2>1, <2>3, <3>2
        <5> QED BY <5>1
      <4>2. stack'[t][(d + 1) - d + m] = stack[t][d + 1]
        BY <1>1, <1>3, <1>6, <4>1 DEF Step, Changed
      <4>3. g = stack[t][d + 1]
        BY <1>6, <4>1, <4>2
      <4> QED BY <1>1, <1>3, <1>6, <2>1, <2>3, <4>1, <4>3
    <3> QED BY <3>1, <3>2
  <2> QED BY <1>1, <2>1, <2>2, <2>3
<1>7. CASE \E i \in DOMAIN stack[u] : Kept(t, d, u, i) /\ p = Place(t, fs, d, u, i) /\ stack'[u][p] = stack[u][i]
  <2>1. PICK i \in 1..n : Kept(t, d, u, i) /\ p = Place(t, fs, d, u, i) /\ f = stack[u][i]
    BY <1>3, <1>7
  <2>2. IsKept(t, d, f)
    BY <1>3, <1>5, <2>1
  <2>3. p = IF u = t THEN i - d + m ELSE i
    BY <1>1, <2>1 DEF Place
  <2>4. CASE i = n
    <3>1. p = k
      BY <1>1, <1>4, <2>3, <2>4
    <3>2. Lowest(f)
      BY <1>3, <2>1, <2>4 DEF Shape
    <3> QED BY <1>3, <2>2, <3>1, <3>2
  <2>5. CASE i # n
    <3>1. i + 1 \in 1..n /\ p # k
      BY <1>1, <1>4, <2>1, <2>3, <2>5
    <3>2. Kept(t, d, u, i + 1)
      BY <1>1, <1>3, <2>1, <3>1 DEF Kept
    <3>3. Place(t, fs, d, u, i + 1) = p + 1
      <4>1. Place(t, fs, d, u, i + 1) = IF u = t THEN (i + 1) - d + m ELSE i + 1
        BY <1>1 DEF Place
      <4>2. d \in Int /\ m \in Int /\ i \in Int
        BY <1>1, <1>3
      <4> QED BY <2>3, <4>1, <4>2
    <3>4. g = stack[u][i + 1]
      BY <3>2, <3>3, StepKept
    <3>5. IsKept(t, d, g)
      BY <1>3, <1>5, <3>1, <3>2, <3>4
    <3>6. Over(f, g)
      BY <1>3, <2>1, <2>5, <3>4 DEF Shape
    <3> QED BY <1>3, <2>2, <3>1, <3>5, <3>6
  <2> QED BY <2>4, <2>5
<1> QED BY <1>6, <1>7, StepFacts
Reports(f, n, x) == f.op = "notified" /\ f.on = n /\ f.arg = x

LEMMA DispatchKeeps ==
  ASSUME NEW t \in Thread, NEW fs, NEW d, Step(t, fs, d), NEW n, NEW x,
         (\E f : IsKept(t, d, f) /\ Reports(f, n, x)) \/ (\E i \in 1..Len(fs) : Reports(fs[i], n, x))
  PROVE  Dispatching(n, x)'
<1>1. CASE \E f : IsKept(t, d, f) /\ Reports(f, n, x)
  <2>1a. PICK u \in Thread : \E i : Kept(t, d, u, i) /\ Reports(stack[u][i], n, x)
    BY <1>1 DEF IsKept
  <2>1. PICK i : Kept(t, d, u, i) /\ Reports(stack[u][i], n, x)
    BY <2>1a
  <2>2. PICK p : p \in DOMAIN stack'[u] /\ stack'[u][p] = stack[u][i]
    BY <2>1, StepKept
  <2> QED BY <2>1, <2>2 DEF Dispatching, Reports
<1>2. CASE \E i \in 1..Len(fs) : Reports(fs[i], n, x)
  <2>1. PICK i \in 1..Len(fs) : Reports(fs[i], n, x)
    BY <1>2
  <2>2. stack'[t][i] = fs[i]
    BY <2>1 DEF Step, Changed
  <2>3. i \in DOMAIN stack'[t]
    <3>1. PICK m \in Nat, k \in Nat : m = Len(fs) /\ k = Len(stack[t]) /\ d \in {0, 1} /\ d <= k
      BY SpotFacts DEF Step
    <3>2. Len(stack'[t]) = m + k - d /\ DOMAIN stack'[t] = 1..Len(stack'[t])
      BY <3>1, SpotFactsNext DEF Step, Changed
    <3> QED BY <2>1, <3>1, <3>2
  <2> QED BY <2>1, <2>2, <2>3 DEF Dispatching, Reports
<1> QED BY <1>1, <1>2

\* Whoever dispatched a command still does, unless it is the call that ends.
LEMMA DispatchKept ==
  ASSUME NEW t \in Thread, NEW fs, NEW d, Step(t, fs, d), NEW n, NEW x, Dispatching(n, x),
         d = 0 \/ ~Reports(stack[t][1], n, x)
  PROVE  Dispatching(n, x)'
<1>1a. PICK u \in Thread : \E i : i \in DOMAIN stack[u] /\ Reports(stack[u][i], n, x)
  BY DEF Dispatching, Reports
<1>1. PICK i : i \in DOMAIN stack[u] /\ Reports(stack[u][i], n, x)
  BY <1>1a
<1>2. i \in Nat /\ i >= 1 /\ d \in {0, 1}
  BY <1>1, SpotFacts DEF Step
<1>3. Kept(t, d, u, i)
  <2>1. CASE u = t /\ i = 1
    <3>1. d = 0
      BY <1>1, <2>1
    <3> QED BY <1>1, <2>1, <3>1 DEF Kept
  <2>2. CASE u = t /\ i # 1
    BY <1>1, <1>2, <2>2 DEF Kept
  <2>3. CASE u # t
    BY <1>1, <2>3 DEF Kept
  <2> QED BY <2>1, <2>2, <2>3
<1>4. \E f : IsKept(t, d, f) /\ Reports(f, n, x)
  BY <1>1, <1>3 DEF IsKept
<1> QED BY <1>4, DispatchKeeps

\* Steps that do not walk the list of e.
LEMMA TurnKeeps ==
  ASSUME NEW t \in Thread, NEW fs, NEW d, Step(t, fs, d),
         NEW e \in Event, NEW j \in DOMAIN list[e], NEW c, c = list[e][j], InTurn(e, j),
         \A i \in 1..Len(fs) : ~Walking(fs[i], e),
         d = 1 => ~Walking(stack[t][1], e),
         Len(fs) = 0 /\ d = 1 /\ Len(stack[t]) > 1 => ~Walking(stack[t][2], e) \/ stack[t][2].op = "userUpdate",
         list'[e][j] = c, target[c] = e,
         status'[e] = status[e], kind'[e] = kind[e], trigger'[c] = trigger[c], target'[c] = target[c],
         calls'[c] = calls[c], c \in returned => c \in returned'
  PROVE  InTurn(e, j)'
<1>1. PICK m \in Nat : m = Len(fs) /\ d \in {0, 1} /\ d <= Len(stack[t])
  BY DEF Step
<1>2. Stacked /\ Stacked'
  BY DEF Step, Changed
<1>3. /\ status'[e] = status[e] /\ kind'[e] = kind[e] /\ target[c] = e
      /\ trigger'[c] = trigger[c] /\ target'[c] = target[c] /\ calls'[c] = calls[c]
      /\ list'[e][j] = c /\ (c \in returned => c \in returned')
  OBVIOUS
<1>4. /\ status[e] > trigger[c] => calls[c] = 0
      /\ status[e] = trigger[c] => Reached(e, j)
      /\ status[e] < trigger[c] => c \in returned \/ Skipped(c)
  BY DEF InTurn
<1>5. ASSUME Reached(e, j) PROVE Reached(e, j)'
  <2>1. ASSUME NEW u \in Thread, NEW p \in DOMAIN stack'[u], NEW f, f = stack'[u][p], Walking(f, e)
        PROVE  IF f.op = "userUpdate" THEN calls'[c] = 0
               ELSE /\ j >= f.next => calls'[c] = 0
                    /\ j < f.next => c \in returned' \/ (p > 1 /\ j = f.next - 1)
    <3>1. ~(u = t /\ p \in 1..Len(fs) /\ stack'[u][p] = fs[p])
      BY <2>1
    <3>2. PICK i : i \in DOMAIN stack[u] /\ Kept(t, d, u, i) /\ p = Place(t, fs, d, u, i) /\ f = stack[u][i]
      BY <2>1, <3>1, StepFacts
    <3>3. IF f.op = "userUpdate" THEN calls[c] = 0
          ELSE /\ j >= f.next => calls[c] = 0
               /\ j < f.next => c \in returned \/ (i > 1 /\ j = f.next - 1)
      BY <1>5, <2>1, <3>2 DEF Reached
    <3>4. f.op # "userUpdate" /\ i > 1 => p > 1
      <4> SUFFICES ASSUME f.op # "userUpdate", i > 1 PROVE p > 1
        OBVIOUS
      <4>0. i \in Nat /\ DOMAIN stack[u] = 1..Len(stack[u]) /\ Len(stack[u]) \in Nat
        BY <1>2, <3>2, SpotFacts
      <4>1. CASE u # t
        BY <3>2, <4>1 DEF Place
      <4>2. CASE u = t
        <5>1. p = i - d + m
          BY <1>1, <3>2, <4>2 DEF Place
        <5>2. CASE m = 0 /\ d = 1 /\ i = 2
          <6>1. Len(stack[t]) > 1 /\ f = stack[t][2]
            BY <3>2, <4>0, <4>2, <5>2
          <6> QED BY <1>1, <2>1, <5>2, <6>1
        <5>3. CASE ~(m = 0 /\ d = 1 /\ i = 2)
          BY <1>1, <4>0, <5>1, <5>3
        <5> QED BY <5>2, <5>3
      <4> QED BY <4>1, <4>2
    <3> QED BY <1>3, <3>3, <3>4
  <2>2. ASSUME Walk(e) PROVE Walk(e)'
    <3>1a. PICK u \in Thread : \E i : i \in DOMAIN stack[u] /\ Walking(stack[u][i], e)
      BY <2>2 DEF Walk
    <3>1. PICK i : i \in DOMAIN stack[u] /\ Walking(stack[u][i], e)
      BY <3>1a
    <3>2. Kept(t, d, u, i)
      <4>1. i \in Nat /\ i >= 1
        BY <1>2, <3>1, SpotFacts
      <4>2. u = t /\ d = 1 => i # 1
        BY <3>1
      <4> QED BY <1>1, <3>1, <4>1, <4>2 DEF Kept
    <3>3. PICK p : p \in DOMAIN stack'[u] /\ stack'[u][p] = stack[u][i]
      BY <3>2, StepKept
    <3> QED BY <3>1, <3>3 DEF Walk, Walking
  <2>3. ~Walk(e)' => c \in returned'
    BY <1>5, <2>2 DEF Reached
  <2> QED BY <1>3, <2>1, <2>3 DEF Reached, Walking
<1>6. Skipped(c) => Skipped(c)'
  BY <1>3 DEF Skipped
<1> QED BY <1>3, <1>4, <1>5, <1>6 DEF InTurn

LEMMA ProgressKeeps ==
  ASSUME NEW t \in Thread, NEW fs, NEW d, Step(t, fs, d), Progress,
         \A i \in 1..Len(fs) : \A e : ~Walking(fs[i], e),
         d = 1 => \A e : ~Walking(stack[t][1], e),
         Len(fs) = 0 /\ d = 1 /\ Len(stack[t]) > 1 => \A e : ~Walking(stack[t][2], e) \/ stack[t][2].op = "userUpdate",
         list' = list,
         \A e \in Event : \A j \in DOMAIN list[e] :
           /\ status'[e] = status[e] /\ kind'[e] = kind[e] /\ target[list[e][j]] = e
           /\ trigger'[list[e][j]] = trigger[list[e][j]] /\ target'[list[e][j]] = target[list[e][j]]
           /\ calls'[list[e][j]] = calls[list[e][j]],
         returned \subseteq returned'
  PROVE  Progress'
<1> SUFFICES ASSUME NEW e \in Event, NEW j \in DOMAIN list[e], NEW c, c = list[e][j] PROVE InTurn(e, j)'
  BY DEF Progress
<1>1. InTurn(e, j)
  BY DEF Progress
<1>2. \A i \in 1..Len(fs) : ~Walking(fs[i], e)
  OBVIOUS
<1>3. d = 1 => ~Walking(stack[t][1], e)
  OBVIOUS
<1>4. Len(fs) = 0 /\ d = 1 /\ Len(stack[t]) > 1 => ~Walking(stack[t][2], e) \/ stack[t][2].op = "userUpdate"
  OBVIOUS
<1>5. /\ status'[e] = status[e] /\ kind'[e] = kind[e] /\ target[c] = e
      /\ trigger'[c] = trigger[c] /\ target'[c] = target[c] /\ calls'[c] = calls[c]
      /\ list'[e][j] = c /\ (c \in returned => c \in returned')
  OBVIOUS
<1> QED BY <1>1, <1>2, <1>3, <1>4, <1>5, TurnKeeps
-----------------------------------------------------------------------------
(* What the invariant says *)

Types ==
  /\ created \in 0..MaxEvents /\ registered \in 0..MaxCallbacks
  /\ kind   \in [Event -> {"user", "command"}]
  /\ status \in [Event -> COMPLETE..UNKNOWN]
  /\ waits  \in [Event -> SUBSET Event] /\ notify \in [Event -> SUBSET Event]
  /\ held   \in [Event -> Thread \cup {None}]
  /\ list   \in [Event -> Seq(Callback)]
  /\ work   \subseteq Event
  /\ target  \in [Callback -> Event \cup {0}]
  /\ trigger \in [Callback -> {SUBMITTED, RUNNING, COMPLETE}]
  /\ calls   \in [Callback -> Nat] /\ returned \subseteq Callback
Queues ==
  /\ \A e \in Event : waits[e] # {} => status[e] = QUEUED
  /\ \A e \in work : status[e] = SUBMITTED

LEMMA Statuses ==
  /\ COMPLETE..UNKNOWN = {COMPLETE, RUNNING, SUBMITTED, QUEUED, UNKNOWN}
  /\ COMPLETE \in Int /\ RUNNING \in Int /\ SUBMITTED \in Int /\ QUEUED \in Int /\ UNKNOWN \in Int
  /\ COMPLETE < RUNNING /\ RUNNING < SUBMITTED /\ SUBMITTED < QUEUED /\ QUEUED < UNKNOWN
BY DEF COMPLETE, RUNNING, SUBMITTED, QUEUED, UNKNOWN

LEMMA Numbers ==
  /\ MaxEvents \in Nat /\ MaxCallbacks \in Nat
  /\ \A e \in Event : e \in Nat /\ e >= 1 /\ e <= MaxEvents
  /\ \A c \in Callback : c \in Nat /\ c >= 1 /\ c <= MaxCallbacks
  /\ \A e : e \in Nat /\ e >= 1 /\ e <= MaxEvents => e \in Event
  /\ \A c : c \in Nat /\ c >= 1 /\ c <= MaxCallbacks => c \in Callback
BY CallbackAssumption DEF Event, Callback

LEMMA Parts ==
  ASSUME IInv
  PROVE  /\ Types /\ Queues /\ Stacked /\ FramesMeant /\ Shape /\ Owner /\ Unique /\ Notifies /\ Events
         /\ Lists /\ Progress /\ CalledOnce
BY DEF IInv, TypeOK, Types, Queues, Waiting

LEMMA Assembled ==
  ASSUME Types', Queues', Stacked', FramesMeant', Shape', Owner', Unique', Notifies', Events',
         Lists', Progress', CalledOnce'
  PROVE  IInv'
<1>1. ASSUME NEW t \in Thread, NEW f \in Frames(t)'
      PROVE  f.on \in 1..created' /\ (f.op \in {"register", "call"} => target'[f.arg] = f.on)
  <2>1. PICK i \in DOMAIN stack'[t] : f = stack'[t][i]
    BY <1>1 DEF Frames
  <2>2. Meant(f)'
    BY <2>1 DEF FramesMeant
  <2> QED BY <2>2 DEF Meant
<1>2. \A t \in Thread : \A f \in Frames(t)' :
        f.on \in 1..created' /\ (f.op \in {"register", "call"} => target'[f.arg] = f.on)
  BY <1>1
<1>3. TypeOK'
  BY <1>2 DEF TypeOK, Types, Queues, Waiting
<1> QED BY <1>3 DEF IInv

\* The frame of the call a thread is in.
LEMMA TopFacts ==
  ASSUME IInv, NEW t \in Thread, ~Idle(t)
  PROVE  /\ stack[t] # <<>> /\ 1 \in DOMAIN stack[t] /\ Doing(t) = stack[t][1]
         /\ Len(stack[t]) \in Nat /\ Len(stack[t]) >= 1 /\ DOMAIN stack[t] = 1..Len(stack[t])
         /\ Meant(Doing(t)) /\ Kept(t, 0, t, 1)
         /\ Len(stack[t]) = 1 => Lowest(Doing(t))
         /\ Len(stack[t]) > 1 => Over(Doing(t), stack[t][2]) /\ Kept(t, 1, t, 2) /\ 2 \in DOMAIN stack[t]
<1>1. Stacked /\ FramesMeant /\ Shape
  BY Parts
<1>2. stack[t] # <<>>
  BY DEF Idle
<1>3. stack[t] \in Seq(Frames(t)) /\ DOMAIN stack[t] = 1..Len(stack[t]) /\ Len(stack[t]) \in Nat
  BY <1>1, SpotFacts
<1>4. Len(stack[t]) >= 1 /\ Head(stack[t]) = stack[t][1]
  BY <1>2, <1>3, TailFacts
<1>5. 1 \in DOMAIN stack[t] /\ Doing(t) = stack[t][1]
  BY <1>3, <1>4 DEF Doing
<1>6. Meant(Doing(t))
  BY <1>1, <1>5 DEF FramesMeant
<1>7. Len(stack[t]) = 1 => Lowest(Doing(t))
  BY <1>1, <1>5 DEF Shape
<1>8. Len(stack[t]) > 1 => Over(Doing(t), stack[t][2]) /\ Kept(t, 1, t, 2) /\ 2 \in DOMAIN stack[t]
  <2> SUFFICES ASSUME Len(stack[t]) > 1 PROVE Over(Doing(t), stack[t][2]) /\ Kept(t, 1, t, 2) /\ 2 \in DOMAIN stack[t]
    OBVIOUS
  <2>1. Len(stack[t]) # 1 /\ 2 \in DOMAIN stack[t]
    <3>1. PICK n \in Nat : n = Len(stack[t]) /\ DOMAIN stack[t] = 1..n
      BY <1>3
    <3>2. n > 1
      BY <3>1
    <3>3. n # 1 /\ 2 \in 1..n
      BY <3>2
    <3> QED BY <3>1, <3>3
  <2>2. Over(stack[t][1], stack[t][1 + 1])
    BY <1>1, <1>5, <2>1 DEF Shape
  <2>3. 1 + 1 = 2
    OBVIOUS
  <2> QED BY <1>5, <2>1, <2>2, <2>3 DEF Kept
<1>9. Kept(t, 0, t, 1)
  BY <1>5 DEF Kept
<1> QED BY <1>2, <1>3, <1>4, <1>5, <1>6, <1>7, <1>8, <1>9

LEMMA KeptMeant ==
  ASSUME IInv, NEW t \in Thread, NEW d, NEW f, IsKept(t, d, f)
  PROVE  Meant(f) /\ f.on \in Event /\ f.on \in 1..created
<1>1. Meant(f)
  BY Parts DEF IsKept, FramesMeant
<1>2. f.on \in 1..created /\ created \in 0..MaxEvents
  BY <1>1, Parts DEF Meant, Types
<1>3. f.on \in Event
  BY <1>2, Numbers
<1> QED BY <1>1, <1>2, <1>3

\* The locks a thread has to hold because of the call it is in.
HoldsTop(t, f) ==
  /\ f.op \in {"update", "push", "unlock"} => held[f.on] = t
  /\ f.op = "notified" => held[f.arg] = t

LEMMA OwnerKeeps ==
  ASSUME NEW t \in Thread, NEW fs, NEW d, IInv, Step(t, fs, d),
         \A u \in Thread \ {t} : \A e \in Event : held[e] = u => held'[e] = u,
         \A f : f.op = "notified" /\ (\E i \in DOMAIN stack[t] : i > d /\ f = stack[t][i]) => held'[f.on] = t,
         \A i \in 1..Len(fs) : fs[i].op = "notified" => held'[fs[i].on] = t,
         Len(fs) >= 1 => HoldsTop(t, fs[1])',
         \A f : Len(fs) = 0 /\ Len(stack[t]) > d /\ f = stack[t][d + 1] => HoldsTop(t, f)'
  PROVE  Owner'
<1>1. PICK m \in Nat : m = Len(fs) /\ d \in {0, 1} /\ d <= Len(stack[t])
  BY DEF Step
<1>2. Stacked /\ Stacked' /\ Owner
  BY Parts DEF Step, Changed
<1> SUFFICES ASSUME NEW u \in Thread, NEW p \in DOMAIN stack'[u], NEW f, f = stack'[u][p]
             PROVE  (f.op = "notified" => held'[f.on] = u) /\ (p = 1 => HoldsTop(u, f)')
  BY DEF Owner, HoldsTop
<1>3. PICK n \in Nat : n = Len(stack[u]) /\ DOMAIN stack[u] = 1..n
  BY <1>2, SpotFacts
<1>4. CASE u = t /\ p \in 1..Len(fs) /\ stack'[u][p] = fs[p]
  <2>1. f = fs[p] /\ p \in 1..m
    BY <1>1, <1>4
  <2>2. f.op = "notified" => held'[f.on] = u
    BY <1>4, <2>1
  <2>3. p = 1 => HoldsTop(u, f)'
    <3>1. m >= 1
      BY <1>1, <2>1
    <3> QED BY <1>1, <1>4, <2>1, <3>1
  <2> QED BY <2>2, <2>3
<1>5. CASE \E i \in DOMAIN stack[u] : Kept(t, d, u, i) /\ p = Place(t, fs, d, u, i) /\ stack'[u][p] = stack[u][i]
  <2>1. PICK i \in 1..n : Kept(t, d, u, i) /\ p = Place(t, fs, d, u, i) /\ f = stack[u][i]
    BY <1>3, <1>5
  <2>2. CASE u # t
    <3>1. p = i /\ u \in Thread \ {t}
      BY <2>1, <2>2 DEF Place
    <3>2. f.op = "notified" => held[f.on] = u
      BY <1>2, <1>3, <2>1 DEF Owner
    <3>3. i = 1 => HoldsTop(u, f)
      BY <1>2, <1>3, <2>1 DEF Owner, HoldsTop
    <3>4. \A e \in Event : held[e] = u => held'[e] = u
      BY <3>1
    <3>5. f.on \in Event /\ (f.op = "notified" => f.arg \in Event)
      <4>1. IsKept(t, d, f)
        BY <1>3, <2>1 DEF IsKept
      <4> QED BY <4>1, KeptMeant DEF Meant
    <3> QED BY <3>1, <3>2, <3>3, <3>4, <3>5 DEF HoldsTop
  <2>3. CASE u = t
    <3>1. i > d /\ i \in DOMAIN stack[t] /\ f = stack[t][i]
      BY <1>3, <2>1, <2>3 DEF Kept
    <3>2. f.op = "notified" => held'[f.on] = t
      BY <3>1
    <3>3. p = i - d + m
      BY <1>1, <2>1, <2>3 DEF Place
    <3>4. p = 1 => m = 0 /\ i = d + 1 /\ n > d
      BY <1>1, <3>1, <3>3
    <3> QED BY <1>1, <1>3, <2>3, <3>1, <3>2, <3>4
  <2> QED BY <2>2, <2>3
<1> QED BY <1>4, <1>5, StepFacts

\* The call that is replaced is the only one that holds its right to act.
LEMMA Alone ==
  ASSUME IInv, NEW t \in Thread, ~Idle(t), NEW f, IsKept(t, 1, f)
  PROVE  ~Same(Doing(t), f) /\ ~Same(f, Doing(t))
<1>1a. PICK u \in Thread : \E i : i \in DOMAIN stack[u] /\ Kept(t, 1, u, i) /\ f = stack[u][i]
  BY DEF IsKept
<1>1. PICK i : i \in DOMAIN stack[u] /\ Kept(t, 1, u, i) /\ f = stack[u][i]
  BY <1>1a
<1>2. Doing(t) = stack[t][1] /\ 1 \in DOMAIN stack[t]
  BY TopFacts
<1>3. Unique /\ (u = t => i > 1)
  BY <1>1, Parts DEF Kept
<1>4. Same(stack[t][1], stack[u][i]) => FALSE
  BY <1>1, <1>2, <1>3 DEF Unique
<1>5. Same(stack[u][i], stack[t][1]) => FALSE
  BY <1>1, <1>2, <1>3 DEF Unique
<1> QED BY <1>1, <1>2, <1>4, <1>5

LEMMA ReachFacts ==
  ASSUME IInv, NEW t \in Thread, MayCall(t), NEW e \in Reach(t)
  PROVE  e \in Event /\ e \in 1..created /\ status[e] # UNKNOWN
<1>1. CASE e \in Known
  <2>1. e \in Event /\ e <= created /\ status[e] # UNKNOWN
    BY <1>1 DEF Known
  <2> QED BY <2>1, Numbers, Parts DEF Types
<1>2. CASE At(t, "call") /\ e = Doing(t).on
  <2>1. Meant(Doing(t)) /\ Doing(t).op = "call"
    BY <1>2, TopFacts DEF At
  <2>2. e \in 1..created /\ status[e] # UNKNOWN
    BY <1>2, <2>1 DEF Meant
  <2>3. created \in 0..MaxEvents
    BY Parts DEF Types
  <2> QED BY <2>2, <2>3, Numbers
<1> QED BY <1>1, <1>2 DEF Reach

\* A call is entered on top of the function called back, or on an empty stack.
LEMMA EnterShape ==
  ASSUME IInv, NEW t \in Thread, MayCall(t), NEW f, f.op \in {"register", "enqueue"}
  PROVE  /\ \A g : Len(stack[t]) > 0 /\ g = stack[t][1] => g.op = "call"
         /\ Lowest(f)'
<1>1. Len(stack[t]) > 0 => ~Idle(t)
  BY DEF Idle
<1>2. Len(stack[t]) > 0 => Doing(t).op = "call" /\ Doing(t) = stack[t][1]
  BY <1>1, TopFacts DEF MayCall, At
<1>3. Lowest(f)'
  BY DEF Lowest
<1> QED BY <1>2, <1>3

LEMMA OneFrame ==
  ASSUME NEW f, NEW fs, fs = <<f>>
  PROVE  fs \in Seq({f}) /\ Len(fs) = 1 /\ fs[1] = f /\ \A i \in 1..Len(fs) : i = 1 /\ fs[i] = f
OBVIOUS
LEMMA MeantStays ==
  ASSUME NEW f, Meant(f), created \in Nat, created' \in Nat, created <= created',
         registered \in Nat, registered' \in Nat, registered <= registered',
         status'[f.on] = status[f.on], kind'[f.on] = kind[f.on],
         f.op \in {"register", "call"} => target'[f.arg] = target[f.arg],
         f.op = "register" => calls'[f.arg] = calls[f.arg] /\ list'[f.on] = list[f.on],
         f.op = "push" => f.on \notin work'
  PROVE  Meant(f)'
<1>1. f.on \in 1..created'
  BY DEF Meant
<1>2. f.op \in {"register", "call"} => f.arg \in 1..registered' /\ target'[f.arg] = f.on
  BY DEF Meant
<1>3. f.op = "register" => calls'[f.arg] = 0 /\ \A j \in DOMAIN list'[f.on] : list'[f.on][j] # f.arg
  BY DEF Meant
<1>4. f = Frame(f.op, f.on, f.arg, f.next)
  BY DEF Meant
<1> QED BY <1>1, <1>2, <1>3, <1>4 DEF Meant, Frame

LEMMA OverStays ==
  ASSUME NEW f, NEW g, Over(f, g),
         f.op = "call" /\ g.op = "update" => trigger'[f.arg] = trigger[f.arg] /\ list'[g.on] = list[g.on]
  PROVE  Over(f, g)'
BY DEF Over

-----------------------------------------------------------------------------
(* Calls of the application *)

LEMMA SetEventCallbackKeeps ==
  ASSUME IInv, NEW t \in Thread, NEW e \in Event, NEW s \in {SUBMITTED, RUNNING, COMPLETE},
         SetEventCallback(t, e, s)
  PROVE  IInv'
<1>0. /\ Types /\ Queues /\ Stacked /\ FramesMeant /\ Shape /\ Owner /\ Unique /\ Notifies /\ Events
      /\ Lists /\ Progress /\ CalledOnce
  BY Parts
<1>1a. PICK c : c = registered + 1
  OBVIOUS
<1>1b. PICK f : f = Frame("register", e, c, 0)
  OBVIOUS
<1>1c. PICK fs : fs = <<f>>
  OBVIOUS
<1>1. c = registered + 1 /\ f = Frame("register", e, c, 0) /\ fs = <<f>>
  BY <1>1a, <1>1b, <1>1c
<1>2. /\ MayCall(t) /\ e \in Reach(t) /\ registered < MaxCallbacks
      /\ registered' = c
      /\ target'  = [target EXCEPT ![c] = e]
      /\ trigger' = [trigger EXCEPT ![c] = s]
      /\ stack' = [stack EXCEPT ![t] = fs \o stack[t]]
      /\ UNCHANGED <<created, kind, status, waits, notify, held, list, work, calls, returned>>
  BY <1>1 DEF SetEventCallback, Enter, eventVars
<1>3. f.op = "register" /\ f.on = e /\ f.arg = c /\ f = Frame(f.op, f.on, f.arg, f.next)
  BY <1>1 DEF Frame
<1>4. fs \in Seq({f}) /\ Len(fs) = 1 /\ fs[1] = f /\ \A i \in 1..Len(fs) : i = 1 /\ fs[i] = f
  BY <1>1, OneFrame
<1>5. Step(t, fs, 0)
  BY <1>0, <1>2, <1>4, StepEntered
<1>6. registered \in Nat /\ c \in Nat /\ c > registered /\ c \in Callback /\ c \in 1..c /\ created \in Nat
  <2>1. registered \in Nat /\ created \in Nat
    BY <1>0, Numbers DEF Types
  <2>2. c \in Nat /\ c >= 1 /\ c <= MaxCallbacks
    BY <1>1, <1>2, <2>1, Numbers
  <2> QED BY <1>1, <2>1, <2>2, Numbers
<1>7. e \in 1..created /\ status[e] # UNKNOWN
  BY <1>2, ReachFacts
<1>8. target \in [Callback -> Event \cup {0}] /\ trigger \in [Callback -> {SUBMITTED, RUNNING, COMPLETE}]
  BY <1>0 DEF Types
<1>9. /\ target'[c] = e /\ \A k \in Callback : k # c => target'[k] = target[k] /\ trigger'[k] = trigger[k]
      /\ \A k \in 1..registered : k \in Callback /\ k # c
  <2>1. target'[c] = e /\ \A k \in Callback : k # c => target'[k] = target[k] /\ trigger'[k] = trigger[k]
    BY <1>2, <1>6, <1>8
  <2>2. \A k \in 1..registered : k \in Nat /\ k >= 1 /\ k <= MaxCallbacks /\ k # c
    BY <1>2, <1>6, Numbers
  <2> QED BY <2>1, <2>2, Numbers
<1>10. \A k \in Event : \A j \in DOMAIN list[k] : list[k][j] \in 1..registered /\ target[list[k][j]] = k
  BY <1>0 DEF Lists
<1>11. Types'
  <2>1. target' \in [Callback -> Event \cup {0}] /\ trigger' \in [Callback -> {SUBMITTED, RUNNING, COMPLETE}]
    BY <1>2, <1>6, <1>8
  <2>2. registered' \in 0..MaxCallbacks
    BY <1>2, <1>1, <1>6, Numbers
  <2> QED BY <1>0, <1>2, <2>1, <2>2 DEF Types
<1>12. Queues'
  BY <1>0, <1>2 DEF Queues
<1>13. FramesMeant'
  <2>1. ASSUME NEW g, IsKept(t, 0, g) PROVE Meant(g)'
    <3>1. Meant(g)
      BY <2>1, KeptMeant
    <3>2. g.op \in {"register", "call"} => target'[g.arg] = target[g.arg]
      BY <1>9, <3>1 DEF Meant
    <3>3. g.op = "push" => g.on \notin work'
      BY <1>2, <3>1 DEF Meant
    <3> QED BY <1>1, <1>2, <1>6, <3>1, <3>2, <3>3, MeantStays
  <2>2. Meant(f)'
    <3>1. calls'[c] = 0
      BY <1>0, <1>2, <1>6 DEF Lists
    <3>2. \A j \in DOMAIN list'[e] : list'[e][j] # c
      BY <1>2, <1>9, <1>10
    <3>3. f.on \in 1..created' /\ status'[f.on] # UNKNOWN
      BY <1>2, <1>3, <1>7
    <3>4. f.arg \in 1..registered' /\ target'[f.arg] = f.on
      BY <1>2, <1>3, <1>6, <1>9
    <3> QED BY <1>3, <3>1, <3>2, <3>3, <3>4 DEF Meant, Frame
  <2>3. \A i \in 1..Len(fs) : Meant(fs[i])'
    BY <1>4, <2>2
  <2> QED BY <1>5, <2>1, <2>3, MeantKeeps
<1>14. Shape'
  <2>1. ASSUME NEW g, NEW h, IsKept(t, 0, g), IsKept(t, 0, h), Over(g, h) PROVE Over(g, h)'
    <3>1. g.op = "call" => trigger'[g.arg] = trigger[g.arg]
      BY <1>9, <2>1, KeptMeant DEF Meant
    <3> QED BY <1>2, <2>1, <3>1, OverStays
  <2>2. \A g : IsKept(t, 0, g) /\ Lowest(g) => Lowest(g)'
    BY <1>2 DEF Lowest
  <2>3. \A i \in 1..Len(fs) : i < Len(fs) => Over(fs[i], fs[i + 1])'
    BY <1>4
  <2>4. (\A g : Len(stack[t]) > 0 /\ g = stack[t][1] => g.op = "call") /\ Lowest(f)'
    BY <1>2, <1>3, EnterShape
  <2>5. \A g : Len(fs) >= 1 /\ Len(stack[t]) > 0 /\ g = stack[t][0 + 1] => Over(fs[Len(fs)], g)'
    BY <1>3, <1>4, <2>4 DEF Over
  <2>6. Len(fs) >= 1 /\ Len(stack[t]) = 0 => Lowest(fs[Len(fs)])'
    BY <1>4, <2>4
  <2> QED BY <1>0, <1>5, <2>1, <2>2, <2>3, <2>5, <2>6, ShapeKeeps
<1>15. Owner'
  <2>1. \A g : g.op = "notified" /\ (\E i \in DOMAIN stack[t] : i > 0 /\ g = stack[t][i]) => held'[g.on] = t
    BY <1>0, <1>2 DEF Owner
  <2>2. HoldsTop(t, fs[1])'
    BY <1>3, <1>4 DEF HoldsTop
  <2>3. \A u \in Thread \ {t} : \A k : held[k] = u => held'[k] = u
    BY <1>2
  <2>4. \A i \in 1..Len(fs) : fs[i].op = "notified" => held'[fs[i].on] = t
    BY <1>3, <1>4
  <2>5. \A g : Len(fs) = 0 /\ Len(stack[t]) > 0 /\ g = stack[t][0 + 1] => HoldsTop(t, g)'
    BY <1>4
  <2> QED BY <1>0, <1>5, <2>1, <2>2, <2>3, <2>4, <2>5, OwnerKeeps
<1>16. Unique'
  <2>1. ASSUME NEW g, IsKept(t, 0, g) PROVE ~Same(f, g)
    <3>1. g.op = "register" => g.arg # c
      BY <1>9, <2>1, KeptMeant DEF Meant
    <3> QED BY <1>3, <3>1 DEF Same, Walking
  <2>2. \A i \in 1..Len(fs) : \A g : IsKept(t, 0, g) => ~Same(fs[i], g)
    BY <1>4, <2>1
  <2>3. \A i, k \in 1..Len(fs) : Same(fs[i], fs[k]) => i = k
    BY <1>4
  <2> QED BY <1>0, <1>5, <2>2, <2>3, UniqueKeeps
<1>17. Notifies'
  <2>1. \A n, x : Dispatching(n, x) => Dispatching(n, x)'
    BY <1>5, DispatchKept
  <2> QED BY <1>0, <1>2, <2>1 DEF Notifies
<1>18. Events'
  BY <1>0, <1>2 DEF Events
<1>19. Lists'
  <2>1. \A k \in Callback : k > c => calls[k] = 0
    BY <1>0, <1>6, Numbers DEF Lists
  <2>2. \A k \in Event : \A j \in DOMAIN list[k] :
          /\ list[k][j] \in 1..c /\ target'[list[k][j]] = k
          /\ \A i \in DOMAIN list[k] : list[k][i] = list[k][j] => i = j
    <3>1. \A k \in 1..registered : k \in 1..c
      BY <1>6
    <3> QED BY <1>0, <1>9, <3>1 DEF Lists
  <2> QED BY <1>2, <2>1, <2>2 DEF Lists
<1>20. Progress'
  <2>1. \A k \in Event : \A j \in DOMAIN list[k] :
          /\ status'[k] = status[k] /\ kind'[k] = kind[k] /\ target[list[k][j]] = k
          /\ trigger'[list[k][j]] = trigger[list[k][j]] /\ target'[list[k][j]] = target[list[k][j]]
          /\ calls'[list[k][j]] = calls[list[k][j]]
    BY <1>2, <1>9, <1>10
  <2>2. \A i \in 1..Len(fs) : \A k : ~Walking(fs[i], k)
    BY <1>3, <1>4 DEF Walking
  <2>3. list' = list /\ returned \subseteq returned' /\ Progress
    BY <1>0, <1>2
  <2>4. ~(Len(fs) = 0) /\ ~(0 = 1)
    BY <1>4
  <2> QED BY <1>5, <2>1, <2>2, <2>3, <2>4, ProgressKeeps
<1>21. CalledOnce'
  BY <1>0, <1>2 DEF CalledOnce
<1>22. Stacked'
  BY <1>5 DEF Step, Changed
<1> QED BY <1>11, <1>12, <1>13, <1>14, <1>15, <1>16, <1>17, <1>18, <1>19, <1>20, <1>21, <1>22, Assembled
LEMMA ShapeCalm ==
  ASSUME NEW t \in Thread, NEW fs, NEW d, Step(t, fs, d), Shape,
         trigger' = trigger, list' = list, kind' = kind,
         \A i \in 1..Len(fs) : i < Len(fs) => Over(fs[i], fs[i + 1]),
         \A g : Len(fs) >= 1 /\ Len(stack[t]) > d /\ g = stack[t][d + 1] => Over(fs[Len(fs)], g),
         Len(fs) >= 1 /\ Len(stack[t]) = d => Lowest(fs[Len(fs)])
  PROVE  Shape'
<1>1. \A f, g : Over(f, g) => Over(f, g)'
  BY DEF Over
<1>2. \A f : Lowest(f) => Lowest(f)'
  BY DEF Lowest
<1>3. \A f, g : IsKept(t, d, f) /\ IsKept(t, d, g) /\ Over(f, g) => Over(f, g)'
  BY <1>1
<1>4. \A f : IsKept(t, d, f) /\ Lowest(f) => Lowest(f)'
  BY <1>2
<1>5. \A i \in 1..Len(fs) : i < Len(fs) => Over(fs[i], fs[i + 1])'
  BY <1>1
<1>6. \A g : Len(fs) >= 1 /\ Len(stack[t]) > d /\ g = stack[t][d + 1] => Over(fs[Len(fs)], g)'
  BY <1>1
<1>7. Len(fs) >= 1 /\ Len(stack[t]) = d => Lowest(fs[Len(fs)])'
  BY <1>2
<1> QED BY <1>3, <1>4, <1>5, <1>6, <1>7, ShapeKeeps

LEMMA CallEnqueueKeeps ==
  ASSUME IInv, NEW t \in Thread, NEW W \in SUBSET Event, CallEnqueue(t, W)
  PROVE  IInv'
<1>0. /\ Types /\ Queues /\ Stacked /\ FramesMeant /\ Shape /\ Owner /\ Unique /\ Notifies /\ Events
      /\ Lists /\ Progress /\ CalledOnce
  BY Parts
<1>1a. PICK e : e = created + 1
  OBVIOUS
<1>1b. PICK f : f = Frame("enqueue", e, W, 0)
  OBVIOUS
<1>1c. PICK fs : fs = <<f>>
  OBVIOUS
<1>1. e = created + 1 /\ f = Frame("enqueue", e, W, 0) /\ fs = <<f>>
  BY <1>1a, <1>1b, <1>1c
<1>2. /\ MayCall(t) /\ W \subseteq Reach(t) /\ created < MaxEvents
      /\ created' = e
      /\ stack' = [stack EXCEPT ![t] = fs \o stack[t]]
      /\ UNCHANGED <<kind, status, waits, notify, held, list, work, registered, target, trigger, calls, returned>>
  BY <1>1 DEF CallEnqueue, Enter, eventVars, cbVars
<1>3. f.op = "enqueue" /\ f.on = e /\ f.arg = W /\ f = Frame(f.op, f.on, f.arg, f.next)
  BY <1>1 DEF Frame
<1>4. fs \in Seq({f}) /\ Len(fs) = 1 /\ fs[1] = f /\ \A i \in 1..Len(fs) : i = 1 /\ fs[i] = f
  BY <1>1, OneFrame
<1>5. Step(t, fs, 0)
  BY <1>0, <1>2, <1>4, StepEntered
<1>6. created \in Nat /\ registered \in Nat /\ e \in Nat /\ e > created /\ e \in Event /\ e \in 1..e
  <2>1. created \in Nat /\ registered \in Nat
    BY <1>0, Numbers DEF Types
  <2>2. e \in Nat /\ e >= 1 /\ e <= MaxEvents
    BY <1>1, <1>2, <2>1, Numbers
  <2> QED BY <1>1, <2>1, <2>2, Numbers
<1>7. status[e] = UNKNOWN /\ kind[e] = "command"
  BY <1>0, <1>6 DEF Events
<1>8. W \subseteq Event \ {e}
  <2>1. \A x \in W : x \in 1..created
    BY <1>2, ReachFacts
  <2> QED BY <1>6, <2>1
<1>11. Types'
  <2>1. created' \in 0..MaxEvents
    BY <1>1, <1>2, <1>6, Numbers
  <2> QED BY <1>0, <1>2, <2>1 DEF Types
<1>12. Queues'
  BY <1>0, <1>2 DEF Queues
<1>13. FramesMeant'
  <2>1. ASSUME NEW g, IsKept(t, 0, g) PROVE Meant(g)'
    <3>1. Meant(g)
      BY <2>1, KeptMeant
    <3>2. g.op = "push" => g.on \notin work'
      BY <1>2, <3>1 DEF Meant
    <3>3. created <= created' /\ created' \in Nat /\ registered' = registered /\ registered <= registered'
      BY <1>2, <1>6
    <3> QED BY <1>2, <1>6, <3>1, <3>2, <3>3, MeantStays
  <2>2. Meant(f)'
    BY <1>2, <1>3, <1>6, <1>7, <1>8 DEF Meant, Frame
  <2>3. \A i \in 1..Len(fs) : Meant(fs[i])'
    BY <1>4, <2>2
  <2> QED BY <1>5, <2>1, <2>3, MeantKeeps
<1>14. Shape'
  <2>1. \A i \in 1..Len(fs) : i < Len(fs) => Over(fs[i], fs[i + 1])
    BY <1>4
  <2>2. (\A g : Len(stack[t]) > 0 /\ g = stack[t][1] => g.op = "call") /\ Lowest(f)
    <3>1. Lowest(f)
      BY <1>3 DEF Lowest
    <3> QED BY <1>2, <1>3, <3>1, EnterShape
  <2>3. \A g : Len(fs) >= 1 /\ Len(stack[t]) > 0 /\ g = stack[t][0 + 1] => Over(fs[Len(fs)], g)
    BY <1>3, <1>4, <2>2 DEF Over
  <2>4. Len(fs) >= 1 /\ Len(stack[t]) = 0 => Lowest(fs[Len(fs)])
    BY <1>4, <2>2
  <2> QED BY <1>0, <1>2, <1>5, <2>1, <2>3, <2>4, ShapeCalm
<1>15. Owner'
  <2>1. \A g : g.op = "notified" /\ (\E i \in DOMAIN stack[t] : i > 0 /\ g = stack[t][i]) => held'[g.on] = t
    BY <1>0, <1>2 DEF Owner
  <2>2. HoldsTop(t, fs[1])'
    BY <1>3, <1>4 DEF HoldsTop
  <2>3. \A u \in Thread \ {t} : \A k : held[k] = u => held'[k] = u
    BY <1>2
  <2>4. \A i \in 1..Len(fs) : fs[i].op = "notified" => held'[fs[i].on] = t
    BY <1>3, <1>4
  <2>5. \A g : Len(fs) = 0 /\ Len(stack[t]) > 0 /\ g = stack[t][0 + 1] => HoldsTop(t, g)'
    BY <1>4
  <2> QED BY <1>0, <1>5, <2>1, <2>2, <2>3, <2>4, <2>5, OwnerKeeps
<1>16. Unique'
  <2>1. ASSUME NEW g, IsKept(t, 0, g) PROVE ~Same(f, g)
    <3>1. g.on # e
      BY <1>6, <2>1, KeptMeant
    <3> QED BY <1>3, <3>1 DEF Same, Walking
  <2>2. \A i \in 1..Len(fs) : \A g : IsKept(t, 0, g) => ~Same(fs[i], g)
    BY <1>4, <2>1
  <2>3. \A i, k \in 1..Len(fs) : Same(fs[i], fs[k]) => i = k
    BY <1>4
  <2> QED BY <1>0, <1>5, <2>2, <2>3, UniqueKeeps
<1>17. Notifies'
  <2>1. \A n, x : Dispatching(n, x) => Dispatching(n, x)'
    BY <1>5, DispatchKept
  <2> QED BY <1>0, <1>2, <2>1 DEF Notifies
<1>18. Events'
  <2>1. \A k \in Event : k > e => k > created
    BY <1>6, Numbers
  <2> QED BY <1>0, <1>2, <2>1 DEF Events
<1>19. Lists'
  BY <1>0, <1>2 DEF Lists
<1>20. Progress'
  <2>1. \A k \in Event : \A j \in DOMAIN list[k] :
          /\ status'[k] = status[k] /\ kind'[k] = kind[k] /\ target[list[k][j]] = k
          /\ trigger'[list[k][j]] = trigger[list[k][j]] /\ target'[list[k][j]] = target[list[k][j]]
          /\ calls'[list[k][j]] = calls[list[k][j]]
    BY <1>0, <1>2 DEF Lists
  <2>2. \A i \in 1..Len(fs) : \A k : ~Walking(fs[i], k)
    BY <1>3, <1>4 DEF Walking
  <2>3. list' = list /\ returned \subseteq returned' /\ Progress
    BY <1>0, <1>2
  <2>4. ~(Len(fs) = 0) /\ ~(0 = 1)
    BY <1>4
  <2> QED BY <1>5, <2>1, <2>2, <2>3, <2>4, ProgressKeeps
<1>21. CalledOnce'
  BY <1>0, <1>2 DEF CalledOnce
<1>22. Stacked'
  BY <1>5 DEF Step, Changed
<1> QED BY <1>11, <1>12, <1>13, <1>14, <1>15, <1>16, <1>17, <1>18, <1>19, <1>20, <1>21, <1>22, Assembled

LEMMA CreateUserEventKeeps ==
  ASSUME IInv, NEW t \in Thread, CreateUserEvent(t)
  PROVE  IInv'
<1>0. /\ Types /\ Queues /\ Stacked /\ FramesMeant /\ Shape /\ Owner /\ Unique /\ Notifies /\ Events
      /\ Lists /\ Progress /\ CalledOnce
  BY Parts
<1>1a. PICK e : e = created + 1
  OBVIOUS
<1>1b. PICK fs : fs = <<>>
  OBVIOUS
<1>1. e = created + 1 /\ fs = <<>>
  BY <1>1a, <1>1b
<1>2. /\ created < MaxEvents
      /\ created' = e
      /\ kind'    = [kind EXCEPT ![e] = "user"]
      /\ status'  = [status EXCEPT ![e] = SUBMITTED]
      /\ UNCHANGED <<waits, notify, held, list, work, registered, target, trigger, calls, returned, stack>>
  BY <1>1 DEF CreateUserEvent, cbVars
<1>4. Len(fs) = 0 /\ ~(Len(fs) >= 1) /\ 1..Len(fs) = {}
  BY <1>1
<1>5. Step(t, fs, 0)
  BY <1>0, <1>1, <1>2, StepNone
<1>6. created \in Nat /\ registered \in Nat /\ e \in Nat /\ e > created /\ e \in Event /\ e \in 1..e
  <2>1. created \in Nat /\ registered \in Nat
    BY <1>0, Numbers DEF Types
  <2>2. e \in Nat /\ e >= 1 /\ e <= MaxEvents
    BY <1>1, <1>2, <2>1, Numbers
  <2> QED BY <1>1, <2>1, <2>2, Numbers
<1>7. status[e] = UNKNOWN /\ kind[e] = "command" /\ list[e] = <<>> /\ waits[e] = {} /\ e \notin work
  <2>1. status[e] = UNKNOWN /\ kind[e] = "command" /\ list[e] = <<>>
    BY <1>0, <1>6 DEF Events
  <2> QED BY <1>0, <1>6, <2>1, Statuses DEF Queues
<1>8. /\ status'[e] = SUBMITTED /\ kind'[e] = "user"
      /\ \A k \in Event : k # e => status'[k] = status[k] /\ kind'[k] = kind[k]
  BY <1>0, <1>2, <1>6 DEF Types
<1>9. \A g : IsKept(t, 0, g) => Meant(g) /\ g.on # e /\ g.on \in Event
  <2> TAKE g
  <2>1. IsKept(t, 0, g) => Meant(g) /\ g.on \in 1..created /\ g.on \in Event
    BY KeptMeant
  <2> QED BY <1>6, <2>1
<1>11. Types'
  <2>1. created' \in 0..MaxEvents
    BY <1>1, <1>2, <1>6, Numbers
  <2>2. SUBMITTED \in COMPLETE..UNKNOWN
    BY Statuses
  <2>3. status' \in [Event -> COMPLETE..UNKNOWN] /\ kind' \in [Event -> {"user", "command"}]
    BY <1>0, <1>2, <1>6, <2>2 DEF Types
  <2> QED BY <1>0, <1>2, <2>1, <2>3 DEF Types
<1>12. Queues'
  <2>1. work \subseteq Event
    BY <1>0 DEF Types
  <2> QED BY <1>0, <1>2, <1>7, <1>8, <2>1 DEF Queues
<1>13. FramesMeant'
  <2>1. ASSUME NEW g, IsKept(t, 0, g) PROVE Meant(g)'
    <3>1. Meant(g) /\ status'[g.on] = status[g.on] /\ kind'[g.on] = kind[g.on]
      BY <1>8, <1>9, <2>1
    <3>2. g.op = "push" => g.on \notin work'
      BY <1>2, <3>1 DEF Meant
    <3>3. created <= created' /\ created' \in Nat /\ registered' = registered /\ registered <= registered'
      BY <1>2, <1>6
    <3> QED BY <1>2, <1>6, <3>1, <3>2, <3>3, MeantStays
  <2>3. \A i \in 1..Len(fs) : Meant(fs[i])'
    BY <1>4
  <2> QED BY <1>5, <2>1, <2>3, MeantKeeps
<1>14. Shape'
  <2>1. \A g, h : IsKept(t, 0, g) /\ IsKept(t, 0, h) /\ Over(g, h) => Over(g, h)'
    BY <1>2, OverStays
  <2>2. \A g : IsKept(t, 0, g) /\ Lowest(g) => Lowest(g)'
    BY <1>8, <1>9 DEF Lowest
  <2>3. \A i \in 1..Len(fs) : i < Len(fs) => Over(fs[i], fs[i + 1])'
    BY <1>4
  <2>5. \A g : Len(fs) >= 1 /\ Len(stack[t]) > 0 /\ g = stack[t][0 + 1] => Over(fs[Len(fs)], g)'
    BY <1>4
  <2>6. Len(fs) >= 1 /\ Len(stack[t]) = 0 => Lowest(fs[Len(fs)])'
    BY <1>4
  <2> QED BY <1>0, <1>5, <2>1, <2>2, <2>3, <2>5, <2>6, ShapeKeeps
<1>15. Owner'
  BY <1>0, <1>2 DEF Owner
<1>16. Unique'
  BY <1>0, <1>2 DEF Unique, Same, Walking
<1>17. Notifies'
  <2>1. \A n, x : Dispatching(n, x) => Dispatching(n, x)'
    BY <1>2 DEF Dispatching
  <2>2. \A n \in Event : e \notin notify[n]
    BY <1>0, <1>6, <1>7 DEF Notifies
  <2> QED BY <1>0, <1>2, <1>8, <2>1, <2>2 DEF Notifies
<1>18. Events'
  <2>1. \A k \in Event : k > e => k > created /\ k # e
    BY <1>6, Numbers
  <2>2. e \notin work /\ work \subseteq Event
    BY <1>0, <1>7 DEF Types
  <2>3. ~(e > e) /\ SUBMITTED # UNKNOWN
    BY <1>6, Statuses
  <2> QED BY <1>0, <1>2, <1>8, <2>1, <2>2, <2>3 DEF Events
<1>19. Lists'
  BY <1>0, <1>2 DEF Lists
<1>20. Progress'
  <2>1. \A k \in Event : \A j \in DOMAIN list[k] :
          /\ status'[k] = status[k] /\ kind'[k] = kind[k] /\ target[list[k][j]] = k
          /\ trigger'[list[k][j]] = trigger[list[k][j]] /\ target'[list[k][j]] = target[list[k][j]]
          /\ calls'[list[k][j]] = calls[list[k][j]]
    <3>1. DOMAIN list[e] = {}
      BY <1>7
    <3> QED BY <1>0, <1>2, <1>8, <3>1 DEF Lists
  <2>2. \A i \in 1..Len(fs) : \A k : ~Walking(fs[i], k)
    BY <1>4
  <2> QED BY <1>0, <1>2, <1>5, <2>1, <2>2, ProgressKeeps
<1>21. CalledOnce'
  BY <1>0, <1>2 DEF CalledOnce
<1>22. Stacked'
  BY <1>5 DEF Step, Changed
<1> QED BY <1>11, <1>12, <1>13, <1>14, <1>15, <1>16, <1>17, <1>18, <1>19, <1>20, <1>21, <1>22, Assembled
-----------------------------------------------------------------------------
(* The end of clSetEventCallback *)

\* What is common to the steps of a call.
LEMMA CallFacts ==
  ASSUME IInv, NEW t \in Thread, NEW op, At(t, op)
  PROVE  /\ ~Idle(t) /\ Doing(t).op = op /\ Doing(t).on \in Event /\ Doing(t).on \in 1..created
         /\ created \in Nat /\ registered \in Nat
         /\ op \in {"register", "call"} => Doing(t).arg \in Callback
<1>1. ~Idle(t) /\ Doing(t).op = op /\ Meant(Doing(t))
  BY TopFacts DEF At
<1>2. created \in 0..MaxEvents /\ registered \in 0..MaxCallbacks
  BY Parts DEF Types
<1>3. Doing(t).on \in 1..created
  BY <1>1 DEF Meant
<1>4. op \in {"register", "call"} => Doing(t).arg \in 1..registered
  BY <1>1 DEF Meant
<1>5. created \in Nat /\ registered \in Nat
  BY <1>2, Numbers
<1>6. \A e \in 1..created : e \in Event
  BY <1>2, Numbers
<1>7. \A c \in 1..registered : c \in Callback
  BY <1>2, Numbers
<1> QED BY <1>1, <1>3, <1>4, <1>5, <1>6, <1>7

LEMMA EmptyFrames ==
  ASSUME NEW fs, fs = <<>>
  PROVE  fs \in Seq({}) /\ Len(fs) = 0 /\ ~(Len(fs) >= 1) /\ 1..Len(fs) = {}
OBVIOUS

LEMMA AppendCallbackKeeps ==
  ASSUME IInv, NEW t \in Thread, AppendCallback(t)
  PROVE  IInv'
<1>0. /\ Types /\ Queues /\ Stacked /\ FramesMeant /\ Shape /\ Owner /\ Unique /\ Notifies /\ Events
      /\ Lists /\ Progress /\ CalledOnce
  BY Parts
<1>1a. PICK f : f = Doing(t)
  OBVIOUS
<1>1b. PICK e : e = f.on
  OBVIOUS
<1>1c. PICK c : c = f.arg
  OBVIOUS
<1>1d. PICK fs : fs = <<>>
  OBVIOUS
<1>1. f = Doing(t) /\ e = f.on /\ c = f.arg /\ fs = <<>>
  BY <1>1a, <1>1b, <1>1c, <1>1d
<1>2. /\ At(t, "register") /\ status[e] > trigger[c]
      /\ list' = [list EXCEPT ![e] = Append(@, c)]
      /\ stack' = [stack EXCEPT ![t] = fs \o Tail(stack[t])]
      /\ UNCHANGED <<created, kind, status, waits, notify, held, work, registered, target, trigger, calls, returned>>
  <2>1. stack' = [stack EXCEPT ![t] = fs \o Tail(stack[t])]
    BY <1>1, <1>0 DEF AppendCallback, Continue, Stacked
  <2> QED BY <1>1, <2>1 DEF AppendCallback, StillToCome, cbVars
<1>3. ~Idle(t) /\ f.op = "register" /\ e \in Event /\ c \in Callback /\ created \in Nat /\ registered \in Nat
  BY <1>1, <1>2, CallFacts
<1>4. Len(fs) = 0 /\ ~(Len(fs) >= 1) /\ 1..Len(fs) = {} /\ fs \in Seq({})
  BY <1>1, EmptyFrames
<1>5. /\ stack[t] # <<>> /\ f = stack[t][1] /\ Meant(f)
      /\ Len(stack[t]) > 1 => Over(f, stack[t][2])
  BY <1>1, <1>3, TopFacts
<1>6. Step(t, fs, 1)
  BY <1>0, <1>2, <1>4, <1>5, StepReplaced
<1>7. c \in 1..registered /\ target[c] = e /\ calls[c] = 0 /\ \A j \in DOMAIN list[e] : list[e][j] # c
  BY <1>1, <1>3, <1>5 DEF Meant
<1>8. Len(stack[t]) > 1 => stack[t][2].op = "call"
  BY <1>3, <1>5 DEF Over
<1>9. PICK n \in Nat : n = Len(list[e]) /\ DOMAIN list[e] = 1..n /\ list[e] \in Seq(Callback)
  BY <1>0, <1>3 DEF Types
<1>10. /\ list'[e] \in Seq(Callback) /\ DOMAIN list'[e] = 1..(n + 1) /\ list'[e][n + 1] = c
       /\ \A j \in 1..n : list'[e][j] = list[e][j]
       /\ \A k \in Event : k # e => list'[k] = list[k]
       /\ list' \in [Event -> Seq(Callback)]
  <2>1. PICK s : s = list[e]
    OBVIOUS
  <2>2. /\ Append(s, c) \in Seq(Callback) /\ DOMAIN Append(s, c) = 1..(n + 1) /\ Append(s, c)[n + 1] = c
        /\ \A j \in 1..n : Append(s, c)[j] = s[j]
    <3>1. s \in Seq(Callback) /\ Len(s) = n
      BY <1>9, <2>1
    <3> QED BY <1>3, <3>1
  <2>3. list' = [list EXCEPT ![e] = Append(s, c)] /\ list \in [Event -> Seq(Callback)]
    BY <1>0, <1>2, <2>1 DEF Types
  <2>4. list'[e] = Append(s, c) /\ \A k \in Event : k # e => list'[k] = list[k]
    BY <1>3, <2>3
  <2>5. list' \in [Event -> Seq(Callback)]
    BY <2>2, <2>3
  <2> QED BY <2>1, <2>2, <2>4, <2>5
<1>11. Types'
  BY <1>0, <1>2, <1>10 DEF Types
<1>12. Queues'
  BY <1>0, <1>2 DEF Queues
<1>13. FramesMeant'
  <2>1. ASSUME NEW g, IsKept(t, 1, g) PROVE Meant(g)'
    <3>1. Meant(g) /\ g.on \in Event
      BY <2>1, KeptMeant
    <3>2. g.op = "push" => g.on \notin work'
      BY <1>2, <3>1 DEF Meant
    <3>3. g.op = "register" => g.arg # c
      <4>1. ~Same(f, g)
        BY <1>1, <1>3, <2>1, Alone
      <4> QED BY <1>1, <1>3, <4>1 DEF Same
    <3>4. g.op = "register" => calls'[g.arg] = 0 /\ \A j \in DOMAIN list'[g.on] : list'[g.on][j] # g.arg
      <4>1. CASE g.on # e
        BY <1>2, <1>10, <3>1, <4>1 DEF Meant
      <4>2. CASE g.on = e
        <5>1. \A j \in 1..(n + 1) : j \in 1..n \/ j = n + 1
          BY <1>9
        <5> QED BY <1>2, <1>9, <1>10, <3>1, <3>3, <4>2, <5>1 DEF Meant
      <4> QED BY <4>1, <4>2
    <3> QED BY <1>2, <3>1, <3>2, <3>4 DEF Meant, Frame
  <2>2. \A i \in 1..Len(fs) : Meant(fs[i])'
    BY <1>4
  <2> QED BY <1>6, <2>1, <2>2, MeantKeeps
<1>14. Shape'
  <2>1. ASSUME NEW g, NEW h, IsKept(t, 1, g), IsKept(t, 1, h), Over(g, h) PROVE Over(g, h)'
    <3>1. h.on \in Event
      BY <2>1, KeptMeant
    <3>2. \A j \in DOMAIN list[h.on] : j \in DOMAIN list'[h.on] /\ list'[h.on][j] = list[h.on][j]
      <4>1. \A j \in 1..n : j \in 1..(n + 1)
        BY <1>9
      <4> QED BY <1>9, <1>10, <3>1, <4>1
    <3> QED BY <1>2, <2>1, <3>2 DEF Over
  <2>2. \A g : IsKept(t, 1, g) /\ Lowest(g) => Lowest(g)'
    BY <1>2 DEF Lowest
  <2>3. \A i \in 1..Len(fs) : i < Len(fs) => Over(fs[i], fs[i + 1])'
    BY <1>4
  <2>5. \A g : Len(fs) >= 1 /\ Len(stack[t]) > 1 /\ g = stack[t][1 + 1] => Over(fs[Len(fs)], g)'
    BY <1>4
  <2>6. Len(fs) >= 1 /\ Len(stack[t]) = 1 => Lowest(fs[Len(fs)])'
    BY <1>4
  <2> QED BY <1>0, <1>6, <2>1, <2>2, <2>3, <2>5, <2>6, ShapeKeeps
<1>15. Owner'
  <2>1. \A g : g.op = "notified" /\ (\E i \in DOMAIN stack[t] : i > 1 /\ g = stack[t][i]) => held'[g.on] = t
    BY <1>0, <1>2 DEF Owner
  <2>2. Len(fs) >= 1 => HoldsTop(t, fs[1])'
    BY <1>4
  <2>3. \A u \in Thread \ {t} : \A k : held[k] = u => held'[k] = u
    BY <1>2
  <2>4. \A i \in 1..Len(fs) : fs[i].op = "notified" => held'[fs[i].on] = t
    BY <1>4
  <2>5. \A g : Len(fs) = 0 /\ Len(stack[t]) > 1 /\ g = stack[t][1 + 1] => HoldsTop(t, g)'
    BY <1>8 DEF HoldsTop
  <2> QED BY <1>0, <1>6, <2>1, <2>2, <2>3, <2>4, <2>5, OwnerKeeps
<1>16. Unique'
  <2>1. \A i \in 1..Len(fs) : \A g : IsKept(t, 1, g) => ~Same(fs[i], g)
    BY <1>4
  <2>2. \A i, k \in 1..Len(fs) : Same(fs[i], fs[k]) => i = k
    BY <1>4
  <2> QED BY <1>0, <1>6, <2>1, <2>2, UniqueKeeps
<1>17. Notifies'
  <2>1. \A n1, x : ~Reports(stack[t][1], n1, x)
    BY <1>3, <1>5 DEF Reports
  <2>2. \A n1, x : Dispatching(n1, x) => Dispatching(n1, x)'
    BY <1>6, <2>1, DispatchKept
  <2> QED BY <1>0, <1>2, <2>2 DEF Notifies
<1>18. Events'
  <2>1. status[e] # UNKNOWN
    BY <1>3, <1>5, <1>1 DEF Meant
  <2> QED BY <1>0, <1>2, <1>10, <2>1 DEF Events
<1>19. Lists'
  <2>1. ASSUME NEW k \in Event, NEW j \in DOMAIN list'[k]
        PROVE  /\ list'[k][j] \in 1..registered /\ target[list'[k][j]] = k
               /\ \A i \in DOMAIN list'[k] : list'[k][i] = list'[k][j] => i = j
    <3>1. CASE k # e
      BY <1>0, <1>10, <3>1 DEF Lists
    <3>2. CASE k = e
      <4>1. \A i \in 1..(n + 1) : i \in 1..n \/ i = n + 1
        BY <1>9
      <4>2. \A i \in 1..n : list[e][i] \in 1..registered /\ target[list[e][i]] = e /\ list[e][i] # c
                            /\ \A l \in 1..n : list[e][l] = list[e][i] => l = i
        BY <1>0, <1>3, <1>7, <1>9 DEF Lists
      <4> QED BY <1>7, <1>10, <2>1, <3>2, <4>1, <4>2
    <3> QED BY <3>1, <3>2
  <2> QED BY <1>0, <1>2, <2>1 DEF Lists
<1>20. Progress'
  <2> SUFFICES ASSUME NEW k \in Event, NEW j \in DOMAIN list'[k] PROVE InTurn(k, j)'
    BY DEF Progress
  <2>1. CASE k = e /\ j = n + 1
    <3>1. list'[k][j] = c /\ status'[k] > trigger'[c] /\ calls'[c] = 0
      BY <1>2, <1>7, <1>10, <2>1
    <3>2. trigger[c] \in Int /\ status[k] \in Int
      BY <1>0, <1>3, Statuses DEF Types
    <3>3. ~(status'[k] = trigger'[c]) /\ ~(status'[k] < trigger'[c])
      BY <1>2, <3>1, <3>2
    <3> QED BY <3>1, <3>3 DEF InTurn
  <2>2. CASE ~(k = e /\ j = n + 1)
    <3>1. PICK a : a = list[k][j] /\ j \in DOMAIN list[k] /\ list'[k][j] = a
      <4>1. \A i \in 1..(n + 1) : i \in 1..n \/ i = n + 1
        BY <1>9
      <4>2. j \in DOMAIN list[k] /\ list'[k][j] = list[k][j]
        BY <1>9, <1>10, <2>2, <4>1
      <4> QED BY <4>2
    <3>2. InTurn(k, j)
      BY <1>0, <3>1 DEF Progress
    <3>3. \A i \in 1..Len(fs) : ~Walking(fs[i], k)
      BY <1>4
    <3>4. ~Walking(stack[t][1], k)
      BY <1>3, <1>5 DEF Walking
    <3>5. Len(stack[t]) > 1 => ~Walking(stack[t][2], k)
      BY <1>8 DEF Walking
    <3>6. /\ target[a] = k
          /\ status'[k] = status[k] /\ kind'[k] = kind[k] /\ trigger'[a] = trigger[a] /\ target'[a] = target[a]
          /\ calls'[a] = calls[a] /\ (a \in returned => a \in returned')
      BY <1>0, <1>2, <3>1 DEF Lists
    <3> QED BY <1>6, <3>1, <3>2, <3>3, <3>4, <3>5, <3>6, TurnKeeps
  <2> QED BY <2>1, <2>2
<1>21. CalledOnce'
  BY <1>0, <1>2 DEF CalledOnce
<1>22. Stacked'
  BY <1>6 DEF Step, Changed
<1> QED BY <1>11, <1>12, <1>13, <1>14, <1>15, <1>16, <1>17, <1>18, <1>19, <1>20, <1>21, <1>22, Assembled
-----------------------------------------------------------------------------
(* What follows whenever no callback is registered and no event created *)

Calm == UNCHANGED <<created, kind, list, registered, target, trigger>>

LEMMA MeantCalm ==
  ASSUME IInv, Calm, NEW f, Meant(f), status'[f.on] = status[f.on],
         f.op = "register" => calls'[f.arg] = calls[f.arg],
         f.op = "push" => f.on \notin work'
  PROVE  Meant(f)'
BY DEF Meant, Calm, Frame

LEMMA EventsCalm ==
  ASSUME IInv, Calm,
         \A e \in Event : \/ status'[e] = status[e]
                          \/ /\ e <= created /\ status'[e] # UNKNOWN
                             /\ kind[e] = "user" => status'[e] \in {SUBMITTED, COMPLETE},
         \A e \in work' : kind[e] = "command"
  PROVE  Events'
<1>1. Events /\ created \in Nat
  BY Parts, Numbers DEF Types
<1>2. ASSUME NEW e \in Event
      PROVE  /\ e > created => status'[e] = UNKNOWN
             /\ status'[e] = UNKNOWN => kind[e] = "command" /\ list[e] = <<>>
             /\ kind[e] = "user" => status'[e] \in {SUBMITTED, COMPLETE}
  <2>1. ~(e > created /\ e <= created)
    BY <1>1, Numbers
  <2> QED BY <1>1, <2>1 DEF Events
<1> QED BY <1>2 DEF Events, Calm

LEMMA ListsCalm ==
  ASSUME IInv, Calm, \A c \in Callback : c > registered => calls'[c] = 0
  PROVE  Lists'
<1>1. Lists
  BY Parts
<1> QED BY <1>1 DEF Lists, Calm

\* ... nor any status changed; C are the callbacks that are called now.
LEMMA Quiet ==
  ASSUME IInv, NEW t \in Thread, NEW fs, NEW d, Step(t, fs, d), Calm,
         UNCHANGED <<status, waits, notify, work>>,
         NEW C \in SUBSET Callback, \A c \in C : c \in 1..registered /\ calls[c] = 0,
         calls' \in [Callback -> Nat], \A c \in Callback : calls'[c] = IF c \in C THEN 1 ELSE calls[c],
         \A f : IsKept(t, d, f) /\ f.op = "register" => f.arg \notin C,
         returned' \subseteq Callback, held' \in [Event -> Thread \cup {None}]
  PROVE  /\ Types' /\ Queues' /\ Events' /\ Lists' /\ CalledOnce' /\ Stacked'
         /\ \A f : IsKept(t, d, f) => Meant(f)'
         /\ d = 0 \/ stack[t][1].op # "notified" => Notifies'
<1>0. Types /\ Queues /\ Notifies /\ Events /\ Lists /\ CalledOnce
  BY Parts
<1>1. Types'
  BY <1>0 DEF Types, Calm
<1>2. Queues'
  BY <1>0 DEF Queues
<1>3. Events'
  <2>1. \A e \in work' : kind[e] = "command"
    BY <1>0 DEF Events
  <2> QED BY <2>1, EventsCalm
<1>4. Lists'
  <2>1. \A c \in Callback : c > registered => c \notin C /\ calls[c] = 0
    <3>1. \A c \in 1..registered : ~(c > registered)
      <4>1. registered \in Nat
        BY <1>0, Numbers DEF Types
      <4> QED BY <4>1
    <3> QED BY <1>0, <3>1 DEF Lists
  <2> QED BY <2>1, ListsCalm
<1>5. CalledOnce'
  BY <1>0 DEF CalledOnce
<1>6. Stacked'
  BY DEF Step, Changed
<1>7. ASSUME NEW f, IsKept(t, d, f) PROVE Meant(f)'
  <2>1. Meant(f)
    BY <1>7, KeptMeant
  <2>2. f.op = "register" => calls'[f.arg] = calls[f.arg]
    <3> SUFFICES ASSUME f.op = "register" PROVE calls'[f.arg] = calls[f.arg]
      OBVIOUS
    <3>1. f.arg \in 1..registered /\ f.arg \notin C
      BY <1>7, <2>1 DEF Meant
    <3>2. f.arg \in Callback
      <4>1. registered \in Nat /\ registered <= MaxCallbacks
        BY <1>0, Numbers DEF Types
      <4>2. f.arg \in Nat /\ f.arg >= 1 /\ f.arg <= MaxCallbacks
        BY <3>1, <4>1, Numbers
      <4> QED BY <4>2, Numbers
    <3> QED BY <3>1, <3>2
  <2>3. f.op = "push" => f.on \notin work'
    BY <2>1 DEF Meant
  <2> QED BY <2>1, <2>2, <2>3, MeantCalm
<1>8. d = 0 \/ stack[t][1].op # "notified" => Notifies'
  <2> SUFFICES ASSUME d = 0 \/ stack[t][1].op # "notified" PROVE Notifies'
    OBVIOUS
  <2>1. \A n, x : Dispatching(n, x) => Dispatching(n, x)'
    <3>1. \A n, x : d = 0 \/ ~Reports(stack[t][1], n, x)
      BY DEF Reports
    <3> QED BY <3>1, DispatchKept
  <2> QED BY <1>0, <2>1 DEF Notifies, Calm
<1> QED BY <1>1, <1>2, <1>3, <1>4, <1>5, <1>6, <1>7, <1>8

LEMMA Silent ==
  ASSUME IInv, NEW t \in Thread, NEW fs, NEW d, Step(t, fs, d), Calm,
         UNCHANGED <<status, waits, notify, work, calls>>,
         returned' \subseteq Callback, held' \in [Event -> Thread \cup {None}]
  PROVE  /\ Types' /\ Queues' /\ Events' /\ Lists' /\ CalledOnce' /\ Stacked'
         /\ \A f : IsKept(t, d, f) => Meant(f)'
         /\ d = 0 \/ stack[t][1].op # "notified" => Notifies'
<1>1. PICK C \in SUBSET Callback : C = {}
  OBVIOUS
<1>2. calls' \in [Callback -> Nat] /\ \A c \in Callback : calls'[c] = IF c \in C THEN 1 ELSE calls[c]
  BY <1>1, Parts DEF Types
<1>3. \A c \in C : c \in 1..registered /\ calls[c] = 0
  BY <1>1
<1>4. \A f : IsKept(t, d, f) /\ f.op = "register" => f.arg \notin C
  BY <1>1
<1> QED BY <1>2, <1>3, <1>4, Quiet

LEMMA Continued ==
  ASSUME IInv, NEW t \in Thread, ~Idle(t), NEW T, NEW fs \in Seq(T), Continue(t, fs)
  PROVE  Step(t, fs, 1)
<1>1. stack[t] # <<>> /\ Stacked
  BY TopFacts, Parts
<1>2. stack' = [stack EXCEPT ![t] = fs \o Tail(stack[t])]
  BY <1>1 DEF Continue, Stacked
<1> QED BY <1>1, <1>2, StepReplaced

LEMMA TwoFrames ==
  ASSUME NEW f, NEW g, NEW fs, fs = <<f, g>>
  PROVE  fs \in Seq({f, g}) /\ Len(fs) = 2 /\ fs[1] = f /\ fs[2] = g /\ 1..Len(fs) = {1, 2}
OBVIOUS

LEMMA ThreeFrames ==
  ASSUME NEW f, NEW g, NEW h, NEW fs, fs = <<f, g, h>>
  PROVE  fs \in Seq({f, g, h}) /\ Len(fs) = 3 /\ fs[1] = f /\ fs[2] = g /\ fs[3] = h /\ 1..Len(fs) = {1, 2, 3}
OBVIOUS

LEMMA LockFacts ==
  ASSUME IInv, NEW S, NEW u \in Thread \cup {None}, Lock(u, S)
  PROVE  /\ held' \in [Event -> Thread \cup {None}]
         /\ \A e \in Event : held'[e] = IF e \in S THEN u ELSE held[e]
<1>1. held \in [Event -> Thread \cup {None}]
  BY Parts DEF Types
<1> QED BY <1>1 DEF Lock
-----------------------------------------------------------------------------
(* What lies below a call *)

LEMMA Under ==
  ASSUME IInv, NEW t \in Thread, NEW i \in DOMAIN stack[t]
  PROVE  /\ i \in Nat /\ i >= 1 /\ i <= Len(stack[t]) /\ Len(stack[t]) \in Nat /\ DOMAIN stack[t] = 1..Len(stack[t])
         /\ i = Len(stack[t]) => Lowest(stack[t][i])
         /\ i # Len(stack[t]) => Over(stack[t][i], stack[t][i + 1]) /\ i + 1 \in DOMAIN stack[t]
<1>1. Stacked /\ Shape
  BY Parts
<1>2. PICK n \in Nat : n = Len(stack[t]) /\ DOMAIN stack[t] = 1..n
  BY <1>1, SpotFacts
<1>3. i \in Nat /\ i >= 1 /\ i <= n /\ (i # n => i + 1 \in 1..n)
  BY <1>2
<1>4. i = n => Lowest(stack[t][i])
  BY <1>1, <1>2 DEF Shape
<1>5. i # n => Over(stack[t][i], stack[t][i + 1])
  BY <1>1, <1>2 DEF Shape
<1> QED BY <1>2, <1>3, <1>4, <1>5

LEMMA UnderBroadcast ==
  ASSUME IInv, NEW t \in Thread, NEW i \in DOMAIN stack[t], stack[t][i].op \in {"finish", "broadcast", "userUpdate"},
         NEW k \in DOMAIN stack[t], k > i
  PROVE  stack[t][i].op = "broadcast" /\ stack[t][k].op = "userUpdate" /\ stack[t][k].on = stack[t][i].on
<1>1. PICK n \in Nat : n = Len(stack[t]) /\ DOMAIN stack[t] = 1..n /\ i \in 1..n /\ k \in 1..n
  BY Under
<1>2. i # n
  BY <1>1
<1>3. /\ Over(stack[t][i], stack[t][i + 1]) /\ i + 1 \in 1..n
  BY <1>1, <1>2, Under
<1>4. stack[t][i].op = "broadcast" /\ stack[t][i + 1].op = "userUpdate" /\ stack[t][i + 1].on = stack[t][i].on
  BY <1>3 DEF Over
<1>5. i + 1 = n
  <2>1. i + 1 # n => Over(stack[t][i + 1], stack[t][(i + 1) + 1])
    BY <1>1, <1>3, Under
  <2> QED BY <1>4, <2>1 DEF Over
<1>6. k = i + 1
  BY <1>1, <1>5
<1> QED BY <1>4, <1>6

LEMMA UnderUnlock ==
  ASSUME IInv, NEW t \in Thread, NEW i \in DOMAIN stack[t], stack[t][i].op \in {"unlock", "notified"},
         NEW k \in DOMAIN stack[t], k > i
  PROVE  /\ stack[t][k].op \in {"finish", "broadcast", "userUpdate"} /\ stack[t][k].on = stack[t][i].on
         /\ i + 1 \in DOMAIN stack[t] /\ stack[t][i + 1].on = stack[t][i].on /\ stack[t][i + 1].op \in {"finish", "broadcast"}
<1>1. PICK n \in Nat : n = Len(stack[t]) /\ DOMAIN stack[t] = 1..n /\ i \in 1..n /\ k \in 1..n
  BY Under
<1>2. i # n
  BY <1>1
<1>3. Over(stack[t][i], stack[t][i + 1]) /\ i + 1 \in DOMAIN stack[t]
  BY <1>1, <1>2, Under
<1>4. stack[t][i + 1].op \in {"finish", "broadcast"} /\ stack[t][i + 1].on = stack[t][i].on
  BY <1>3 DEF Over
<1>5. CASE k = i + 1
  BY <1>3, <1>4, <1>5
<1>6. CASE k # i + 1
  <2>1. k > i + 1
    BY <1>1, <1>6
  <2>2. stack[t][k].op = "userUpdate" /\ stack[t][k].on = stack[t][i + 1].on
    BY <1>3, <1>4, <2>1, UnderBroadcast
  <2> QED BY <1>3, <1>4, <2>2
<1> QED BY <1>5, <1>6

\* A thread that reports an event while it holds the lock of the command has
\* not reported that event to itself.
LEMMA UnderUpdate ==
  ASSUME IInv, NEW t \in Thread, NEW i \in DOMAIN stack[t], stack[t][i].op \in {"update", "push"},
         NEW k \in DOMAIN stack[t], k > i, stack[t][k].op = "notified"
  PROVE  stack[t][k].arg = stack[t][i].on /\ stack[t][k].on # stack[t][i].on
<1>1. PICK n \in Nat : n = Len(stack[t]) /\ DOMAIN stack[t] = 1..n /\ i \in 1..n /\ k \in 1..n
  BY Under
<1>2. ASSUME NEW p \in 1..n, stack[t][p].op = "push", k > p
      PROVE  stack[t][k].arg = stack[t][p].on /\ stack[t][k].on # stack[t][p].on
  <2>1. p # n
    BY <1>1, <1>2
  <2>2. Over(stack[t][p], stack[t][p + 1]) /\ p + 1 \in DOMAIN stack[t]
    BY <1>1, <2>1, Under
  <2>3. stack[t][p + 1].op = "notified" /\ stack[t][p + 1].arg = stack[t][p].on
    BY <1>2, <2>2 DEF Over
  <2>4. ~(k > p + 1)
    <3>1. k > p + 1 => stack[t][k].op \in {"finish", "broadcast", "userUpdate"}
      BY <2>2, <2>3, UnderUnlock
    <3> QED BY <3>1
  <2>5. k = p + 1
    BY <1>1, <1>2, <2>4
  <2>6. Meant(stack[t][k])
    BY Parts DEF FramesMeant
  <2>7. stack[t][k].arg # stack[t][k].on
    BY <2>6 DEF Meant
  <2> QED BY <2>3, <2>5, <2>7
<1>3. CASE stack[t][i].op = "push"
  BY <1>1, <1>2, <1>3
<1>4. CASE stack[t][i].op = "update"
  <2>1. i # n
    BY <1>1
  <2>2. Over(stack[t][i], stack[t][i + 1]) /\ i + 1 \in 1..n
    BY <1>1, <2>1, Under
  <2>3. stack[t][i + 1].op \in {"push", "unlock"} /\ stack[t][i + 1].on = stack[t][i].on
    BY <1>4, <2>2 DEF Over
  <2>4. k # i + 1
    BY <2>3
  <2>5. k > i + 1
    BY <1>1, <2>4
  <2>6. stack[t][i + 1].op # "unlock"
    <3>1. stack[t][i + 1].op = "unlock" => stack[t][k].op \in {"finish", "broadcast", "userUpdate"}
      BY <1>1, <2>2, <2>5, UnderUnlock
    <3> QED BY <3>1
  <2> QED BY <1>2, <2>2, <2>3, <2>5, <2>6
<1> QED BY <1>3, <1>4
-----------------------------------------------------------------------------
LEMMA CallImmediatelyKeeps ==
  ASSUME IInv, NEW t \in Thread, CallImmediately(t)
  PROVE  IInv'
<1>0. /\ Types /\ FramesMeant /\ Shape /\ Owner /\ Unique /\ Lists /\ Progress
  BY Parts
<1>1a. PICK f : f = Doing(t)
  OBVIOUS
<1>1b. PICK e : e = f.on
  OBVIOUS
<1>1c. PICK c : c = f.arg
  OBVIOUS
<1>1d. PICK g : g = Frame("call", e, c, 0)
  OBVIOUS
<1>1e. PICK fs : fs = <<g>>
  OBVIOUS
<1>1. f = Doing(t) /\ e = f.on /\ c = f.arg /\ g = Frame("call", e, c, 0) /\ fs = <<g>>
  BY <1>1a, <1>1b, <1>1c, <1>1d, <1>1e
<1>2. /\ At(t, "register") /\ ~(status[e] > trigger[c])
      /\ calls' = [calls EXCEPT ![c] = @ + 1]
      /\ Continue(t, fs)
      /\ UNCHANGED <<created, kind, status, waits, notify, held, list, work, registered, target, trigger, returned>>
  BY <1>1 DEF CallImmediately, StillToCome, eventVars, cbVars
<1>3. ~Idle(t) /\ f.op = "register" /\ e \in Event /\ c \in Callback /\ created \in Nat /\ registered \in Nat
  BY <1>1, <1>2, CallFacts
<1>4. fs \in Seq({g}) /\ Len(fs) = 1 /\ fs[1] = g /\ \A i \in 1..Len(fs) : i = 1 /\ fs[i] = g
  BY <1>1, OneFrame
<1>5. /\ stack[t] # <<>> /\ f = stack[t][1] /\ Meant(f)
      /\ Len(stack[t]) > 1 => Over(f, stack[t][2])
  BY <1>1, <1>3, TopFacts
<1>6. Step(t, fs, 1) /\ Calm
  BY <1>2, <1>3, <1>4, Continued DEF Calm
<1>7. g.op = "call" /\ g.on = e /\ g.arg = c /\ g = Frame(g.op, g.on, g.arg, g.next)
  BY <1>1 DEF Frame
<1>8. c \in 1..registered /\ target[c] = e /\ calls[c] = 0 /\ \A j \in DOMAIN list[e] : list[e][j] # c
  BY <1>1, <1>3, <1>5 DEF Meant
<1>9. calls' \in [Callback -> Nat] /\ \A k \in Callback : calls'[k] = IF k \in {c} THEN 1 ELSE calls[k]
  BY <1>0, <1>2, <1>3, <1>8 DEF Types
<1>10. /\ Types' /\ Queues' /\ Events' /\ Lists' /\ CalledOnce' /\ Stacked' /\ Notifies'
       /\ \A h : IsKept(t, 1, h) => Meant(h)'
  <2>0. PICK C : C = {c}
    OBVIOUS
  <2>1. \A h : IsKept(t, 1, h) /\ h.op = "register" => h.arg \notin C
    <3>1. \A h : IsKept(t, 1, h) => ~Same(f, h)
      BY <1>1, <1>3, Alone
    <3> QED BY <1>1, <1>3, <2>0, <3>1 DEF Same
  <2>2. returned' \subseteq Callback /\ held' \in [Event -> Thread \cup {None}]
    BY <1>0, <1>2 DEF Types
  <2>3. C \in SUBSET Callback /\ \A k \in C : k \in 1..registered /\ calls[k] = 0
    BY <1>3, <1>8, <2>0
  <2>5. calls' \in [Callback -> Nat] /\ \A k \in Callback : calls'[k] = IF k \in C THEN 1 ELSE calls[k]
    BY <1>9, <2>0
  <2>4. UNCHANGED <<status, waits, notify, work>> /\ stack[t][1].op # "notified"
    BY <1>2, <1>3, <1>5
  <2> QED BY <1>6, <2>1, <2>2, <2>3, <2>4, <2>5, Quiet
<1>13. FramesMeant'
  <2>1. Meant(g)'
    BY <1>2, <1>5, <1>1, <1>3, <1>7, <1>8 DEF Meant, Frame
  <2>2. \A i \in 1..Len(fs) : Meant(fs[i])'
    BY <1>4, <2>1
  <2> QED BY <1>6, <1>10, <2>2, MeantKeeps
<1>14. Shape'
  <2>1. \A i \in 1..Len(fs) : i < Len(fs) => Over(fs[i], fs[i + 1])
    BY <1>4
  <2>3. \A h : Len(fs) >= 1 /\ Len(stack[t]) > 1 /\ h = stack[t][1 + 1] => Over(fs[Len(fs)], h)
    BY <1>3, <1>4, <1>5, <1>7 DEF Over
  <2>4. Len(fs) >= 1 /\ Len(stack[t]) = 1 => Lowest(fs[Len(fs)])
    BY <1>4, <1>7 DEF Lowest
  <2> QED BY <1>0, <1>2, <1>6, <2>1, <2>3, <2>4, ShapeCalm
<1>15. Owner'
  <2>1. \A h : h.op = "notified" /\ (\E i \in DOMAIN stack[t] : i > 1 /\ h = stack[t][i]) => held'[h.on] = t
    BY <1>0, <1>2 DEF Owner
  <2>2. HoldsTop(t, fs[1])'
    BY <1>4, <1>7 DEF HoldsTop
  <2>3. \A u \in Thread \ {t} : \A k \in Event : held[k] = u => held'[k] = u
    BY <1>2
  <2>4. \A i \in 1..Len(fs) : fs[i].op = "notified" => held'[fs[i].on] = t
    BY <1>4, <1>7
  <2>5. \A h : Len(fs) = 0 /\ Len(stack[t]) > 1 /\ h = stack[t][1 + 1] => HoldsTop(t, h)'
    BY <1>4
  <2> QED BY <1>6, <2>1, <2>2, <2>3, <2>4, <2>5, OwnerKeeps
<1>16. Unique'
  <2>1. \A i \in 1..Len(fs) : \A h : IsKept(t, 1, h) => ~Same(fs[i], h)
    BY <1>4, <1>7 DEF Same, Walking
  <2>2. \A i, k \in 1..Len(fs) : Same(fs[i], fs[k]) => i = k
    BY <1>4
  <2> QED BY <1>0, <1>6, <2>1, <2>2, UniqueKeeps
<1>20. Progress'
  <2>1. \A k \in Event : \A j \in DOMAIN list[k] :
          /\ status'[k] = status[k] /\ kind'[k] = kind[k] /\ target[list[k][j]] = k
          /\ trigger'[list[k][j]] = trigger[list[k][j]] /\ target'[list[k][j]] = target[list[k][j]]
          /\ calls'[list[k][j]] = calls[list[k][j]]
    <3> SUFFICES ASSUME NEW k \in Event, NEW j \in DOMAIN list[k] PROVE target[list[k][j]] = k /\ calls'[list[k][j]] = calls[list[k][j]]
      BY <1>2
    <3>1. target[list[k][j]] = k /\ list[k][j] \in 1..registered
      BY <1>0 DEF Lists
    <3>2. list[k][j] \in Callback
      BY <1>0 DEF Types
    <3>3. list[k][j] # c
      BY <1>8, <3>1
    <3> QED BY <1>9, <3>1, <3>2, <3>3
  <2>2. \A i \in 1..Len(fs) : \A k : ~Walking(fs[i], k)
    BY <1>4, <1>7 DEF Walking
  <2>3. \A k : ~Walking(stack[t][1], k)
    BY <1>3, <1>5 DEF Walking
  <2>4. list' = list /\ returned \subseteq returned' /\ Len(fs) # 0
    BY <1>2, <1>4
  <2> QED BY <1>0, <1>6, <2>1, <2>2, <2>3, <2>4, ProgressKeeps
<1> QED BY <1>10, <1>13, <1>14, <1>15, <1>16, <1>20, Assembled

-----------------------------------------------------------------------------
(* Locks given back, calls that end *)

LEMMA BroadcastDoneKeeps ==
  ASSUME IInv, NEW t \in Thread, BroadcastDone(t)
  PROVE  IInv'
<1>0. /\ Types /\ FramesMeant /\ Shape /\ Owner /\ Unique /\ Lists /\ Progress
  BY Parts
<1>1a. PICK f : f = Doing(t)
  OBVIOUS
<1>1b. PICK fs : fs = <<>>
  OBVIOUS
<1>1. f = Doing(t) /\ fs = <<>>
  BY <1>1a, <1>1b
<1>2. /\ At(t, "broadcast") /\ Continue(t, fs)
      /\ UNCHANGED <<created, kind, status, waits, notify, held, list, work, registered, target, trigger, calls, returned>>
  BY <1>1 DEF BroadcastDone, eventVars, cbVars
<1>3. ~Idle(t) /\ f.op = "broadcast"
  BY <1>1, <1>2, CallFacts
<1>4. Len(fs) = 0 /\ ~(Len(fs) >= 1) /\ 1..Len(fs) = {} /\ fs \in Seq({})
  BY <1>1, EmptyFrames
<1>5. /\ f = stack[t][1]
      /\ Len(stack[t]) > 1 => Over(f, stack[t][2])
  BY <1>1, <1>3, TopFacts
<1>6. Step(t, fs, 1) /\ Calm
  BY <1>2, <1>3, <1>4, Continued DEF Calm
<1>8. Len(stack[t]) > 1 => stack[t][2].op = "userUpdate"
  BY <1>3, <1>5 DEF Over
<1>10. /\ Types' /\ Queues' /\ Events' /\ Lists' /\ CalledOnce' /\ Stacked' /\ Notifies'
       /\ \A h : IsKept(t, 1, h) => Meant(h)'
  <2>1. returned' \subseteq Callback /\ held' \in [Event -> Thread \cup {None}]
    BY <1>0, <1>2 DEF Types
  <2>2. stack[t][1].op # "notified" /\ UNCHANGED <<status, waits, notify, work, calls>>
    BY <1>2, <1>3, <1>5
  <2> QED BY <1>6, <2>1, <2>2, Silent
<1>13. FramesMeant'
  <2>2. \A i \in 1..Len(fs) : Meant(fs[i])'
    BY <1>4
  <2> QED BY <1>6, <1>10, <2>2, MeantKeeps
<1>14. Shape'
  <2>1. \A i \in 1..Len(fs) : i < Len(fs) => Over(fs[i], fs[i + 1])
    BY <1>4
  <2>3. \A h : Len(fs) >= 1 /\ Len(stack[t]) > 1 /\ h = stack[t][1 + 1] => Over(fs[Len(fs)], h)
    BY <1>4
  <2>4. Len(fs) >= 1 /\ Len(stack[t]) = 1 => Lowest(fs[Len(fs)])
    BY <1>4
  <2> QED BY <1>0, <1>2, <1>6, <2>1, <2>3, <2>4, ShapeCalm
<1>15. Owner'
  <2>1. \A h : h.op = "notified" /\ (\E i \in DOMAIN stack[t] : i > 1 /\ h = stack[t][i]) => held'[h.on] = t
    BY <1>0, <1>2 DEF Owner
  <2>2. Len(fs) >= 1 => HoldsTop(t, fs[1])'
    BY <1>4
  <2>3. \A u \in Thread \ {t} : \A k \in Event : held[k] = u => held'[k] = u
    BY <1>2
  <2>4. \A i \in 1..Len(fs) : fs[i].op = "notified" => held'[fs[i].on] = t
    BY <1>4
  <2>5. \A h : Len(fs) = 0 /\ Len(stack[t]) > 1 /\ h = stack[t][1 + 1] => HoldsTop(t, h)'
    BY <1>8 DEF HoldsTop
  <2> QED BY <1>6, <2>1, <2>2, <2>3, <2>4, <2>5, OwnerKeeps
<1>16. Unique'
  <2>1. \A i \in 1..Len(fs) : \A h : IsKept(t, 1, h) => ~Same(fs[i], h)
    BY <1>4
  <2>2. \A i, k \in 1..Len(fs) : Same(fs[i], fs[k]) => i = k
    BY <1>4
  <2> QED BY <1>0, <1>6, <2>1, <2>2, UniqueKeeps
<1>20. Progress'
  <2>1. \A k \in Event : \A j \in DOMAIN list[k] :
          /\ status'[k] = status[k] /\ kind'[k] = kind[k] /\ target[list[k][j]] = k
          /\ trigger'[list[k][j]] = trigger[list[k][j]] /\ target'[list[k][j]] = target[list[k][j]]
          /\ calls'[list[k][j]] = calls[list[k][j]]
    BY <1>0, <1>2 DEF Lists
  <2>2. \A i \in 1..Len(fs) : \A k : ~Walking(fs[i], k)
    BY <1>4
  <2>3. \A k : ~Walking(stack[t][1], k)
    BY <1>3, <1>5 DEF Walking
  <2>4. list' = list /\ returned \subseteq returned'
    BY <1>2
  <2>5. Len(stack[t]) > 1 => \A k : ~Walking(stack[t][2], k) \/ stack[t][2].op = "userUpdate"
    BY <1>8
  <2> QED BY <1>0, <1>6, <2>1, <2>2, <2>3, <2>4, <2>5, ProgressKeeps
<1> QED BY <1>10, <1>13, <1>14, <1>15, <1>16, <1>20, Assembled
LEMMA PopKeeps ==
  ASSUME IInv, NEW t \in Thread, NEW fs, fs = <<>>, Step(t, fs, 1), Calm,
         \A h : IsKept(t, 1, h) => Meant(h)',
         \A u \in Thread \ {t} : \A k \in Event : held[k] = u => held'[k] = u,
         \A h : h.op = "notified" /\ (\E i \in DOMAIN stack[t] : i > 1 /\ h = stack[t][i]) => held'[h.on] = t,
         \A h : Len(stack[t]) > 1 /\ h = stack[t][2] => HoldsTop(t, h)'
  PROVE  FramesMeant' /\ Shape' /\ Unique' /\ Owner'
<1>1. Len(fs) = 0 /\ ~(Len(fs) >= 1) /\ 1..Len(fs) = {} /\ Shape /\ Unique
  BY EmptyFrames, Parts
<1>2. FramesMeant'
  <2>1. \A i \in 1..Len(fs) : Meant(fs[i])'
    BY <1>1
  <2> QED BY <2>1, MeantKeeps
<1>3. Shape'
  <2>1. \A i \in 1..Len(fs) : i < Len(fs) => Over(fs[i], fs[i + 1])
    BY <1>1
  <2>2. \A h : Len(fs) >= 1 /\ Len(stack[t]) > 1 /\ h = stack[t][1 + 1] => Over(fs[Len(fs)], h)
    BY <1>1
  <2>3. Len(fs) >= 1 /\ Len(stack[t]) = 1 => Lowest(fs[Len(fs)])
    BY <1>1
  <2>4. trigger' = trigger /\ list' = list /\ kind' = kind
    BY DEF Calm
  <2> QED BY <1>1, <2>1, <2>2, <2>3, <2>4, ShapeCalm
<1>4. Unique'
  <2>1. \A i \in 1..Len(fs) : \A h : IsKept(t, 1, h) => ~Same(fs[i], h)
    BY <1>1
  <2>2. \A i, k \in 1..Len(fs) : Same(fs[i], fs[k]) => i = k
    BY <1>1
  <2> QED BY <1>1, <2>1, <2>2, UniqueKeeps
<1>5. Owner'
  <2>1. Len(fs) >= 1 => HoldsTop(t, fs[1])'
    BY <1>1
  <2>2. \A i \in 1..Len(fs) : fs[i].op = "notified" => held'[fs[i].on] = t
    BY <1>1
  <2>3. \A h : Len(fs) = 0 /\ Len(stack[t]) > 1 /\ h = stack[t][1 + 1] => HoldsTop(t, h)'
    OBVIOUS
  <2> QED BY <2>1, <2>2, <2>3, OwnerKeeps
<1> QED BY <1>2, <1>3, <1>4, <1>5

LEMMA UnlockEventKeeps ==
  ASSUME IInv, NEW t \in Thread, UnlockEvent(t)
  PROVE  IInv'
<1>0. /\ Types /\ Owner /\ Lists /\ Progress
  BY Parts
<1>1a. PICK f : f = Doing(t)
  OBVIOUS
<1>1b. PICK e : e = f.on
  OBVIOUS
<1>1c. PICK fs : fs = <<>>
  OBVIOUS
<1>1. f = Doing(t) /\ e = f.on /\ fs = <<>>
  BY <1>1a, <1>1b, <1>1c
<1>2. /\ At(t, "unlock") /\ Continue(t, fs) /\ Lock(None, {e})
      /\ UNCHANGED <<created, kind, status, waits, notify, list, work, registered, target, trigger, calls, returned>>
  BY <1>1 DEF UnlockEvent, cbVars
<1>3. ~Idle(t) /\ f.op = "unlock" /\ e \in Event
  BY <1>1, <1>2, CallFacts
<1>4. Len(fs) = 0 /\ 1..Len(fs) = {} /\ fs \in Seq({})
  BY <1>1, EmptyFrames
<1>5. /\ f = stack[t][1] /\ 1 \in DOMAIN stack[t]
      /\ Len(stack[t]) > 1 => Over(f, stack[t][2])
  BY <1>1, <1>3, TopFacts
<1>6. Step(t, fs, 1) /\ Calm
  BY <1>2, <1>3, <1>4, Continued DEF Calm
<1>7. /\ held' \in [Event -> Thread \cup {None}]
      /\ \A k \in Event : held'[k] = IF k \in {e} THEN None ELSE held[k]
  BY <1>2, LockFacts
<1>8. Len(stack[t]) > 1 => stack[t][2].op \in {"finish", "broadcast"}
  BY <1>3, <1>5 DEF Over
<1>9. held[e] = t
  BY <1>0, <1>1, <1>3, <1>5 DEF Owner
<1>10. /\ Types' /\ Queues' /\ Events' /\ Lists' /\ CalledOnce' /\ Stacked' /\ Notifies'
       /\ \A h : IsKept(t, 1, h) => Meant(h)'
  <2>1. returned' \subseteq Callback
    BY <1>0, <1>2 DEF Types
  <2>2. stack[t][1].op # "notified" /\ UNCHANGED <<status, waits, notify, work, calls>>
    BY <1>2, <1>3, <1>5
  <2> QED BY <1>6, <1>7, <2>1, <2>2, Silent
<1>13. FramesMeant' /\ Shape' /\ Unique' /\ Owner'
  <2>1. \A h : h.op = "notified" /\ (\E i \in DOMAIN stack[t] : i > 1 /\ h = stack[t][i]) => held'[h.on] = t
    BY <1>3, <1>5, UnderUnlock
  <2>2. \A u \in Thread \ {t} : \A k \in Event : held[k] = u => held'[k] = u
    BY <1>7, <1>9
  <2>3. \A h : Len(stack[t]) > 1 /\ h = stack[t][2] => HoldsTop(t, h)'
    BY <1>8 DEF HoldsTop
  <2> QED BY <1>1, <1>6, <1>10, <2>1, <2>2, <2>3, PopKeeps
<1>20. Progress'
  <2>1. \A k \in Event : \A j \in DOMAIN list[k] :
          /\ status'[k] = status[k] /\ kind'[k] = kind[k] /\ target[list[k][j]] = k
          /\ trigger'[list[k][j]] = trigger[list[k][j]] /\ target'[list[k][j]] = target[list[k][j]]
          /\ calls'[list[k][j]] = calls[list[k][j]]
    BY <1>0, <1>2 DEF Lists
  <2>2. \A i \in 1..Len(fs) : \A k : ~Walking(fs[i], k)
    BY <1>4
  <2>3. \A k : ~Walking(stack[t][1], k)
    BY <1>3, <1>5 DEF Walking
  <2>4. list' = list /\ returned \subseteq returned'
    BY <1>2
  <2>5. Len(stack[t]) > 1 => \A k : ~Walking(stack[t][2], k) \/ stack[t][2].op = "userUpdate"
    BY <1>8 DEF Walking
  <2> QED BY <1>0, <1>6, <2>1, <2>2, <2>3, <2>4, <2>5, ProgressKeeps
<1> QED BY <1>10, <1>13, <1>20, Assembled

\* The walk of e has called everything that waits for its status: what it
\* passed has returned, and nobody else is walking.
LEMMA UpdatedKeeps ==
  ASSUME IInv, NEW t \in Thread, Updated(t)
  PROVE  IInv'
<1>0. /\ Types /\ Owner /\ Lists /\ Progress /\ Unique
  BY Parts
<1>1a. PICK f : f = Doing(t)
  OBVIOUS
<1>1b. PICK e : e = f.on
  OBVIOUS
<1>1c. PICK fs : fs = <<>>
  OBVIOUS
<1>1. f = Doing(t) /\ e = f.on /\ fs = <<>>
  BY <1>1a, <1>1b, <1>1c
<1>2. /\ At(t, "update") /\ Continue(t, fs)
      /\ \A j \in DOMAIN list[e] : ~(j >= f.next /\ trigger[list[e][j]] = f.arg)
      /\ UNCHANGED <<created, kind, status, waits, notify, held, list, work, registered, target, trigger, calls, returned>>
  BY <1>1 DEF Updated, Matches, eventVars, cbVars
<1>3. ~Idle(t) /\ f.op = "update" /\ e \in Event
  BY <1>1, <1>2, CallFacts
<1>4. Len(fs) = 0 /\ 1..Len(fs) = {} /\ fs \in Seq({})
  BY <1>1, EmptyFrames
<1>5. /\ f = stack[t][1] /\ 1 \in DOMAIN stack[t] /\ Meant(f)
      /\ Len(stack[t]) > 1 => Over(f, stack[t][2])
  BY <1>1, <1>3, TopFacts
<1>6. Step(t, fs, 1) /\ Calm
  BY <1>2, <1>3, <1>4, Continued DEF Calm
<1>8. Len(stack[t]) > 1 => stack[t][2].op \in {"push", "unlock"} /\ stack[t][2].on = e
  BY <1>1, <1>3, <1>5 DEF Over
<1>9. held[e] = t /\ status[e] = f.arg
  BY <1>0, <1>1, <1>3, <1>5 DEF Owner, Meant
<1>10. /\ Types' /\ Queues' /\ Events' /\ Lists' /\ CalledOnce' /\ Stacked' /\ Notifies'
       /\ \A h : IsKept(t, 1, h) => Meant(h)'
  <2>1. returned' \subseteq Callback /\ held' \in [Event -> Thread \cup {None}]
    BY <1>0, <1>2 DEF Types
  <2>2. stack[t][1].op # "notified" /\ UNCHANGED <<status, waits, notify, work, calls>>
    BY <1>2, <1>3, <1>5
  <2> QED BY <1>6, <2>1, <2>2, Silent
<1>13. FramesMeant' /\ Shape' /\ Unique' /\ Owner'
  <2>1. \A h : h.op = "notified" /\ (\E i \in DOMAIN stack[t] : i > 1 /\ h = stack[t][i]) => held'[h.on] = t
    BY <1>0, <1>2 DEF Owner
  <2>2. \A u \in Thread \ {t} : \A k \in Event : held[k] = u => held'[k] = u
    BY <1>2
  <2>3. \A h : Len(stack[t]) > 1 /\ h = stack[t][2] => HoldsTop(t, h)'
    BY <1>2, <1>8, <1>9 DEF HoldsTop
  <2> QED BY <1>1, <1>6, <1>10, <2>1, <2>2, <2>3, PopKeeps
<1>20. Progress'
  <2> SUFFICES ASSUME NEW k \in Event, NEW j \in DOMAIN list[k], NEW c, c = list[k][j] PROVE InTurn(k, j)'
    BY <1>2 DEF Progress
  <2>1. InTurn(k, j)
    BY <1>0 DEF Progress
  <2>2. CASE k # e
    <3>1. \A i \in 1..Len(fs) : ~Walking(fs[i], k)
      BY <1>4
    <3>2. ~Walking(stack[t][1], k)
      BY <1>1, <1>5, <2>2 DEF Walking
    <3>3. Len(stack[t]) > 1 => ~Walking(stack[t][2], k)
      BY <1>8 DEF Walking
    <3>4. /\ target[c] = k /\ list'[k][j] = c
          /\ status'[k] = status[k] /\ kind'[k] = kind[k] /\ trigger'[c] = trigger[c] /\ target'[c] = target[c]
          /\ calls'[c] = calls[c] /\ (c \in returned => c \in returned')
      BY <1>0, <1>2 DEF Lists
    <3> QED BY <1>6, <2>1, <3>1, <3>2, <3>3, <3>4, TurnKeeps
  <2>3. CASE k = e
    <3>1. \A u \in Thread : \A p \in DOMAIN stack'[u] : ~Walking(stack'[u][p], e)
      <4> SUFFICES ASSUME NEW u \in Thread, NEW p \in DOMAIN stack'[u], NEW h, h = stack'[u][p], Walking(h, e)
                   PROVE  FALSE
        OBVIOUS
      <4>1. IsKept(t, 1, h)
        <5>1. p \notin 1..Len(fs)
          BY <1>4
        <5> QED BY <1>6, <5>1, StepFacts DEF IsKept
      <4>2. ~Same(f, h)
        BY <1>1, <1>3, <4>1, Alone
      <4> QED BY <1>1, <1>3, <4>2 DEF Same, Walking
    <3>2. status[e] = trigger[c] => c \in returned
      <4> SUFFICES ASSUME status[e] = trigger[c] PROVE c \in returned
        OBVIOUS
      <4>1. Reached(e, j)
        BY <2>1, <2>3 DEF InTurn
      <4>2. Walking(stack[t][1], e) /\ stack[t][1].op # "userUpdate"
        BY <1>1, <1>3, <1>5 DEF Walking
      <4>3. j < f.next => c \in returned \/ (1 > 1 /\ j = f.next - 1)
        BY <1>5, <2>3, <4>1, <4>2 DEF Reached
      <4>4. ~(j >= f.next)
        BY <1>2, <1>9, <2>3
      <4>5. j \in Int /\ f.next \in Int
        <5>1. j \in Int
          BY <1>0, <2>3 DEF Types
        <5> QED BY <1>3, <1>5, <5>1 DEF Meant
      <4> QED BY <4>3, <4>4, <4>5
    <3>3. /\ status[e] > trigger[c] => calls[c] = 0
          /\ status[e] < trigger[c] => c \in returned \/ Skipped(c)
      BY <2>1, <2>3 DEF InTurn
    <3>4. Skipped(c) => Skipped(c)'
      BY <1>2 DEF Skipped
    <3>5. (status[e] = trigger[c] => Reached(e, j)')
      BY <1>2, <2>3, <3>1, <3>2 DEF Reached
    <3> QED BY <1>2, <2>3, <3>3, <3>4, <3>5 DEF InTurn
  <2> QED BY <2>2, <2>3
<1> QED BY <1>10, <1>13, <1>20, Assembled
LEMMA ReturnKeeps ==
  ASSUME IInv, NEW t \in Thread, Return(t)
  PROVE  IInv'
<1>0. /\ Types /\ Owner /\ Lists /\ Progress /\ Unique
  BY Parts
<1>1a. PICK f : f = Doing(t)
  OBVIOUS
<1>1b. PICK e : e = f.on
  OBVIOUS
<1>1c. PICK c : c = f.arg
  OBVIOUS
<1>1d. PICK g : g = stack[t][2]
  OBVIOUS
<1>1e. PICK fs : fs = <<>>
  OBVIOUS
<1>1. f = Doing(t) /\ e = f.on /\ c = f.arg /\ g = stack[t][2] /\ fs = <<>>
  BY <1>1a, <1>1b, <1>1c, <1>1d, <1>1e
<1>2. /\ At(t, "call") /\ Continue(t, fs)
      /\ Len(stack[t]) > 1 /\ g.op = "update" => held[e] = None /\ held' = [held EXCEPT ![e] = t]
      /\ ~(Len(stack[t]) > 1 /\ g.op = "update") => held' = held
      /\ returned' = returned \cup {c}
      /\ UNCHANGED <<created, kind, status, waits, notify, list, work, registered, target, trigger, calls>>
  BY <1>1 DEF Return, Unlocked, OwnerAfterCall, cbVars
<1>3. ~Idle(t) /\ f.op = "call" /\ e \in Event /\ c \in Callback
  BY <1>1, <1>2, CallFacts
<1>4. Len(fs) = 0 /\ 1..Len(fs) = {} /\ fs \in Seq({})
  BY <1>1, EmptyFrames
<1>5. /\ f = stack[t][1] /\ 1 \in DOMAIN stack[t] /\ Meant(f) /\ Len(stack[t]) \in Nat
      /\ Len(stack[t]) > 1 => Over(f, g) /\ 2 \in DOMAIN stack[t] /\ Kept(t, 1, t, 2)
  BY <1>1, <1>3, TopFacts
<1>6. Step(t, fs, 1) /\ Calm
  BY <1>2, <1>3, <1>4, Continued DEF Calm
<1>7. None \notin Thread
  BY CallbackAssumption DEF Thread
<1>8. /\ Len(stack[t]) > 1 => g.op \in {"call", "update"}
      /\ Len(stack[t]) > 1 /\ g.op = "update" =>
           g.on = e /\ g.next - 1 \in DOMAIN list[e] /\ c = list[e][g.next - 1]
  BY <1>1, <1>3, <1>5 DEF Over
<1>9. /\ held' \in [Event -> Thread \cup {None}]
      /\ \A k \in Event : held'[k] = held[k] \/ (k = e /\ held[k] = None /\ held'[k] = t)
      /\ Len(stack[t]) > 1 /\ g.op = "update" => held'[e] = t
  BY <1>0, <1>2, <1>3 DEF Types
<1>10. /\ Types' /\ Queues' /\ Events' /\ Lists' /\ CalledOnce' /\ Stacked' /\ Notifies'
       /\ \A h : IsKept(t, 1, h) => Meant(h)'
  <2>1. returned' \subseteq Callback
    BY <1>0, <1>2, <1>3 DEF Types
  <2>2. stack[t][1].op # "notified" /\ UNCHANGED <<status, waits, notify, work, calls>>
    BY <1>2, <1>3, <1>5
  <2> QED BY <1>6, <1>9, <2>1, <2>2, Silent
<1>13. FramesMeant' /\ Shape' /\ Unique' /\ Owner'
  <2>1. ASSUME NEW h, h.op = "notified", NEW i \in DOMAIN stack[t], h = stack[t][i] PROVE held'[h.on] = t
    <3>1. held[h.on] = t
      BY <1>0, <2>1 DEF Owner
    <3>2. h.on \in Event
      <4>1. Kept(t, 0, t, i)
        BY <2>1, Under DEF Kept
      <4> QED BY <2>1, <4>1, KeptMeant DEF IsKept
    <3> QED BY <1>7, <1>9, <3>1, <3>2
  <2>2. \A u \in Thread \ {t} : \A k \in Event : held[k] = u => held'[k] = u
    BY <1>7, <1>9
  <2>3. \A h : Len(stack[t]) > 1 /\ h = stack[t][2] => HoldsTop(t, h)'
    BY <1>1, <1>8, <1>9 DEF HoldsTop
  <2>4. \A h : h.op = "notified" /\ (\E i \in DOMAIN stack[t] : i > 1 /\ h = stack[t][i]) => held'[h.on] = t
    BY <2>1
  <2> QED BY <1>1, <1>6, <1>10, <2>2, <2>3, <2>4, PopKeeps
<1>20. Progress'
  <2> SUFFICES ASSUME NEW k \in Event, NEW j \in DOMAIN list[k], NEW a, a = list[k][j] PROVE InTurn(k, j)'
    BY <1>2 DEF Progress
  <2>1. InTurn(k, j)
    BY <1>0 DEF Progress
  <2>2. CASE ~(Len(stack[t]) > 1 /\ Walking(g, k))
    <3>1. \A i \in 1..Len(fs) : ~Walking(fs[i], k)
      BY <1>4
    <3>2. ~Walking(stack[t][1], k)
      BY <1>3, <1>5 DEF Walking
    <3>3. Len(stack[t]) > 1 => ~Walking(stack[t][2], k)
      BY <1>1, <2>2
    <3>4. /\ target[a] = k /\ list'[k][j] = a
          /\ status'[k] = status[k] /\ kind'[k] = kind[k] /\ trigger'[a] = trigger[a] /\ target'[a] = target[a]
          /\ calls'[a] = calls[a] /\ (a \in returned => a \in returned')
      BY <1>0, <1>2 DEF Lists
    <3> QED BY <1>6, <2>1, <3>1, <3>2, <3>3, <3>4, TurnKeeps
  <2>3. CASE Len(stack[t]) > 1 /\ Walking(g, k)
    <3>1. g.op = "update" /\ k = e /\ 2 \in DOMAIN stack[t] /\ Kept(t, 1, t, 2)
      BY <1>5, <1>8, <2>3 DEF Walking
    <3>2. ASSUME NEW u \in Thread, NEW p \in DOMAIN stack'[u], NEW h, h = stack'[u][p], Walking(h, k)
          PROVE  h = g
      <4>1. p \notin 1..Len(fs)
        BY <1>4
      <4>2. PICK i \in DOMAIN stack[u] : h = stack[u][i]
        BY <1>6, <3>2, <4>1, StepFacts
      <4>3. Same(stack[u][i], stack[t][2])
        BY <1>1, <2>3, <3>2, <4>2 DEF Same, Walking
      <4>4. u = t /\ i = 2
        BY <1>0, <3>1, <4>3 DEF Unique
      <4> QED BY <1>1, <4>2, <4>4
    <3>3. ASSUME Reached(k, j) PROVE (j >= g.next => calls[a] = 0) /\ (j < g.next => a \in returned')
      <4>1. /\ j >= g.next => calls[a] = 0
            /\ j < g.next => a \in returned \/ (2 > 1 /\ j = g.next - 1)
        BY <1>1, <2>3, <3>1, <3>3 DEF Reached
      <4>2. j = g.next - 1 => a = c
        BY <1>8, <2>3, <3>1
      <4> QED BY <1>2, <4>1, <4>2
    <3>4. Walk(k)'
      <4>1. PICK p : p \in DOMAIN stack'[t] /\ stack'[t][p] = g
        BY <1>1, <1>6, <3>1, StepKept
      <4> QED BY <2>3, <4>1 DEF Walk, Walking
    <3>5. Reached(k, j) => Reached(k, j)'
      BY <1>2, <3>1, <3>2, <3>3, <3>4 DEF Reached, Walking
    <3>6. Skipped(a) => Skipped(a)'
      BY <1>2 DEF Skipped
    <3> QED BY <1>2, <2>1, <3>5, <3>6 DEF InTurn
  <2> QED BY <2>2, <2>3
<1> QED BY <1>10, <1>13, <1>20, Assembled
LEMMA CallNextKeeps ==
  ASSUME IInv, NEW t \in Thread, CallNext(t)
  PROVE  IInv'
<1>0. /\ Types /\ Owner /\ Lists /\ Progress /\ Unique /\ Shape /\ FramesMeant
  BY Parts
<1>1a. PICK f : f = Doing(t)
  OBVIOUS
<1>1b. PICK e : e = f.on
  OBVIOUS
<1>1. f = Doing(t) /\ e = f.on
  BY <1>1a, <1>1b
<1>2. PICK M : M = Matches(e, f.arg, f.next)
  OBVIOUS
<1>3a. PICK m : m = (CHOOSE j \in M : \A k \in M : j <= k)
  OBVIOUS
<1>3b. PICK c : c = list[e][m]
  OBVIOUS
<1>3c. PICK g : g = Frame("call", e, c, 0)
  OBVIOUS
<1>3d. PICK f2 : f2 = [f EXCEPT !.next = m + 1]
  OBVIOUS
<1>3e. PICK fs : fs = <<g, f2>>
  OBVIOUS
<1>3. /\ m = (CHOOSE j \in M : \A k \in M : j <= k) /\ c = list[e][m] /\ g = Frame("call", e, c, 0)
      /\ f2 = [f EXCEPT !.next = m + 1] /\ fs = <<g, f2>>
  BY <1>3a, <1>3b, <1>3c, <1>3d, <1>3e
<1>4. /\ At(t, "update") /\ M # {} /\ Continue(t, fs) /\ calls' = [calls EXCEPT ![c] = @ + 1]
      /\ Lock(None, {e})
      /\ UNCHANGED <<created, kind, status, waits, notify, list, work, registered, target, trigger, returned>>
  BY <1>1, <1>2, <1>3 DEF CallNext, OwnerDuringCall, Rest, cbVars
<1>5. ~Idle(t) /\ f.op = "update" /\ e \in Event
  BY <1>1, <1>4, CallFacts
<1>6. /\ f = stack[t][1] /\ 1 \in DOMAIN stack[t] /\ Meant(f) /\ Len(stack[t]) \in Nat /\ stack[t] # <<>>
      /\ Len(stack[t]) = 1 => Lowest(f)
      /\ Len(stack[t]) > 1 => Over(f, stack[t][2])
  BY <1>1, <1>5, TopFacts
<1>7. PICK n \in Nat : n = Len(list[e]) /\ DOMAIN list[e] = 1..n
  BY <1>0, <1>5 DEF Types
<1>8. \A j : j \in M <=> (j \in 1..n /\ j >= f.next /\ trigger[list[e][j]] = f.arg)
  BY <1>2, <1>7 DEF Matches
<1>9. m \in M /\ \A k \in M : m <= k
  <2>1. M \in SUBSET Nat
    BY <1>7, <1>8
  <2>2. \E j \in M : \A k \in M : j <= k
    BY <1>4, <2>1, Smallest
  <2> QED BY <1>3, <2>2
<1>10. m \in 1..n /\ m \in Nat /\ trigger[c] = f.arg /\ c \in 1..registered /\ c \in Callback /\ target[c] = e
  <2>1. m \in 1..n /\ trigger[c] = f.arg
    BY <1>3, <1>8, <1>9
  <2>2. c \in 1..registered /\ target[c] = e
    BY <1>0, <1>3, <1>5, <1>7, <2>1 DEF Lists
  <2>3. c \in Callback
    BY <1>0, <1>3, <1>5, <1>7, <2>1 DEF Types
  <2> QED BY <1>7, <2>1, <2>2, <2>3
<1>11. /\ f = Frame("update", e, f.arg, f.next) /\ status[e] = f.arg /\ f.next \in Nat \ {0}
       /\ f.arg \in {SUBMITTED, RUNNING, COMPLETE} /\ e \in 1..created /\ status[e] # UNKNOWN
  BY <1>1, <1>5, <1>6 DEF Meant
<1>12. /\ f2.op = "update" /\ f2.on = e /\ f2.arg = f.arg /\ f2.next = m + 1
       /\ f2 = Frame("update", e, f.arg, m + 1)
       /\ g.op = "call" /\ g.on = e /\ g.arg = c /\ g = Frame(g.op, g.on, g.arg, g.next)
  BY <1>3, <1>11 DEF Frame
<1>13. fs \in Seq({g, f2}) /\ Len(fs) = 2 /\ fs[1] = g /\ fs[2] = f2 /\ 1..Len(fs) = {1, 2}
  BY <1>3, TwoFrames
<1>14. Step(t, fs, 1) /\ Calm
  BY <1>4, <1>5, <1>13, Continued DEF Calm
<1>15. /\ held' \in [Event -> Thread \cup {None}]
       /\ \A k \in Event : held'[k] = IF k \in {e} THEN None ELSE held[k]
  BY <1>4, LockFacts
<1>16. held[e] = t
  BY <1>0, <1>1, <1>5, <1>6 DEF Owner
<1>17. calls[c] = 0
  <2>1. InTurn(e, m)
    BY <1>0, <1>5, <1>7, <1>10 DEF Progress
  <2>2. Reached(e, m)
    BY <1>3, <1>10, <1>11, <2>1 DEF InTurn
  <2>3. Walking(stack[t][1], e) /\ stack[t][1].op # "userUpdate" /\ m >= stack[t][1].next
    BY <1>1, <1>5, <1>6, <1>8, <1>9 DEF Walking
  <2> QED BY <1>3, <1>6, <2>2, <2>3 DEF Reached
<1>18. calls' \in [Callback -> Nat] /\ \A k \in Callback : calls'[k] = IF k \in {c} THEN 1 ELSE calls[k]
  BY <1>0, <1>4, <1>10, <1>17 DEF Types
<1>19. /\ Types' /\ Queues' /\ Events' /\ Lists' /\ CalledOnce' /\ Stacked' /\ Notifies'
       /\ \A h : IsKept(t, 1, h) => Meant(h)'
  <2>0. PICK C : C = {c}
    OBVIOUS
  <2>1. \A h : IsKept(t, 1, h) /\ h.op = "register" => h.arg \notin C
    <3> SUFFICES ASSUME NEW h, IsKept(t, 1, h), h.op = "register", h.arg = c PROVE FALSE
      BY <2>0
    <3>1. Meant(h)
      BY KeptMeant
    <3>2. h.on = e /\ \A j \in DOMAIN list[h.on] : list[h.on][j] # c
      BY <1>10, <3>1 DEF Meant
    <3> QED BY <1>3, <1>7, <1>10, <3>2
  <2>2. returned' \subseteq Callback
    BY <1>0, <1>4 DEF Types
  <2>3. C \in SUBSET Callback /\ \A k \in C : k \in 1..registered /\ calls[k] = 0
    BY <1>10, <1>17, <2>0
  <2>4. UNCHANGED <<status, waits, notify, work>> /\ stack[t][1].op # "notified"
    BY <1>4, <1>5, <1>6
  <2>5. calls' \in [Callback -> Nat] /\ \A k \in Callback : calls'[k] = IF k \in C THEN 1 ELSE calls[k]
    BY <1>18, <2>0
  <2> QED BY <1>14, <1>15, <2>1, <2>2, <2>3, <2>4, <2>5, Quiet
<1>20. FramesMeant'
  <2>1. Meant(g)'
    BY <1>4, <1>10, <1>11, <1>12 DEF Meant, Frame
  <2>2. Meant(f2)'
    <3>1. m + 1 \in Nat \ {0}
      BY <1>10
    <3> QED BY <1>4, <1>11, <1>12, <3>1 DEF Meant, Frame
  <2>3. \A i \in 1..Len(fs) : Meant(fs[i])'
    BY <1>13, <2>1, <2>2
  <2> QED BY <1>14, <1>19, <2>3, MeantKeeps
<1>21. Shape'
  <2>1. Over(g, f2)
    <3>1. m + 1 > 1 /\ (m + 1) - 1 = m
      BY <1>7, <1>10
    <3> QED BY <1>3, <1>7, <1>10, <1>12, <3>1 DEF Over
  <2>2. \A i \in 1..Len(fs) : i < Len(fs) => Over(fs[i], fs[i + 1])
    <3>1. 1 + 1 = 2 /\ ~(2 < 2)
      OBVIOUS
    <3> QED BY <1>13, <2>1, <3>1
  <2>3. \A h : Len(fs) >= 1 /\ Len(stack[t]) > 1 /\ h = stack[t][1 + 1] => Over(fs[Len(fs)], h)
    BY <1>1, <1>5, <1>6, <1>12, <1>13 DEF Over
  <2>4. Len(fs) >= 1 /\ Len(stack[t]) = 1 => Lowest(fs[Len(fs)])
    BY <1>5, <1>6 DEF Lowest
  <2> QED BY <1>0, <1>4, <1>14, <2>2, <2>3, <2>4, ShapeCalm
<1>22. Owner'
  <2>1. ASSUME NEW h, h.op = "notified", NEW i \in DOMAIN stack[t], i > 1, h = stack[t][i] PROVE held'[h.on] = t
    <3>1. held[h.on] = t
      BY <1>0, <2>1 DEF Owner
    <3>2. h.on \in Event
      <4>1. Kept(t, 1, t, i)
        BY <2>1 DEF Kept
      <4> QED BY <2>1, <4>1, KeptMeant DEF IsKept
    <3>3. h.on # e
      BY <1>1, <1>5, <1>6, <2>1, UnderUpdate
    <3> QED BY <1>15, <3>1, <3>2, <3>3
  <2>2. HoldsTop(t, fs[1])'
    BY <1>12, <1>13 DEF HoldsTop
  <2>3. \A u \in Thread \ {t} : \A k \in Event : held[k] = u => held'[k] = u
    BY <1>15, <1>16
  <2>4. \A i \in 1..Len(fs) : fs[i].op = "notified" => held'[fs[i].on] = t
    BY <1>12, <1>13
  <2>5. \A h : Len(fs) = 0 /\ Len(stack[t]) > 1 /\ h = stack[t][1 + 1] => HoldsTop(t, h)'
    BY <1>13
  <2>6. \A h : h.op = "notified" /\ (\E i \in DOMAIN stack[t] : i > 1 /\ h = stack[t][i]) => held'[h.on] = t
    BY <2>1
  <2> QED BY <1>13, <1>14, <2>2, <2>3, <2>4, <2>5, <2>6, OwnerKeeps
<1>23. ASSUME NEW h, IsKept(t, 1, h) PROVE ~Walking(h, e)
  <2>1. ~Same(f, h)
    BY <1>1, <1>5, <1>23, Alone
  <2> QED BY <1>1, <1>5, <2>1 DEF Same, Walking
<1>24. Unique'
  <2>1. ASSUME NEW i \in 1..Len(fs), NEW h, IsKept(t, 1, h) PROVE ~Same(fs[i], h)
    <3>1. ~Walking(h, e)
      BY <1>23, <2>1
    <3>2. fs[i] = g \/ fs[i] = f2
      BY <1>13, <2>1
    <3> QED BY <1>12, <3>1, <3>2 DEF Same, Walking
  <2>2. ASSUME NEW i \in 1..Len(fs), NEW k \in 1..Len(fs), Same(fs[i], fs[k]) PROVE i = k
    <3>1. ~Same(g, g) /\ ~Same(g, f2) /\ ~Same(f2, g)
      BY <1>12 DEF Same, Walking
    <3>2. i \in {1, 2} /\ k \in {1, 2}
      BY <1>13, <2>2
    <3> QED BY <1>13, <2>2, <3>1, <3>2
  <2>3. \A i \in 1..Len(fs) : \A h : IsKept(t, 1, h) => ~Same(fs[i], h)
    BY <2>1
  <2>4. \A i, k \in 1..Len(fs) : Same(fs[i], fs[k]) => i = k
    BY <2>2
  <2> QED BY <1>0, <1>14, <2>3, <2>4, UniqueKeeps
<1>25. Progress'
  <2> SUFFICES ASSUME NEW k \in Event, NEW j \in DOMAIN list[k], NEW a, a = list[k][j] PROVE InTurn(k, j)'
    BY <1>4 DEF Progress
  <2>1. InTurn(k, j)
    BY <1>0 DEF Progress
  <2>2. a \in Callback /\ target[a] = k /\ list'[k][j] = a
    BY <1>0, <1>4 DEF Lists, Types
  <2>3. CASE k # e
    <3>1. \A i \in 1..Len(fs) : ~Walking(fs[i], k)
      BY <1>12, <1>13, <2>3 DEF Walking
    <3>2. ~Walking(stack[t][1], k)
      BY <1>1, <1>6, <2>3 DEF Walking
    <3>3. Len(fs) # 0 /\ a # c
      BY <1>10, <1>13, <2>2, <2>3
    <3>4. /\ status'[k] = status[k] /\ kind'[k] = kind[k] /\ trigger'[a] = trigger[a] /\ target'[a] = target[a]
          /\ calls'[a] = calls[a] /\ (a \in returned => a \in returned')
      BY <1>4, <1>18, <2>2, <3>3
    <3> QED BY <1>14, <2>1, <2>2, <3>1, <3>2, <3>3, <3>4, TurnKeeps
  <2>4. CASE k = e
    <3>1. j \in 1..n /\ j \in Nat /\ (a = c => j = m)
      <4>1. a = c => j = m
        BY <1>0, <1>3, <1>7, <1>10, <2>4 DEF Lists
      <4> QED BY <1>7, <2>4, <4>1
    <3>2. ASSUME status[e] > trigger[a] PROVE calls'[a] = 0
      <4>1. a # c
        BY <1>0, <1>10, <1>11, <3>2, Statuses DEF Types
      <4>2. calls[a] = 0
        BY <2>1, <2>4, <3>2 DEF InTurn
      <4> QED BY <1>18, <2>2, <4>1, <4>2
    <3>3. ASSUME status[e] = trigger[a]
          PROVE  (j >= m + 1 => calls'[a] = 0) /\ (j < m + 1 => a \in returned \/ j = m)
      <4>1. Reached(e, j)
        BY <2>1, <2>4, <3>3 DEF InTurn
      <4>2. Walking(stack[t][1], e) /\ stack[t][1].op # "userUpdate" /\ stack[t][1] = f
        BY <1>1, <1>5, <1>6 DEF Walking
      <4>3. (j >= f.next => calls[a] = 0) /\ (j < f.next => a \in returned \/ (1 > 1 /\ j = f.next - 1))
        BY <1>6, <2>4, <4>1, <4>2 DEF Reached
      <4>4. j >= f.next /\ j < m => FALSE
        <5>1. j >= f.next => j \in M
          BY <1>8, <1>11, <2>4, <3>1, <3>3
        <5>2. j \in M => m <= j
          BY <1>9
        <5> QED BY <1>10, <3>1, <5>1, <5>2
      <4>5. j >= m + 1 => calls'[a] = 0
        <5> SUFFICES ASSUME j >= m + 1 PROVE calls'[a] = 0
          OBVIOUS
        <5>1. m >= f.next /\ f.next \in Nat
          BY <1>8, <1>9, <1>11
        <5>2. j >= f.next /\ j # m
          BY <1>10, <3>1, <5>1
        <5> QED BY <1>18, <2>2, <3>1, <4>3, <5>2
      <4>6. j < m + 1 => a \in returned \/ j = m
        <5> SUFFICES ASSUME j < m + 1, j # m PROVE a \in returned
          OBVIOUS
        <5>1. j < f.next
          BY <1>10, <1>11, <3>1, <4>4
        <5> QED BY <4>3, <5>1
      <4> QED BY <4>5, <4>6
    <3>4. ASSUME NEW u \in Thread, NEW p \in DOMAIN stack'[u], NEW h, h = stack'[u][p], Walking(h, e)
          PROVE  h = f2 /\ p = 2
      <4>1. u = t /\ p \in 1..Len(fs) /\ h = fs[p]
        <5>1. (\E i \in DOMAIN stack[u] : Kept(t, 1, u, i) /\ h = stack[u][i]) => FALSE
          BY <1>23, <3>4 DEF IsKept
        <5> QED BY <1>14, <3>4, <5>1, StepFacts
      <4>2. h # g
        BY <1>12, <3>4 DEF Walking
      <4> QED BY <1>13, <4>1, <4>2
    <3>5. Walk(e)'
      <4>1. stack'[t][2] = f2 /\ 2 \in DOMAIN stack'[t]
        <5>1. stack'[t][2] = f2
          BY <1>13, <1>14 DEF Step, Changed
        <5>2. Len(stack'[t]) = 2 + Len(stack[t]) - 1 /\ Len(stack[t]) >= 1 /\ Len(stack[t]) \in Nat
          BY <1>13, <1>14, <1>6 DEF Step, Changed
        <5>3. DOMAIN stack'[t] = 1..Len(stack'[t])
          BY <1>19, SpotFactsNext
        <5> QED BY <5>1, <5>2, <5>3
      <4> QED BY <1>12, <4>1 DEF Walk, Walking
    <3>6. status[e] = trigger[a] => Reached(e, j)'
      <4> SUFFICES ASSUME status[e] = trigger[a] PROVE Reached(e, j)'
        OBVIOUS
      <4>1. (j >= m + 1 => calls'[a] = 0) /\ (j < m + 1 => a \in returned \/ j = m)
        BY <3>3
      <4>2. (m + 1) - 1 = m /\ 2 > 1
        BY <1>10
      <4>3. f2.op # "userUpdate" /\ f2.next = m + 1
        BY <1>12
      <4>4. ASSUME NEW u \in Thread, NEW p \in DOMAIN stack'[u], NEW h, h = stack'[u][p], Walking(h, e)
            PROVE  IF h.op = "userUpdate" THEN calls'[a] = 0
                   ELSE /\ j >= h.next => calls'[a] = 0
                        /\ j < h.next => a \in returned' \/ (p > 1 /\ j = h.next - 1)
        <5>1. h = f2 /\ p = 2
          BY <3>4, <4>4
        <5> QED BY <1>4, <4>1, <4>2, <4>3, <5>1
      <4> QED BY <2>2, <2>4, <3>5, <4>4 DEF Reached, Walking
    <3>7. status[e] < trigger[a] => a \in returned \/ Skipped(a)
      BY <2>1, <2>4 DEF InTurn
    <3>8. Skipped(a) => Skipped(a)'
      BY <1>4 DEF Skipped
    <3> QED BY <1>4, <2>2, <2>4, <3>2, <3>6, <3>7, <3>8 DEF InTurn
  <2> QED BY <2>3, <2>4
<1> QED BY <1>19, <1>20, <1>21, <1>22, <1>24, <1>25, Assembled
-----------------------------------------------------------------------------
(* The status of an event changes *)

LEMMA WalkStarts ==
  ASSUME NEW t \in Thread, NEW fs, NEW d, Step(t, fs, d),
         NEW e \in Event, NEW j \in DOMAIN list[e], NEW c, list'[e][j] = c, j \in Nat, j >= 1,
         \A f : IsKept(t, d, f) => ~Walking(f, e),
         \A i \in 1..Len(fs) : Walking(fs[i], e) => fs[i].op = "userUpdate" \/ fs[i].next = 1,
         NEW q \in 1..Len(fs), Walking(fs[q], e),
         status'[e] > trigger'[c] => calls'[c] = 0,
         status'[e] = trigger'[c] => calls'[c] = 0,
         status'[e] < trigger'[c] => c \in returned' \/ Skipped(c)'
  PROVE  InTurn(e, j)'
<1>1. PICK m \in Nat, n \in Nat : m = Len(fs) /\ n = Len(stack[t]) /\ d \in {0, 1} /\ d <= n
  BY SpotFacts DEF Step
<1>2. Len(stack'[t]) = m + n - d /\ DOMAIN stack'[t] = 1..Len(stack'[t])
  <2>1. Stacked'
    BY DEF Step, Changed
  <2> QED BY <1>1, <2>1, SpotFactsNext DEF Step, Changed
<1>3. q \in DOMAIN stack'[t] /\ stack'[t][q] = fs[q]
  BY <1>1, <1>2 DEF Step, Changed
<1>4. Walk(e)'
  BY <1>3 DEF Walk, Walking
<1>5. ASSUME NEW u \in Thread, NEW p \in DOMAIN stack'[u], NEW h, h = stack'[u][p], Walking(h, e)
      PROVE  h.op = "userUpdate" \/ h.next = 1
  <2>1. (\E i \in DOMAIN stack[u] : Kept(t, d, u, i) /\ h = stack[u][i]) => FALSE
    BY <1>5 DEF IsKept
  <2>2. p \in 1..Len(fs) /\ h = fs[p]
    BY <1>5, <2>1, StepFacts
  <2> QED BY <1>5, <2>2
<1>6. status'[e] = trigger'[c] => Reached(e, j)'
  <2> SUFFICES ASSUME calls'[c] = 0 PROVE Reached(e, j)'
    OBVIOUS
  <2>1. ASSUME NEW u \in Thread, NEW p \in DOMAIN stack'[u], NEW h, h = stack'[u][p], Walking(h, e)
        PROVE  IF h.op = "userUpdate" THEN calls'[c] = 0
               ELSE /\ j >= h.next => calls'[c] = 0
                    /\ j < h.next => c \in returned' \/ (p > 1 /\ j = h.next - 1)
    <3>1. h.op # "userUpdate" => ~(j < h.next)
      BY <1>5, <2>1
    <3> QED BY <3>1
  <2> QED BY <1>4, <2>1 DEF Reached, Walking
<1> QED BY <1>6 DEF InTurn

\* The calls that stay say nothing of the status of e.
Settled(t, d, e) == \A f : IsKept(t, d, f) /\ f.on = e => f.op \in {"register", "call", "notified"}

LEMMA DropFrames ==
  ASSUME IInv, NEW t \in Thread, NEW fs, NEW d, Step(t, fs, d), Calm, NEW e \in Event, Settled(t, d, e),
         status[e] # UNKNOWN, status'[e] # UNKNOWN, \A k \in Event \ {e} : status'[k] = status[k],
         work' \subseteq work, calls' = calls,
         \A i \in 1..Len(fs) : Meant(fs[i])' /\ (fs[i].on = e \/ fs[i].op = "notified"),
         \A i, k \in 1..Len(fs) : Same(fs[i], fs[k]) => i = k,
         \A i \in 1..Len(fs) : fs[i].op # "register"
  PROVE  FramesMeant' /\ Unique'
<1>1. ASSUME NEW f, IsKept(t, d, f) PROVE Meant(f)'
  <2>1. Meant(f) /\ f.on \in Event
    BY <1>1, KeptMeant
  <2>2. CASE f.on # e
    <3>1. status'[f.on] = status[f.on] /\ (f.op = "push" => f.on \notin work')
      BY <2>1, <2>2 DEF Meant
    <3> QED BY <2>1, <3>1, MeantCalm
  <2>3. CASE f.on = e
    <3>1. f.op \in {"register", "call", "notified"}
      BY <1>1, <2>3 DEF Settled
    <3> QED BY <2>1, <2>3, <3>1 DEF Meant, Calm, Frame
  <2> QED BY <2>2, <2>3
<1>2. FramesMeant'
  <2>1. \A i \in 1..Len(fs) : Meant(fs[i])'
    OBVIOUS
  <2> QED BY <1>1, <2>1, MeantKeeps
<1>3. ASSUME NEW i \in 1..Len(fs), NEW f, IsKept(t, d, f) PROVE ~Same(fs[i], f)
  <2>1. fs[i].on = e \/ fs[i].op = "notified"
    OBVIOUS
  <2>2. f.on = e => f.op \in {"register", "call", "notified"}
    BY <1>3 DEF Settled
  <2>3. fs[i].op # "register"
    OBVIOUS
  <2> QED BY <2>1, <2>2, <2>3 DEF Same, Walking
<1>4. Unique'
  <2>1. \A i \in 1..Len(fs) : \A f : IsKept(t, d, f) => ~Same(fs[i], f)
    BY <1>3
  <2>2. \A i, k \in 1..Len(fs) : Same(fs[i], fs[k]) => i = k
    OBVIOUS
  <2>3. Unique
    BY Parts
  <2> QED BY <2>1, <2>2, <2>3, UniqueKeeps
<1> QED BY <1>2, <1>4

LEMMA DropProgress ==
  ASSUME IInv, NEW t \in Thread, NEW fs, NEW d, Step(t, fs, d), Calm, NEW e \in Event, Settled(t, d, e),
         d = 1 => \A k : ~Walking(stack[t][1], k),
         status'[e] \in COMPLETE..UNKNOWN, status'[e] < status[e], \A k \in Event \ {e} : status'[k] = status[k],
         \A c \in Callback : target[c] = e /\ status'[e] < trigger[c] /\ trigger[c] < status[e] => Skipped(c),
         UNCHANGED <<calls, returned>>,
         \A i \in 1..Len(fs) : fs[i].on = e \/ fs[i].op = "notified",
         \A i \in 1..Len(fs) : Walking(fs[i], e) => fs[i].op = "userUpdate" \/ fs[i].next = 1,
         NEW q \in 1..Len(fs), Walking(fs[q], e)
  PROVE  Progress'
<1>0. Progress /\ Types /\ Lists
  BY Parts
<1> SUFFICES ASSUME NEW k \in Event, NEW j \in DOMAIN list[k], NEW c, c = list[k][j] PROVE InTurn(k, j)'
  BY DEF Progress, Calm
<1>1. InTurn(k, j) /\ target[c] = k /\ c \in Callback /\ list'[k][j] = c
  <2>1. InTurn(k, j) /\ target[c] = k /\ list'[k][j] = c
    BY <1>0 DEF Progress, Lists, Calm
  <2>2. c \in Callback
    BY <1>0 DEF Types
  <2> QED BY <2>1, <2>2
<1>2. j \in Nat /\ j >= 1
  BY <1>0 DEF Types
<1>3. Skipped(c) => Skipped(c)'
  BY DEF Skipped, Calm
<1>4. CASE k # e
  <2>1. \A i \in 1..Len(fs) : ~Walking(fs[i], k)
    BY <1>4 DEF Walking
  <2>2. d = 1 => ~Walking(stack[t][1], k)
    OBVIOUS
  <2>3. Len(fs) # 0
    <3>1. Len(fs) \in Nat
      BY DEF Step
    <3> QED BY <3>1
  <2>4. /\ status'[k] = status[k] /\ kind'[k] = kind[k] /\ trigger'[c] = trigger[c] /\ target'[c] = target[c]
        /\ calls'[c] = calls[c] /\ (c \in returned => c \in returned')
    BY <1>4 DEF Calm
  <2> QED BY <1>1, <2>1, <2>2, <2>3, <2>4, TurnKeeps
<1>5. CASE k = e
  <2>1. \A f : IsKept(t, d, f) => ~Walking(f, e)
    BY DEF Settled, Walking
  <2>2. ~Walk(e)
    <3> SUFFICES ASSUME NEW u \in Thread, NEW i \in DOMAIN stack[u], Walking(stack[u][i], e) PROVE FALSE
      BY DEF Walk
    <3>1. ~Kept(t, d, u, i)
      BY <2>1 DEF IsKept
    <3>2. u = t /\ ~(i > d) /\ i \in Nat /\ i >= 1 /\ d \in {0, 1}
      BY <3>1, Under DEF Kept, Step
    <3>3. i = 1 /\ d = 1
      BY <3>2
    <3> QED BY <3>2, <3>3
  <2>3a. PICK s : s = status[e]
    OBVIOUS
  <2>3b. PICK r : r = status'[e]
    OBVIOUS
  <2>3c. PICK v : v = trigger[c]
    OBVIOUS
  <2>3. s = status[e] /\ r = status'[e] /\ v = trigger[c]
    BY <2>3a, <2>3b, <2>3c
  <2>4. s \in Int /\ r \in Int /\ v \in Int /\ r < s
    BY <1>0, <1>1, <2>3, Statuses DEF Types
  <2>5. s > v => calls[c] = 0
    BY <1>1, <1>5, <2>3 DEF InTurn
  <2>6. s = v => c \in returned
    <3>1. s = v => Reached(e, j)
      BY <1>1, <1>5, <2>3 DEF InTurn
    <3> QED BY <1>5, <2>2, <3>1 DEF Reached
  <2>7. s < v => c \in returned \/ Skipped(c)
    BY <1>1, <1>5, <2>3 DEF InTurn
  <2>8. r > v => calls'[c] = 0
    BY <2>4, <2>5
  <2>9. r = v => calls'[c] = 0
    BY <2>4, <2>5
  <2>10. r < v => c \in returned \/ Skipped(c)
    <3>1. r < v /\ v < s => Skipped(c)
      BY <1>1, <1>5, <2>3
    <3> QED BY <2>4, <2>6, <2>7, <3>1
  <2>11. trigger'[c] = trigger[c]
    BY DEF Calm
  <2>12. /\ status'[e] > trigger'[c] => calls'[c] = 0
         /\ status'[e] = trigger'[c] => calls'[c] = 0
    BY <2>3, <2>8, <2>9, <2>11
  <2>13. status'[e] < trigger'[c] => c \in returned' \/ Skipped(c)'
    BY <1>3, <2>3, <2>10, <2>11
  <2>14. \A i \in 1..Len(fs) : Walking(fs[i], e) => fs[i].op = "userUpdate" \/ fs[i].next = 1
    OBVIOUS
  <2> QED BY <1>1, <1>2, <1>5, <2>1, <2>12, <2>13, <2>14, WalkStarts
<1> QED BY <1>4, <1>5
LEMMA SettledEvent ==
  ASSUME IInv, NEW t \in Thread, NEW d, NEW e \in Event, status[e] \in {SUBMITTED, QUEUED},
         status[e] = SUBMITTED => kind[e] = "user" \/ e \in work
  PROVE  Settled(t, d, e)
<1> SUFFICES ASSUME NEW u \in Thread, NEW i \in DOMAIN stack[u], NEW f, f = stack[u][i], f.on = e
             PROVE  f.op \in {"register", "call", "notified"}
  BY DEF Settled, IsKept
<1>0. FramesMeant
  BY Parts
<1>1. Meant(f)
  BY <1>0 DEF FramesMeant
<1>2. CASE i = Len(stack[u])
  <2>1. Lowest(f)
    BY <1>2, Under
  <2> QED BY <1>1, <2>1, Statuses DEF Meant, Lowest
<1>3. CASE i # Len(stack[u])
  <2>1. PICK g : g = stack[u][i + 1] /\ Over(f, g) /\ Meant(g)
    <3>1. Over(f, stack[u][i + 1]) /\ i + 1 \in DOMAIN stack[u]
      BY <1>3, Under
    <3> QED BY <1>0, <3>1 DEF FramesMeant
  <2>2. f.op = "update" => FALSE
    <3> SUFFICES ASSUME f.op = "update" PROVE FALSE
      OBVIOUS
    <3>1. f.arg = SUBMITTED /\ status[e] = SUBMITTED
      BY <1>1, Statuses DEF Meant
    <3>2. g.op = "push" /\ g.on = e
      BY <2>1, <3>1 DEF Over
    <3> QED BY <2>1, <3>1, <3>2, Statuses DEF Meant
  <2>3. f.op # "push"
    <3> SUFFICES ASSUME f.op = "push" PROVE FALSE
      OBVIOUS
    <3> QED BY <1>1, Statuses DEF Meant
  <2>4. f.op \in {"register", "enqueue", "call", "update", "push", "notified", "unlock", "broadcast"}
    BY <2>1 DEF Over
  <2> QED BY <1>1, <2>2, <2>3, <2>4, Statuses DEF Meant
<1> QED BY <1>2, <1>3

LEMMA IdleStep ==
  ASSUME IInv, NEW t \in Thread, Idle(t), NEW T, NEW fs \in Seq(T), stack' = [stack EXCEPT ![t] = fs]
  PROVE  Step(t, fs, 0) /\ Len(stack[t]) = 0 /\ DOMAIN stack[t] = {}
<1>1. stack[t] = <<>>
  BY DEF Idle
<1>2. Stacked
  BY Parts
<1>3. fs \o <<>> = fs
  OBVIOUS
<1>4. stack' = [stack EXCEPT ![t] = fs \o stack[t]]
  BY <1>1, <1>3
<1>5. Step(t, fs, 0)
  BY <1>2, <1>4, StepEntered
<1>6. Len(stack[t]) = 0 /\ DOMAIN stack[t] = 1..Len(stack[t])
  BY <1>1, <1>2, SpotFacts
<1> QED BY <1>5, <1>6

\* Reports that stand are not touched.
LEMMA NotifiesCalm ==
  ASSUME IInv, NEW t \in Thread, NEW fs, NEW d, Step(t, fs, d), Calm, UNCHANGED <<waits, notify>>,
         \A x \in Event : status[x] # UNKNOWN => status'[x] # UNKNOWN,
         d = 0 \/ stack[t][1].op # "notified"
  PROVE  Notifies'
<1>1. Notifies
  BY Parts
<1>2. \A n, x : Dispatching(n, x) => Dispatching(n, x)'
  <2>1. \A n, x : d = 0 \/ ~Reports(stack[t][1], n, x)
    BY DEF Reports
  <2> QED BY <2>1, DispatchKept
<1> QED BY <1>1, <1>2 DEF Notifies, Calm

LEMMA StartKeeps ==
  ASSUME IInv, NEW d \in Thread, Start(d)
  PROVE  IInv'
<1>0. /\ Types /\ Queues /\ Owner /\ Lists /\ Shape /\ Events /\ CalledOnce
  BY Parts
<1>1. PICK e \in work :
        /\ held[e] = None /\ work' = work \ {e} /\ status' = [status EXCEPT ![e] = RUNNING] /\ Lock(d, {e})
        /\ stack' = [stack EXCEPT ![d] = <<Update(e, RUNNING), Frame("unlock", e, 0, 0), Frame("finish", e, 0, 0)>>]
  BY DEF Start, Unlocked
<1>2. /\ Idle(d)
      /\ UNCHANGED <<created, kind, waits, notify, list, registered, target, trigger, calls, returned>>
  BY DEF Start, cbVars
<1>3a. PICK f : f = Update(e, RUNNING)
  OBVIOUS
<1>3b. PICK g : g = Frame("unlock", e, 0, 0)
  OBVIOUS
<1>3c. PICK h : h = Frame("finish", e, 0, 0)
  OBVIOUS
<1>3d. PICK fs : fs = <<f, g, h>>
  OBVIOUS
<1>3. /\ f = Update(e, RUNNING) /\ g = Frame("unlock", e, 0, 0) /\ h = Frame("finish", e, 0, 0)
      /\ fs = <<f, g, h>>
  BY <1>3a, <1>3b, <1>3c, <1>3d
<1>4. /\ f.op = "update" /\ f.on = e /\ f.arg = RUNNING /\ f.next = 1 /\ f = Frame(f.op, f.on, f.arg, f.next)
      /\ g.op = "unlock" /\ g.on = e /\ g = Frame(g.op, g.on, g.arg, g.next)
      /\ h.op = "finish" /\ h.on = e /\ h = Frame(h.op, h.on, h.arg, h.next)
  BY <1>3 DEF Update, Frame
<1>5. fs \in Seq({f, g, h}) /\ Len(fs) = 3 /\ fs[1] = f /\ fs[2] = g /\ fs[3] = h /\ 1..Len(fs) = {1, 2, 3}
  BY <1>3, ThreeFrames
<1>6. Step(d, fs, 0) /\ Len(stack[d]) = 0 /\ DOMAIN stack[d] = {}
  BY <1>1, <1>2, <1>3, <1>5, IdleStep
<1>7. e \in Event /\ status[e] = SUBMITTED /\ kind[e] = "command" /\ status[e] # UNKNOWN
  BY <1>0, Statuses DEF Types, Queues, Events
<1>8. status'[e] = RUNNING /\ \A k \in Event \ {e} : status'[k] = status[k]
  BY <1>0, <1>1, <1>7 DEF Types
<1>9. e \in 1..created /\ e <= created
  <2>1. ~(e > created) /\ created \in Nat /\ e \in Nat /\ e >= 1
    BY <1>0, <1>7, Numbers, Statuses DEF Types, Events
  <2> QED BY <2>1
<1>10. Calm /\ Settled(d, 0, e)
  BY <1>2, <1>7, SettledEvent DEF Calm
<1>11. /\ held' \in [Event -> Thread \cup {None}]
       /\ \A k \in Event : held'[k] = IF k \in {e} THEN d ELSE held[k]
  BY <1>1, LockFacts
<1>12. Types'
  <2>1. RUNNING \in COMPLETE..UNKNOWN
    BY Statuses
  <2>2. status' \in [Event -> COMPLETE..UNKNOWN] /\ work' \subseteq Event
    BY <1>0, <1>1, <1>7, <2>1 DEF Types
  <2> QED BY <1>0, <1>2, <1>11, <2>2 DEF Types
<1>13. Queues'
  <2>1. waits[e] = {} /\ work \subseteq Event
    <3>1. waits[e] # {} => status[e] = QUEUED
      BY <1>0, <1>7 DEF Queues
    <3>2. SUBMITTED # QUEUED
      BY Statuses
    <3> QED BY <1>0, <1>7, <3>1, <3>2 DEF Types
  <2> QED BY <1>0, <1>1, <1>2, <1>8, <2>1 DEF Queues
<1>14. Events'
  <2>1. RUNNING # UNKNOWN /\ \A k \in work' : kind[k] = "command"
    BY <1>0, <1>1, Statuses DEF Events
  <2> QED BY <1>7, <1>8, <1>9, <1>10, <2>1, EventsCalm
<1>15. Lists' /\ CalledOnce' /\ Stacked'
  <2>1. Lists'
    <3>1. \A c \in Callback : c > registered => calls'[c] = 0
      BY <1>0, <1>2 DEF Lists
    <3> QED BY <1>10, <3>1, ListsCalm
  <2>2. CalledOnce'
    BY <1>0, <1>2 DEF CalledOnce
  <2>3. Stacked'
    BY <1>6 DEF Step, Changed
  <2> QED BY <2>1, <2>2, <2>3
<1>16. FramesMeant' /\ Unique'
  <2>1. Meant(f)' /\ Meant(g)' /\ Meant(h)'
    BY <1>2, <1>4, <1>7, <1>8, <1>9, Statuses DEF Meant, Frame
  <2>2. \A i \in 1..Len(fs) : Meant(fs[i])' /\ (fs[i].on = e \/ fs[i].op = "notified")
    BY <1>4, <1>5, <2>1
  <2>3. \A i, k \in 1..Len(fs) : Same(fs[i], fs[k]) => i = k
    BY <1>4, <1>5 DEF Same, Walking
  <2>4. \A i \in 1..Len(fs) : fs[i].op # "register"
    BY <1>4, <1>5
  <2>5. work' \subseteq work /\ calls' = calls /\ status'[e] # UNKNOWN
    BY <1>1, <1>2, <1>8, Statuses
  <2> QED BY <1>6, <1>7, <1>8, <1>10, <2>2, <2>3, <2>4, <2>5, DropFrames
<1>17. Shape'
  <2>1. Over(f, g) /\ Over(g, h) /\ Lowest(h)
    BY <1>4, Statuses DEF Over, Lowest
  <2>2. \A i \in 1..Len(fs) : i < Len(fs) => Over(fs[i], fs[i + 1])
    <3>1. 1 + 1 = 2 /\ 2 + 1 = 3 /\ ~(3 < 3)
      OBVIOUS
    <3> QED BY <1>5, <2>1, <3>1
  <2>3. \A k : Len(fs) >= 1 /\ Len(stack[d]) > 0 /\ k = stack[d][0 + 1] => Over(fs[Len(fs)], k)
    BY <1>6
  <2>4. Len(fs) >= 1 /\ Len(stack[d]) = 0 => Lowest(fs[Len(fs)])
    BY <1>5, <2>1
  <2> QED BY <1>0, <1>2, <1>6, <2>2, <2>3, <2>4, ShapeCalm
<1>18. Owner'
  <2>1. \A k : k.op = "notified" /\ (\E i \in DOMAIN stack[d] : i > 0 /\ k = stack[d][i]) => held'[k.on] = d
    BY <1>6
  <2>2. HoldsTop(d, fs[1])'
    BY <1>4, <1>5, <1>7, <1>11 DEF HoldsTop
  <2>3. \A u \in Thread \ {d} : \A k \in Event : held[k] = u => held'[k] = u
    <3>1. None \notin Thread
      BY CallbackAssumption DEF Thread
    <3> QED BY <1>1, <1>11, <3>1
  <2>4. \A i \in 1..Len(fs) : fs[i].op = "notified" => held'[fs[i].on] = d
    BY <1>4, <1>5
  <2>5. \A k : Len(fs) = 0 /\ Len(stack[d]) > 0 /\ k = stack[d][0 + 1] => HoldsTop(d, k)'
    BY <1>5
  <2> QED BY <1>5, <1>6, <2>1, <2>2, <2>3, <2>4, <2>5, OwnerKeeps
<1>19. Notifies'
  <2>1. \A x \in Event : status[x] # UNKNOWN => status'[x] # UNKNOWN
    BY <1>8, Statuses
  <2> QED BY <1>2, <1>6, <1>10, <2>1, NotifiesCalm
<1>20. Progress'
  <2>1. status'[e] \in COMPLETE..UNKNOWN /\ status'[e] < status[e]
    BY <1>7, <1>8, Statuses
  <2>2. \A c \in Callback : target[c] = e /\ status'[e] < trigger[c] /\ trigger[c] < status[e] => Skipped(c)
    <3> TAKE c \in Callback
    <3>1. trigger[c] \in {SUBMITTED, RUNNING, COMPLETE}
      BY <1>0 DEF Types
    <3>2. ~(RUNNING < trigger[c] /\ trigger[c] < SUBMITTED)
      BY <3>1 DEF SUBMITTED, RUNNING, COMPLETE
    <3> QED BY <1>7, <1>8, <3>2
  <2>3. \A i \in 1..Len(fs) : fs[i].on = e \/ fs[i].op = "notified"
    BY <1>4, <1>5
  <2>4. \A i \in 1..Len(fs) : Walking(fs[i], e) => fs[i].op = "userUpdate" \/ fs[i].next = 1
    BY <1>4, <1>5 DEF Walking
  <2>5. 1 \in 1..Len(fs) /\ Walking(fs[1], e)
    BY <1>4, <1>5 DEF Walking
  <2>6. UNCHANGED <<calls, returned>>
    BY <1>2
  <2> QED BY <1>6, <1>7, <1>8, <1>10, <2>1, <2>2, <2>3, <2>4, <2>5, <2>6, DropProgress
<1> QED BY <1>12, <1>13, <1>14, <1>15, <1>16, <1>17, <1>18, <1>19, <1>20, Assembled
LEMMA SetUserEventStatusKeeps ==
  ASSUME IInv, NEW d \in Thread, NEW e \in Event, SetUserEventStatus(d, e)
  PROVE  IInv'
<1>0. /\ Types /\ Queues /\ Owner /\ Lists /\ Shape /\ Events /\ CalledOnce
  BY Parts
<1>1a. PICK g : g = Frame("broadcast", e, 0, 0)
  OBVIOUS
<1>1b. PICK h : h = Frame("userUpdate", e, 0, 0)
  OBVIOUS
<1>1c. PICK fs : fs = <<g, h>>
  OBVIOUS
<1>1. g = Frame("broadcast", e, 0, 0) /\ h = Frame("userUpdate", e, 0, 0) /\ fs = <<g, h>>
  BY <1>1a, <1>1b, <1>1c
<1>2. /\ Idle(d) /\ e \in Known /\ kind[e] = "user" /\ status[e] > COMPLETE
      /\ status' = [status EXCEPT ![e] = COMPLETE] /\ stack' = [stack EXCEPT ![d] = fs]
      /\ UNCHANGED <<created, kind, waits, notify, held, list, work, registered, target, trigger, calls, returned>>
  BY <1>1 DEF SetUserEventStatus, cbVars
<1>4. /\ g.op = "broadcast" /\ g.on = e /\ g = Frame(g.op, g.on, g.arg, g.next)
      /\ h.op = "userUpdate" /\ h.on = e /\ h = Frame(h.op, h.on, h.arg, h.next)
  BY <1>1 DEF Frame
<1>5. fs \in Seq({g, h}) /\ Len(fs) = 2 /\ fs[1] = g /\ fs[2] = h /\ 1..Len(fs) = {1, 2}
  BY <1>1, TwoFrames
<1>6. Step(d, fs, 0) /\ Len(stack[d]) = 0 /\ DOMAIN stack[d] = {}
  BY <1>2, <1>5, IdleStep
<1>7. status[e] = SUBMITTED /\ status[e] # UNKNOWN
  <2>1. status[e] \in {SUBMITTED, COMPLETE} /\ COMPLETE \in Int
    BY <1>0, <1>2, Statuses DEF Events
  <2> QED BY <1>2, <2>1, Statuses
<1>8. status'[e] = COMPLETE /\ \A k \in Event \ {e} : status'[k] = status[k]
  BY <1>0, <1>2 DEF Types
<1>9. e \in 1..created /\ e <= created
  <2>1. e <= created /\ created \in Nat /\ e \in Nat /\ e >= 1
    BY <1>0, <1>2, Numbers DEF Types, Known
  <2> QED BY <2>1
<1>10. Calm /\ Settled(d, 0, e)
  BY <1>2, <1>7, SettledEvent DEF Calm
<1>12. Types'
  <2>1. COMPLETE \in COMPLETE..UNKNOWN
    BY Statuses
  <2>2. status' \in [Event -> COMPLETE..UNKNOWN]
    BY <1>0, <1>2, <2>1 DEF Types
  <2> QED BY <1>0, <1>2, <2>2 DEF Types
<1>13. Queues'
  <2>1. waits[e] = {} /\ work \subseteq Event /\ e \notin work
    <3>1. waits[e] # {} => status[e] = QUEUED
      BY <1>0, <1>7 DEF Queues
    <3>2. SUBMITTED # QUEUED
      BY Statuses
    <3> QED BY <1>0, <1>2, <1>7, <3>1, <3>2 DEF Types, Events
  <2> QED BY <1>0, <1>2, <1>8, <2>1 DEF Queues
<1>14. Events'
  <2>1. COMPLETE # UNKNOWN /\ \A k \in work' : kind[k] = "command"
    BY <1>0, <1>2, Statuses DEF Events
  <2> QED BY <1>7, <1>8, <1>9, <1>10, <2>1, EventsCalm
<1>15. Lists' /\ CalledOnce' /\ Stacked'
  <2>1. Lists'
    <3>1. \A c \in Callback : c > registered => calls'[c] = 0
      BY <1>0, <1>2 DEF Lists
    <3> QED BY <1>10, <3>1, ListsCalm
  <2>2. CalledOnce'
    BY <1>0, <1>2 DEF CalledOnce
  <2>3. Stacked'
    BY <1>6 DEF Step, Changed
  <2> QED BY <2>1, <2>2, <2>3
<1>16. FramesMeant' /\ Unique'
  <2>1. Meant(g)' /\ Meant(h)'
    BY <1>2, <1>4, <1>8, <1>9, Statuses DEF Meant, Frame
  <2>2. \A i \in 1..Len(fs) : Meant(fs[i])' /\ (fs[i].on = e \/ fs[i].op = "notified")
    BY <1>4, <1>5, <2>1
  <2>3. \A i, k \in 1..Len(fs) : Same(fs[i], fs[k]) => i = k
    BY <1>4, <1>5 DEF Same, Walking
  <2>4. \A i \in 1..Len(fs) : fs[i].op # "register"
    BY <1>4, <1>5
  <2>5. work' \subseteq work /\ calls' = calls /\ status'[e] # UNKNOWN
    BY <1>2, <1>8, Statuses
  <2> QED BY <1>6, <1>7, <1>8, <1>10, <2>2, <2>3, <2>4, <2>5, DropFrames
<1>17. Shape'
  <2>1. Over(g, h) /\ Lowest(h)
    BY <1>4 DEF Over, Lowest
  <2>2. \A i \in 1..Len(fs) : i < Len(fs) => Over(fs[i], fs[i + 1])
    <3>1. 1 + 1 = 2 /\ ~(2 < 2)
      OBVIOUS
    <3> QED BY <1>5, <2>1, <3>1
  <2>3. \A k : Len(fs) >= 1 /\ Len(stack[d]) > 0 /\ k = stack[d][0 + 1] => Over(fs[Len(fs)], k)
    BY <1>6
  <2>4. Len(fs) >= 1 /\ Len(stack[d]) = 0 => Lowest(fs[Len(fs)])
    BY <1>5, <2>1
  <2> QED BY <1>0, <1>2, <1>6, <2>2, <2>3, <2>4, ShapeCalm
<1>18. Owner'
  <2>1. \A k : k.op = "notified" /\ (\E i \in DOMAIN stack[d] : i > 0 /\ k = stack[d][i]) => held'[k.on] = d
    BY <1>6
  <2>2. HoldsTop(d, fs[1])'
    BY <1>4, <1>5 DEF HoldsTop
  <2>3. \A u \in Thread \ {d} : \A k \in Event : held[k] = u => held'[k] = u
    BY <1>2
  <2>4. \A i \in 1..Len(fs) : fs[i].op = "notified" => held'[fs[i].on] = d
    BY <1>4, <1>5
  <2>5. \A k : Len(fs) = 0 /\ Len(stack[d]) > 0 /\ k = stack[d][0 + 1] => HoldsTop(d, k)'
    BY <1>5
  <2> QED BY <1>5, <1>6, <2>1, <2>2, <2>3, <2>4, <2>5, OwnerKeeps
<1>19. Notifies'
  <2>1. \A x \in Event : status[x] # UNKNOWN => status'[x] # UNKNOWN
    BY <1>8, Statuses
  <2> QED BY <1>2, <1>6, <1>10, <2>1, NotifiesCalm
<1>20. Progress'
  <2>1. status'[e] \in COMPLETE..UNKNOWN /\ status'[e] < status[e]
    BY <1>7, <1>8, Statuses
  <2>2. \A c \in Callback : target[c] = e /\ status'[e] < trigger[c] /\ trigger[c] < status[e] => Skipped(c)
    <3> TAKE c \in Callback
    <3>1. trigger[c] \in {SUBMITTED, RUNNING, COMPLETE}
      BY <1>0 DEF Types
    <3>2. COMPLETE < trigger[c] /\ trigger[c] < SUBMITTED => trigger[c] = RUNNING
      BY <3>1 DEF SUBMITTED, RUNNING, COMPLETE
    <3> QED BY <1>2, <1>7, <1>8, <3>2 DEF Skipped
  <2>3. \A i \in 1..Len(fs) : fs[i].on = e \/ fs[i].op = "notified"
    BY <1>4, <1>5
  <2>4. \A i \in 1..Len(fs) : Walking(fs[i], e) => fs[i].op = "userUpdate" \/ fs[i].next = 1
    BY <1>4, <1>5 DEF Walking
  <2>5. 2 \in 1..Len(fs) /\ Walking(fs[2], e)
    BY <1>4, <1>5 DEF Walking
  <2>6. UNCHANGED <<calls, returned>>
    BY <1>2
  <2> QED BY <1>6, <1>7, <1>8, <1>10, <2>1, <2>2, <2>3, <2>4, <2>5, <2>6, DropProgress
<1> QED BY <1>12, <1>13, <1>14, <1>15, <1>16, <1>17, <1>18, <1>19, <1>20, Assembled

\* The thread that runs a command is the only one that knows it is running.
LEMMA FinishSettles ==
  ASSUME IInv, NEW t \in Thread, At(t, "finish")
  PROVE  Settled(t, 1, Doing(t).on)
<1>0. FramesMeant
  BY Parts
<1>1a. PICK g : g = Doing(t)
  OBVIOUS
<1>1b. PICK e : e = g.on
  OBVIOUS
<1>1. g = Doing(t) /\ e = g.on
  BY <1>1a, <1>1b
<1>2. ~Idle(t) /\ g.op = "finish" /\ status[e] = RUNNING /\ kind[e] = "command" /\ g = stack[t][1]
  BY <1>1, CallFacts, TopFacts DEF Meant
<1> SUFFICES ASSUME NEW u \in Thread, NEW i \in DOMAIN stack[u], Kept(t, 1, u, i), NEW f, f = stack[u][i], f.on = e
             PROVE  f.op \in {"register", "call", "notified"}
  BY <1>1 DEF Settled, IsKept
<1>3. ASSUME NEW p, p \in DOMAIN stack[u], p >= i, stack[u][p].on = e, stack[u][p].op = "finish" PROVE FALSE
  <2>1. Kept(t, 1, u, p)
    BY <1>3, Under DEF Kept
  <2>2. IsKept(t, 1, stack[u][p])
    BY <1>3, <2>1 DEF IsKept
  <2>3. ~Same(g, stack[u][p])
    BY <1>1, <1>2, <2>2, Alone
  <2> QED BY <1>1, <1>2, <1>3, <2>3 DEF Same
<1>4. ASSUME NEW p, p \in DOMAIN stack[u], p >= i, stack[u][p].on = e, stack[u][p].op = "unlock" PROVE FALSE
  <2>1. p # Len(stack[u])
    <3>1. p = Len(stack[u]) => Lowest(stack[u][p])
      BY <1>4, Under
    <3> QED BY <1>2, <1>4, <3>1 DEF Lowest
  <2>2. Over(stack[u][p], stack[u][p + 1]) /\ p + 1 \in DOMAIN stack[u] /\ p + 1 >= i
    <3>1. Over(stack[u][p], stack[u][p + 1]) /\ p + 1 \in DOMAIN stack[u] /\ p \in Nat /\ i \in Nat
      BY <1>4, <2>1, Under
    <3> QED BY <1>4, <3>1
  <2>3. stack[u][p + 1].op \in {"finish", "broadcast"} /\ stack[u][p + 1].on = e
    BY <1>4, <2>2 DEF Over
  <2>4. stack[u][p + 1].op # "broadcast"
    <3>1. Meant(stack[u][p + 1])
      BY <1>0, <2>2 DEF FramesMeant
    <3>2. COMPLETE # RUNNING
      BY Statuses
    <3> QED BY <1>2, <2>3, <3>1, <3>2 DEF Meant
  <2> QED BY <1>3, <2>2, <2>3, <2>4
<1>5. Meant(f)
  BY <1>0 DEF FramesMeant
<1>6. i \in Nat /\ i >= i
  BY Under
<1>7. f.op # "finish" /\ f.op # "unlock"
  BY <1>3, <1>4, <1>6
<1>8. CASE i = Len(stack[u])
  <2>1. Lowest(f)
    BY <1>8, Under
  <2> QED BY <1>2, <1>5, <1>7, <2>1, Statuses DEF Meant, Lowest
<1>9. CASE i # Len(stack[u])
  <2>1. PICK g2 : g2 = stack[u][i + 1] /\ Over(f, g2) /\ i + 1 \in DOMAIN stack[u]
    BY <1>9, Under
  <2>2. f.op # "update"
    <3> SUFFICES ASSUME f.op = "update" PROVE FALSE
      OBVIOUS
    <3>1. f.arg = RUNNING
      BY <1>2, <1>5 DEF Meant
    <3>2. g2.op = "unlock" /\ g2.on = e
      BY <2>1, <3>1, Statuses DEF Over
    <3> QED BY <1>4, <1>6, <2>1, <3>2
  <2>3. f.op \in {"register", "enqueue", "call", "update", "push", "notified", "unlock", "broadcast"}
    BY <2>1 DEF Over
  <2> QED BY <1>2, <1>5, <1>7, <2>2, <2>3, Statuses DEF Meant
<1> QED BY <1>8, <1>9
LEMMA FinishKeeps ==
  ASSUME IInv, NEW d \in Thread, Finish(d)
  PROVE  IInv'
<1>0. /\ Types /\ Queues /\ Owner /\ Lists /\ Shape /\ Events /\ CalledOnce
  BY Parts
<1>1a. PICK b : b = Doing(d)
  OBVIOUS
<1>1b. PICK e : e = b.on
  OBVIOUS
<1>1. b = Doing(d) /\ e = b.on
  BY <1>1a, <1>1b
<1>2. /\ At(d, "finish") /\ held[e] = None /\ status' = [status EXCEPT ![e] = COMPLETE] /\ Lock(d, {e})
      /\ Continue(d, <<Update(e, COMPLETE), Frame("unlock", e, 0, 0), Frame("broadcast", e, 0, 0)>>)
      /\ UNCHANGED <<created, kind, waits, notify, list, work, registered, target, trigger, calls, returned>>
  BY <1>1 DEF Finish, Unlocked, cbVars
<1>3a. PICK f : f = Update(e, COMPLETE)
  OBVIOUS
<1>3b. PICK g : g = Frame("unlock", e, 0, 0)
  OBVIOUS
<1>3c. PICK h : h = Frame("broadcast", e, 0, 0)
  OBVIOUS
<1>3d. PICK fs : fs = <<f, g, h>>
  OBVIOUS
<1>3. /\ f = Update(e, COMPLETE) /\ g = Frame("unlock", e, 0, 0) /\ h = Frame("broadcast", e, 0, 0)
      /\ fs = <<f, g, h>>
  BY <1>3a, <1>3b, <1>3c, <1>3d
<1>4. /\ f.op = "update" /\ f.on = e /\ f.arg = COMPLETE /\ f.next = 1 /\ f = Frame(f.op, f.on, f.arg, f.next)
      /\ g.op = "unlock" /\ g.on = e /\ g = Frame(g.op, g.on, g.arg, g.next)
      /\ h.op = "broadcast" /\ h.on = e /\ h = Frame(h.op, h.on, h.arg, h.next)
  BY <1>3 DEF Update, Frame
<1>5. fs \in Seq({f, g, h}) /\ Len(fs) = 3 /\ fs[1] = f /\ fs[2] = g /\ fs[3] = h /\ 1..Len(fs) = {1, 2, 3}
  BY <1>3, ThreeFrames
<1>6. ~Idle(d) /\ b.op = "finish" /\ e \in Event /\ e \in 1..created /\ created \in Nat
  BY <1>1, <1>2, CallFacts
<1>7. /\ Meant(b) /\ b = stack[d][1] /\ Len(stack[d]) = 1 /\ DOMAIN stack[d] = 1..Len(stack[d])
  <2>1. /\ Meant(b) /\ b = stack[d][1] /\ Len(stack[d]) \in Nat /\ Len(stack[d]) >= 1 /\ DOMAIN stack[d] = 1..Len(stack[d])
        /\ Len(stack[d]) > 1 => Over(b, stack[d][2])
    BY <1>1, <1>6, TopFacts
  <2>2. ~(Len(stack[d]) > 1)
    BY <1>6, <2>1 DEF Over
  <2>3. Len(stack[d]) = 1
    <3>1. PICK m : m = Len(stack[d])
      OBVIOUS
    <3>2. m \in Nat /\ m >= 1 /\ ~(m > 1)
      BY <2>1, <2>2, <3>1
    <3>3. m = 1
      BY <3>2
    <3> QED BY <3>1, <3>3
  <2> QED BY <2>1, <2>3
<1>8. /\ status[e] = RUNNING /\ kind[e] = "command" /\ status[e] # UNKNOWN
      /\ status'[e] = COMPLETE /\ \A k \in Event \ {e} : status'[k] = status[k]
  <2>1. status[e] = RUNNING /\ kind[e] = "command" /\ RUNNING # UNKNOWN
    BY <1>1, <1>6, <1>7, Statuses DEF Meant
  <2> QED BY <1>0, <1>2, <1>6, <2>1 DEF Types
<1>9. Step(d, fs, 1) /\ e <= created
  <2>1. Continue(d, fs)
    BY <1>2, <1>3
  <2> QED BY <1>5, <1>6, <2>1, Continued
<1>10. Calm /\ Settled(d, 1, e)
  BY <1>1, <1>2, FinishSettles DEF Calm
<1>11. /\ held' \in [Event -> Thread \cup {None}]
       /\ \A k \in Event : held'[k] = IF k \in {e} THEN d ELSE held[k]
  BY <1>2, LockFacts
<1>12. Types'
  <2>1. COMPLETE \in COMPLETE..UNKNOWN
    BY Statuses
  <2>2. status' \in [Event -> COMPLETE..UNKNOWN] 
    BY <1>0, <1>2, <1>6, <2>1 DEF Types
  <2> QED BY <1>0, <1>2, <1>11, <2>2 DEF Types
<1>13. Queues'
  <2>1. waits[e] = {} /\ e \notin work /\ work \subseteq Event
    <3>1. (waits[e] # {} => status[e] = QUEUED) /\ (e \in work => status[e] = SUBMITTED)
      BY <1>0, <1>6 DEF Queues
    <3>2. RUNNING # QUEUED /\ RUNNING # SUBMITTED
      BY Statuses
    <3> QED BY <1>0, <1>8, <3>1, <3>2 DEF Types
  <2> QED BY <1>0, <1>2, <1>8, <2>1 DEF Queues
<1>14. Events'
  <2>1. COMPLETE # UNKNOWN /\ \A k \in work' : kind[k] = "command"
    BY <1>0, <1>2, Statuses DEF Events
  <2> QED BY <1>8, <1>9, <1>10, <2>1, EventsCalm
<1>15. Lists' /\ CalledOnce' /\ Stacked'
  <2>1. Lists'
    <3>1. \A c \in Callback : c > registered => calls'[c] = 0
      BY <1>0, <1>2 DEF Lists
    <3> QED BY <1>10, <3>1, ListsCalm
  <2>2. CalledOnce'
    BY <1>0, <1>2 DEF CalledOnce
  <2>3. Stacked'
    BY <1>9 DEF Step, Changed
  <2> QED BY <2>1, <2>2, <2>3
<1>16. FramesMeant' /\ Unique'
  <2>1. Meant(f)' /\ Meant(g)' /\ Meant(h)'
    BY <1>2, <1>4, <1>6, <1>8, Statuses DEF Meant, Frame
  <2>2. \A i \in 1..Len(fs) : Meant(fs[i])' /\ (fs[i].on = e \/ fs[i].op = "notified")
    BY <1>4, <1>5, <2>1
  <2>3. \A i, k \in 1..Len(fs) : Same(fs[i], fs[k]) => i = k
    BY <1>4, <1>5 DEF Same, Walking
  <2>4. \A i \in 1..Len(fs) : fs[i].op # "register"
    BY <1>4, <1>5
  <2>5. work' \subseteq work /\ calls' = calls /\ status'[e] # UNKNOWN
    BY <1>2, <1>8, Statuses
  <2> QED BY <1>6, <1>8, <1>9, <1>10, <2>2, <2>3, <2>4, <2>5, DropFrames
<1>17. Shape'
  <2>1. Over(f, g) /\ Over(g, h) /\ Lowest(h)
    BY <1>4, Statuses DEF Over, Lowest
  <2>2. \A i \in 1..Len(fs) : i < Len(fs) => Over(fs[i], fs[i + 1])
    <3>1. 1 + 1 = 2 /\ 2 + 1 = 3 /\ ~(3 < 3)
      OBVIOUS
    <3> QED BY <1>5, <2>1, <3>1
  <2>3. \A k : Len(fs) >= 1 /\ Len(stack[d]) > 1 /\ k = stack[d][1 + 1] => Over(fs[Len(fs)], k)
    BY <1>7
  <2>4. Len(fs) >= 1 /\ Len(stack[d]) = 1 => Lowest(fs[Len(fs)])
    BY <1>5, <2>1
  <2> QED BY <1>0, <1>2, <1>9, <2>2, <2>3, <2>4, ShapeCalm
<1>18. Owner'
  <2>1. \A k : k.op = "notified" /\ (\E i \in DOMAIN stack[d] : i > 1 /\ k = stack[d][i]) => held'[k.on] = d
    BY <1>7
  <2>2. HoldsTop(d, fs[1])'
    BY <1>4, <1>5, <1>6, <1>11 DEF HoldsTop
  <2>3. \A u \in Thread \ {d} : \A k \in Event : held[k] = u => held'[k] = u
    <3>1. None \notin Thread
      BY CallbackAssumption DEF Thread
    <3> QED BY <1>2, <1>11, <3>1
  <2>4. \A i \in 1..Len(fs) : fs[i].op = "notified" => held'[fs[i].on] = d
    BY <1>4, <1>5
  <2>5. \A k : Len(fs) = 0 /\ Len(stack[d]) > 1 /\ k = stack[d][1 + 1] => HoldsTop(d, k)'
    BY <1>5
  <2> QED BY <1>5, <1>9, <2>1, <2>2, <2>3, <2>4, <2>5, OwnerKeeps
<1>19. Notifies'
  <2>1. \A x \in Event : status[x] # UNKNOWN => status'[x] # UNKNOWN
    BY <1>8, Statuses
  <2>2. stack[d][1].op # "notified"
    BY <1>6, <1>7
  <2> QED BY <1>2, <1>9, <1>10, <2>1, <2>2, NotifiesCalm
<1>20. Progress'
  <2>1. status'[e] \in COMPLETE..UNKNOWN /\ status'[e] < status[e]
    BY <1>8, Statuses
  <2>2. \A c \in Callback : target[c] = e /\ status'[e] < trigger[c] /\ trigger[c] < status[e] => Skipped(c)
    <3> TAKE c \in Callback
    <3>1. trigger[c] \in {SUBMITTED, RUNNING, COMPLETE}
      BY <1>0 DEF Types
    <3>2. ~(COMPLETE < trigger[c] /\ trigger[c] < RUNNING)
      BY <3>1 DEF SUBMITTED, RUNNING, COMPLETE, QUEUED
    <3> QED BY <1>8, <3>2
  <2>3. \A i \in 1..Len(fs) : fs[i].on = e \/ fs[i].op = "notified"
    BY <1>4, <1>5
  <2>4. \A i \in 1..Len(fs) : Walking(fs[i], e) => fs[i].op = "userUpdate" \/ fs[i].next = 1
    BY <1>4, <1>5 DEF Walking
  <2>5. 1 \in 1..Len(fs) /\ Walking(fs[1], e)
    BY <1>4, <1>5 DEF Walking
  <2>6. UNCHANGED <<calls, returned>>
    BY <1>2
  <2>7. \A k : ~Walking(stack[d][1], k)
    BY <1>6, <1>7 DEF Walking
  <2> QED BY <1>6, <1>8, <1>9, <1>10, <2>1, <2>2, <2>3, <2>4, <2>5, <2>6, <2>7, DropProgress
<1> QED BY <1>12, <1>13, <1>14, <1>15, <1>16, <1>17, <1>18, <1>19, <1>20, Assembled

LEMMA NotifyReadyKeeps ==
  ASSUME IInv, NEW d \in Thread, NEW e \in Event, NotifyReady(d, e)
  PROVE  IInv'
<1>0. /\ Types /\ Queues /\ Owner /\ Lists /\ Shape /\ Events /\ CalledOnce /\ Notifies
  BY Parts
<1>1a. PICK b : b = Doing(d)
  OBVIOUS
<1>1b. PICK n : n = b.on
  OBVIOUS
<1>1. b = Doing(d) /\ n = b.on
  BY <1>1a, <1>1b
<1>2. /\ At(d, "broadcast") /\ e \in notify[n] /\ held[n] = None /\ held[e] = None /\ waits[e] \ {n} = {}
      /\ waits' = [waits EXCEPT ![e] = @ \ {n}] /\ status' = [status EXCEPT ![e] = SUBMITTED] /\ Lock(d, {n, e})
      /\ stack' = [stack EXCEPT ![d] = DispatchCalls(n, e) \o @]
      /\ UNCHANGED <<created, kind, notify, list, work, registered, target, trigger, calls, returned>>
  BY <1>1 DEF NotifyReady, Unlocked, Ready, cbVars
<1>3a. PICK f : f = Update(e, SUBMITTED)
  OBVIOUS
<1>3b. PICK g : g = Frame("push", e, 0, 0)
  OBVIOUS
<1>3c. PICK h : h = Frame("notified", n, e, 0)
  OBVIOUS
<1>3d. PICK fs : fs = <<f, g, h>>
  OBVIOUS
<1>3. /\ f = Update(e, SUBMITTED) /\ g = Frame("push", e, 0, 0) /\ h = Frame("notified", n, e, 0)
      /\ fs = <<f, g, h>>
  BY <1>3a, <1>3b, <1>3c, <1>3d
<1>4. /\ f.op = "update" /\ f.on = e /\ f.arg = SUBMITTED /\ f.next = 1 /\ f = Frame(f.op, f.on, f.arg, f.next)
      /\ g.op = "push" /\ g.on = e /\ g = Frame(g.op, g.on, g.arg, g.next)
      /\ h.op = "notified" /\ h.on = n /\ h.arg = e /\ h = Frame(h.op, h.on, h.arg, h.next)
  BY <1>3 DEF Update, Frame
<1>5. fs \in Seq({f, g, h}) /\ Len(fs) = 3 /\ fs[1] = f /\ fs[2] = g /\ fs[3] = h /\ 1..Len(fs) = {1, 2, 3}
  BY <1>3, ThreeFrames
<1>6. ~Idle(d) /\ b.op = "broadcast" /\ n \in Event /\ n \in 1..created /\ created \in Nat
  BY <1>1, <1>2, CallFacts
<1>7. /\ b = stack[d][1] /\ Len(stack[d]) \in Nat /\ Len(stack[d]) >= 1 /\ DOMAIN stack[d] = 1..Len(stack[d]) /\ 1 \in DOMAIN stack[d]
  BY <1>1, <1>6, TopFacts
<1>8. /\ status[e] = QUEUED /\ kind[e] = "command" /\ status[e] # UNKNOWN /\ e # n /\ n \in waits[e]
      /\ status'[e] = SUBMITTED /\ \A k \in Event \ {e} : status'[k] = status[k]
  <2>1. ~Dispatching(n, e)
    <3>1. ASSUME NEW u \in Thread, NEW i \in DOMAIN stack[u], stack[u][i].op = "notified", stack[u][i].on = n PROVE FALSE
      <4>1. held[n] = u
        BY <1>0, <3>1 DEF Owner
      <4>2. None \notin Thread
        BY CallbackAssumption DEF Thread
      <4> QED BY <1>2, <4>1, <4>2
    <3> QED BY <3>1 DEF Dispatching
  <2>2. n \in waits[e] /\ kind[e] = "command" /\ e # n
    BY <1>0, <1>2, <1>6, <2>1 DEF Notifies
  <2>3. status[e] = QUEUED /\ QUEUED # UNKNOWN
    BY <1>0, <2>2, Statuses DEF Queues
  <2> QED BY <1>0, <1>2, <2>2, <2>3 DEF Types
<1>9. Step(d, fs, 0) /\ e <= created /\ e \in 1..created
  <2>1. stack' = [stack EXCEPT ![d] = fs \o stack[d]] /\ Stacked
    <3>1. Stacked
      BY Parts
    <3> QED BY <1>2, <1>3, <3>1 DEF DispatchCalls, Stacked
  <2>2. Step(d, fs, 0)
    BY <1>5, <2>1, StepEntered
  <2>3. e <= created
    <3>1. ~(e > created) /\ e \in Nat
      BY <1>0, <1>8, Numbers DEF Events
    <3> QED BY <1>6, <3>1
  <2> QED BY <1>6, <2>2, <2>3, Numbers
<1>10. Calm /\ Settled(d, 0, e) /\ e \notin work
  <2>1. QUEUED # SUBMITTED
    BY Statuses
  <2>2. Settled(d, 0, e)
    BY <1>8, <2>1, SettledEvent
  <2> QED BY <1>0, <1>2, <1>8, <2>1, <2>2 DEF Calm, Queues
<1>11. /\ held' \in [Event -> Thread \cup {None}]
       /\ \A k \in Event : held'[k] = IF k \in {n, e} THEN d ELSE held[k]
  BY <1>2, LockFacts
<1>12. Types'
  <2>1. SUBMITTED \in COMPLETE..UNKNOWN
    BY Statuses
  <2>2. status' \in [Event -> COMPLETE..UNKNOWN] /\ waits' \in [Event -> SUBSET Event]
    BY <1>0, <1>2, <2>1 DEF Types
  <2> QED BY <1>0, <1>2, <1>11, <2>2 DEF Types
<1>13. Queues'
  <2>1. waits'[e] = {} /\ \A k \in Event \ {e} : waits'[k] = waits[k]
    BY <1>0, <1>2 DEF Types
  <2>2. work \subseteq Event
    BY <1>0 DEF Types
  <2> QED BY <1>0, <1>2, <1>8, <1>10, <2>1, <2>2 DEF Queues
<1>14. Events'
  <2>1. SUBMITTED # UNKNOWN /\ \A k \in work' : kind[k] = "command"
    BY <1>0, <1>2, Statuses DEF Events
  <2> QED BY <1>8, <1>9, <1>10, <2>1, EventsCalm
<1>15. Lists' /\ CalledOnce' /\ Stacked'
  <2>1. Lists'
    <3>1. \A c \in Callback : c > registered => calls'[c] = 0
      BY <1>0, <1>2 DEF Lists
    <3> QED BY <1>10, <3>1, ListsCalm
  <2>2. CalledOnce'
    BY <1>0, <1>2 DEF CalledOnce
  <2>3. Stacked'
    BY <1>9 DEF Step, Changed
  <2> QED BY <2>1, <2>2, <2>3
<1>16. FramesMeant' /\ Unique'
  <2>1. Meant(f)' /\ Meant(g)' /\ Meant(h)'
    <3>1. SUBMITTED # UNKNOWN /\ SUBMITTED \in {SUBMITTED, RUNNING, COMPLETE} /\ 1 \in Nat \ {0}
      BY Statuses
    <3>2. n \in 1..created' /\ e \in 1..created' /\ status'[e] = SUBMITTED /\ kind'[e] = "command" /\ e \notin work'
          /\ status'[n] # UNKNOWN /\ e \in Event \ {n}
      <4>1. status[n] # UNKNOWN
        <5>1. Meant(b)
          BY <1>1, <1>6, TopFacts
        <5> QED BY <1>1, <1>6, <5>1 DEF Meant
      <4> QED BY <1>2, <1>6, <1>8, <1>9, <1>10, <4>1
    <3>3. Meant(f)'
      BY <1>4, <3>1, <3>2 DEF Meant, Frame
    <3>4. Meant(g)'
      BY <1>4, <3>1, <3>2 DEF Meant, Frame
    <3>5. Meant(h)'
      BY <1>4, <3>1, <3>2 DEF Meant, Frame
    <3> QED BY <3>3, <3>4, <3>5
  <2>2. \A i \in 1..Len(fs) : Meant(fs[i])' /\ (fs[i].on = e \/ fs[i].op = "notified")
    BY <1>4, <1>5, <2>1
  <2>3. \A i, k \in 1..Len(fs) : Same(fs[i], fs[k]) => i = k
    BY <1>4, <1>5 DEF Same, Walking
  <2>4. \A i \in 1..Len(fs) : fs[i].op # "register"
    BY <1>4, <1>5
  <2>5. work' \subseteq work /\ calls' = calls /\ status'[e] # UNKNOWN
    BY <1>2, <1>8, Statuses
  <2> QED BY <1>6, <1>8, <1>9, <1>10, <2>2, <2>3, <2>4, <2>5, DropFrames
<1>17. Shape'
  <2>1. Over(f, g) /\ Over(g, h) /\ Over(h, b)
    BY <1>1, <1>4, <1>6 DEF Over
  <2>2. \A i \in 1..Len(fs) : i < Len(fs) => Over(fs[i], fs[i + 1])
    <3>1. 1 + 1 = 2 /\ 2 + 1 = 3 /\ ~(3 < 3)
      OBVIOUS
    <3> QED BY <1>5, <2>1, <3>1
  <2>3. \A k : Len(fs) >= 1 /\ Len(stack[d]) > 0 /\ k = stack[d][0 + 1] => Over(fs[Len(fs)], k)
    BY <1>5, <1>7, <2>1
  <2>4. Len(fs) >= 1 /\ Len(stack[d]) = 0 => Lowest(fs[Len(fs)])
    BY <1>7
  <2> QED BY <1>0, <1>2, <1>9, <2>2, <2>3, <2>4, ShapeCalm
<1>18. Owner'
  <2>1. \A k : k.op = "notified" /\ (\E i \in DOMAIN stack[d] : i > 0 /\ k = stack[d][i]) => held'[k.on] = d
    <3> SUFFICES ASSUME NEW i \in DOMAIN stack[d], stack[d][i].op = "notified" PROVE FALSE
      OBVIOUS
    <3>1. i > 1
      <4>1. i # 1
        BY <1>6, <1>7
      <4> QED BY <4>1, Under
    <3> QED BY <1>6, <1>7, <3>1, UnderBroadcast
  <2>2. HoldsTop(d, fs[1])'
    BY <1>4, <1>5, <1>11 DEF HoldsTop
  <2>3. \A u \in Thread \ {d} : \A k \in Event : held[k] = u => held'[k] = u
    <3>1. None \notin Thread
      BY CallbackAssumption DEF Thread
    <3> QED BY <1>2, <1>11, <3>1
  <2>4. \A i \in 1..Len(fs) : fs[i].op = "notified" => held'[fs[i].on] = d
    BY <1>4, <1>5, <1>6, <1>11
  <2>5. \A k : Len(fs) = 0 /\ Len(stack[d]) > 0 /\ k = stack[d][0 + 1] => HoldsTop(d, k)'
    BY <1>5
  <2> QED BY <1>5, <1>9, <2>1, <2>2, <2>3, <2>4, <2>5, OwnerKeeps
<1>19. Notifies'
  <2> SUFFICES ASSUME NEW m \in Event, NEW x \in Event, x \in notify[m]
               PROVE  /\ x # m /\ kind[x] = "command" /\ status'[x] # UNKNOWN
                      /\ m \in waits'[x] \/ Dispatching(m, x)'
    BY <1>2 DEF Notifies
  <2>1. x # m /\ kind[x] = "command" /\ status[x] # UNKNOWN /\ (m \in waits[x] \/ Dispatching(m, x))
    BY <1>0 DEF Notifies
  <2>2. status'[x] # UNKNOWN
    BY <1>8, <2>1, Statuses
  <2>3. Dispatching(m, x) => Dispatching(m, x)'
    BY <1>9, DispatchKept
  <2>4. m \in waits[x] /\ ~(x = e /\ m = n) => m \in waits'[x]
    BY <1>0, <1>2 DEF Types
  <2>5. Dispatching(n, e)'
    <3>1. 3 \in 1..Len(fs) /\ Reports(fs[3], n, e)
      BY <1>4, <1>5 DEF Reports
    <3> QED BY <1>9, <3>1, DispatchKeeps
  <2> QED BY <2>1, <2>2, <2>3, <2>4, <2>5
<1>20. Progress'
  <2>1. status'[e] \in COMPLETE..UNKNOWN /\ status'[e] < status[e]
    BY <1>8, Statuses
  <2>2. \A c \in Callback : target[c] = e /\ status'[e] < trigger[c] /\ trigger[c] < status[e] => Skipped(c)
    <3> TAKE c \in Callback
    <3>1. trigger[c] \in {SUBMITTED, RUNNING, COMPLETE}
      BY <1>0 DEF Types
    <3>2. ~(SUBMITTED < trigger[c] /\ trigger[c] < QUEUED)
      BY <3>1 DEF SUBMITTED, RUNNING, COMPLETE, QUEUED
    <3> QED BY <1>8, <3>2
  <2>3. \A i \in 1..Len(fs) : fs[i].on = e \/ fs[i].op = "notified"
    BY <1>4, <1>5
  <2>4. \A i \in 1..Len(fs) : Walking(fs[i], e) => fs[i].op = "userUpdate" \/ fs[i].next = 1
    BY <1>4, <1>5 DEF Walking
  <2>5. 1 \in 1..Len(fs) /\ Walking(fs[1], e)
    BY <1>4, <1>5 DEF Walking
  <2>6. UNCHANGED <<calls, returned>>
    BY <1>2
  <2> QED BY <1>8, <1>9, <1>10, <2>1, <2>2, <2>3, <2>4, <2>5, <2>6, DropProgress
<1> QED BY <1>12, <1>13, <1>14, <1>15, <1>16, <1>17, <1>18, <1>19, <1>20, Assembled
-----------------------------------------------------------------------------
(* Reports and the work queue *)

LEMMA NotifyWaitingKeeps ==
  ASSUME IInv, NEW t \in Thread, NEW x \in Event, NotifyWaiting(t, x)
  PROVE  IInv'
<1>0. /\ Types /\ Queues /\ Stacked /\ FramesMeant /\ Shape /\ Owner /\ Unique /\ Notifies /\ Events
      /\ Lists /\ Progress /\ CalledOnce
  BY Parts
<1>1. PICK n : n = Doing(t).on
  OBVIOUS
<1>2. /\ waits' = [waits EXCEPT ![x] = @ \ {n}] /\ notify' = [notify EXCEPT ![n] = @ \ {x}]
      /\ UNCHANGED <<created, kind, status, held, list, work, registered, target, trigger, calls, returned, stack>>
  BY <1>1 DEF NotifyWaiting, cbVars
<1>3. n \in Event
  BY <1>1, CallFacts DEF NotifyWaiting
<1>4. /\ waits' \in [Event -> SUBSET Event] /\ notify' \in [Event -> SUBSET Event]
      /\ \A m, k \in Event : m \in waits'[k] <=> m \in waits[k] /\ ~(m = n /\ k = x)
      /\ \A m, k \in Event : k \in notify'[m] <=> k \in notify[m] /\ ~(m = n /\ k = x)
  BY <1>0, <1>2, <1>3 DEF Types
<1>5. Types'
  BY <1>0, <1>2, <1>4 DEF Types
<1>6. Queues'
  <2>1. \A k \in Event : waits'[k] # {} => waits[k] # {}
    BY <1>0, <1>4 DEF Types
  <2> QED BY <1>0, <1>2, <2>1 DEF Queues
<1>7. Stacked' /\ Shape' /\ Owner' /\ Unique'
  <2>1. Stacked'
    BY <1>0, <1>2 DEF Stacked, Frames
  <2>2. Shape'
    BY <1>0, <1>2 DEF Shape, Over, Lowest
  <2>3. Owner'
    BY <1>0, <1>2 DEF Owner
  <2>4. Unique'
    BY <1>0, <1>2 DEF Unique, Same, Walking
  <2> QED BY <2>1, <2>2, <2>3, <2>4
<1>8. FramesMeant'
  BY <1>0, <1>2 DEF FramesMeant, Meant, Frame
<1>9. Notifies'
  <2>1. \A m, k : Dispatching(m, k) => Dispatching(m, k)'
    BY <1>2 DEF Dispatching
  <2> QED BY <1>0, <1>2, <1>4, <2>1 DEF Notifies
<1>10. Events' /\ Lists' /\ CalledOnce'
  <2>1. Events'
    BY <1>0, <1>2 DEF Events
  <2>2. Lists'
    BY <1>0, <1>2 DEF Lists
  <2>3. CalledOnce'
    BY <1>0, <1>2 DEF CalledOnce
  <2> QED BY <2>1, <2>2, <2>3
<1>11. Progress'
  <2>1. \A k \in Event : \A j \in DOMAIN list[k] :
          /\ status'[k] = status[k] /\ kind'[k] = kind[k] /\ target[list[k][j]] = k
          /\ trigger'[list[k][j]] = trigger[list[k][j]] /\ target'[list[k][j]] = target[list[k][j]]
          /\ calls'[list[k][j]] = calls[list[k][j]]
    BY <1>0, <1>2 DEF Lists
  <2>2. PICK fs : fs = <<>>
    OBVIOUS
  <2>3. Step(t, fs, 0) /\ Len(fs) = 0 /\ 1..Len(fs) = {}
    BY <1>0, <1>2, <2>2, StepNone, EmptyFrames
  <2>4. \A i \in 1..Len(fs) : \A k : ~Walking(fs[i], k)
    BY <2>3
  <2> QED BY <1>0, <1>2, <2>1, <2>3, <2>4, ProgressKeeps
<1> QED BY <1>5, <1>6, <1>7, <1>8, <1>9, <1>10, <1>11, Assembled

LEMMA PushCommandKeeps ==
  ASSUME IInv, NEW t \in Thread, PushCommand(t)
  PROVE  IInv'
<1>0. /\ Types /\ Queues /\ Owner /\ Lists /\ Progress /\ Events /\ CalledOnce
  BY Parts
<1>1a. PICK f : f = Doing(t)
  OBVIOUS
<1>1b. PICK e : e = f.on
  OBVIOUS
<1>1c. PICK fs : fs = <<>>
  OBVIOUS
<1>1. f = Doing(t) /\ e = f.on /\ fs = <<>>
  BY <1>1a, <1>1b, <1>1c
<1>2. /\ At(t, "push") /\ Continue(t, fs) /\ work' = work \cup {e}
      /\ UNCHANGED <<created, kind, status, waits, notify, held, list, registered, target, trigger, calls, returned>>
  BY <1>1 DEF PushCommand, eventVars, cbVars
<1>3. ~Idle(t) /\ f.op = "push" /\ e \in Event
  BY <1>1, <1>2, CallFacts
<1>4. Len(fs) = 0 /\ 1..Len(fs) = {} /\ fs \in Seq({})
  BY <1>1, EmptyFrames
<1>5. /\ f = stack[t][1] /\ 1 \in DOMAIN stack[t] /\ Meant(f)
      /\ Len(stack[t]) > 1 => Over(f, stack[t][2])
  BY <1>1, <1>3, TopFacts
<1>6. Step(t, fs, 1) /\ Calm
  BY <1>2, <1>3, <1>4, Continued DEF Calm
<1>7. status[e] = SUBMITTED /\ kind[e] = "command" /\ held[e] = t
  BY <1>0, <1>1, <1>3, <1>5 DEF Owner, Meant
<1>8. Len(stack[t]) > 1 => stack[t][2].op = "notified" /\ stack[t][2].arg = e
  BY <1>1, <1>3, <1>5 DEF Over
<1>9. Types' /\ Queues'
  <2>1. Types'
    BY <1>0, <1>2, <1>3 DEF Types
  <2>2. Queues'
    BY <1>0, <1>2, <1>7 DEF Queues
  <2> QED BY <2>1, <2>2
<1>10. Events' /\ Lists' /\ CalledOnce' /\ Stacked' /\ Notifies'
  <2>1. Events'
    <3>1. \A k \in work' : kind[k] = "command"
      BY <1>0, <1>2, <1>7 DEF Events
    <3> QED BY <1>2, <1>6, <3>1, EventsCalm
  <2>2. Lists'
    <3>1. \A c \in Callback : c > registered => calls'[c] = 0
      BY <1>0, <1>2 DEF Lists
    <3> QED BY <1>6, <3>1, ListsCalm
  <2>3. CalledOnce' /\ Stacked'
    BY <1>0, <1>2, <1>6 DEF CalledOnce, Step, Changed
  <2>4. Notifies'
    <3>1. stack[t][1].op # "notified" /\ \A x \in Event : status[x] # UNKNOWN => status'[x] # UNKNOWN
      BY <1>2, <1>3, <1>5
    <3> QED BY <1>2, <1>6, <3>1, NotifiesCalm
  <2> QED BY <2>1, <2>2, <2>3, <2>4
<1>11. ASSUME NEW h, IsKept(t, 1, h) PROVE Meant(h)'
  <2>1. Meant(h) /\ ~Same(f, h)
    BY <1>1, <1>3, <1>11, KeptMeant, Alone
  <2>2. h.op = "push" => h.on \notin work'
    BY <1>1, <1>2, <1>3, <2>1 DEF Meant, Same
  <2> QED BY <1>2, <1>6, <2>1, <2>2, MeantCalm
<1>13. FramesMeant' /\ Shape' /\ Unique' /\ Owner'
  <2>1. \A h : h.op = "notified" /\ (\E i \in DOMAIN stack[t] : i > 1 /\ h = stack[t][i]) => held'[h.on] = t
    BY <1>0, <1>2 DEF Owner
  <2>2. \A u \in Thread \ {t} : \A k \in Event : held[k] = u => held'[k] = u
    BY <1>2
  <2>3. \A h : Len(stack[t]) > 1 /\ h = stack[t][2] => HoldsTop(t, h)'
    BY <1>2, <1>7, <1>8 DEF HoldsTop
  <2> QED BY <1>1, <1>6, <1>11, <2>1, <2>2, <2>3, PopKeeps
<1>20. Progress'
  <2>1. \A k \in Event : \A j \in DOMAIN list[k] :
          /\ status'[k] = status[k] /\ kind'[k] = kind[k] /\ target[list[k][j]] = k
          /\ trigger'[list[k][j]] = trigger[list[k][j]] /\ target'[list[k][j]] = target[list[k][j]]
          /\ calls'[list[k][j]] = calls[list[k][j]]
    BY <1>0, <1>2 DEF Lists
  <2>2. \A i \in 1..Len(fs) : \A k : ~Walking(fs[i], k)
    BY <1>4
  <2>3. \A k : ~Walking(stack[t][1], k)
    BY <1>3, <1>5 DEF Walking
  <2>4. list' = list /\ returned \subseteq returned'
    BY <1>2
  <2>5. Len(stack[t]) > 1 => \A k : ~Walking(stack[t][2], k) \/ stack[t][2].op = "userUpdate"
    BY <1>8 DEF Walking
  <2> QED BY <1>0, <1>6, <2>1, <2>2, <2>3, <2>4, <2>5, ProgressKeeps
<1> QED BY <1>9, <1>10, <1>13, <1>20, Assembled

LEMMA NotifiedKeeps ==
  ASSUME IInv, NEW t \in Thread, Notified(t)
  PROVE  IInv'
<1>0. /\ Types /\ Queues /\ Owner /\ Lists /\ Progress /\ Events /\ CalledOnce /\ Notifies
  BY Parts
<1>1a. PICK f : f = Doing(t)
  OBVIOUS
<1>1b. PICK n : n = f.on
  OBVIOUS
<1>1c. PICK x : x = f.arg
  OBVIOUS
<1>1d. PICK fs : fs = <<>>
  OBVIOUS
<1>1. f = Doing(t) /\ n = f.on /\ x = f.arg /\ fs = <<>>
  BY <1>1a, <1>1b, <1>1c, <1>1d
<1>2. /\ At(t, "notified") /\ Continue(t, fs) /\ notify' = [notify EXCEPT ![n] = @ \ {x}] /\ Lock(None, {n, x})
      /\ UNCHANGED <<created, kind, status, waits, list, work, registered, target, trigger, calls, returned>>
  BY <1>1 DEF Notified, cbVars
<1>3. ~Idle(t) /\ f.op = "notified" /\ n \in Event
  BY <1>1, <1>2, CallFacts
<1>4. Len(fs) = 0 /\ 1..Len(fs) = {} /\ fs \in Seq({})
  BY <1>1, EmptyFrames
<1>5. /\ f = stack[t][1] /\ 1 \in DOMAIN stack[t] /\ Meant(f)
      /\ Len(stack[t]) > 1 => Over(f, stack[t][2])
  BY <1>1, <1>3, TopFacts
<1>6. Step(t, fs, 1) /\ Calm
  BY <1>2, <1>3, <1>4, Continued DEF Calm
<1>7. held[n] = t /\ held[x] = t /\ x \in Event
  BY <1>0, <1>1, <1>3, <1>5 DEF Owner, Meant
<1>8. Len(stack[t]) > 1 => stack[t][2].op = "broadcast"
  BY <1>1, <1>3, <1>5 DEF Over
<1>9. /\ held' \in [Event -> Thread \cup {None}]
      /\ \A k \in Event : held'[k] = IF k \in {n, x} THEN None ELSE held[k]
  BY <1>2, LockFacts
<1>10. Types' /\ Queues' /\ Events' /\ Lists' /\ CalledOnce' /\ Stacked'
  <2>1. Types'
    <3>1. notify' \in [Event -> SUBSET Event]
      BY <1>0, <1>2, <1>3 DEF Types
    <3> QED BY <1>0, <1>2, <1>9, <3>1 DEF Types
  <2>2. Queues'
    BY <1>0, <1>2 DEF Queues
  <2>3. Events'
    BY <1>0, <1>2 DEF Events
  <2>4. Lists'
    BY <1>0, <1>2 DEF Lists
  <2>5. CalledOnce' /\ Stacked'
    BY <1>0, <1>2, <1>6 DEF CalledOnce, Step, Changed
  <2> QED BY <2>1, <2>2, <2>3, <2>4, <2>5
<1>11. ASSUME NEW h, IsKept(t, 1, h) PROVE Meant(h)'
  <2>1. Meant(h)
    BY <1>11, KeptMeant
  <2>2. h.op = "push" => h.on \notin work'
    BY <1>2, <2>1 DEF Meant
  <2> QED BY <1>2, <1>6, <2>1, <2>2, MeantCalm
<1>12. Notifies'
  <2> SUFFICES ASSUME NEW m \in Event, NEW y \in Event, y \in notify'[m]
               PROVE  /\ y # m /\ kind[y] = "command" /\ status[y] # UNKNOWN
                      /\ m \in waits[y] \/ Dispatching(m, y)'
    BY <1>2 DEF Notifies
  <2>1. y \in notify[m] /\ ~(m = n /\ y = x)
    BY <1>0, <1>2, <1>3 DEF Types
  <2>2. Dispatching(m, y) => Dispatching(m, y)'
    <3>1. ~Reports(stack[t][1], m, y)
      BY <1>1, <1>5, <2>1 DEF Reports
    <3> QED BY <1>6, <3>1, DispatchKept
  <2> QED BY <1>0, <2>1, <2>2 DEF Notifies
<1>13. FramesMeant' /\ Shape' /\ Unique' /\ Owner'
  <2>1. \A h : h.op = "notified" /\ (\E i \in DOMAIN stack[t] : i > 1 /\ h = stack[t][i]) => held'[h.on] = t
    BY <1>3, <1>5, UnderUnlock
  <2>2. \A u \in Thread \ {t} : \A k \in Event : held[k] = u => held'[k] = u
    BY <1>7, <1>9
  <2>3. \A h : Len(stack[t]) > 1 /\ h = stack[t][2] => HoldsTop(t, h)'
    BY <1>8 DEF HoldsTop
  <2> QED BY <1>1, <1>6, <1>11, <2>1, <2>2, <2>3, PopKeeps
<1>20. Progress'
  <2>1. \A k \in Event : \A j \in DOMAIN list[k] :
          /\ status'[k] = status[k] /\ kind'[k] = kind[k] /\ target[list[k][j]] = k
          /\ trigger'[list[k][j]] = trigger[list[k][j]] /\ target'[list[k][j]] = target[list[k][j]]
          /\ calls'[list[k][j]] = calls[list[k][j]]
    BY <1>0, <1>2 DEF Lists
  <2>2. \A i \in 1..Len(fs) : \A k : ~Walking(fs[i], k)
    BY <1>4
  <2>3. \A k : ~Walking(stack[t][1], k)
    BY <1>3, <1>5 DEF Walking
  <2>4. list' = list /\ returned \subseteq returned'
    BY <1>2
  <2>5. Len(stack[t]) > 1 => \A k : ~Walking(stack[t][2], k) \/ stack[t][2].op = "userUpdate"
    BY <1>8 DEF Walking
  <2> QED BY <1>0, <1>6, <2>1, <2>2, <2>3, <2>4, <2>5, ProgressKeeps
<1> QED BY <1>10, <1>12, <1>13, <1>20, Assembled
LEMMA EnqueueKeeps ==
  ASSUME IInv, NEW t \in Thread, Enqueue(t)
  PROVE  IInv'
<1>0. /\ Types /\ Queues /\ Owner /\ Lists /\ Progress /\ Events /\ CalledOnce /\ Notifies
  BY Parts
<1>1a. PICK f : f = Doing(t)
  OBVIOUS
<1>1b. PICK e : e = f.on
  OBVIOUS
<1>1c. PICK A : A = f.arg
  OBVIOUS
<1>1d. PICK W : W = {n \in A : status[n] # COMPLETE}
  OBVIOUS
<1>1e. PICK s : s = (IF Ready(W) THEN SUBMITTED ELSE QUEUED)
  OBVIOUS
<1>1f. PICK fs : fs = <<>>
  OBVIOUS
<1>1. /\ f = Doing(t) /\ e = f.on /\ A = f.arg /\ W = {n \in A : status[n] # COMPLETE}
      /\ s = (IF Ready(W) THEN SUBMITTED ELSE QUEUED) /\ fs = <<>>
  BY <1>1a, <1>1b, <1>1c, <1>1d, <1>1e, <1>1f
<1>2. /\ At(t, "enqueue") /\ Continue(t, fs)
      /\ waits'  = [waits EXCEPT ![e] = W]
      /\ notify' = [n \in Event |-> IF n \in W THEN notify[n] \cup {e} ELSE notify[n]]
      /\ status' = [status EXCEPT ![e] = s]
      /\ work'   = IF Ready(W) THEN work \cup {e} ELSE work
      /\ UNCHANGED <<created, kind, held, list, registered, target, trigger, calls, returned>>
  BY <1>1 DEF Enqueue, cbVars
<1>3. ~Idle(t) /\ f.op = "enqueue" /\ e \in Event /\ e \in 1..created /\ created \in Nat /\ registered \in Nat
  BY <1>1, <1>2, CallFacts
<1>4. Len(fs) = 0 /\ 1..Len(fs) = {} /\ fs \in Seq({})
  BY <1>1, EmptyFrames
<1>5. /\ f = stack[t][1] /\ 1 \in DOMAIN stack[t] /\ Meant(f)
      /\ Len(stack[t]) > 1 => Over(f, stack[t][2])
  BY <1>1, <1>3, TopFacts
<1>6. Step(t, fs, 1) /\ Calm
  BY <1>2, <1>3, <1>4, Continued DEF Calm
<1>7. /\ status[e] = UNKNOWN /\ kind[e] = "command" /\ list[e] = <<>> /\ e \notin work
      /\ A \subseteq Event \ {e} /\ W \subseteq Event \ {e}
  <2>1. status[e] = UNKNOWN /\ kind[e] = "command" /\ A \subseteq Event \ {e}
    BY <1>1, <1>3, <1>5 DEF Meant
  <2>2. list[e] = <<>>
    BY <1>0, <1>3, <2>1 DEF Events
  <2>3. UNKNOWN # SUBMITTED
    BY Statuses
  <2> QED BY <1>0, <1>1, <2>1, <2>2, <2>3 DEF Queues
<1>8. /\ s \in {SUBMITTED, QUEUED} /\ s # UNKNOWN /\ (W # {} => s = QUEUED) /\ (W = {} => s = SUBMITTED)
      /\ status'[e] = s /\ \A k \in Event \ {e} : status'[k] = status[k]
  <2>1. SUBMITTED # UNKNOWN /\ QUEUED # UNKNOWN
    BY Statuses
  <2> QED BY <1>0, <1>1, <1>2, <1>3, <2>1 DEF Types, Ready
<1>9. Len(stack[t]) > 1 => stack[t][2].op = "call"
  BY <1>3, <1>5 DEF Over
<1>10. Types'
  <2>1. s \in COMPLETE..UNKNOWN
    BY <1>8, Statuses
  <2>2. status' \in [Event -> COMPLETE..UNKNOWN]
    BY <1>0, <1>2, <2>1 DEF Types
  <2>3. waits' \in [Event -> SUBSET Event] /\ work' \subseteq Event
    BY <1>0, <1>2, <1>3, <1>7 DEF Types
  <2>4. notify' \in [Event -> SUBSET Event]
    BY <1>0, <1>2, <1>3 DEF Types
  <2> QED BY <1>0, <1>2, <2>2, <2>3, <2>4 DEF Types
<1>11. Queues'
  <2>1. waits'[e] = W /\ \A k \in Event \ {e} : waits'[k] = waits[k]
    BY <1>0, <1>2, <1>3 DEF Types
  <2>2. work \subseteq Event /\ (e \in work' => W = {})
    BY <1>0, <1>2, <1>7 DEF Types, Ready
  <2>3. \A k \in work' : k = e \/ k \in work
    BY <1>2
  <2> QED BY <1>0, <1>7, <1>8, <2>1, <2>2, <2>3 DEF Queues
<1>12. Events'
  <2>1. \A k \in work' : kind[k] = "command"
    BY <1>0, <1>2, <1>7 DEF Events
  <2>2. e <= created
    BY <1>3
  <2> QED BY <1>6, <1>7, <1>8, <2>1, <2>2, EventsCalm
<1>13. Lists' /\ CalledOnce' /\ Stacked'
  <2>1. Lists'
    <3>1. \A c \in Callback : c > registered => calls'[c] = 0
      BY <1>0, <1>2 DEF Lists
    <3> QED BY <1>6, <3>1, ListsCalm
  <2> QED BY <1>0, <1>2, <1>6, <2>1 DEF CalledOnce, Step, Changed
<1>14. ASSUME NEW h, IsKept(t, 1, h) PROVE Meant(h)'
  <2>1. Meant(h) /\ ~Same(f, h) /\ h.on \in Event
    BY <1>1, <1>3, <1>14, KeptMeant, Alone
  <2>2. h.on # e
    <3>1. h.on = e => h.op = "enqueue"
      BY <1>7, <2>1 DEF Meant
    <3> QED BY <1>1, <1>3, <2>1, <3>1 DEF Same
  <2>3. status'[h.on] = status[h.on] /\ (h.op = "push" => h.on \notin work')
    BY <1>2, <1>8, <2>1, <2>2 DEF Meant
  <2> QED BY <1>2, <1>6, <2>1, <2>3, MeantCalm
<1>15. FramesMeant' /\ Shape' /\ Unique' /\ Owner'
  <2>1. \A h : h.op = "notified" /\ (\E i \in DOMAIN stack[t] : i > 1 /\ h = stack[t][i]) => held'[h.on] = t
    BY <1>0, <1>2 DEF Owner
  <2>2. \A u \in Thread \ {t} : \A k \in Event : held[k] = u => held'[k] = u
    BY <1>2
  <2>3. \A h : Len(stack[t]) > 1 /\ h = stack[t][2] => HoldsTop(t, h)'
    BY <1>9 DEF HoldsTop
  <2> QED BY <1>1, <1>6, <1>14, <2>1, <2>2, <2>3, PopKeeps
<1>16. Notifies'
  <2> SUFFICES ASSUME NEW m \in Event, NEW y \in Event, y \in notify'[m]
               PROVE  /\ y # m /\ kind[y] = "command" /\ status'[y] # UNKNOWN
                      /\ m \in waits'[y] \/ Dispatching(m, y)'
    BY <1>2 DEF Notifies
  <2>1. y \in notify[m] \/ (m \in W /\ y = e)
    BY <1>2
  <2>2. CASE m \in W /\ y = e
    <3>1. waits'[e] = W
      BY <1>0, <1>2, <1>3 DEF Types
    <3> QED BY <1>7, <1>8, <2>2, <3>1
  <2>3. CASE y \in notify[m]
    <3>1. y # m /\ kind[y] = "command" /\ status[y] # UNKNOWN /\ (m \in waits[y] \/ Dispatching(m, y))
      BY <1>0, <2>3 DEF Notifies
    <3>2. y # e /\ waits'[y] = waits[y] /\ status'[y] # UNKNOWN
      BY <1>0, <1>2, <1>7, <1>8, <3>1 DEF Types
    <3>3. Dispatching(m, y) => Dispatching(m, y)'
      <4>1. ~Reports(stack[t][1], m, y)
        BY <1>3, <1>5 DEF Reports
      <4> QED BY <1>6, <4>1, DispatchKept
    <3> QED BY <3>1, <3>2, <3>3
  <2> QED BY <2>1, <2>2, <2>3
<1>20. Progress'
  <2>1. \A k \in Event : \A j \in DOMAIN list[k] :
          /\ status'[k] = status[k] /\ kind'[k] = kind[k] /\ target[list[k][j]] = k
          /\ trigger'[list[k][j]] = trigger[list[k][j]] /\ target'[list[k][j]] = target[list[k][j]]
          /\ calls'[list[k][j]] = calls[list[k][j]]
    <3>1. DOMAIN list[e] = {}
      BY <1>7
    <3> QED BY <1>0, <1>2, <1>8, <3>1 DEF Lists
  <2>2. \A i \in 1..Len(fs) : \A k : ~Walking(fs[i], k)
    BY <1>4
  <2>3. \A k : ~Walking(stack[t][1], k)
    BY <1>3, <1>5 DEF Walking
  <2>4. list' = list /\ returned \subseteq returned'
    BY <1>2
  <2>5. Len(stack[t]) > 1 => \A k : ~Walking(stack[t][2], k) \/ stack[t][2].op = "userUpdate"
    BY <1>9 DEF Walking
  <2> QED BY <1>0, <1>6, <2>1, <2>2, <2>3, <2>4, <2>5, ProgressKeeps
<1> QED BY <1>10, <1>11, <1>12, <1>13, <1>15, <1>16, <1>20, Assembled

LEMMA UserEventUpdatedKeeps ==
  ASSUME IInv, NEW t \in Thread, UserEventUpdated(t)
  PROVE  IInv'
<1>0. /\ Types /\ Shape /\ Owner /\ Lists /\ Progress /\ Unique
  BY Parts
<1>1a. PICK b : b = Doing(t)
  OBVIOUS
<1>1b. PICK e : e = b.on
  OBVIOUS
<1>1. b = Doing(t) /\ e = b.on
  BY <1>1a, <1>1b
<1>2. /\ At(t, "userUpdate") /\ held[e] = None /\ Lock(t, {e})
      /\ Continue(t, <<Update(e, COMPLETE), Frame("unlock", e, 0, 0)>>)
      /\ UNCHANGED <<created, kind, status, waits, notify, list, work, registered, target, trigger, calls, returned>>
  BY <1>1 DEF UserEventUpdated, Unlocked, cbVars
<1>3a. PICK f : f = Update(e, COMPLETE)
  OBVIOUS
<1>3b. PICK g : g = Frame("unlock", e, 0, 0)
  OBVIOUS
<1>3c. PICK fs : fs = <<f, g>>
  OBVIOUS
<1>3. f = Update(e, COMPLETE) /\ g = Frame("unlock", e, 0, 0) /\ fs = <<f, g>>
  BY <1>3a, <1>3b, <1>3c
<1>4. /\ f.op = "update" /\ f.on = e /\ f.arg = COMPLETE /\ f.next = 1 /\ f = Frame(f.op, f.on, f.arg, f.next)
      /\ g.op = "unlock" /\ g.on = e /\ g = Frame(g.op, g.on, g.arg, g.next)
  BY <1>3 DEF Update, Frame
<1>5. fs \in Seq({f, g}) /\ Len(fs) = 2 /\ fs[1] = f /\ fs[2] = g /\ 1..Len(fs) = {1, 2}
  BY <1>3, TwoFrames
<1>6. ~Idle(t) /\ b.op = "userUpdate" /\ e \in Event /\ e \in 1..created /\ created \in Nat
  BY <1>1, <1>2, CallFacts
<1>7. /\ Meant(b) /\ b = stack[t][1] /\ 1 \in DOMAIN stack[t] /\ DOMAIN stack[t] = 1..Len(stack[t])
      /\ ~(Len(stack[t]) > 1)
  <2>1. /\ Meant(b) /\ b = stack[t][1] /\ 1 \in DOMAIN stack[t] /\ DOMAIN stack[t] = 1..Len(stack[t])
        /\ Len(stack[t]) > 1 => Over(b, stack[t][2])
    BY <1>1, <1>6, TopFacts
  <2> QED BY <1>6, <2>1 DEF Over
<1>8. status[e] = COMPLETE /\ kind[e] = "user"
  BY <1>1, <1>6, <1>7 DEF Meant
<1>9. Step(t, fs, 1) /\ Calm
  <2>1. Continue(t, fs)
    BY <1>2, <1>3
  <2> QED BY <1>2, <1>5, <1>6, <2>1, Continued DEF Calm
<1>10. /\ held' \in [Event -> Thread \cup {None}]
       /\ \A k \in Event : held'[k] = IF k \in {e} THEN t ELSE held[k]
  BY <1>2, LockFacts
<1>11. /\ Types' /\ Queues' /\ Events' /\ Lists' /\ CalledOnce' /\ Stacked' /\ Notifies'
       /\ \A h : IsKept(t, 1, h) => Meant(h)'
  <2>1. returned' \subseteq Callback
    BY <1>0, <1>2 DEF Types
  <2>2. stack[t][1].op # "notified" /\ UNCHANGED <<status, waits, notify, work, calls>>
    BY <1>2, <1>6, <1>7
  <2> QED BY <1>9, <1>10, <2>1, <2>2, Silent
<1>12. FramesMeant'
  <2>1. Meant(f)' /\ Meant(g)'
    BY <1>2, <1>4, <1>6, <1>8, Statuses DEF Meant, Frame
  <2>2. \A i \in 1..Len(fs) : Meant(fs[i])'
    BY <1>5, <2>1
  <2> QED BY <1>9, <1>11, <2>2, MeantKeeps
<1>13. Shape'
  <2>1. Over(f, g) /\ Lowest(g)
    BY <1>4, <1>8, Statuses DEF Over, Lowest
  <2>2. \A i \in 1..Len(fs) : i < Len(fs) => Over(fs[i], fs[i + 1])
    <3>1. 1 + 1 = 2 /\ ~(2 < 2)
      OBVIOUS
    <3> QED BY <1>5, <2>1, <3>1
  <2>3. \A k : Len(fs) >= 1 /\ Len(stack[t]) > 1 /\ k = stack[t][1 + 1] => Over(fs[Len(fs)], k)
    BY <1>7
  <2>4. Len(fs) >= 1 /\ Len(stack[t]) = 1 => Lowest(fs[Len(fs)])
    BY <1>5, <2>1
  <2> QED BY <1>0, <1>2, <1>9, <2>2, <2>3, <2>4, ShapeCalm
<1>14. Owner'
  <2>1. \A k : k.op = "notified" /\ (\E i \in DOMAIN stack[t] : i > 1 /\ k = stack[t][i]) => held'[k.on] = t
    <3> SUFFICES ASSUME NEW i \in DOMAIN stack[t], i > 1 PROVE FALSE
      OBVIOUS
    <3> QED BY <1>6, <1>7, UnderBroadcast
  <2>2. HoldsTop(t, fs[1])'
    BY <1>4, <1>5, <1>6, <1>10 DEF HoldsTop
  <2>3. \A u \in Thread \ {t} : \A k \in Event : held[k] = u => held'[k] = u
    <3>1. None \notin Thread
      BY CallbackAssumption DEF Thread
    <3> QED BY <1>2, <1>10, <3>1
  <2>4. \A i \in 1..Len(fs) : fs[i].op = "notified" => held'[fs[i].on] = t
    BY <1>4, <1>5
  <2>5. \A k : Len(fs) = 0 /\ Len(stack[t]) > 1 /\ k = stack[t][1 + 1] => HoldsTop(t, k)'
    BY <1>5
  <2> QED BY <1>5, <1>9, <2>1, <2>2, <2>3, <2>4, <2>5, OwnerKeeps
<1>15. ASSUME NEW h, IsKept(t, 1, h) PROVE ~Walking(h, e)
  <2>1. ~Same(b, h)
    BY <1>1, <1>6, <1>15, Alone
  <2> QED BY <1>1, <1>6, <2>1 DEF Same, Walking
<1>16. Unique'
  <2>1. ASSUME NEW i \in 1..Len(fs), NEW h, IsKept(t, 1, h) PROVE ~Same(fs[i], h)
    <3>1. ~Walking(h, e)
      BY <1>15, <2>1
    <3>2. fs[i] = f \/ fs[i] = g
      BY <1>5, <2>1
    <3> QED BY <1>4, <3>1, <3>2 DEF Same, Walking
  <2>2. ASSUME NEW i \in 1..Len(fs), NEW k \in 1..Len(fs), Same(fs[i], fs[k]) PROVE i = k
    <3>1. ~Same(g, g) /\ ~Same(g, f) /\ ~Same(f, g)
      BY <1>4 DEF Same, Walking
    <3>2. i \in {1, 2} /\ k \in {1, 2}
      BY <1>5, <2>2
    <3> QED BY <1>5, <2>2, <3>1, <3>2
  <2>3. \A i \in 1..Len(fs) : \A h : IsKept(t, 1, h) => ~Same(fs[i], h)
    BY <2>1
  <2>4. \A i, k \in 1..Len(fs) : Same(fs[i], fs[k]) => i = k
    BY <2>2
  <2> QED BY <1>0, <1>9, <2>3, <2>4, UniqueKeeps
<1>20. Progress'
  <2> SUFFICES ASSUME NEW k \in Event, NEW j \in DOMAIN list[k], NEW c, c = list[k][j] PROVE InTurn(k, j)'
    BY <1>2 DEF Progress
  <2>1. InTurn(k, j) /\ target[c] = k /\ list'[k][j] = c /\ c \in Callback /\ j \in Nat /\ j >= 1
    BY <1>0, <1>2 DEF Progress, Lists, Types
  <2>2. CASE k # e
    <3>1. \A i \in 1..Len(fs) : ~Walking(fs[i], k)
      BY <1>4, <1>5, <2>2 DEF Walking
    <3>2. ~Walking(stack[t][1], k)
      BY <1>1, <1>7, <2>2 DEF Walking
    <3>3. Len(fs) # 0
      BY <1>5
    <3>4. /\ status'[k] = status[k] /\ kind'[k] = kind[k] /\ trigger'[c] = trigger[c] /\ target'[c] = target[c]
          /\ calls'[c] = calls[c] /\ (c \in returned => c \in returned')
      BY <1>2
    <3> QED BY <1>9, <2>1, <3>1, <3>2, <3>3, <3>4, TurnKeeps
  <2>3. CASE k = e
    <3>1. \A i \in 1..Len(fs) : Walking(fs[i], e) => fs[i].op = "userUpdate" \/ fs[i].next = 1
      BY <1>4, <1>5 DEF Walking
    <3>2. 1 \in 1..Len(fs) /\ Walking(fs[1], e)
      BY <1>4, <1>5 DEF Walking
    <3>3. status[e] > trigger[c] => calls[c] = 0
      BY <2>1, <2>3 DEF InTurn
    <3>4. status[e] = trigger[c] => calls[c] = 0
      <4> SUFFICES ASSUME status[e] = trigger[c] PROVE calls[c] = 0
        OBVIOUS
      <4>1. Reached(e, j)
        BY <2>1, <2>3 DEF InTurn
      <4>2. Walking(stack[t][1], e) /\ stack[t][1].op = "userUpdate"
        BY <1>1, <1>6, <1>7 DEF Walking
      <4> QED BY <1>7, <2>3, <4>1, <4>2 DEF Reached
    <3>5. status[e] < trigger[c] => c \in returned \/ Skipped(c)
      BY <2>1, <2>3 DEF InTurn
    <3>6. /\ status'[e] > trigger'[c] => calls'[c] = 0
          /\ status'[e] = trigger'[c] => calls'[c] = 0
          /\ status'[e] < trigger'[c] => c \in returned' \/ Skipped(c)'
      BY <1>2, <3>3, <3>4, <3>5 DEF Skipped
    <3>7. \A h : IsKept(t, 1, h) => ~Walking(h, e)
      BY <1>15
    <3> QED BY <1>9, <2>1, <2>3, <3>1, <3>2, <3>6, <3>7, WalkStarts
  <2> QED BY <2>2, <2>3
<1> QED BY <1>11, <1>12, <1>13, <1>14, <1>16, <1>20, Assembled
-----------------------------------------------------------------------------
(* Every step *)

LEMMA InitIInv == Init => IInv
<1> SUFFICES ASSUME Init PROVE IInv
  OBVIOUS
<1>1. \A t \in Thread : stack[t] = <<>> /\ DOMAIN stack[t] = {} /\ Frames(t) = {}
  <2> SUFFICES ASSUME NEW t \in Thread PROVE stack[t] = <<>> /\ DOMAIN stack[t] = {} /\ Frames(t) = {}
    OBVIOUS
  <2>1. stack[t] = <<>>
    BY DEF Init
  <2>2. DOMAIN stack[t] = {}
    BY <2>1
  <2> QED BY <2>1, <2>2 DEF Frames
<1>2. \A e \in Event : list[e] = <<>> /\ DOMAIN list[e] = {}
  <2> SUFFICES ASSUME NEW e \in Event PROVE list[e] = <<>> /\ DOMAIN list[e] = {}
    OBVIOUS
  <2>1. list[e] = <<>>
    BY DEF Init
  <2> QED BY <2>1
<1>3. MaxEvents \in Nat /\ MaxCallbacks \in Nat /\ UNKNOWN \in COMPLETE..UNKNOWN
  BY Numbers, Statuses
<1>4. list \in [Event -> Seq(Callback)]
  BY DEF Init
<1>5. TypeOK
  <2>1. created \in 0..MaxEvents /\ registered \in 0..MaxCallbacks
    BY <1>3 DEF Init
  <2>2. /\ kind \in [Event -> {"user", "command"}] /\ status \in [Event -> COMPLETE..UNKNOWN]
        /\ waits \in [Event -> SUBSET Event] /\ notify \in [Event -> SUBSET Event]
        /\ held \in [Event -> Thread \cup {None}]
    BY <1>3 DEF Init
  <2>3. /\ work \subseteq Event /\ target \in [Callback -> Event \cup {0}]
        /\ trigger \in [Callback -> {SUBMITTED, RUNNING, COMPLETE}]
        /\ calls \in [Callback -> Nat] /\ returned \subseteq Callback
    BY DEF Init
  <2>4. (\A e \in Event : Waiting(e) => status[e] = QUEUED) /\ \A e \in work : status[e] = SUBMITTED
    BY DEF Init, Waiting
  <2> QED BY <1>1, <1>4, <2>1, <2>2, <2>3, <2>4 DEF TypeOK
<1>6. Stacked
  <2>1. stack = [t \in Thread |-> stack[t]]
    BY DEF Init
  <2>2. \A t \in Thread : stack[t] \in Seq(Frames(t))
    <3> SUFFICES ASSUME NEW t \in Thread PROVE stack[t] \in Seq(Frames(t))
      OBVIOUS
    <3>1. PICK S : S = Frames(t)
      OBVIOUS
    <3>2. <<>> \in Seq(S)
      OBVIOUS
    <3> QED BY <1>1, <3>1, <3>2
  <2> QED BY <2>1, <2>2 DEF Stacked
<1>7. FramesMeant /\ Shape /\ Owner /\ Unique
  BY <1>1 DEF FramesMeant, Shape, Owner, Unique
<1>8. Notifies
  BY DEF Init, Notifies
<1>9. Events
  BY <1>2, Statuses DEF Init, Events
<1>10. Lists
  BY <1>2 DEF Init, Lists
<1>11. Progress /\ CalledOnce
  BY <1>2 DEF Init, Progress, CalledOnce
<1> QED BY <1>5, <1>6, <1>7, <1>8, <1>9, <1>10, <1>11 DEF IInv

LEMMA StutterKeeps ==
  ASSUME IInv, UNCHANGED vars
  PROVE  IInv'
<1>1. /\ created' = created /\ kind' = kind /\ status' = status /\ waits' = waits /\ notify' = notify
      /\ held' = held /\ list' = list /\ work' = work /\ registered' = registered /\ target' = target
      /\ trigger' = trigger /\ calls' = calls /\ returned' = returned /\ stack' = stack
  BY DEF vars, eventVars, cbVars
<1>2. TypeOK' /\ Stacked' /\ Notifies' /\ Events' /\ Lists' /\ CalledOnce'
  <2>1. \A t \in Thread : Frames(t)' = Frames(t)
    BY <1>1 DEF Frames
  <2>2. TypeOK'
    BY <1>1, <2>1 DEF IInv, TypeOK, Waiting
  <2>3. Stacked'
    BY <1>1, <2>1 DEF IInv, Stacked
  <2>4. Notifies'
    BY <1>1 DEF IInv, Notifies, Dispatching
  <2>5. Events' /\ Lists' /\ CalledOnce'
    BY <1>1 DEF IInv, Events, Lists, CalledOnce
  <2> QED BY <2>2, <2>3, <2>4, <2>5
<1>3. FramesMeant'
  BY <1>1 DEF IInv, FramesMeant, Meant
<1>4. Shape'
  BY <1>1 DEF IInv, Shape, Lowest, Over
<1>5. Owner' /\ Unique'
  BY <1>1 DEF IInv, Owner, Unique
<1>6. Progress'
  BY <1>1 DEF IInv, Progress, InTurn, Reached, Walk, Skipped
<1> QED BY <1>2, <1>3, <1>4, <1>5, <1>6 DEF IInv

LEMMA StepIInv ==
  ASSUME IInv, [Next]_vars
  PROVE  IInv'
<1>1. ASSUME NEW t \in Thread, CallbackStep(t) PROVE IInv'
  BY <1>1, AppendCallbackKeeps, CallImmediatelyKeeps, CallNextKeeps, UpdatedKeeps, ReturnKeeps
  DEF CallbackStep
<1>2. ASSUME NEW t \in Thread, EventStep(t) PROVE IInv'
  <2>1. CASE \E x \in Event : NotifyWaiting(t, x) \/ NotifyReady(t, x)
    BY <2>1, NotifyWaitingKeeps, NotifyReadyKeeps
  <2>2. CASE Enqueue(t) \/ UserEventUpdated(t) \/ UnlockEvent(t) \/ Start(t)
    BY <2>2, EnqueueKeeps, UserEventUpdatedKeeps, UnlockEventKeeps, StartKeeps
  <2>3. CASE Finish(t) \/ PushCommand(t) \/ Notified(t) \/ BroadcastDone(t)
    BY <2>3, FinishKeeps, PushCommandKeeps, NotifiedKeeps, BroadcastDoneKeeps
  <2> QED BY <1>2, <2>1, <2>2, <2>3 DEF EventStep
<1>3. ASSUME NEW t \in Thread, ApiCall(t) PROVE IInv'
  BY <1>3, CreateUserEventKeeps, CallEnqueueKeeps, SetEventCallbackKeeps DEF ApiCall
<1>4. ASSUME SetSomeUserEvent PROVE IInv'
  BY <1>4, SetUserEventStatusKeeps DEF SetSomeUserEvent, Thread
<1> QED BY <1>1, <1>2, <1>3, <1>4, StutterKeeps DEF Next

-----------------------------------------------------------------------------
(* What the invariant implies *)

LEMMA LockedImplied ==
  ASSUME IInv PROVE UpdatedLocked
<1> SUFFICES ASSUME NEW t \in Thread, At(t, "update") \/ At(t, "push") \/ At(t, "unlock")
             PROVE  held[Doing(t).on] = t
  BY DEF UpdatedLocked
<1>1. Doing(t) = stack[t][1] /\ 1 \in DOMAIN stack[t] /\ Doing(t).op \in {"update", "push", "unlock"}
  BY TopFacts DEF At
<1> QED BY <1>1, Parts DEF Owner

LEMMA StatusImplied ==
  ASSUME IInv PROVE StatusHolds
<1> SUFFICES ASSUME NEW t \in Thread, NEW i \in 2..Len(stack[t]), stack[t][i].op = "update"
             PROVE  /\ status[stack[t][i].on] = stack[t][i].arg
                    /\ stack[t][i-1].op = "call" => trigger[stack[t][i-1].arg] = stack[t][i].arg
  BY DEF StatusHolds
<1>0. Stacked /\ FramesMeant /\ Shape
  BY Parts
<1>1. PICK n \in Nat : n = Len(stack[t]) /\ DOMAIN stack[t] = 1..n
  BY <1>0, SpotFacts
<1>2. i \in 1..n /\ i - 1 \in 1..n /\ i - 1 # n /\ (i - 1) + 1 = i
  BY <1>1
<1>3. Meant(stack[t][i])
  BY <1>0, <1>1, <1>2 DEF FramesMeant
<1>4. Over(stack[t][i - 1], stack[t][(i - 1) + 1])
  BY <1>0, <1>1, <1>2 DEF Shape
<1>5a. PICK f : f = stack[t][i - 1]
  OBVIOUS
<1>5b. PICK g : g = stack[t][i]
  OBVIOUS
<1>5. f = stack[t][i - 1] /\ g = stack[t][i] /\ Over(f, g) /\ Meant(g)
  BY <1>2, <1>3, <1>4, <1>5a, <1>5b
<1>6. g.op = "update" /\ status[g.on] = g.arg
  BY <1>5 DEF Meant
<1>7. f.op = "call" => trigger[f.arg] = g.arg
  BY <1>5, <1>6 DEF Over
<1> QED BY <1>5, <1>6, <1>7

LEMMA OrderImplied ==
  ASSUME IInv PROVE CallOrder
<1> SUFFICES ASSUME NEW e \in Event, NEW i \in DOMAIN list[e], NEW j \in DOMAIN list[e],
                    NEW a, NEW b, a = list[e][i], b = list[e][j], calls[b] > 0,
                    trigger[a] > trigger[b] \/ (trigger[a] = trigger[b] /\ i < j)
             PROVE  a \in returned \/ Skipped(a)
  BY DEF CallOrder
<1>0. Types /\ Progress /\ FramesMeant
  BY Parts
<1>1. i \in Nat /\ j \in Nat /\ a \in Callback /\ b \in Callback
  <2>1. list[e] \in Seq(Callback)
    BY <1>0 DEF Types
  <2> QED BY <2>1
<1>2. /\ status[e] \in Int /\ trigger[a] \in Int /\ trigger[b] \in Int /\ calls[b] # 0
  BY <1>0, <1>1, Statuses DEF Types
<1>3. InTurn(e, i) /\ InTurn(e, j)
  BY <1>0 DEF Progress
<1>4. CASE status[e] < trigger[a]
  BY <1>3, <1>4 DEF InTurn
<1>5. CASE ~(status[e] < trigger[a])
  <2>1. ~(status[e] > trigger[b])
    BY <1>2, <1>3 DEF InTurn
  <2>2. status[e] = trigger[a] /\ status[e] = trigger[b] /\ i < j
    BY <1>2, <1>5, <2>1
  <2>3. Reached(e, i) /\ Reached(e, j)
    BY <1>3, <2>2 DEF InTurn
  <2>4. CASE ~Walk(e)
    BY <2>3, <2>4 DEF Reached
  <2>5. CASE Walk(e)
    <3>0. PICK t \in Thread : \E k \in DOMAIN stack[t] : Walking(stack[t][k], e)
      BY <2>5 DEF Walk
    <3>1. PICK k \in DOMAIN stack[t] : Walking(stack[t][k], e)
      BY <3>0
    <3>2. PICK f : f = stack[t][k] /\ Walking(f, e) /\ Meant(f)
      BY <1>0, <3>1 DEF FramesMeant
    <3>3. f.op = "userUpdate" => calls[b] = 0
      BY <2>3, <3>2 DEF Reached
    <3>4. f.op = "update" /\ f.next \in Nat
      BY <1>2, <3>2, <3>3 DEF Walking, Meant
    <3>5. /\ j >= f.next => calls[b] = 0
          /\ i < f.next => a \in returned \/ i = f.next - 1
      BY <2>3, <3>2, <3>4 DEF Reached
    <3>6. j < f.next /\ i < f.next /\ i # f.next - 1
      BY <1>1, <1>2, <2>2, <3>4, <3>5
    <3> QED BY <3>5, <3>6
  <2> QED BY <2>4, <2>5
<1> QED BY <1>4, <1>5

-----------------------------------------------------------------------------
\* Whatever the threads and the callbacks do: each walk of a callback list, and
\* each change of the status of an event, is in the hands of one call, which
\* holds the locks it has to; the callbacks before the position of the walk
\* have returned and those behind it have not been called (clSetEventCallback,
\* pocl_event_updated).
THEOREM Invariance == Spec => []IInv
<1>1. Init => IInv
  BY InitIInv
<1>2. IInv /\ [Next]_vars => IInv'
  BY StepIInv
<1> QED BY <1>1, <1>2, PTL DEF Spec

\* The variables have their types, a command that waits is queued, and one in
\* the work queue is submitted (pocl_create_event_sync, pocl_broadcast).
THEOREM TypeCorrect == Spec => []TypeOK
<1>1. IInv => TypeOK
  BY DEF IInv
<1> QED BY <1>1, Invariance, PTL

\* No callback is called twice, whether clSetEventCallback calls it itself or
\* leaves it to pocl_event_updated.
THEOREM CallbacksCalledOnce == Spec => []CalledOnce
<1>1. IInv => CalledOnce
  BY DEF IInv
<1> QED BY <1>1, Invariance, PTL

\* pocl_event_updated returns with the event locked, as its callers rely on,
\* however many calls of the runtime the callbacks made meanwhile.
THEOREM LocksKept == Spec => []UpdatedLocked
<1>1. IInv => UpdatedLocked
  BY LockedImplied
<1> QED BY <1>1, Invariance, PTL

\* No event leaves the status a callback waits for while pocl_event_updated
\* calls it with the event unlocked.
THEOREM StatusKept == Spec => []StatusHolds
<1>1. IInv => StatusHolds
  BY StatusImplied
<1> QED BY <1>1, Invariance, PTL

\* pocl_event_updated calls the callbacks of an event in the order of their
\* statuses and, among equals, of their registration, one after the other.
THEOREM CallsInOrder == Spec => []CallOrder
<1>1. IInv => CallOrder
  BY OrderImplied
<1> QED BY <1>1, Invariance, PTL

-----------------------------------------------------------------------------
(* No thread keeps a lock while it waits for another *)

\* The events whose locks a thread is about to take.
Wants(t) == {n \in Event :
  \/ (At(t, "register") \/ At(t, "userUpdate") \/ At(t, "finish")) /\ n = Doing(t).on
  \/ At(t, "call") /\ Len(stack[t]) > 1 /\ stack[t][2].op = "update" /\ n = Doing(t).on
  \/ At(t, "enqueue") /\ n \in Doing(t).arg
  \/ At(t, "broadcast") /\ n \in {Doing(t).on} \cup notify[Doing(t).on]}

\* A thread that keeps an event locked while it calls back never waits for an event
\* that is locked: the callbacks find the event they are called for unlocked.
NoHoldAndWait ==
  \A t \in Thread : (\E e \in Event : held[e] = t) => \A n \in Wants(t) : held[n] = None

\* A thread that no lock stops, and the thread that has the lock another waits for.
CanGo(t) == ~Idle(t) /\ \A n \in Wants(t) : held[n] = None
HoldersCanGo ==
  \A t \in Thread : \A n \in Wants(t) : held[n] # None => CanGo(held[n])

\* Frame f at position i of a stack is what event e is locked for.
HeldFor(f, i, e) ==
  \/ f.op = "notified" /\ f.on = e
  \/ i = 1 /\ f.op \in {"update", "push", "unlock"} /\ f.on = e
  \/ i = 1 /\ f.op = "notified" /\ f.arg = e

\* A lock that is kept is kept for a call.
Holders ==
  \A t \in Thread, e \in Event : held[e] = t =>
    \E i \in DOMAIN stack[t] : HeldFor(stack[t][i], i, e)

\* A command that has been notified is in the work queue when it is unlocked.
PushedFirst ==
  \A t \in Thread : 1 \in DOMAIN stack[t] /\ stack[t][1].op = "notified" => stack[t][1].arg \in work

\* What a callback called for e has called is about e.
Own(f, e) ==
  \/ f.op \in {"register", "call"} /\ f.on = e
  \/ f.op = "enqueue" /\ f.arg \subseteq {e}
OwnStack ==
  \A t \in Thread : \A i, j \in DOMAIN stack[t] :
    i < j /\ stack[t][j].op = "call" => Own(stack[t][i], stack[t][j].on)

Books == Holders /\ PushedFirst /\ OwnStack

\* The frame that is on top after a step.
LEMMA NewTop ==
  ASSUME NEW t \in Thread, NEW fs, NEW d, Step(t, fs, d)
  PROVE  /\ Len(fs) \in Nat /\ Len(stack[t]) \in Nat
         /\ DOMAIN stack[t] = 1..Len(stack[t]) /\ DOMAIN stack'[t] = 1..Len(stack'[t])
         /\ Len(fs) >= 1 => 1 \in DOMAIN stack'[t] /\ stack'[t][1] = fs[1]
         /\ Len(fs) = 0 => Len(stack'[t]) = Len(stack[t]) - d
         /\ Len(fs) = 0 /\ Len(stack[t]) > d => 1 \in DOMAIN stack'[t] /\ stack'[t][1] = stack[t][d + 1]
<1>1. PICK m \in Nat, n \in Nat, k \in Nat :
        /\ m = Len(fs) /\ n = Len(stack[t]) /\ DOMAIN stack[t] = 1..n
        /\ k = Len(stack'[t]) /\ DOMAIN stack'[t] = 1..k
  <2>1. Stacked /\ Stacked' /\ Len(fs) \in Nat
    BY DEF Step, Changed
  <2> QED BY <2>1, SpotFacts, SpotFactsNext
<1>2. k = m + n - d /\ d \in {0, 1} /\ d <= n
  BY <1>1 DEF Step, Changed
<1>3. m >= 1 => 1 \in 1..k /\ 1 \in 1..m
  BY <1>1, <1>2
<1>4. m >= 1 => stack'[t][1] = fs[1]
  BY <1>1, <1>3 DEF Step, Changed
<1>5. m = 0 /\ n > d => 1 \in 1..k /\ d + 1 \in 1..n /\ d + 1 > d /\ (d + 1) - d + m = 1
  BY <1>1, <1>2
<1>6. m = 0 /\ n > d => stack'[t][(d + 1) - d + m] = stack[t][d + 1]
  BY <1>1, <1>5 DEF Step, Changed
<1>7. m = 0 => k = n - d
  BY <1>1, <1>2
<1> QED BY <1>1, <1>3, <1>4, <1>5, <1>6, <1>7

\* A call that is no API call of a callback has no callback below it.
LEMMA NoCallBelow ==
  ASSUME IInv, Books, NEW t \in Thread, 1 \in DOMAIN stack[t],
         stack[t][1].op \notin {"register", "call", "enqueue"}, NEW j \in DOMAIN stack[t]
  PROVE  stack[t][j].op # "call"
<1>1. CASE j = 1
  BY <1>1
<1>2. CASE j # 1
  <2>1. 1 < j
    BY <1>2, Under
  <2>2. stack[t][j].op = "call" => Own(stack[t][1], stack[t][j].on)
    BY <2>1 DEF Books, OwnStack
  <2> QED BY <2>2 DEF Own
<1> QED BY <1>1, <1>2

LEMMA BooksKeep ==
  ASSUME IInv, Books, NEW t \in Thread, NEW fs, NEW d, Step(t, fs, d),
         \A u \in Thread \ {t} : \A e \in Event : held'[e] = u => held[e] = u,
         \A e \in Event : held'[e] = t =>
           \/ held[e] = t /\ (1 \in DOMAIN stack[t] => ~HeldFor(stack[t][1], 1, e))
           \/ \E p \in DOMAIN stack'[t] : HeldFor(stack'[t][p], p, e),
         \A x \in work : held[x] # None => x \in work',
         Len(fs) >= 1 => fs[1].op # "notified",
         Len(fs) = 0 /\ 1 \in DOMAIN stack[t] =>
           IF d = 0 THEN stack[t][1].op # "notified"
                    ELSE stack[t][1].op = "push" => stack[t][1].on \in work',
         \A i \in 1..Len(fs) : \A j \in DOMAIN stack[t] :
           j > d /\ stack[t][j].op = "call" => Own(fs[i], stack[t][j].on),
         \A i \in 1..Len(fs) : i > 1 => fs[i].op # "call"
  PROVE  Books'
<1>0. Holders /\ PushedFirst /\ OwnStack /\ Owner
  BY Parts DEF Books
<1>t. \A u \in Thread : u # t => stack'[u] = stack[u]
  BY DEF Step, Changed
<1>1. Holders'
  <2> SUFFICES ASSUME NEW u \in Thread, NEW e \in Event, held'[e] = u
               PROVE  \E p \in DOMAIN stack'[u] : HeldFor(stack'[u][p], p, e)
    BY DEF Holders, HeldFor
  <2>1. CASE u # t
    <3>1. held[e] = u /\ stack'[u] = stack[u]
      BY <1>t, <2>1
    <3> QED BY <1>0, <3>1 DEF Holders
  <2>2. CASE u = t /\ held[e] = t /\ (1 \in DOMAIN stack[t] => ~HeldFor(stack[t][1], 1, e))
    <3>1. PICK i \in DOMAIN stack[t] : HeldFor(stack[t][i], i, e)
      BY <1>0, <2>2 DEF Holders
    <3>2. i # 1 /\ stack[t][i].op = "notified" /\ stack[t][i].on = e
      BY <2>2, <3>1 DEF HeldFor
    <3>3. i > d
      BY <3>2, Under DEF Step
    <3>4. Kept(t, d, t, i)
      BY <3>3 DEF Kept
    <3>5. /\ Place(t, fs, d, t, i) \in DOMAIN stack'[t]
          /\ stack'[t][Place(t, fs, d, t, i)] = stack[t][i]
      BY <3>4, StepKept
    <3> QED BY <2>2, <3>2, <3>5 DEF HeldFor
  <2>3. CASE u = t /\ \E p \in DOMAIN stack'[t] : HeldFor(stack'[t][p], p, e)
    BY <2>3
  <2> QED BY <2>1, <2>2, <2>3
<1>2. PushedFirst'
  <2> SUFFICES ASSUME NEW u \in Thread, 1 \in DOMAIN stack'[u], stack'[u][1].op = "notified"
               PROVE  stack'[u][1].arg \in work'
    BY DEF PushedFirst
  <2>1. CASE u # t
    <3>1. stack'[u] = stack[u] /\ stack[u][1].arg \in work /\ held[stack[u][1].arg] = u
      BY <1>0, <1>t, <2>1 DEF PushedFirst, Owner
    <3>2. u # None
      BY CallbackAssumption DEF Thread
    <3> QED BY <3>1, <3>2
  <2>2. CASE u = t
    <3>1. Len(fs) = 0 /\ Len(stack[t]) > d
      <4>1. Len(fs) \in Nat /\ ~(Len(fs) >= 1)
        BY <2>2, NewTop
      <4>2. Len(fs) = 0
        BY <4>1
      <4>3. Len(stack'[t]) = Len(stack[t]) - d /\ Len(stack[t]) \in Nat /\ 1 \in 1..Len(stack'[t])
        BY <2>2, <4>2, NewTop
      <4>4. d \in {0, 1}
        BY DEF Step
      <4> QED BY <4>2, <4>3, <4>4
    <3>2. stack'[t][1] = stack[t][d + 1] /\ 1 \in DOMAIN stack[t]
      <4>1. 1 \in 1..Len(stack[t])
        BY <3>1, NewTop DEF Step
      <4> QED BY <3>1, <4>1, NewTop
    <3>3. CASE d = 0
      BY <2>2, <3>1, <3>2, <3>3
    <3>4. CASE d = 1
      <4>1. Len(stack[t]) # 1
        BY <3>1, <3>4, NewTop
      <4>2. Over(stack[t][1], stack[t][1 + 1])
        BY <3>2, <4>1, Under
      <4>3. stack'[t][1] = stack[t][1 + 1]
        BY <3>2, <3>4
      <4>4. stack[t][1].op = "push" /\ stack[t][1].on = stack'[t][1].arg
        BY <2>2, <4>2, <4>3 DEF Over
      <4> QED BY <2>2, <3>1, <3>2, <3>4, <4>4
    <3> QED BY <3>3, <3>4 DEF Step
  <2> QED BY <2>1, <2>2
<1>3. OwnStack'
  <2> SUFFICES ASSUME NEW u \in Thread, NEW p \in DOMAIN stack'[u], NEW q \in DOMAIN stack'[u], p < q,
                      stack'[u][q].op = "call"
               PROVE  Own(stack'[u][p], stack'[u][q].on)
    BY DEF OwnStack, Own
  <2>1. CASE u # t
    <3>1. stack'[u] = stack[u]
      BY <1>t, <2>1
    <3> QED BY <1>0, <3>1 DEF OwnStack
  <2>2. CASE u = t
    <3>a. PICK m \in Nat : m = Len(fs) /\ DOMAIN stack'[t] = 1..Len(stack'[t]) /\ d \in {0, 1}
      BY NewTop DEF Step
    <3>1. PICK j \in DOMAIN stack[t] : Kept(t, d, t, j) /\ q = Place(t, fs, d, t, j) /\ stack'[t][q] = stack[t][j]
      <4>1. ~(q \in 1..Len(fs) /\ stack'[t][q] = fs[q])
        <5>1. q > 1
          <6>1. p \in Nat /\ q \in Nat /\ p >= 1
            <7>1. Len(stack'[t]) \in Nat
              BY SpotFactsNext DEF Step, Changed
            <7> QED BY <2>2, <3>a, <7>1
          <6> QED BY <6>1
        <5> QED BY <2>2, <5>1
      <4> QED BY <2>2, <4>1, StepFacts
    <3>2. j > d /\ stack[t][j].op = "call" /\ j \in Nat /\ q = j - d + m
      <4>1. j \in Nat
        BY <3>1, StepKept
      <4> QED BY <2>2, <3>1, <3>a, <4>1 DEF Kept, Place
    <3>3. CASE p \in 1..Len(fs) /\ stack'[t][p] = fs[p]
      BY <2>2, <3>1, <3>2, <3>3
    <3>4. CASE \E i \in DOMAIN stack[t] : Kept(t, d, t, i) /\ p = Place(t, fs, d, t, i) /\ stack'[t][p] = stack[t][i]
      <4>1. PICK i \in DOMAIN stack[t] : Kept(t, d, t, i) /\ p = Place(t, fs, d, t, i) /\ stack'[t][p] = stack[t][i]
        BY <3>4
      <4>2. i \in Nat /\ p = i - d + m
        <5>1. i \in Nat
          BY <4>1, StepKept
        <5> QED BY <3>a, <4>1, <5>1 DEF Place
      <4>3. i < j
        BY <3>2, <3>a, <4>2
      <4>4. Own(stack[t][i], stack[t][j].on)
        BY <1>0, <3>2, <4>3 DEF OwnStack
      <4> QED BY <2>2, <3>1, <4>1, <4>4
    <3> QED BY <2>2, <3>3, <3>4, StepFacts
  <2> QED BY <2>1, <2>2
<1> QED BY <1>1, <1>2, <1>3 DEF Books

\* Steps that take and give back no lock.
LEMMA ApiBooks ==
  ASSUME IInv, Books, NEW t \in Thread, NEW f, NEW fs, fs = <<f>>, Step(t, fs, 0),
         UNCHANGED <<held, work>>, MayCall(t), f.op \in {"register", "enqueue"},
         At(t, "call") => Own(f, Doing(t).on)
  PROVE  Books'
<1>0. OwnStack
  BY DEF Books
<1>1. fs \in Seq({f}) /\ Len(fs) = 1 /\ fs[1] = f /\ \A i \in 1..Len(fs) : i = 1 /\ fs[i] = f
  BY OneFrame
<1>2. 1 \in DOMAIN stack[t] => At(t, "call") /\ stack[t][1].op = "call" /\ stack[t][1] = Doing(t)
  <2> SUFFICES ASSUME 1 \in DOMAIN stack[t] PROVE At(t, "call") /\ stack[t][1].op = "call" /\ stack[t][1] = Doing(t)
    OBVIOUS
  <2>1. ~Idle(t)
    BY DEF Idle
  <2>2. At(t, "call")
    BY <2>1 DEF MayCall
  <2> QED BY <2>1, <2>2, TopFacts, CallFacts
<1>3. \A e \in Event : held'[e] = t => held[e] = t /\ (1 \in DOMAIN stack[t] => ~HeldFor(stack[t][1], 1, e))
  BY <1>2 DEF HeldFor
<1>4. ASSUME NEW j \in DOMAIN stack[t], stack[t][j].op = "call" PROVE Own(f, stack[t][j].on)
  <2>1. 1 \in DOMAIN stack[t] /\ j \in Nat /\ j >= 1
    <3>1. DOMAIN stack[t] = 1..Len(stack[t]) /\ Len(stack[t]) \in Nat
      BY NewTop
    <3> QED BY <3>1
  <2>2. stack[t][1].op = "call" /\ Own(f, stack[t][1].on)
    BY <1>2, <2>1
  <2>3. CASE j = 1
    BY <2>2, <2>3
  <2>4. CASE j # 1
    <3>1. 1 < j
      BY <2>1, <2>4
    <3>2. Own(stack[t][1], stack[t][j].on)
      BY <1>0, <1>4, <2>1, <3>1 DEF OwnStack
    <3>3. stack[t][1].on = stack[t][j].on
      BY <2>2, <3>2 DEF Own
    <3> QED BY <2>2, <3>3
  <2> QED BY <2>3, <2>4
<1>5. /\ \A u \in Thread \ {t} : \A e \in Event : held'[e] = u => held[e] = u
      /\ \A x \in work : held[x] # None => x \in work'
  OBVIOUS
<1>6. (Len(fs) >= 1 => fs[1].op # "notified") /\ Len(fs) # 0
  BY <1>1
<1>7. \A i \in 1..Len(fs) : \A j \in DOMAIN stack[t] : j > 0 /\ stack[t][j].op = "call" => Own(fs[i], stack[t][j].on)
  BY <1>1, <1>4
<1>8. \A i \in 1..Len(fs) : i > 1 => fs[i].op # "call"
  BY <1>1
<1> QED BY <1>3, <1>5, <1>6, <1>7, <1>8, BooksKeep

LEMMA ContinueBooks ==
  ASSUME IInv, Books, NEW t \in Thread, ~Idle(t), NEW fs, Step(t, fs, 1), held' = held, work \subseteq work',
         Doing(t).op \in {"register", "call", "enqueue", "broadcast"},
         Len(fs) = 0 \/ (Len(fs) = 1 /\ Doing(t).op = "register" /\ fs[1].op = "call" /\ fs[1].on = Doing(t).on)
  PROVE  Books'
<1>0. OwnStack
  BY DEF Books
<1>1. 1 \in DOMAIN stack[t] /\ stack[t][1] = Doing(t)
  BY TopFacts
<1>2. \A e \in Event : held'[e] = t => held[e] = t /\ (1 \in DOMAIN stack[t] => ~HeldFor(stack[t][1], 1, e))
  BY <1>1 DEF HeldFor
<1>3. ASSUME NEW i \in 1..Len(fs), NEW j \in DOMAIN stack[t], j > 1, stack[t][j].op = "call"
      PROVE  Own(fs[i], stack[t][j].on)
  <2>0. Len(fs) # 0
    <3>1. Len(fs) = 0 => 1..Len(fs) = {}
      OBVIOUS
    <3> QED BY <1>3, <3>1
  <2>a. Len(fs) = 1 /\ Doing(t).op = "register" /\ fs[1].op = "call" /\ fs[1].on = Doing(t).on
    BY <2>0
  <2>b. i = 1
    <3>1. Len(fs) = 1 => 1..Len(fs) = {1}
      OBVIOUS
    <3> QED BY <1>3, <2>a, <3>1
  <2>1. i = 1 /\ stack[t][1].op = "register" /\ fs[1].op = "call" /\ fs[1].on = stack[t][1].on
    BY <1>1, <2>a, <2>b
  <2>2. 1 < j
    BY <1>3, Under
  <2>3. Own(stack[t][1], stack[t][j].on)
    BY <1>0, <1>1, <1>3, <2>2 DEF OwnStack
  <2> QED BY <2>1, <2>3 DEF Own
<1>4. /\ \A u \in Thread \ {t} : \A e \in Event : held'[e] = u => held[e] = u
      /\ \A x \in work : held[x] # None => x \in work'
  OBVIOUS
<1>5. Len(fs) >= 1 => fs[1].op # "notified"
  <2>1. Len(fs) = 0 => ~(Len(fs) >= 1)
    OBVIOUS
  <2> QED BY <2>1
<1>6. stack[t][1].op # "push"
  BY <1>1
<1>7. \A i \in 1..Len(fs) : i > 1 => fs[i].op # "call"
  OBVIOUS
<1> QED BY <1>2, <1>3, <1>4, <1>5, <1>6, <1>7, BooksKeep

LEMMA SetEventCallbackBooks ==
  ASSUME IInv, Books, OwnEventOnly, NEW t \in Thread, NEW e \in Event, NEW s, SetEventCallback(t, e, s)
  PROVE  Books'
<1>1. PICK f : f = Frame("register", e, registered + 1, 0)
  OBVIOUS
<1>2. PICK fs : fs = <<f>>
  OBVIOUS
<1>3. Stacked
  BY Parts
<1>4. stack' = [stack EXCEPT ![t] = fs \o stack[t]] /\ UNCHANGED <<held, work>> /\ MayCall(t) /\ e \in Reach(t)
  BY <1>1, <1>2, <1>3 DEF SetEventCallback, Enter, Stacked, eventVars
<1>5. fs \in Seq({f})
  BY <1>2
<1>6. Step(t, fs, 0)
  BY <1>3, <1>4, <1>5, StepEntered
<1>7. f.op = "register" /\ f.on = e
  BY <1>1 DEF Frame
<1>8. At(t, "call") => Own(f, Doing(t).on)
  BY <1>4, <1>7 DEF Reach, Own
<1> QED BY <1>2, <1>4, <1>6, <1>7, <1>8, ApiBooks

LEMMA CallEnqueueBooks ==
  ASSUME IInv, Books, OwnEventOnly, NEW t \in Thread, NEW W \in SUBSET Event, CallEnqueue(t, W)
  PROVE  Books'
<1>1. PICK f : f = Frame("enqueue", created + 1, W, 0)
  OBVIOUS
<1>2. PICK fs : fs = <<f>>
  OBVIOUS
<1>3. Stacked
  BY Parts
<1>4. stack' = [stack EXCEPT ![t] = fs \o stack[t]] /\ UNCHANGED <<held, work>> /\ MayCall(t) /\ W \subseteq Reach(t)
  BY <1>1, <1>2, <1>3 DEF CallEnqueue, Enter, Stacked, eventVars
<1>5. fs \in Seq({f})
  BY <1>2
<1>6. Step(t, fs, 0)
  BY <1>3, <1>4, <1>5, StepEntered
<1>7. f.op = "enqueue" /\ f.arg = W
  BY <1>1 DEF Frame
<1>8. At(t, "call") => Own(f, Doing(t).on)
  BY <1>4, <1>7 DEF Reach, Own
<1> QED BY <1>2, <1>4, <1>6, <1>7, <1>8, ApiBooks

\* Nothing is kept that was not, and no call begins or ends.
LEMMA SameBooks ==
  ASSUME IInv, Books, UNCHANGED <<held, work, stack>>
  PROVE  Books'
BY DEF Books, Holders, PushedFirst, OwnStack

LEMMA AppendCallbackBooks ==
  ASSUME IInv, Books, NEW t \in Thread, AppendCallback(t)
  PROVE  Books'
<1>1. PICK fs : fs = <<>>
  OBVIOUS
<1>2. At(t, "register") /\ Continue(t, fs) /\ held' = held /\ work' = work
  BY <1>1 DEF AppendCallback
<1>3. ~Idle(t) /\ Doing(t).op = "register"
  BY <1>2, CallFacts
<1>4. fs \in Seq({}) /\ Len(fs) = 0
  BY <1>1, EmptyFrames
<1>5. Step(t, fs, 1)
  BY <1>2, <1>3, <1>4, Continued
<1> QED BY <1>2, <1>3, <1>4, <1>5, ContinueBooks

LEMMA CallImmediatelyBooks ==
  ASSUME IInv, Books, NEW t \in Thread, CallImmediately(t)
  PROVE  Books'
<1>0. PICK f : f = Frame("call", Doing(t).on, Doing(t).arg, 0)
  OBVIOUS
<1>1. PICK fs : fs = <<f>>
  OBVIOUS
<1>2. At(t, "register") /\ Continue(t, fs) /\ held' = held /\ work' = work
  BY <1>0, <1>1 DEF CallImmediately, eventVars
<1>3. ~Idle(t) /\ Doing(t).op = "register"
  BY <1>2, CallFacts
<1>4. fs \in Seq({f}) /\ Len(fs) = 1 /\ fs[1] = f
  BY <1>1, OneFrame
<1>5. f.op = "call" /\ f.on = Doing(t).on
  BY <1>0 DEF Frame
<1>6. Step(t, fs, 1)
  BY <1>2, <1>3, <1>4, Continued
<1> QED BY <1>2, <1>3, <1>4, <1>5, <1>6, ContinueBooks

LEMMA EnqueueBooks ==
  ASSUME IInv, Books, NEW t \in Thread, Enqueue(t)
  PROVE  Books'
<1>1. PICK fs : fs = <<>>
  OBVIOUS
<1>2. At(t, "enqueue") /\ Continue(t, fs) /\ held' = held /\ work \subseteq work'
  BY <1>1 DEF Enqueue
<1>3. ~Idle(t) /\ Doing(t).op = "enqueue"
  BY <1>2, CallFacts
<1>4. fs \in Seq({}) /\ Len(fs) = 0
  BY <1>1, EmptyFrames
<1>5. Step(t, fs, 1)
  BY <1>2, <1>3, <1>4, Continued
<1> QED BY <1>2, <1>3, <1>4, <1>5, ContinueBooks

LEMMA BroadcastDoneBooks ==
  ASSUME IInv, Books, NEW t \in Thread, BroadcastDone(t)
  PROVE  Books'
<1>1. PICK fs : fs = <<>>
  OBVIOUS
<1>2. At(t, "broadcast") /\ Continue(t, fs) /\ held' = held /\ work' = work
  BY <1>1 DEF BroadcastDone, eventVars
<1>3. ~Idle(t) /\ Doing(t).op = "broadcast"
  BY <1>2, CallFacts
<1>4. fs \in Seq({}) /\ Len(fs) = 0
  BY <1>1, EmptyFrames
<1>5. Step(t, fs, 1)
  BY <1>2, <1>3, <1>4, Continued
<1> QED BY <1>2, <1>3, <1>4, <1>5, ContinueBooks

LEMMA NewHolder ==
  ASSUME NEW t \in Thread, NEW fs, NEW d, Step(t, fs, d), NEW e, NEW i \in 1..Len(fs), HeldFor(fs[i], i, e)
  PROVE  \E p \in DOMAIN stack'[t] : HeldFor(stack'[t][p], p, e)
<1>1. PICK m \in Nat, n \in Nat, k \in Nat :
        /\ m = Len(fs) /\ n = Len(stack[t]) /\ k = Len(stack'[t]) /\ DOMAIN stack'[t] = 1..k
  <2>1. Stacked /\ Stacked' /\ Len(fs) \in Nat
    BY DEF Step, Changed
  <2> QED BY <2>1, SpotFacts, SpotFactsNext
<1>2. k = m + n - d /\ d \in {0, 1} /\ d <= n
  BY <1>1 DEF Step, Changed
<1>3. i \in 1..k
  BY <1>1, <1>2
<1>4. stack'[t][i] = fs[i]
  BY DEF Step, Changed
<1> QED BY <1>1, <1>3, <1>4

\* Steps that call from a frame that is no API call of a callback.
LEMMA PushesBooks ==
  ASSUME IInv, Books, NEW t \in Thread, NEW fs, NEW d, Step(t, fs, d), Len(fs) >= 1, fs[1].op # "notified",
         1 \in DOMAIN stack[t] => stack[t][1].op \notin {"register", "call", "enqueue"},
         \A u \in Thread \ {t} : \A e \in Event : held'[e] = u => held[e] = u,
         \A e \in Event : held'[e] = t =>
           \/ held[e] = t /\ (1 \in DOMAIN stack[t] => ~HeldFor(stack[t][1], 1, e))
           \/ \E p \in DOMAIN stack'[t] : HeldFor(stack'[t][p], p, e),
         \A x \in work : held[x] # None => x \in work',
         \A i \in 1..Len(fs) : i > 1 => fs[i].op # "call"
  PROVE  Books'
<1>1. ASSUME NEW j \in DOMAIN stack[t] PROVE stack[t][j].op # "call"
  <2>1. 1 \in DOMAIN stack[t]
    <3>1. DOMAIN stack[t] = 1..Len(stack[t]) /\ Len(stack[t]) \in Nat
      BY NewTop
    <3> QED BY <3>1
  <2> QED BY <2>1, NoCallBelow
<1>2. Len(fs) # 0
  <2>1. Len(fs) \in Nat
    BY NewTop
  <2> QED BY <2>1
<1>3. \A i \in 1..Len(fs) : \A j \in DOMAIN stack[t] :
        j > d /\ stack[t][j].op = "call" => Own(fs[i], stack[t][j].on)
  BY <1>1
<1>4. Len(fs) = 0 /\ 1 \in DOMAIN stack[t] =>
        IF d = 0 THEN stack[t][1].op # "notified" ELSE stack[t][1].op = "push" => stack[t][1].on \in work'
  BY <1>2
<1> QED BY <1>3, <1>4, BooksKeep

\* Steps that return from a call.
LEMMA PopBooks ==
  ASSUME IInv, Books, NEW t \in Thread, ~Idle(t), NEW fs, fs = <<>>, Step(t, fs, 1), work \subseteq work',
         Doing(t).op = "push" => Doing(t).on \in work',
         \A u \in Thread \ {t} : \A e \in Event : held'[e] = u => held[e] = u,
         \A e \in Event : held'[e] = t =>
           \/ held[e] = t /\ ~HeldFor(Doing(t), 1, e)
           \/ Len(stack[t]) > 1 /\ HeldFor(stack[t][2], 1, e)
  PROVE  Books'
<1>1. Len(fs) = 0 /\ ~(Len(fs) >= 1) /\ 1..Len(fs) = {}
  BY EmptyFrames
<1>2. 1 \in DOMAIN stack[t] /\ stack[t][1] = Doing(t)
  BY TopFacts
<1>3. Len(stack[t]) > 1 => 1 \in DOMAIN stack'[t] /\ stack'[t][1] = stack[t][2]
  <2>1. Len(stack[t]) > 1 => 1 \in DOMAIN stack'[t] /\ stack'[t][1] = stack[t][1 + 1]
    BY <1>1, NewTop
  <2> QED BY <2>1
<1>4. \A e \in Event : held'[e] = t =>
        \/ held[e] = t /\ (1 \in DOMAIN stack[t] => ~HeldFor(stack[t][1], 1, e))
        \/ \E p \in DOMAIN stack'[t] : HeldFor(stack'[t][p], p, e)
  <2> SUFFICES ASSUME NEW e \in Event, held'[e] = t, Len(stack[t]) > 1, HeldFor(stack[t][2], 1, e)
               PROVE  \E p \in DOMAIN stack'[t] : HeldFor(stack'[t][p], p, e)
    BY <1>2
  <2>1. 1 \in DOMAIN stack'[t] /\ HeldFor(stack'[t][1], 1, e)
    BY <1>3
  <2> QED BY <2>1
<1>5. /\ \A x \in work : held[x] # None => x \in work'
      /\ IF 1 = 0 THEN stack[t][1].op # "notified" ELSE stack[t][1].op = "push" => stack[t][1].on \in work'
  BY <1>2
<1>6. \A i \in 1..Len(fs) : \A j \in DOMAIN stack[t] :
        j > 1 /\ stack[t][j].op = "call" => Own(fs[i], stack[t][j].on)
  BY <1>1
<1>7. \A i \in 1..Len(fs) : i > 1 => fs[i].op # "call"
  BY <1>1
<1> QED BY <1>1, <1>4, <1>5, <1>6, <1>7, BooksKeep

LEMMA CallNextBooks ==
  ASSUME IInv, Books, NEW t \in Thread, CallNext(t)
  PROVE  Books'
<1>1a. PICK f : f = Doing(t)
  OBVIOUS
<1>1b. PICK e : e = f.on
  OBVIOUS
<1>1. f = Doing(t) /\ e = f.on
  BY <1>1a, <1>1b
<1>2. PICK m : m = (CHOOSE j \in Matches(e, f.arg, f.next) : \A k \in Matches(e, f.arg, f.next) : j <= k)
  OBVIOUS
<1>3. PICK g : g = Frame("call", e, list[e][m], 0)
  OBVIOUS
<1>4. PICK h : h = [f EXCEPT !.next = m + 1]
  OBVIOUS
<1>5. PICK fs : fs = <<g, h>>
  OBVIOUS
<1>6. At(t, "update") /\ Continue(t, fs) /\ Lock(None, {e}) /\ work' = work
  BY <1>1, <1>2, <1>3, <1>4, <1>5 DEF CallNext, OwnerDuringCall, Rest
<1>7. ~Idle(t) /\ f.op = "update" /\ e \in Event
  BY <1>1, <1>6, CallFacts
<1>8. f = stack[t][1] /\ 1 \in DOMAIN stack[t] /\ Meant(f)
  BY <1>1, <1>7, TopFacts
<1>9. g.op = "call" /\ h.op = "update"
  <2>1. f = Frame(f.op, f.on, f.arg, f.next)
    BY <1>8 DEF Meant
  <2>2. h = [Frame(f.op, f.on, f.arg, f.next) EXCEPT !.next = m + 1]
    BY <1>4, <2>1
  <2> QED BY <1>3, <1>7, <2>2 DEF Frame
<1>10. fs \in Seq({g, h}) /\ Len(fs) = 2 /\ fs[1] = g /\ fs[2] = h /\ 1..Len(fs) = {1, 2}
  BY <1>5, TwoFrames
<1>11. Step(t, fs, 1)
  BY <1>6, <1>7, <1>10, Continued
<1>12. None \notin Thread /\ \A k \in Event : held'[k] = IF k \in {e} THEN None ELSE held[k]
  BY <1>6, LockFacts, CallbackAssumption DEF Thread
<1>13. \A u \in Thread \ {t} : \A k \in Event : held'[k] = u => held[k] = u
  BY <1>12
<1>14. \A k \in Event : held'[k] = t => held[k] = t /\ ~HeldFor(stack[t][1], 1, k)
  BY <1>1, <1>7, <1>8, <1>12 DEF HeldFor
<1>15. \A i \in 1..Len(fs) : i > 1 => fs[i].op # "call"
  BY <1>9, <1>10
<1>16. Len(fs) >= 1 /\ fs[1].op # "notified" /\ stack[t][1].op \notin {"register", "call", "enqueue"}
  BY <1>7, <1>8, <1>9, <1>10
<1>17. \A x \in work : held[x] # None => x \in work'
  BY <1>6
<1> QED BY <1>11, <1>13, <1>14, <1>15, <1>16, <1>17, PushesBooks

LEMMA UpdatedBooks ==
  ASSUME IInv, Books, NEW t \in Thread, Updated(t)
  PROVE  Books'
<1>1. PICK fs : fs = <<>>
  OBVIOUS
<1>2. At(t, "update") /\ Continue(t, fs) /\ held' = held /\ work' = work
  BY <1>1 DEF Updated, eventVars
<1>3. ~Idle(t) /\ Doing(t).op = "update"
  BY <1>2, CallFacts
<1>4. Step(t, fs, 1)
  BY <1>1, <1>2, <1>3, EmptyFrames, Continued
<1>5. Len(stack[t]) > 1
  <2>1. Len(stack[t]) \in Nat /\ Len(stack[t]) >= 1 /\ (Len(stack[t]) = 1 => Lowest(Doing(t)))
    BY <1>3, TopFacts
  <2>2. PICK n \in Nat : n = Len(stack[t]) /\ n >= 1 /\ n # 1
    BY <1>3, <2>1 DEF Lowest
  <2>3. n >= 1 /\ n # 1 => n > 1
    OBVIOUS
  <2> QED BY <2>2, <2>3
<1>6. stack[t][2].op \in {"push", "unlock"} /\ stack[t][2].on = Doing(t).on
  <2>1. Over(Doing(t), stack[t][2])
    BY <1>3, <1>5, TopFacts
  <2> QED BY <1>3, <2>1 DEF Over
<1>7. \A e \in Event : held'[e] = t =>
        \/ held[e] = t /\ ~HeldFor(Doing(t), 1, e)
        \/ Len(stack[t]) > 1 /\ HeldFor(stack[t][2], 1, e)
  BY <1>2, <1>3, <1>5, <1>6 DEF HeldFor
<1>8. Doing(t).op # "push" /\ work \subseteq work' /\ \A u \in Thread \ {t} : \A e \in Event : held'[e] = u => held[e] = u
  BY <1>2, <1>3
<1> QED BY <1>1, <1>3, <1>4, <1>7, <1>8, PopBooks

LEMMA ReturnBooks ==
  ASSUME IInv, Books, NEW t \in Thread, Return(t)
  PROVE  Books'
<1>1a. PICK e : e = Doing(t).on
  OBVIOUS
<1>1b. PICK g : g = stack[t][2]
  OBVIOUS
<1>1c. PICK fs : fs = <<>>
  OBVIOUS
<1>1. e = Doing(t).on /\ g = stack[t][2] /\ fs = <<>>
  BY <1>1a, <1>1b, <1>1c
<1>2. /\ At(t, "call") /\ Continue(t, fs) /\ work' = work
      /\ Len(stack[t]) > 1 /\ g.op = "update" => held[e] = None /\ held' = [held EXCEPT ![e] = t]
      /\ ~(Len(stack[t]) > 1 /\ g.op = "update") => held' = held
  BY <1>1 DEF Return, Unlocked, OwnerAfterCall
<1>3. ~Idle(t) /\ Doing(t).op = "call" /\ e \in Event
  BY <1>1, <1>2, CallFacts
<1>4. Step(t, fs, 1) /\ Len(fs) = 0
  BY <1>1, <1>2, <1>3, EmptyFrames, Continued
<1>5. CASE ~(Len(stack[t]) > 1 /\ g.op = "update")
  <2>1. held' = held /\ work \subseteq work'
    BY <1>2, <1>5
  <2> QED BY <1>3, <1>4, <2>1, ContinueBooks
<1>6. CASE Len(stack[t]) > 1 /\ g.op = "update"
  <2>1. g.on = e
    <3>1. Over(Doing(t), g)
      BY <1>1, <1>3, <1>6, TopFacts
    <3> QED BY <1>1, <1>3, <1>6, <3>1 DEF Over
  <2>2. held \in [Event -> Thread \cup {None}]
    BY Parts DEF Types
  <2>3. \A k \in Event : held'[k] = IF k = e THEN t ELSE held[k]
    BY <1>2, <1>3, <1>6, <2>2
  <2>4. \A k \in Event : held'[k] = t =>
          \/ held[k] = t /\ ~HeldFor(Doing(t), 1, k)
          \/ Len(stack[t]) > 1 /\ HeldFor(stack[t][2], 1, k)
    BY <1>1, <1>3, <1>6, <2>1, <2>3 DEF HeldFor
  <2>5. Doing(t).op # "push" /\ work \subseteq work' /\ \A u \in Thread \ {t} : \A k \in Event : held'[k] = u => held[k] = u
    BY <1>2, <1>3, <2>3
  <2> QED BY <1>1, <1>3, <1>4, <2>4, <2>5, PopBooks
<1> QED BY <1>5, <1>6

LEMMA UnlockEventBooks ==
  ASSUME IInv, Books, NEW t \in Thread, UnlockEvent(t)
  PROVE  Books'
<1>1. PICK fs : fs = <<>>
  OBVIOUS
<1>2. At(t, "unlock") /\ Continue(t, fs) /\ Lock(None, {Doing(t).on}) /\ work' = work
  BY <1>1 DEF UnlockEvent
<1>3. ~Idle(t) /\ Doing(t).op = "unlock"
  BY <1>2, CallFacts
<1>4. Step(t, fs, 1)
  BY <1>1, <1>2, <1>3, EmptyFrames, Continued
<1>5. None \notin Thread /\ \A k \in Event : held'[k] = IF k \in {Doing(t).on} THEN None ELSE held[k]
  BY <1>2, LockFacts, CallbackAssumption DEF Thread
<1>6. \A k \in Event : held'[k] = t => held[k] = t /\ ~HeldFor(Doing(t), 1, k)
  BY <1>3, <1>5 DEF HeldFor
<1>7. Doing(t).op # "push" /\ work \subseteq work' /\ \A u \in Thread \ {t} : \A k \in Event : held'[k] = u => held[k] = u
  BY <1>2, <1>3, <1>5
<1> QED BY <1>1, <1>3, <1>4, <1>6, <1>7, PopBooks

LEMMA PushCommandBooks ==
  ASSUME IInv, Books, NEW t \in Thread, PushCommand(t)
  PROVE  Books'
<1>1. PICK fs : fs = <<>>
  OBVIOUS
<1>2. At(t, "push") /\ Continue(t, fs) /\ held' = held /\ work' = work \cup {Doing(t).on}
  BY <1>1 DEF PushCommand, eventVars
<1>3. ~Idle(t) /\ Doing(t).op = "push"
  BY <1>2, CallFacts
<1>4. Step(t, fs, 1)
  BY <1>1, <1>2, <1>3, EmptyFrames, Continued
<1>5. Len(stack[t]) > 1
  <2>1. Len(stack[t]) \in Nat /\ Len(stack[t]) >= 1 /\ (Len(stack[t]) = 1 => Lowest(Doing(t)))
    BY <1>3, TopFacts
  <2>2. PICK n \in Nat : n = Len(stack[t]) /\ n >= 1 /\ n # 1
    BY <1>3, <2>1 DEF Lowest
  <2>3. n >= 1 /\ n # 1 => n > 1
    OBVIOUS
  <2> QED BY <2>2, <2>3
<1>6. stack[t][2].op = "notified" /\ stack[t][2].arg = Doing(t).on
  <2>1. Over(Doing(t), stack[t][2])
    BY <1>3, <1>5, TopFacts
  <2> QED BY <1>3, <2>1 DEF Over
<1>7. \A e \in Event : held'[e] = t =>
        \/ held[e] = t /\ ~HeldFor(Doing(t), 1, e)
        \/ Len(stack[t]) > 1 /\ HeldFor(stack[t][2], 1, e)
  BY <1>2, <1>3, <1>5, <1>6 DEF HeldFor
<1>8. /\ Doing(t).on \in work' /\ work \subseteq work'
      /\ \A u \in Thread \ {t} : \A e \in Event : held'[e] = u => held[e] = u
  BY <1>2
<1> QED BY <1>1, <1>3, <1>4, <1>7, <1>8, PopBooks

LEMMA NotifiedBooks ==
  ASSUME IInv, Books, NEW t \in Thread, Notified(t)
  PROVE  Books'
<1>1. PICK fs : fs = <<>>
  OBVIOUS
<1>2. At(t, "notified") /\ Continue(t, fs) /\ Lock(None, {Doing(t).on, Doing(t).arg}) /\ work' = work
  BY <1>1 DEF Notified
<1>3. ~Idle(t) /\ Doing(t).op = "notified"
  BY <1>2, CallFacts
<1>4. Step(t, fs, 1)
  BY <1>1, <1>2, <1>3, EmptyFrames, Continued
<1>5. /\ None \notin Thread
      /\ \A k \in Event : held'[k] = IF k \in {Doing(t).on, Doing(t).arg} THEN None ELSE held[k]
  BY <1>2, LockFacts, CallbackAssumption DEF Thread
<1>6. \A k \in Event : held'[k] = t => held[k] = t /\ ~HeldFor(Doing(t), 1, k)
  BY <1>3, <1>5 DEF HeldFor
<1>7. Doing(t).op # "push" /\ work \subseteq work' /\ \A u \in Thread \ {t} : \A k \in Event : held'[k] = u => held[k] = u
  BY <1>2, <1>3, <1>5
<1> QED BY <1>1, <1>3, <1>4, <1>6, <1>7, PopBooks

LEMMA StartBooks ==
  ASSUME IInv, Books, NEW d \in Thread, Start(d)
  PROVE  Books'
<1>1. PICK e \in work :
        /\ held[e] = None /\ work' = work \ {e} /\ Lock(d, {e})
        /\ stack' = [stack EXCEPT ![d] = <<Update(e, RUNNING), Frame("unlock", e, 0, 0), Frame("finish", e, 0, 0)>>]
  BY DEF Start, Unlocked
<1>2a. PICK f : f = Update(e, RUNNING)
  OBVIOUS
<1>2b. PICK g : g = Frame("unlock", e, 0, 0)
  OBVIOUS
<1>2c. PICK h : h = Frame("finish", e, 0, 0)
  OBVIOUS
<1>2d. PICK fs : fs = <<f, g, h>>
  OBVIOUS
<1>3. f.op = "update" /\ f.on = e /\ g.op = "unlock" /\ h.op = "finish"
  BY <1>2a, <1>2b, <1>2c DEF Update, Frame
<1>4. fs \in Seq({f, g, h}) /\ Len(fs) = 3 /\ fs[1] = f /\ fs[2] = g /\ fs[3] = h /\ 1..Len(fs) = {1, 2, 3}
  BY <1>2d, ThreeFrames
<1>5. Idle(d)
  BY DEF Start
<1>6. Step(d, fs, 0) /\ DOMAIN stack[d] = {}
  BY <1>1, <1>2a, <1>2b, <1>2c, <1>2d, <1>4, <1>5, IdleStep
<1>7. \A k \in Event : held'[k] = IF k \in {e} THEN d ELSE held[k]
  BY <1>1, LockFacts
<1>8. \A k \in Event : held'[k] = d =>
        \/ held[k] = d /\ (1 \in DOMAIN stack[d] => ~HeldFor(stack[d][1], 1, k))
        \/ \E p \in DOMAIN stack'[d] : HeldFor(stack'[d][p], p, k)
  <2>1. \A k \in Event : k # e /\ held'[k] = d => held[k] = d /\ (1 \in DOMAIN stack[d] => ~HeldFor(stack[d][1], 1, k))
    BY <1>6, <1>7
  <2>2. HeldFor(fs[1], 1, e) /\ 1 \in 1..Len(fs)
    BY <1>3, <1>4 DEF HeldFor
  <2>3. \E p \in DOMAIN stack'[d] : HeldFor(stack'[d][p], p, e)
    BY <1>6, <2>2, NewHolder
  <2> QED BY <2>1, <2>3
<1>9. /\ \A u \in Thread \ {d} : \A k \in Event : held'[k] = u => held[k] = u
      /\ \A x \in work : held[x] # None => x \in work'
  BY <1>1, <1>7
<1>10. /\ Len(fs) >= 1 /\ fs[1].op # "notified" /\ \A i \in 1..Len(fs) : i > 1 => fs[i].op # "call"
       /\ 1 \in DOMAIN stack[d] => stack[d][1].op \notin {"register", "call", "enqueue"}
  BY <1>3, <1>4, <1>6
<1> QED BY <1>6, <1>8, <1>9, <1>10, PushesBooks

LEMMA SetUserEventStatusBooks ==
  ASSUME IInv, Books, NEW t \in Thread, NEW e \in Event, SetUserEventStatus(t, e)
  PROVE  Books'
<1>1. PICK f : f = Frame("broadcast", e, 0, 0)
  OBVIOUS
<1>2. PICK g : g = Frame("userUpdate", e, 0, 0)
  OBVIOUS
<1>3. PICK fs : fs = <<f, g>>
  OBVIOUS
<1>4. Idle(t) /\ stack' = [stack EXCEPT ![t] = fs] /\ held' = held /\ work' = work
  BY <1>1, <1>2, <1>3 DEF SetUserEventStatus
<1>5. fs \in Seq({f, g}) /\ Len(fs) = 2 /\ fs[1] = f /\ fs[2] = g /\ 1..Len(fs) = {1, 2}
  BY <1>3, TwoFrames
<1>6. Step(t, fs, 0) /\ DOMAIN stack[t] = {}
  BY <1>4, <1>5, IdleStep
<1>7. f.op = "broadcast" /\ g.op = "userUpdate"
  BY <1>1, <1>2 DEF Frame
<1>8. \A k \in Event : held'[k] = t => held[k] = t /\ (1 \in DOMAIN stack[t] => ~HeldFor(stack[t][1], 1, k))
  BY <1>4, <1>6
<1>9. /\ \A u \in Thread \ {t} : \A k \in Event : held'[k] = u => held[k] = u
      /\ \A x \in work : held[x] # None => x \in work'
  BY <1>4
<1>10. /\ Len(fs) >= 1 /\ fs[1].op # "notified" /\ \A i \in 1..Len(fs) : i > 1 => fs[i].op # "call"
       /\ 1 \in DOMAIN stack[t] => stack[t][1].op \notin {"register", "call", "enqueue"}
  BY <1>5, <1>6, <1>7
<1> QED BY <1>6, <1>8, <1>9, <1>10, PushesBooks

LEMMA UserEventUpdatedBooks ==
  ASSUME IInv, Books, NEW t \in Thread, UserEventUpdated(t)
  PROVE  Books'
<1>1. PICK e : e = Doing(t).on
  OBVIOUS
<1>2a. PICK f : f = Update(e, COMPLETE)
  OBVIOUS
<1>2b. PICK g : g = Frame("unlock", e, 0, 0)
  OBVIOUS
<1>2c. PICK fs : fs = <<f, g>>
  OBVIOUS
<1>3. At(t, "userUpdate") /\ Lock(t, {e}) /\ Continue(t, fs) /\ work' = work
  BY <1>1, <1>2a, <1>2b, <1>2c DEF UserEventUpdated
<1>4. f.op = "update" /\ f.on = e /\ g.op = "unlock"
  BY <1>2a, <1>2b DEF Update, Frame
<1>5. fs \in Seq({f, g}) /\ Len(fs) = 2 /\ fs[1] = f /\ fs[2] = g /\ 1..Len(fs) = {1, 2}
  BY <1>2c, TwoFrames
<1>6. ~Idle(t) /\ Doing(t).op = "userUpdate" /\ e \in Event
  BY <1>1, <1>3, CallFacts
<1>7. Step(t, fs, 1) /\ stack[t][1] = Doing(t) /\ 1 \in DOMAIN stack[t]
  BY <1>3, <1>5, <1>6, Continued, TopFacts
<1>8. /\ None \notin Thread
      /\ \A k \in Event : held'[k] = IF k \in {e} THEN t ELSE held[k]
  BY <1>3, LockFacts, CallbackAssumption DEF Thread
<1>9. \A k \in Event : held'[k] = t =>
        \/ held[k] = t /\ (1 \in DOMAIN stack[t] => ~HeldFor(stack[t][1], 1, k))
        \/ \E p \in DOMAIN stack'[t] : HeldFor(stack'[t][p], p, k)
  <2>1. \A k \in Event : k # e /\ held'[k] = t => held[k] = t /\ ~HeldFor(stack[t][1], 1, k)
    BY <1>6, <1>7, <1>8 DEF HeldFor
  <2>2. HeldFor(fs[1], 1, e) /\ 1 \in 1..Len(fs)
    BY <1>4, <1>5 DEF HeldFor
  <2>3. \E p \in DOMAIN stack'[t] : HeldFor(stack'[t][p], p, e)
    BY <1>7, <2>2, NewHolder
  <2> QED BY <2>1, <2>3
<1>10. /\ \A u \in Thread \ {t} : \A k \in Event : held'[k] = u => held[k] = u
       /\ \A x \in work : held[x] # None => x \in work'
  BY <1>3, <1>8
<1>11. /\ Len(fs) >= 1 /\ fs[1].op # "notified" /\ \A i \in 1..Len(fs) : i > 1 => fs[i].op # "call"
       /\ 1 \in DOMAIN stack[t] => stack[t][1].op \notin {"register", "call", "enqueue"}
  BY <1>4, <1>5, <1>6, <1>7
<1> QED BY <1>7, <1>9, <1>10, <1>11, PushesBooks

LEMMA FinishBooks ==
  ASSUME IInv, Books, NEW t \in Thread, Finish(t)
  PROVE  Books'
<1>1. PICK e : e = Doing(t).on
  OBVIOUS
<1>2a. PICK f : f = Update(e, COMPLETE)
  OBVIOUS
<1>2b. PICK g : g = Frame("unlock", e, 0, 0)
  OBVIOUS
<1>2c. PICK h : h = Frame("broadcast", e, 0, 0)
  OBVIOUS
<1>2d. PICK fs : fs = <<f, g, h>>
  OBVIOUS
<1>3. At(t, "finish") /\ Lock(t, {e}) /\ Continue(t, fs) /\ work' = work
  BY <1>1, <1>2a, <1>2b, <1>2c, <1>2d DEF Finish
<1>4. f.op = "update" /\ f.on = e /\ g.op = "unlock" /\ h.op = "broadcast"
  BY <1>2a, <1>2b, <1>2c DEF Update, Frame
<1>5. fs \in Seq({f, g, h}) /\ Len(fs) = 3 /\ fs[1] = f /\ fs[2] = g /\ fs[3] = h /\ 1..Len(fs) = {1, 2, 3}
  BY <1>2d, ThreeFrames
<1>6. ~Idle(t) /\ Doing(t).op = "finish" /\ e \in Event
  BY <1>1, <1>3, CallFacts
<1>7. Step(t, fs, 1) /\ stack[t][1] = Doing(t) /\ 1 \in DOMAIN stack[t]
  BY <1>3, <1>5, <1>6, Continued, TopFacts
<1>8. /\ None \notin Thread
      /\ \A k \in Event : held'[k] = IF k \in {e} THEN t ELSE held[k]
  BY <1>3, LockFacts, CallbackAssumption DEF Thread
<1>9. \A k \in Event : held'[k] = t =>
        \/ held[k] = t /\ (1 \in DOMAIN stack[t] => ~HeldFor(stack[t][1], 1, k))
        \/ \E p \in DOMAIN stack'[t] : HeldFor(stack'[t][p], p, k)
  <2>1. \A k \in Event : k # e /\ held'[k] = t => held[k] = t /\ ~HeldFor(stack[t][1], 1, k)
    BY <1>6, <1>7, <1>8 DEF HeldFor
  <2>2. HeldFor(fs[1], 1, e) /\ 1 \in 1..Len(fs)
    BY <1>4, <1>5 DEF HeldFor
  <2>3. \E p \in DOMAIN stack'[t] : HeldFor(stack'[t][p], p, e)
    BY <1>7, <2>2, NewHolder
  <2> QED BY <2>1, <2>3
<1>10. /\ \A u \in Thread \ {t} : \A k \in Event : held'[k] = u => held[k] = u
       /\ \A x \in work : held[x] # None => x \in work'
  BY <1>3, <1>8
<1>11. /\ Len(fs) >= 1 /\ fs[1].op # "notified" /\ \A i \in 1..Len(fs) : i > 1 => fs[i].op # "call"
       /\ 1 \in DOMAIN stack[t] => stack[t][1].op \notin {"register", "call", "enqueue"}
  BY <1>4, <1>5, <1>6, <1>7
<1> QED BY <1>7, <1>9, <1>10, <1>11, PushesBooks

LEMMA NotifyReadyBooks ==
  ASSUME IInv, Books, NEW t \in Thread, NEW e \in Event, NotifyReady(t, e)
  PROVE  Books'
<1>1. PICK n : n = Doing(t).on
  OBVIOUS
<1>2a. PICK f : f = Update(e, SUBMITTED)
  OBVIOUS
<1>2b. PICK g : g = Frame("push", e, 0, 0)
  OBVIOUS
<1>2c. PICK h : h = Frame("notified", n, e, 0)
  OBVIOUS
<1>2d. PICK fs : fs = <<f, g, h>>
  OBVIOUS
<1>3. /\ At(t, "broadcast") /\ Lock(t, {n, e}) /\ work' = work
      /\ stack' = [stack EXCEPT ![t] = DispatchCalls(n, e) \o @]
  BY <1>1 DEF NotifyReady
<1>4. f.op = "update" /\ f.on = e /\ g.op = "push" /\ h.op = "notified" /\ h.on = n
  BY <1>2a, <1>2b, <1>2c DEF Update, Frame
<1>5. fs \in Seq({f, g, h}) /\ Len(fs) = 3 /\ fs[1] = f /\ fs[2] = g /\ fs[3] = h /\ 1..Len(fs) = {1, 2, 3}
  BY <1>2d, ThreeFrames
<1>6. ~Idle(t) /\ Doing(t).op = "broadcast" /\ n \in Event
  BY <1>1, <1>3, CallFacts
<1>7. stack[t][1] = Doing(t) /\ 1 \in DOMAIN stack[t]
  BY <1>6, TopFacts
<1>8. Step(t, fs, 0)
  <2>1. Stacked
    BY Parts
  <2>2. fs = DispatchCalls(n, e)
    BY <1>2a, <1>2b, <1>2c, <1>2d DEF DispatchCalls
  <2>3. stack' = [stack EXCEPT ![t] = fs \o stack[t]]
    BY <1>3, <2>1, <2>2 DEF Stacked
  <2> QED BY <1>5, <2>1, <2>3, StepEntered
<1>9. /\ None \notin Thread
      /\ \A k \in Event : held'[k] = IF k \in {n, e} THEN t ELSE held[k]
  BY <1>3, LockFacts, CallbackAssumption DEF Thread
<1>10. \A k \in Event : held'[k] = t =>
         \/ held[k] = t /\ (1 \in DOMAIN stack[t] => ~HeldFor(stack[t][1], 1, k))
         \/ \E p \in DOMAIN stack'[t] : HeldFor(stack'[t][p], p, k)
  <2>1. \A k \in Event : k # e /\ k # n /\ held'[k] = t => held[k] = t /\ ~HeldFor(stack[t][1], 1, k)
    BY <1>6, <1>7, <1>9 DEF HeldFor
  <2>2. HeldFor(fs[1], 1, e) /\ 1 \in 1..Len(fs) /\ HeldFor(fs[3], 3, n) /\ 3 \in 1..Len(fs)
    BY <1>4, <1>5 DEF HeldFor
  <2>3. \E p \in DOMAIN stack'[t] : HeldFor(stack'[t][p], p, e)
    BY <1>8, <2>2, NewHolder
  <2>4. \E p \in DOMAIN stack'[t] : HeldFor(stack'[t][p], p, n)
    BY <1>8, <2>2, NewHolder
  <2> QED BY <2>1, <2>3, <2>4
<1>11. /\ \A u \in Thread \ {t} : \A k \in Event : held'[k] = u => held[k] = u
       /\ \A x \in work : held[x] # None => x \in work'
  BY <1>3, <1>9
<1>12. /\ Len(fs) >= 1 /\ fs[1].op # "notified" /\ \A i \in 1..Len(fs) : i > 1 => fs[i].op # "call"
       /\ 1 \in DOMAIN stack[t] => stack[t][1].op \notin {"register", "call", "enqueue"}
  BY <1>4, <1>5, <1>6, <1>7
<1> QED BY <1>8, <1>10, <1>11, <1>12, PushesBooks

LEMMA BooksStep ==
  ASSUME IInv, Books, OwnEventOnly, [Next]_vars
  PROVE  Books'
<1>1. ASSUME NEW t \in Thread, CallbackStep(t) PROVE Books'
  BY <1>1, AppendCallbackBooks, CallImmediatelyBooks, CallNextBooks, UpdatedBooks, ReturnBooks
  DEF CallbackStep
<1>2. ASSUME NEW t \in Thread, EventStep(t) PROVE Books'
  <2>1. CASE \E x \in Event : NotifyReady(t, x)
    BY <2>1, NotifyReadyBooks
  <2>2. CASE \E x \in Event : NotifyWaiting(t, x)
    BY <2>2, SameBooks DEF NotifyWaiting
  <2>3. CASE Enqueue(t) \/ UserEventUpdated(t) \/ UnlockEvent(t) \/ Start(t)
    BY <2>3, EnqueueBooks, UserEventUpdatedBooks, UnlockEventBooks, StartBooks
  <2>4. CASE Finish(t) \/ PushCommand(t) \/ Notified(t) \/ BroadcastDone(t)
    BY <2>4, FinishBooks, PushCommandBooks, NotifiedBooks, BroadcastDoneBooks
  <2> QED BY <1>2, <2>1, <2>2, <2>3, <2>4 DEF EventStep
<1>3. ASSUME NEW t \in Thread, ApiCall(t) PROVE Books'
  <2>1. CASE CreateUserEvent(t)
    BY <2>1, SameBooks DEF CreateUserEvent
  <2>2. CASE \E W \in SUBSET Event : CallEnqueue(t, W)
    BY <2>2, CallEnqueueBooks
  <2>3. CASE \E e \in Event, s \in {SUBMITTED, RUNNING, COMPLETE} : SetEventCallback(t, e, s)
    BY <2>3, SetEventCallbackBooks
  <2> QED BY <1>3, <2>1, <2>2, <2>3 DEF ApiCall
<1>4. ASSUME SetSomeUserEvent PROVE Books'
  BY <1>4, SetUserEventStatusBooks DEF SetSomeUserEvent, Thread
<1>5. ASSUME UNCHANGED vars PROVE Books'
  BY <1>5, SameBooks DEF vars, eventVars
<1> QED BY <1>1, <1>2, <1>3, <1>4, <1>5 DEF Next

\* What is above a command that is being notified, when a callback runs.
LEMMA AboveNotified ==
  ASSUME IInv, NEW t \in Thread, NEW i \in DOMAIN stack[t], stack[t][i].op = "notified",
         stack[t][1].op \notin {"notified", "push", "update"}
  PROVE  \E x \in Event, j \in DOMAIN stack[t] :
           /\ stack[t][j].op = "call" /\ stack[t][j].on = x
           /\ j + 1 \in DOMAIN stack[t] /\ stack[t][j + 1].op = "update" /\ stack[t][j + 1].on = x
           /\ j + 2 \in DOMAIN stack[t] /\ stack[t][j + 2].op = "push" /\ stack[t][j + 2].on = x
<1>1. PICK n \in Nat : n = Len(stack[t]) /\ DOMAIN stack[t] = 1..n /\ i \in 1..n
  BY Under
<1>2. i # 1 /\ i - 1 \in 1..n /\ (i - 1) + 1 = i /\ i - 1 # n
  <2>1. i # 1
    OBVIOUS
  <2> QED BY <1>1, <2>1
<1>3. PICK x : stack[t][i - 1].op = "push" /\ stack[t][i - 1].on = x
  <2>1. Over(stack[t][i - 1], stack[t][i])
    <3>1. Over(stack[t][i - 1], stack[t][(i - 1) + 1])
      BY <1>1, <1>2, Under
    <3> QED BY <1>2, <3>1
  <2> QED BY <2>1 DEF Over
<1>4. i - 1 # 1 /\ i - 2 \in 1..n /\ (i - 2) + 1 = i - 1 /\ i - 2 # n
  <2>1. i - 1 # 1
    BY <1>3
  <2> QED BY <1>1, <1>2, <2>1
<1>5. stack[t][i - 2].op = "update" /\ stack[t][i - 2].on = x
  <2>1. Over(stack[t][i - 2], stack[t][i - 1])
    <3>1. Over(stack[t][i - 2], stack[t][(i - 2) + 1])
      BY <1>1, <1>4, Under
    <3> QED BY <1>4, <3>1
  <2> QED BY <1>3, <2>1 DEF Over
<1>6. i - 2 # 1 /\ i - 3 \in 1..n /\ (i - 3) + 1 = i - 2 /\ (i - 3) + 2 = i - 1 /\ i - 3 # n
  <2>1. i - 2 # 1
    BY <1>5
  <2> QED BY <1>1, <1>4, <2>1
<1>7. stack[t][i - 3].op = "call" /\ stack[t][i - 3].on = x
  <2>1. Over(stack[t][i - 3], stack[t][i - 2])
    <3>1. Over(stack[t][i - 3], stack[t][(i - 3) + 1])
      BY <1>1, <1>6, Under
    <3> QED BY <1>6, <3>1
  <2> QED BY <1>5, <2>1 DEF Over
<1>8. x \in Event
  <2>1. Kept(t, 0, t, i - 1)
    BY <1>1, <1>2 DEF Kept
  <2>2. IsKept(t, 0, stack[t][i - 1])
    BY <1>1, <1>2, <2>1 DEF IsKept
  <2> QED BY <1>3, <2>2, KeptMeant
<1> QED BY <1>1, <1>2, <1>3, <1>4, <1>5, <1>6, <1>7, <1>8

\* An event whose callbacks are called while it is dispatched is unlocked.
LEMMA FreeInCallback ==
  ASSUME IInv, Books, NEW t \in Thread, NEW x \in Event, NEW i \in DOMAIN stack[t], i + 1 \in DOMAIN stack[t], i > 1,
         stack[t][i].op = "update", stack[t][i].on = x, stack[t][i + 1].op = "push", stack[t][i + 1].on = x
  PROVE  held[x] = None
<1>0. Holders /\ PushedFirst /\ Unique /\ FramesMeant /\ Types
  BY Parts DEF Books
<1>1. status[x] = SUBMITTED /\ x \notin work
  BY <1>0 DEF FramesMeant, Meant
<1>2. SUBMITTED # COMPLETE /\ SUBMITTED # RUNNING
  BY Statuses
<1>3. SUFFICES ASSUME NEW v \in Thread, held[x] = v PROVE FALSE
  BY <1>0 DEF Types
<1>4. PICK k \in DOMAIN stack[v] : HeldFor(stack[v][k], k, x)
  BY <1>0, <1>3 DEF Holders
<1>5. PICK g : g = stack[v][k] /\ Meant(g)
  BY <1>0 DEF FramesMeant
<1>6. CASE g.op = "notified" /\ g.on = x
  <2>1. k # Len(stack[v])
    <3>1. ~Lowest(g)
      BY <1>6 DEF Lowest
    <3> QED BY <1>5, <3>1, Under
  <2>2. Over(g, stack[v][k + 1]) /\ k + 1 \in DOMAIN stack[v]
    BY <1>5, <2>1, Under
  <2>3. stack[v][k + 1].op = "broadcast" /\ stack[v][k + 1].on = x
    BY <1>6, <2>2 DEF Over
  <2>4. Meant(stack[v][k + 1])
    BY <1>0, <2>2 DEF FramesMeant
  <2> QED BY <1>1, <1>2, <2>3, <2>4 DEF Meant
<1>7. CASE k = 1 /\ g.op = "update" /\ g.on = x
  <2>1. Same(stack[v][k], stack[t][i])
    BY <1>5, <1>7 DEF Same, Walking
  <2>2. k = i
    BY <1>0, <2>1 DEF Unique
  <2> QED BY <1>7, <2>2
<1>8. CASE k = 1 /\ g.op = "push" /\ g.on = x
  <2>1. Same(stack[v][k], stack[t][i + 1])
    BY <1>5, <1>8 DEF Same
  <2>2. k = i + 1
    BY <1>0, <2>1 DEF Unique
  <2>3. i \in Nat
    BY Under
  <2> QED BY <1>8, <2>2, <2>3
<1>9. CASE k = 1 /\ g.op = "unlock" /\ g.on = x
  BY <1>1, <1>2, <1>5, <1>9 DEF Meant
<1>10. CASE k = 1 /\ g.op = "notified" /\ g.arg = x
  BY <1>0, <1>1, <1>5, <1>10 DEF PushedFirst
<1> QED BY <1>4, <1>5, <1>6, <1>7, <1>8, <1>9, <1>10 DEF HeldFor

LEMMA BooksImply ==
  ASSUME IInv, Books PROVE NoHoldAndWait
<1> SUFFICES ASSUME NEW t \in Thread, NEW e \in Event, held[e] = t, NEW n \in Wants(t)
             PROVE  held[n] = None
  BY DEF NoHoldAndWait
<1>1. Doing(t).op \in {"register", "userUpdate", "finish", "call", "enqueue", "broadcast"} /\ ~Idle(t) /\ n \in Event
  BY DEF Wants, At
<1>2. 1 \in DOMAIN stack[t] /\ stack[t][1] = Doing(t)
  BY <1>1, TopFacts
<1>3. PICK i \in DOMAIN stack[t] : stack[t][i].op = "notified"
  <2>1. PICK i \in DOMAIN stack[t] : HeldFor(stack[t][i], i, e)
    BY DEF Books, Holders
  <2> QED BY <1>1, <1>2, <2>1 DEF HeldFor
<1>4. Doing(t).op \in {"register", "call", "enqueue"}
  <2>1. i \in Nat /\ i >= 1 /\ i # 1
    BY <1>1, <1>2, <1>3, Under
  <2>2. i > 1
    BY <2>1
  <2> QED BY <1>1, <1>2, <1>3, <2>2, UnderBroadcast
<1>5. PICK x \in Event, j \in DOMAIN stack[t] :
        /\ stack[t][j].op = "call" /\ stack[t][j].on = x
        /\ j + 1 \in DOMAIN stack[t] /\ stack[t][j + 1].op = "update" /\ stack[t][j + 1].on = x
        /\ j + 2 \in DOMAIN stack[t] /\ stack[t][j + 2].op = "push" /\ stack[t][j + 2].on = x
  BY <1>1, <1>2, <1>3, AboveNotified
<1>6. Own(Doing(t), x)
  <2>1. CASE j = 1
    BY <1>2, <1>5, <2>1 DEF Own
  <2>2. CASE j # 1
    <3>1. 1 < j
      BY <2>2, Under
    <3> QED BY <1>2, <1>5, <3>1 DEF Books, OwnStack
  <2> QED BY <2>1, <2>2
<1>7. n = x
  BY <1>4, <1>6 DEF Wants, At, Own
<1>8. held[x] = None
  <2>1. j \in Nat /\ j >= 1
    BY Under
  <2>2. j + 1 > 1 /\ (j + 1) + 1 = j + 2
    BY <2>1
  <2> QED BY <1>5, <2>2, FreeInCallback
<1> QED BY <1>7, <1>8

LEMMA BooksOpen ==
  ASSUME IInv, Books PROVE HoldersCanGo
<1> SUFFICES ASSUME NEW t \in Thread, NEW n \in Wants(t), NEW v, v = held[n], v # None PROVE CanGo(v)
  BY DEF HoldersCanGo
<1>1. n \in Event /\ v \in Thread
  BY Parts DEF Wants, Types
<1>2. ~Idle(v)
  <2>1. PICK i \in DOMAIN stack[v] : HeldFor(stack[v][i], i, n)
    BY <1>1 DEF Books, Holders
  <2>2. stack[v] = <<>> => DOMAIN stack[v] = {}
    OBVIOUS
  <2> QED BY <2>1, <2>2 DEF Idle
<1>3. \A m \in Wants(v) : held[m] = None
  BY <1>1, BooksImply DEF NoHoldAndWait
<1> QED BY <1>2, <1>3 DEF CanGo

LEMMA InitBooks == Init => Books
<1> SUFFICES ASSUME Init PROVE Books
  OBVIOUS
<1>1. \A t \in Thread : stack[t] = <<>> /\ DOMAIN stack[t] = {}
  <2> SUFFICES ASSUME NEW t \in Thread PROVE stack[t] = <<>> /\ DOMAIN stack[t] = {}
    OBVIOUS
  <2>1. stack[t] = <<>>
    BY DEF Init
  <2> QED BY <2>1
<1>2. \A e \in Event : held[e] \notin Thread
  BY CallbackAssumption DEF Init, Thread
<1> QED BY <1>1, <1>2 DEF Books, Holders, PushedFirst, OwnStack

\* A callback that uses no event but the one it is called for finds that event
\* unlocked whenever its thread keeps locks of others (pocl_broadcast, which holds
\* the notifier while pocl_event_updated calls back): a thread that keeps an event
\* locked across a callback never waits for another thread.
THEOREM NoThreadHoldsAndWaits == OwnEventOnly => (Spec => []NoHoldAndWait)
<1> SUFFICES ASSUME OwnEventOnly PROVE Spec => []NoHoldAndWait
  OBVIOUS
<1>1. Init => Books
  BY InitBooks
<1>2. Books /\ IInv /\ [Next]_vars => Books'
  BY BooksStep
<1>3. IInv /\ Books => NoHoldAndWait
  BY BooksImply
<1> QED BY <1>1, <1>2, <1>3, Invariance, PTL DEF Spec

\* Whoever waits for an event another thread keeps locked waits for a thread that
\* no lock stops: the threads of the runtime never wait for each other in a circle
\* while callbacks keep to the event they are called for.
THEOREM NobodyWaitsInACircle == OwnEventOnly => (Spec => []HoldersCanGo)
<1> SUFFICES ASSUME OwnEventOnly PROVE Spec => []HoldersCanGo
  OBVIOUS
<1>1. Init => Books
  BY InitBooks
<1>2. Books /\ IInv /\ [Next]_vars => Books'
  BY BooksStep
<1>3. IInv /\ Books => HoldersCanGo
  BY BooksOpen
<1> QED BY <1>1, <1>2, <1>3, Invariance, PTL DEF Spec

\* What a comment of the runtime promises, that callbacks "can have calls to
\* clEnqueueSomething()" (pocl_util.c:1263-1265), holds for callbacks that keep to
\* the event they are called for: none waits for a lock its own thread has.
THEOREM OwnEventMayBeEnqueued == OwnEventOnly => (Spec => []CallbacksMayEnqueue)
<1> SUFFICES ASSUME OwnEventOnly PROVE Spec => []CallbacksMayEnqueue
  OBVIOUS
<1>1. IInv /\ NoHoldAndWait => CallbacksMayEnqueue
  <2> SUFFICES ASSUME IInv, NoHoldAndWait, NEW t \in Thread, At(t, "enqueue"), NEW n \in Doing(t).arg
               PROVE  held[n] # t
    BY DEF CallbacksMayEnqueue
  <2>1. n \in Event
    <3>1. ~Idle(t) /\ Doing(t).op = "enqueue"
      BY DEF At
    <3> QED BY <3>1, TopFacts DEF Meant
  <2>2. n \in Wants(t) /\ None \notin Thread
    BY <2>1, CallbackAssumption DEF Wants, Thread
  <2> QED BY <2>1, <2>2 DEF NoHoldAndWait
<1> QED BY <1>1, Invariance, NoThreadHoldsAndWaits, PTL
=============================================================================
