----------------------------- MODULE Positions -----------------------------
(***************************************************************************)
(* What the proofs of the components say of positions: of sequences, and   *)
(* of functions that are defined along them.                               *)
(***************************************************************************)
EXTENDS Naturals, Sequences, WellFoundedInduction, NaturalsInduction, TLAPS

(* Sequences *)

\* What Append and Tail do to the elements of a sequence.
LEMMA AppendElements ==
    ASSUME NEW S, NEW s \in Seq(S), NEW e \in S
    PROVE  /\ Append(s, e) \in Seq(S)
           /\ DOMAIN Append(s, e) = DOMAIN s \cup {Len(s) + 1}
           /\ Len(s) + 1 \notin DOMAIN s
           /\ \A k \in DOMAIN s : Append(s, e)[k] = s[k]
           /\ Append(s, e)[Len(s) + 1] = e
  OBVIOUS

LEMMA TailElements ==
    ASSUME NEW S, NEW s \in Seq(S), s # <<>>
    PROVE  /\ Head(s) \in S /\ Tail(s) \in Seq(S)
           /\ 1 \in DOMAIN s /\ s[1] = Head(s)
           /\ \A k \in DOMAIN Tail(s) : /\ k + 1 \in DOMAIN s /\ k + 1 # 1
                                        /\ Tail(s)[k] = s[k + 1]
           /\ \A k \in DOMAIN s \ {1} : k - 1 \in DOMAIN Tail(s) /\ (k - 1) + 1 = k
  OBVIOUS

\* A set of positions has a first one.
LEMMA FirstPosition ==
    ASSUME NEW K, K \subseteq Nat, K # {}
    PROVE  \E k \in K : \A other \in K : k <= other
<1>1. PICK k \in K : \A other \in K : <<other, k>> \notin OpToRel(<, Nat)
  BY NatLessThanWellFounded, WFMin
<1>2. \A other \in K : ~(other < k)
  BY <1>1 DEF OpToRel
<1> QED
  BY <1>2

\* A bounded set of positions has a last one.
LEMMA LastPosition ==
    ASSUME NEW n \in Nat, NEW K, K \subseteq 1..n, K # {}
    PROVE  \E k \in K : \A other \in K : other <= k
<1> DEFINE D == {n - k : k \in K}
<1>1. D \subseteq Nat /\ D # {}
  <2>1. \A k \in K : n - k \in Nat
    OBVIOUS
  <2> QED
    BY <2>1
<1>2. PICK d \in D : \A other \in D : d <= other
  BY <1>1, FirstPosition
<1>3. PICK k \in K : d = n - k
  BY <1>2
<1>4. ASSUME NEW other \in K
      PROVE  other <= k
  <2>1. n - k <= n - other
    BY <1>2, <1>3
  <2> QED
    BY <2>1
<1> QED
  BY <1>4

-----------------------------------------------------------------------------
(* Functions defined along the positions of a sequence *)

\* What holds at the first position and passes to the next one holds at every one.
LEMMA AlongPositions ==
    ASSUME NEW n \in Nat, NEW Good, 0 \in Good,
           \A k \in 1..n : k - 1 \in Good => k \in Good
    PROVE  \A k \in 0..n : k \in Good
<1> DEFINE K == {k \in 0..n : k \notin Good}
<1>1. SUFFICES ASSUME K # {}
               PROVE  FALSE
  OBVIOUS
<1>2. K \subseteq Nat
  OBVIOUS
<1>3. PICK k \in K : \A other \in K : k <= other
  <2> HIDE DEF K
  <2> QED
    BY <1>1, <1>2, FirstPosition
<1>4. k \in 1..n /\ k - 1 \in 0..n /\ ~(k <= k - 1)
  OBVIOUS
<1>5. k - 1 \in Good
  BY <1>3, <1>4
<1> QED
  BY <1>4, <1>5

\* A value for every position, each made from the one before it.
Recursive(n, V, base, step) ==
    \E f \in [0..n -> V] : f[0] = base /\ \A k \in 1..n : f[k] = step[k][f[k - 1]]

LEMMA RecursionExists ==
    ASSUME NEW n \in Nat, NEW V, NEW base \in V, NEW step \in [1..n -> [V -> V]]
    PROVE  Recursive(n, V, base, step)
<1> DEFINE Upto(m) == \E f \in [0..m -> V] : /\ f[0] = base
                                             /\ \A k \in 1..m : f[k] = step[k][f[k - 1]]
           Good == {m \in 0..n : Upto(m)}
<1>1. 0 \in Good
  <2> DEFINE f == [k \in 0..0 |-> base]
  <2>1. f \in [0..0 -> V] /\ f[0] = base /\ 1..0 = {}
    OBVIOUS
  <2> HIDE DEF f
  <2>2. Upto(0)
    BY <2>1
  <2> QED
    BY <2>2
<1>2. ASSUME NEW m \in 1..n, m - 1 \in Good
      PROVE  m \in Good
  <2>1. PICK f \in [0..(m - 1) -> V] : /\ f[0] = base
                                       /\ \A k \in 1..(m - 1) : f[k] = step[k][f[k - 1]]
    BY <1>2
  <2> DEFINE g == [k \in 0..m |-> IF k = m THEN step[m][f[m - 1]] ELSE f[k]]
  <2>2. g \in [0..m -> V] /\ g[0] = base /\ g[m] = step[m][g[m - 1]]
    BY <2>1
  <2>3. ASSUME NEW k \in 1..m
        PROVE  g[k] = step[k][g[k - 1]]
    <3>1. CASE k = m
      BY <2>2, <3>1
    <3>2. CASE k # m
      <4>1. k \in 1..(m - 1) /\ g[k] = f[k] /\ g[k - 1] = f[k - 1]
        BY <3>2
      <4> HIDE DEF g
      <4> QED
        BY <2>1, <4>1
    <3> QED
      BY <3>1, <3>2
  <2> HIDE DEF g
  <2>4. Upto(m)
    BY <2>2, <2>3
  <2>5. m \in 0..n
    OBVIOUS
  <2> HIDE DEF Upto
  <2> QED
    BY <2>4, <2>5
<1>3. \A m \in 0..n : m \in Good
  <2> HIDE DEF Good
  <2> QED
    BY <1>1, <1>2, AlongPositions
<1>4. Upto(n)
  <2>1. n \in 0..n
    OBVIOUS
  <2> QED
    BY <1>3, <2>1
<1> QED
  BY <1>4 DEF Recursive
=============================================================================
