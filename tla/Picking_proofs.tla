--------------------------- MODULE Picking_proofs ---------------------------
(***************************************************************************)
(* What is picked from a sequence: as many elements as there are places,   *)
(* each from one of them, in their order.  By counting, with a bijection   *)
(* between places and numbers, not by induction over the sequence.         *)
(***************************************************************************)
EXTENDS Picking, Sequences, FiniteSetTheorems, TLAPS

\* How many of the places are at or before one of them.
LEMMA CardUpTo ==
  ASSUME NEW n \in Nat
  PROVE  IsFiniteSet(1..n) /\ Cardinality(1..n) = n
<1>1. IsFiniteSet(1..n) /\ Cardinality(1..n) = IF 1 > n THEN 0 ELSE n - 1 + 1
  BY FS_Interval
<1> QED
  BY <1>1

Rank(P, i) == Cardinality({j \in P : j <= i})

LEMMA Ranks ==
  ASSUME NEW N \in Nat, NEW P \in SUBSET (1..N)
  PROVE  /\ Cardinality(P) \in 0..N
         /\ \A n \in 1..Cardinality(P) : \E i \in P : Rank(P, i) = n
         /\ \A i, k \in P : Rank(P, i) = Rank(P, k) => i = k
<1> DEFINE upTo(i) == {j \in P : j <= i}
           rank == [i \in P |-> Rank(P, i)]
<1>1. IsFiniteSet(1..N) /\ Cardinality(1..N) = N
  BY CardUpTo
<1>2. IsFiniteSet(P) /\ Cardinality(P) <= N /\ Cardinality(P) \in Nat
  BY <1>1, FS_Subset, FS_CardinalityType
<1>3. ASSUME NEW i \in P
      PROVE  rank[i] \in 1..Cardinality(P)
  <2>1. upTo(i) \in SUBSET P /\ upTo(i) # {}
    OBVIOUS
  <2>2. IsFiniteSet(upTo(i)) /\ Cardinality(upTo(i)) <= Cardinality(P)
    BY <1>2, <2>1, FS_Subset
  <2>3. Cardinality(upTo(i)) \in Nat /\ Cardinality(upTo(i)) # 0
    BY <2>1, <2>2, FS_CardinalityType, FS_EmptySet
  <2> QED
    BY <1>2, <2>2, <2>3 DEF Rank
<1>4. ASSUME NEW i \in P, NEW k \in P, i < k
      PROVE  rank[i] # rank[k]
  <2>1. i \in Nat /\ k \in Nat /\ \A j \in P : j \in Nat
    <3>1. P \subseteq 1..N
      OBVIOUS
    <3> HIDE DEF rank, upTo
    <3> QED
      BY <3>1
  <2>2. k \in upTo(k) /\ k \notin upTo(i)
    BY <1>4, <2>1
  <2>3. upTo(i) \in SUBSET upTo(k)
    <3>1. ASSUME NEW j \in P, j <= i PROVE j <= k
      BY <1>4, <2>1, <3>1
    <3> QED
      BY <3>1
  <2>4. IsFiniteSet(upTo(k))
    BY <1>2, FS_Subset
  <2>5. Cardinality(upTo(k)) # Cardinality(upTo(i))
    BY <2>2, <2>3, <2>4, FS_Subset
  <2> QED
    BY <2>5 DEF Rank
<1>5. \A i, k \in P : rank[i] = rank[k] => i = k
  BY <1>4
<1>6. rank \in Injection(P, 1..Cardinality(P))
  BY <1>3, <1>5 DEF Injection, IsInjective
<1>7. IsFiniteSet(1..Cardinality(P)) /\ Cardinality(1..Cardinality(P)) = Cardinality(P)
  BY <1>2, CardUpTo
<1>8. rank \in Surjection(P, 1..Cardinality(P))
  BY <1>6, <1>7, FS_Injection
<1>9. \A n \in 1..Cardinality(P) : \E i \in P : rank[i] = n
  BY <1>8 DEF Surjection
<1>10. Cardinality(P) \in 0..N
  BY <1>2
<1>11. \A i \in P : rank[i] = Rank(P, i)
  OBVIOUS
<1> HIDE DEF rank
<1> QED
  BY <1>5, <1>9, <1>10, <1>11

\* The n-th place is one of the places, and no two numbers have the same.
LEMMA NthPlace ==
  ASSUME NEW N \in Nat, NEW P \in SUBSET (1..N)
  PROVE  /\ \A n \in 1..Cardinality(P) : Nth(P, n) \in P
         /\ \A n, m \in 1..Cardinality(P) : Nth(P, n) = Nth(P, m) => n = m
<1>1. ASSUME NEW n \in 1..Cardinality(P)
      PROVE  Nth(P, n) \in P /\ Rank(P, Nth(P, n)) = n
  <2>1. \E i \in P : Rank(P, i) = n
    BY Ranks
  <2>2. Nth(P, n) = CHOOSE i \in P : Rank(P, i) = n
    BY DEF Nth, Rank
  <2> QED
    BY <2>1, <2>2
<1> QED
  BY <1>1

\* All of the places: nothing is left out.
LEMMA PickedAll ==
  ASSUME NEW S, NEW s \in Seq(S)
  PROVE  Picked(s, 1..Len(s)) = s
<1> DEFINE N == Len(s)
<1>1. N \in Nat
  OBVIOUS
<1>2. Cardinality(1..N) = N
  BY <1>1, CardUpTo
<1>3. ASSUME NEW i \in 1..N PROVE Rank(1..N, i) = i
  <2>1. {j \in 1..N : j <= i} = 1..i
    BY <1>1
  <2>2. i \in Nat
    BY <1>1
  <2>3. Cardinality(1..i) = i
    BY <2>2, CardUpTo
  <2> QED
    BY <2>1, <2>3 DEF Rank
<1>4. ASSUME NEW n \in 1..N PROVE Nth(1..N, n) = n
  <2>1. Nth(1..N, n) = CHOOSE i \in 1..N : Rank(1..N, i) = n
    BY DEF Nth, Rank
  <2>2. \A i \in 1..N : Rank(1..N, i) = n <=> i = n
    BY <1>3
  <2> QED
    BY <2>1, <2>2
<1> QED
  BY <1>2, <1>4 DEF Picked

\* Some of the places: a sequence over the same set, of as many elements, each at
\* one of the places.
LEMMA PickedSome ==
  ASSUME NEW S, NEW s \in Seq(S), NEW P \in SUBSET DOMAIN s
  PROVE  /\ Picked(s, P) \in Seq(S)
         /\ Len(Picked(s, P)) = Cardinality(P)
         /\ Cardinality(P) \in 0..Len(s)
         /\ DOMAIN Picked(s, P) = 1..Cardinality(P)
         /\ \A n \in 1..Cardinality(P) : Nth(P, n) \in P /\ Picked(s, P)[n] = s[Nth(P, n)]
         /\ Cardinality(P) = Len(s) => P = DOMAIN s
<1>1. Len(s) \in Nat /\ DOMAIN s = 1..Len(s)
  OBVIOUS
<1>2. Cardinality(P) \in 0..Len(s)
  BY <1>1, Ranks
<1>3. \A n \in 1..Cardinality(P) : Nth(P, n) \in P
  BY <1>1, NthPlace
<1>4. \A n \in 1..Cardinality(P) : s[Nth(P, n)] \in S
  BY <1>1, <1>3
<1>5. Picked(s, P) = [n \in 1..Cardinality(P) |-> s[Nth(P, n)]]
  BY DEF Picked
<1>6. Cardinality(P) = Len(s) => P = DOMAIN s
  <2>1. IsFiniteSet(1..Len(s)) /\ Cardinality(1..Len(s)) = Len(s)
    BY <1>1, CardUpTo
  <2>2. P \in SUBSET (1..Len(s)) /\ DOMAIN s = 1..Len(s)
    BY <1>1
  <2> QED
    BY <2>1, <2>2, FS_Subset
<1> QED
  BY <1>2, <1>3, <1>4, <1>5, <1>6
\* No place: nothing is picked.
LEMMA PickedNone ==
  ASSUME NEW s
  PROVE  Picked(s, {}) = <<>>
<1>1. Cardinality({}) = 0
  BY FS_EmptySet
<1> QED
  BY <1>1 DEF Picked

\* What is picked depends on what is at the places only.
LEMMA PickedSame ==
  ASSUME NEW N \in Nat, NEW P \in SUBSET (1..N), NEW s, NEW t,
         \A i \in P : t[i] = s[i]
  PROVE  Picked(t, P) = Picked(s, P)
<1>1. \A n \in 1..Cardinality(P) : Nth(P, n) \in P
  BY NthPlace
<1> QED
  BY <1>1 DEF Picked

\* A place after all others: one more element, at the end.
LEMMA PickedMore ==
  ASSUME NEW N \in Nat, NEW P \in SUBSET (1..N), NEW s
  PROVE  Picked(s, P \cup {N + 1}) = Append(Picked(s, P), s[N + 1])
<1> DEFINE c == Cardinality(P)
           Q == P \cup {N + 1}
<1>1. c \in 0..N
  BY Ranks
<1>2. /\ IsFiniteSet(P) /\ N + 1 \notin P
      /\ \A i \in P : i \in Nat /\ i <= N
  <2>1. IsFiniteSet(1..N)
    BY CardUpTo
  <2>2. IsFiniteSet(P)
    BY <2>1, FS_Subset
  <2>3. \A i \in P : i \in 1..N
    OBVIOUS
  <2> HIDE DEF c, Q
  <2> QED
    BY <2>2, <2>3
<1>3. Cardinality(Q) = c + 1
  BY <1>2, FS_AddElement
<1>4. \A n \in 1..c : Nth(P, n) \in P
  BY NthPlace
<1>6. \A i \in P : {j \in Q : j <= i} = {j \in P : j <= i}
  <2>1. ASSUME NEW i \in P PROVE {j \in Q : j <= i} = {j \in P : j <= i}
    <3>1. \A j \in Q : j <= i => j \in P
      BY <1>2
    <3> QED
      BY <3>1
  <2> QED
    BY <2>1
<1>7. {j \in Q : j <= N + 1} = Q
  <2>1. \A j \in Q : j <= N + 1
    BY <1>2
  <2> HIDE DEF Q
  <2> QED
    BY <2>1
<1>8. \A i \in Q : Rank(Q, i) = IF i = N + 1 THEN c + 1 ELSE Rank(P, i)
  BY <1>3, <1>6, <1>7 DEF Rank
<1>9. \A i \in P : Rank(P, i) \in 1..c
  <2>1. ASSUME NEW i \in P PROVE Rank(P, i) \in 1..c
    <3> DEFINE U == {j \in P : j <= i}
    <3>1. U \in SUBSET P /\ i \in U
      OBVIOUS
    <3>2. IsFiniteSet(U) /\ Cardinality(U) <= c
      BY <1>2, <3>1, FS_Subset
    <3>3. Cardinality(U) \in Nat /\ Cardinality(U) # 0
      BY <3>1, <3>2, FS_CardinalityType, FS_EmptySet
    <3> QED
      BY <1>1, <3>2, <3>3 DEF Rank
  <2> QED
    BY <2>1
<1>10. \A n \in 1..c : Nth(Q, n) = Nth(P, n)
  <2>1. ASSUME NEW n \in 1..c PROVE Nth(Q, n) = Nth(P, n)
    <3>1. \A i \in Q : Rank(Q, i) = n <=> i \in P /\ Rank(P, i) = n
      BY <1>1, <1>2, <1>8
    <3>2. Nth(Q, n) = CHOOSE i \in Q : Rank(Q, i) = n
      BY DEF Nth, Rank
    <3>3. Nth(P, n) = CHOOSE i \in P : Rank(P, i) = n
      BY DEF Nth, Rank
    <3>4. \E i \in P : Rank(P, i) = n
      BY Ranks
    <3>5. \A i, k \in P : Rank(P, i) = Rank(P, k) => i = k
      BY Ranks
    <3> QED
      BY <3>1, <3>2, <3>3, <3>4, <3>5
  <2> QED
    BY <2>1
<1>11. Nth(Q, c + 1) = N + 1
  <2>1. \A i \in Q : Rank(Q, i) = c + 1 <=> i = N + 1
    BY <1>1, <1>8, <1>9
  <2>2. Nth(Q, c + 1) = CHOOSE i \in Q : Rank(Q, i) = c + 1
    BY DEF Nth, Rank
  <2> QED
    BY <2>1, <2>2
<1>12. Picked(s, Q) = [n \in 1..(c + 1) |-> s[Nth(Q, n)]]
  BY <1>3 DEF Picked
<1>13. Picked(s, P) = [n \in 1..c |-> s[Nth(P, n)]]
  BY DEF Picked
<1> DEFINE S == {s[i] : i \in P} \cup {s[N + 1]}
<1> HIDE DEF c, Q
<1>14. Picked(s, P) \in Seq(S) /\ Len(Picked(s, P)) = c
  BY <1>1, <1>4, <1>13
<1>15. Picked(s, Q) = Append(Picked(s, P), s[N + 1])
  <2> DEFINE p == Picked(s, P)
             a == Append(p, s[N + 1])
  <2>1. a \in Seq(S) /\ Len(a) = c + 1 /\ a[c + 1] = s[N + 1] /\ \A n \in 1..c : a[n] = p[n]
    <3>1. s[N + 1] \in S /\ c \in Nat
      BY <1>1
    <3> HIDE DEF S, p
    <3> QED
      BY <1>14, <3>1 DEF p
  <2>2. \A n \in 1..c : a[n] = s[Nth(Q, n)]
    BY <1>4, <1>10, <1>13, <2>1
  <2>3. a[c + 1] = s[Nth(Q, c + 1)]
    BY <1>11, <2>1
  <2>4. a = [n \in 1..(c + 1) |-> a[n]]
    <3> HIDE DEF a, S
    <3> QED
      BY <1>1, <2>1
  <2> HIDE DEF a
  <2>5. [n \in 1..(c + 1) |-> a[n]] = [n \in 1..(c + 1) |-> s[Nth(Q, n)]]
    BY <1>1, <2>2, <2>3
  <2> QED
    BY <1>12, <2>4, <2>5 DEF a
<1> QED
  BY <1>15 DEF Q

=============================================================================
