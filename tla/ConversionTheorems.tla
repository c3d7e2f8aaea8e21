-------------------------- MODULE ConversionTheorems --------------------------
(***************************************************************************)
(* What the body of a request promises, for every conversation: the        *)
(* invariant of the messages that RequestInput makes of a client's input,  *)
(* and the properties of the run that follow from it. Then what            *)
(* EventStreamDecoder promises, for all frames and every way of cutting a  *)
(* stream of them.                                                         *)
(***************************************************************************)
EXTENDS RequestInput, EventStreamDecoder, FilterTheorems

-----------------------------------------------------------------------------
(* Sequences, and what is in them once.                                     *)

\* Nothing in P, or exactly one place with something in P, is in a sequence.
Lacks(s, P) == \A i \in DOMAIN s : s[i] \notin P
AtMostOnce(s, P) == \A i, j \in DOMAIN s : s[i] \in P /\ s[j] \in P => i = j
Once(s, P) == AtMostOnce(s, P) /\ \E i \in DOMAIN s : s[i] \in P

LEMMA EmptyFacts ==
    /\ Len(<<>>) = 0 /\ DOMAIN <<>> = {} /\ IsSeq(<<>>)
    /\ \A P : Lacks(<<>>, P)
<1>1. Len(<<>>) = 0 /\ DOMAIN <<>> = {}
  OBVIOUS
<1> QED
  BY <1>1, EmptyIsSeq DEF Lacks

LEMMA SameSeq ==
    ASSUME NEW s, IsSeq(s), NEW t, IsSeq(t), Len(s) = Len(t), \A i \in 1..Len(s) : s[i] = t[i]
    PROVE  s = t
<1> PICK S : s \in Seq(S)
  BY DEF IsSeq
<1> PICK T : t \in Seq(T)
  BY DEF IsSeq
<1> DEFINE U == S \cup T
<1>1. s \in Seq(U) /\ t \in Seq(U)
  OBVIOUS
<1> HIDE DEF U
<1> QED
  BY <1>1

LEMMA JoinFacts ==
    ASSUME NEW a, IsSeq(a), NEW b, IsSeq(b)
    PROVE  /\ IsSeq(a \o b)
           /\ Len(a) \in Nat /\ Len(b) \in Nat
           /\ DOMAIN (a \o b) = 1..(Len(a) + Len(b))
           /\ \A i \in 1..Len(a) : (a \o b)[i] = a[i]
           /\ \A i \in 1..Len(b) : (a \o b)[Len(a) + i] = b[i]
<1> PICK S : a \in Seq(S)
  BY DEF IsSeq
<1> PICK T : b \in Seq(T)
  BY DEF IsSeq
<1> DEFINE U == S \cup T
<1>1. a \in Seq(U) /\ b \in Seq(U)
  OBVIOUS
<1> HIDE DEF U
<1>2. /\ a \o b \in Seq(U) /\ Len(a \o b) = Len(a) + Len(b)
      /\ \A i \in 1..Len(a) : (a \o b)[i] = a[i]
      /\ \A i \in 1..Len(b) : (a \o b)[Len(a) + i] = b[i]
  BY <1>1
<1> QED
  BY <1>1, <1>2 DEF IsSeq

\* A place in two sequences, one behind the other, is a place in one of them.
LEMMA JoinPlaces ==
    ASSUME NEW a, IsSeq(a), NEW b, IsSeq(b), NEW p \in DOMAIN (a \o b)
    PROVE  \/ p \in DOMAIN a /\ (a \o b)[p] = a[p]
           \/ p - Len(a) \in DOMAIN b /\ (a \o b)[p] = b[p - Len(a)]
<1>1. p \in 1..(Len(a) + Len(b)) /\ DOMAIN a = 1..Len(a) /\ DOMAIN b = 1..Len(b)
  BY JoinFacts, SeqFacts
<1>2. Len(a) \in Nat /\ Len(b) \in Nat
  BY SeqFacts
<1>3. CASE p \in 1..Len(a)
  BY <1>1, <1>3, JoinFacts
<1>4. CASE p \notin 1..Len(a)
  <2> DEFINE i == p - Len(a)
  <2>1. i \in 1..Len(b) /\ p = Len(a) + i
    BY <1>1, <1>2, <1>4
  <2> HIDE DEF i
  <2>2. (a \o b)[Len(a) + i] = b[i]
    BY <2>1, JoinFacts
  <2> QED
    BY <1>1, <2>1, <2>2 DEF i
<1> QED
  BY <1>3, <1>4

LEMMA JoinLacks ==
    ASSUME NEW a, IsSeq(a), NEW b, IsSeq(b), NEW P
    PROVE  Lacks(a \o b, P) <=> Lacks(a, P) /\ Lacks(b, P)
<1>1. DOMAIN a = 1..Len(a) /\ DOMAIN b = 1..Len(b) /\ Len(a) \in Nat /\ Len(b) \in Nat
  BY SeqFacts
<1>2. ASSUME Lacks(a, P), Lacks(b, P)
      PROVE  Lacks(a \o b, P)
  BY <1>2, JoinPlaces DEF Lacks
<1>3. ASSUME Lacks(a \o b, P), NEW i \in DOMAIN a
      PROVE  a[i] \notin P
  <2> DEFINE both == a \o b
  <2>1. i \in DOMAIN both /\ both[i] = a[i]
    BY <1>1, JoinFacts
  <2>2. Lacks(both, P)
    BY <1>3
  <2> HIDE DEF both
  <2> QED
    BY <2>1, <2>2 DEF Lacks
<1>4. ASSUME Lacks(a \o b, P), NEW i \in DOMAIN b
      PROVE  b[i] \notin P
  <2> DEFINE both == a \o b
             p == Len(a) + i
  <2>1. i \in 1..Len(b) /\ p \in 1..(Len(a) + Len(b))
    BY <1>1
  <2>2. DOMAIN both = 1..(Len(a) + Len(b)) /\ both[p] = b[i]
    <3>1. DOMAIN (a \o b) = 1..(Len(a) + Len(b))
      BY JoinFacts
    <3>2. \A j \in 1..Len(b) : (a \o b)[Len(a) + j] = b[j]
      BY JoinFacts
    <3>3. (a \o b)[Len(a) + i] = b[i]
      BY <2>1, <3>2
    <3> QED
      BY <3>1, <3>3
  <2>3. Lacks(both, P)
    BY <1>4
  <2> HIDE DEF both, p
  <2> QED
    BY <2>1, <2>2, <2>3 DEF Lacks
<1> QED
  BY <1>2, <1>3, <1>4 DEF Lacks

LEMMA JoinOnce ==
    ASSUME NEW a, IsSeq(a), NEW b, IsSeq(b), NEW P
    PROVE  /\ AtMostOnce(a, P) /\ Lacks(b, P) => AtMostOnce(a \o b, P)
           /\ Lacks(a, P) /\ AtMostOnce(b, P) => AtMostOnce(a \o b, P)
           /\ Once(a, P) /\ Lacks(b, P) => Once(a \o b, P)
           /\ Lacks(a, P) /\ Once(b, P) => Once(a \o b, P)
<1>1. DOMAIN a = 1..Len(a) /\ DOMAIN b = 1..Len(b) /\ Len(a) \in Nat /\ Len(b) \in Nat
  BY SeqFacts
<1>2. DOMAIN (a \o b) = 1..(Len(a) + Len(b))
  BY JoinFacts
<1>3. ASSUME AtMostOnce(a, P), Lacks(b, P),
             NEW i \in DOMAIN (a \o b), NEW j \in DOMAIN (a \o b), (a \o b)[i] \in P, (a \o b)[j] \in P
      PROVE  i = j
  <2>1. i \in DOMAIN a /\ a[i] \in P
    BY <1>3, JoinPlaces DEF Lacks
  <2>2. j \in DOMAIN a /\ a[j] \in P
    BY <1>3, JoinPlaces DEF Lacks
  <2> QED
    BY <1>3, <2>1, <2>2 DEF AtMostOnce
<1>4. ASSUME Lacks(a, P), AtMostOnce(b, P),
             NEW i \in DOMAIN (a \o b), NEW j \in DOMAIN (a \o b), (a \o b)[i] \in P, (a \o b)[j] \in P
      PROVE  i = j
  <2>1. i - Len(a) \in DOMAIN b /\ b[i - Len(a)] \in P
    BY <1>4, JoinPlaces DEF Lacks
  <2>2. j - Len(a) \in DOMAIN b /\ b[j - Len(a)] \in P
    BY <1>4, JoinPlaces DEF Lacks
  <2>3. i - Len(a) = j - Len(a)
    BY <1>4, <2>1, <2>2 DEF AtMostOnce
  <2> QED
    BY <1>1, <1>2, <2>3
<1>5. ASSUME ~Lacks(a, P) \/ ~Lacks(b, P)
      PROVE  \E i \in DOMAIN (a \o b) : (a \o b)[i] \in P
  BY <1>5, JoinLacks DEF Lacks
<1> QED
  BY <1>3, <1>4, <1>5 DEF AtMostOnce, Once, Lacks

-----------------------------------------------------------------------------
(* Picked: the elements at some places, in order.                           *)

\* place lists the places, each once.
Lists(place, places) ==
    /\ \A n \in 1..Cardinality(places) : place[n] \in places
    /\ \A n, m \in 1..Cardinality(places) : place[n] = place[m] => n = m
    /\ \A i \in places : \E n \in 1..Cardinality(places) : place[n] = i

RankIn(places, i) == Cardinality({j \in places : j <= i})

LEMMA RankFacts ==
    ASSUME NEW size \in Nat, NEW places \in SUBSET (1..size)
    PROVE  /\ IsFiniteSet(places) /\ Cardinality(places) \in Nat
           /\ \A i \in places : RankIn(places, i) \in 1..Cardinality(places)
           /\ \A i, k \in places : RankIn(places, i) = RankIn(places, k) => i = k
<1>1. IsFiniteSet(places) /\ Cardinality(places) \in Nat
  <2>1. IsFiniteSet(1..size)
    BY FS_Interval
  <2> QED
    BY <2>1, FS_Subset, FS_CardinalityType
<1> DEFINE below(i) == {j \in places : j <= i}
<1>2. ASSUME NEW i \in places
      PROVE  IsFiniteSet(below(i)) /\ Cardinality(below(i)) \in 1..Cardinality(places)
  <2>1. below(i) \in SUBSET places
    OBVIOUS
  <2>2. i \in below(i)
    OBVIOUS
  <2> HIDE DEF below
  <2>3. IsFiniteSet(below(i)) /\ Cardinality(below(i)) <= Cardinality(places)
    BY <1>1, <2>1, FS_Subset
  <2>4. Cardinality(below(i)) \in Nat /\ Cardinality(below(i)) # 0
    BY <2>2, <2>3, FS_CardinalityType, FS_EmptySet
  <2> QED
    BY <1>1, <2>3, <2>4
<1>3. ASSUME NEW i \in places, NEW k \in places, i < k
      PROVE  Cardinality(below(i)) # Cardinality(below(k))
  <2>0. places \subseteq Nat /\ k <= k
    OBVIOUS
  <2>1. below(i) \in SUBSET below(k) /\ k \in below(k) /\ k \notin below(i)
    <3>1. \A j \in places : j <= i => j <= k
      BY <1>3, <2>0
    <3>2. ~(k <= i)
      BY <1>3, <2>0
    <3> QED
      BY <2>0, <3>1, <3>2
  <2>2. IsFiniteSet(below(k))
    BY <1>2
  <2> HIDE DEF below
  <2> QED
    BY <2>1, <2>2, FS_Subset
<1>4. \A i, k \in places : i < k \/ k < i \/ i = k
  OBVIOUS
<1>5. \A i : RankIn(places, i) = Cardinality(below(i))
  BY DEF RankIn
<1> HIDE DEF below
<1>6. \A i, k \in places : RankIn(places, i) = RankIn(places, k) => i = k
  BY <1>3, <1>4, <1>5
<1> QED
  BY <1>1, <1>2, <1>5, <1>6

LEMMA PickedLists ==
    ASSUME NEW s, IsSeq(s), NEW places \in SUBSET (DOMAIN s)
    PROVE  /\ IsSeq(Picked(s, places)) /\ Len(Picked(s, places)) = Cardinality(places)
           /\ Cardinality(places) \in Nat
           /\ \E place : /\ Lists(place, places)
                         /\ \A n \in 1..Cardinality(places) :
                                Picked(s, places)[n] = s[place[n]] /\ RankIn(places, place[n]) = n
<1> DEFINE size == Len(s)
           c == Cardinality(places)
           rank == [i \in places |-> RankIn(places, i)]
           at(n) == CHOOSE i \in places : Cardinality({j \in places : j <= i}) = n
           place == [n \in 1..c |-> at(n)]
<1>1. size \in Nat /\ DOMAIN s = 1..size /\ places \in SUBSET (1..size)
  BY SeqFacts
<1>2. IsFiniteSet(places) /\ c \in Nat
  BY <1>1, RankFacts
<1>3. \A i \in places : RankIn(places, i) \in 1..c
  BY <1>1, RankFacts
<1>4. \A i, k \in places : RankIn(places, i) = RankIn(places, k) => i = k
  BY <1>1, RankFacts
<1>5. ASSUME NEW n \in 1..c
      PROVE  \E i \in places : RankIn(places, i) = n
  <2>1. rank \in [places -> 1..c]
    BY <1>3
  <2>2. rank \in Injection(places, 1..c)
    <3>1. \A i, k \in places : rank[i] = rank[k] => i = k
      BY <1>4
    <3> HIDE DEF rank
    <3>2. IsInjective(rank)
      BY <2>1, <3>1 DEF IsInjective
    <3> QED
      BY <2>1, <3>2 DEF Injection
  <2>3. IsFiniteSet(1..c) /\ Cardinality(1..c) = c
    BY <1>2, FS_Interval
  <2>4. rank \in Surjection(places, 1..c)
    BY <2>2, <2>3, FS_Injection
  <2>5. \E i \in places : rank[i] = n
    BY <2>4 DEF Surjection
  <2> QED
    BY <2>5
<1>6. \A n \in 1..c : at(n) \in places /\ RankIn(places, at(n)) = n
  BY <1>5 DEF RankIn
<1>7. \A n \in 1..c : place[n] \in places /\ RankIn(places, place[n]) = n
  BY <1>6
<1>8. Picked(s, places) = [n \in 1..c |-> s[place[n]]]
  BY DEF Picked
<1> HIDE DEF place, c
<1> DEFINE picked == [n \in 1..c |-> s[place[n]]]
<1>9. IsSeq(picked) /\ Len(picked) = c
  BY <1>2, FunctionIsSeq
<1>10. \A i \in places : \E n \in 1..c : place[n] = i
  BY <1>3, <1>4, <1>7
<1>11. \A n, m \in 1..c : place[n] = place[m] => n = m
  BY <1>7
<1>12. Lists(place, places)
  BY <1>7, <1>10, <1>11 DEF Lists, c
<1>13. \A n \in 1..c : picked[n] = s[place[n]]
  OBVIOUS
<1>14. Picked(s, places) = picked
  BY <1>8
<1> HIDE DEF picked
<1> QED
  BY <1>2, <1>7, <1>9, <1>12, <1>13, <1>14 DEF c

LEMMA PickedFacts ==
    ASSUME NEW s, IsSeq(s), NEW places \in SUBSET (DOMAIN s)
    PROVE  /\ IsSeq(Picked(s, places))
           /\ \A n \in DOMAIN Picked(s, places) : \E i \in places : Picked(s, places)[n] = s[i]
           /\ \A i \in places : \E n \in DOMAIN Picked(s, places) : Picked(s, places)[n] = s[i]
           /\ \A P : (\A i, j \in places : s[i] \in P /\ s[j] \in P => i = j)
                         => AtMostOnce(Picked(s, places), P)
<1> DEFINE picked == Picked(s, places)
           c == Cardinality(places)
<1>1. IsSeq(picked) /\ Len(picked) = c /\ c \in Nat
  BY PickedLists
<1>2. PICK place : Lists(place, places) /\ \A n \in 1..c : picked[n] = s[place[n]]
  BY PickedLists
<1> HIDE DEF picked
<1>3. DOMAIN picked = 1..c
  BY <1>1, SeqFacts
<1>4. \A n \in 1..c : place[n] \in places
  BY <1>2 DEF Lists
<1>5. \A n, m \in 1..c : place[n] = place[m] => n = m
  BY <1>2 DEF Lists
<1>6. \A i \in places : \E n \in 1..c : place[n] = i
  BY <1>2 DEF Lists
<1> HIDE DEF c
<1>7. ASSUME NEW P, \A i, j \in places : s[i] \in P /\ s[j] \in P => i = j
      PROVE  AtMostOnce(picked, P)
  BY <1>2, <1>3, <1>4, <1>5, <1>7 DEF AtMostOnce
<1>8. \A n \in DOMAIN picked : \E i \in places : picked[n] = s[i]
  BY <1>2, <1>3, <1>4
<1>9. \A i \in places : \E n \in DOMAIN picked : picked[n] = s[i]
  BY <1>2, <1>3, <1>6
<1> QED
  BY <1>1, <1>7, <1>8, <1>9 DEF picked

LEMMA PickedNone == \A s : Picked(s, {}) = <<>>
<1> TAKE s
<1> DEFINE at(n) == s[CHOOSE i \in {} : Cardinality({j \in {} : j <= i}) = n]
<1>1. Cardinality({}) = 0
  BY FS_EmptySet
<1>2. Picked(s, {}) = [n \in 1..0 |-> at(n)]
  BY <1>1 DEF Picked
<1> HIDE DEF at
<1> QED
  BY <1>2

LEMMA PickedAll ==
    ASSUME NEW s, IsSeq(s)
    PROVE  Picked(s, DOMAIN s) = s
<1> DEFINE size == Len(s)
           picked == Picked(s, DOMAIN s)
<1>1. size \in Nat /\ DOMAIN s = 1..size
  BY SeqFacts
<1>2. \A i \in 1..size : RankIn(DOMAIN s, i) = i
  <2> TAKE i \in 1..size
  <2>1. {j \in DOMAIN s : j <= i} = 1..i
    BY <1>1
  <2>2. Cardinality(1..i) = i
    BY <1>1, FS_Interval
  <2> QED
    BY <2>1, <2>2 DEF RankIn
<1>3. Cardinality(DOMAIN s) = size
  <2>1. \A m \in Nat : Cardinality(1..m) = m
    BY FS_Interval
  <2> QED
    BY <1>1, <2>1
<1>4. IsSeq(picked) /\ Len(picked) = size
  BY <1>3, PickedLists
<1>5. PICK place : /\ Lists(place, DOMAIN s)
                   /\ \A n \in 1..size : picked[n] = s[place[n]] /\ RankIn(DOMAIN s, place[n]) = n
  BY <1>3, PickedLists
<1>6. \A n \in 1..size : place[n] \in 1..size
  BY <1>1, <1>3, <1>5 DEF Lists
<1>7. \A n \in 1..size : picked[n] = s[n]
  BY <1>2, <1>5, <1>6
<1> HIDE DEF picked
<1>8. picked = s
  BY <1>1, <1>4, <1>7, SameSeq
<1> QED
  BY <1>8 DEF picked

-----------------------------------------------------------------------------
(* FlattenSeq: pieces put together.                                         *)

\* The loop, with nothing before the first piece.
Sums(v, pieces, n) ==
    /\ v[0] = <<>>
    /\ \A k \in 1..n : v[k] = v[k - 1] \o pieces[k]
    /\ \A k \in 0..n : IsSeq(v[k])

ArePieces(pieces, n) ==
    n \in Nat /\ IsSeq(pieces) /\ Len(pieces) = n /\ \A k \in 1..n : IsSeq(pieces[k])

LEMMA NothingBefore == \A s : IsSeq(s) => <<>> \o s = s
<1> SUFFICES ASSUME NEW s, IsSeq(s) PROVE <<>> \o s = s
  OBVIOUS
<1> PICK S : s \in Seq(S)
  BY DEF IsSeq
<1> QED
  OBVIOUS

LEMMA FlatSums ==
    ASSUME NEW pieces, NEW n, ArePieces(pieces, n)
    PROVE  \E v : Sums(v, pieces, n) /\ FlattenSeq(pieces) = v[n]
<1>1. n \in Nat /\ IsSeq(pieces) /\ Len(pieces) = n /\ \A k \in 1..n : IsSeq(pieces[k])
  BY DEF ArePieces
<1> DEFINE f == CHOOSE f : FlatLoop(pieces, Len(pieces), f)
<1>2. FlatLoop(pieces, n, f)
  BY <1>1, FlatLoopExists
<1>3. n # 0 => FlattenSeq(pieces) = f[n]
  <2> SUFFICES ASSUME Len(pieces) # 0 PROVE FlattenSeq(pieces) = f[Len(pieces)]
    BY <1>1
  <2> QED
    BY Zenon DEF FlattenSeq, FlatLoop
<1>4. n = 0 => FlattenSeq(pieces) = <<>>
  BY <1>1, SeqFacts DEF FlattenSeq
<1> HIDE DEF f
<1> DEFINE v == [k \in 0..n |-> IF k = 0 THEN <<>> ELSE f[k]]
<1>5. \A k \in 1..n : f[k] = IF k = 1 THEN pieces[k] ELSE f[k - 1] \o pieces[k]
  BY <1>1, <1>2 DEF FlatLoop
<1>6. v[0] = <<>> /\ \A k \in 1..n : v[k] = f[k] /\ (k # 1 => v[k - 1] = f[k - 1])
  BY <1>1
<1>7. 0 \in 0..n /\ \A k \in 1..n : k - 1 \in 0..n
  BY <1>1
<1> HIDE DEF v
<1>8. \A k \in 1..n : v[k] = v[k - 1] \o pieces[k]
  <2> TAKE k \in 1..n
  <2>1. CASE k = 1
    <3>1. v[k - 1] = <<>> /\ v[k] = pieces[k] /\ IsSeq(pieces[k])
      BY <1>1, <1>5, <1>6, <2>1
    <3> QED
      BY <3>1, NothingBefore
  <2>2. CASE k # 1
    BY <1>5, <1>6, <2>2
  <2> QED
    BY <2>1, <2>2
<1> DEFINE Wrong == {k \in 0..n : ~IsSeq(v[k])}
<1>9. Wrong = {}
  <2>1. SUFFICES ASSUME Wrong # {} PROVE FALSE
    OBVIOUS
  <2>2. PICK k \in Wrong : \A j \in Wrong : k <= j
    <3>1. Wrong \in SUBSET Nat
      BY <1>1
    <3> HIDE DEF Wrong
    <3> QED
      BY <2>1, <3>1, NatMin
  <2>3. k \in 0..n /\ ~IsSeq(v[k])
    OBVIOUS
  <2>4. k # 0
    BY <1>6, <2>3, EmptyIsSeq
  <2>5. k \in 1..n /\ k - 1 \in 0..n /\ k - 1 \notin Wrong
    BY <1>1, <2>2, <2>3, <2>4
  <2>6. IsSeq(v[k - 1]) /\ IsSeq(pieces[k]) /\ v[k] = v[k - 1] \o pieces[k]
    BY <1>1, <1>8, <2>5
  <2> QED
    BY <2>3, <2>6, ConcatIsSeq
<1>10. Sums(v, pieces, n)
  BY <1>6, <1>8, <1>9 DEF Sums
<1>11. FlattenSeq(pieces) = v[n]
  <2>1. n = 0 \/ n \in 1..n
    BY <1>1
  <2> QED
    BY <1>3, <1>4, <1>6, <2>1
<1> QED
  BY <1>10, <1>11

\* Which piece, and which part of it, is at a place: each part of each piece, once.
LocatedBy(flat, pieces, n, piece, part) ==
    /\ \A p \in DOMAIN flat : /\ piece[p] \in 1..n /\ part[p] \in DOMAIN pieces[piece[p]]
                              /\ flat[p] = pieces[piece[p]][part[p]]
    /\ \A p, q \in DOMAIN flat : piece[p] = piece[q] /\ part[p] = part[q] => p = q
    /\ \A k \in 1..n : \A j \in DOMAIN pieces[k] :
           \E p \in DOMAIN flat : piece[p] = k /\ part[p] = j
Located(flat, pieces, n) == \E piece, part : LocatedBy(flat, pieces, n, piece, part)

LEMMA LocatedOn ==
    ASSUME NEW flat, IsSeq(flat), NEW pieces, NEW n \in Nat, Located(flat, pieces, n),
           NEW x, x = pieces[n + 1], IsSeq(x)
    PROVE  Located(flat \o x, pieces, n + 1)
<1> DEFINE more == flat \o x
           m == Len(flat)
<1>1. PICK piece, part : LocatedBy(flat, pieces, n, piece, part)
  BY DEF Located
<1>2. /\ DOMAIN flat = 1..m /\ DOMAIN x = 1..Len(x) /\ m \in Nat /\ Len(x) \in Nat
      /\ DOMAIN more = 1..(m + Len(x))
  BY JoinFacts, SeqFacts
<1>3. \A p \in DOMAIN more : \/ p \in DOMAIN flat /\ more[p] = flat[p]
                             \/ p - m \in DOMAIN x /\ more[p] = x[p - m]
  BY JoinPlaces
<1> DEFINE newPiece == [p \in DOMAIN more |-> IF p <= m THEN piece[p] ELSE n + 1]
           newPart == [p \in DOMAIN more |-> IF p <= m THEN part[p] ELSE p - m]
<1>4. \A p \in DOMAIN more : \/ p \in DOMAIN flat /\ newPiece[p] = piece[p] /\ newPart[p] = part[p]
                             \/ p \notin DOMAIN flat /\ newPiece[p] = n + 1 /\ newPart[p] = p - m
  BY <1>2
<1> HIDE DEF newPiece, newPart, more, m
<1>5. \A p \in DOMAIN flat : /\ piece[p] \in 1..n /\ part[p] \in DOMAIN pieces[piece[p]]
                             /\ flat[p] = pieces[piece[p]][part[p]]
  BY <1>1 DEF LocatedBy
<1>6. \A p \in DOMAIN flat : piece[p] # n + 1
  BY <1>5
<1>7. ASSUME NEW p \in DOMAIN more
      PROVE  /\ newPiece[p] \in 1..(n + 1) /\ newPart[p] \in DOMAIN pieces[newPiece[p]]
             /\ more[p] = pieces[newPiece[p]][newPart[p]]
  <2>1. CASE p \in DOMAIN flat
    <3>1. p - m \notin DOMAIN x
      BY <1>2, <2>1
    <3> QED
      BY <1>3, <1>4, <1>5, <2>1, <3>1
  <2>2. CASE p \notin DOMAIN flat
    BY <1>3, <1>4, <2>2
  <2> QED
    BY <2>1, <2>2
<1>8. ASSUME NEW p \in DOMAIN more, NEW q \in DOMAIN more,
             newPiece[p] = newPiece[q], newPart[p] = newPart[q]
      PROVE  p = q
  <2>1. CASE p \in DOMAIN flat
    <3>1. q \in DOMAIN flat
      BY <1>4, <1>6, <1>8, <2>1
    <3>2. piece[p] = piece[q] /\ part[p] = part[q]
      BY <1>4, <1>8, <2>1, <3>1
    <3> QED
      BY <1>1, <2>1, <3>1, <3>2 DEF LocatedBy
  <2>2. CASE p \notin DOMAIN flat
    <3>1. q \notin DOMAIN flat
      BY <1>4, <1>6, <1>8, <2>2
    <3>2. p - m = q - m
      BY <1>4, <1>8, <2>2, <3>1
    <3> QED
      BY <1>2, <3>2
  <2> QED
    BY <2>1, <2>2
<1>9. ASSUME NEW k \in 1..(n + 1), NEW j \in DOMAIN pieces[k]
      PROVE  \E p \in DOMAIN more : newPiece[p] = k /\ newPart[p] = j
  <2>1. CASE k = n + 1
    <3>1. j \in 1..Len(x)
      BY <1>2, <2>1
    <3>2. m + j \in DOMAIN more /\ m + j \notin DOMAIN flat /\ (m + j) - m = j
      BY <1>2, <3>1
    <3> QED
      BY <1>4, <2>1, <3>2
  <2>2. CASE k # n + 1
    <3>1. k \in 1..n
      BY <2>2
    <3>2. PICK p \in DOMAIN flat : piece[p] = k /\ part[p] = j
      BY <1>1, <3>1 DEF LocatedBy
    <3>3. p \in DOMAIN more
      BY <1>2
    <3> QED
      BY <1>4, <3>2, <3>3
  <2> QED
    BY <2>1, <2>2
<1>10. LocatedBy(more, pieces, n + 1, newPiece, newPart)
  BY <1>7, <1>8, <1>9 DEF LocatedBy
<1> QED
  BY <1>10 DEF Located, more

LEMMA FlatLocated ==
    ASSUME NEW pieces, NEW n, ArePieces(pieces, n)
    PROVE  IsSeq(FlattenSeq(pieces)) /\ Located(FlattenSeq(pieces), pieces, n)
<1>1. n \in Nat /\ \A k \in 1..n : IsSeq(pieces[k])
  BY DEF ArePieces
<1>2. PICK v : Sums(v, pieces, n) /\ FlattenSeq(pieces) = v[n]
  BY FlatSums
<1>3. \A k \in 0..n : IsSeq(v[k])
  BY <1>2 DEF Sums
<1> DEFINE Wrong == {k \in 0..n : ~Located(v[k], pieces, k)}
<1>4. Wrong = {}
  <2>1. SUFFICES ASSUME Wrong # {} PROVE FALSE
    OBVIOUS
  <2>2. PICK k \in Wrong : \A j \in Wrong : k <= j
    <3>1. Wrong \in SUBSET Nat
      BY <1>1
    <3> HIDE DEF Wrong
    <3> QED
      BY <2>1, <3>1, NatMin
  <2>3. k \in 0..n /\ ~Located(v[k], pieces, k)
    OBVIOUS
  <2>4. k # 0
    <3>1. v[0] = <<>>
      BY <1>2 DEF Sums
    <3>2. LocatedBy(<<>>, pieces, 0, <<>>, <<>>)
      BY EmptyFacts DEF LocatedBy
    <3> QED
      BY <2>3, <3>1, <3>2 DEF Located
  <2> DEFINE b == k - 1
  <2>5. b \in Nat /\ b \in 0..n /\ k = b + 1 /\ k \in 1..n /\ b \notin Wrong
    BY <1>1, <2>2, <2>3, <2>4
  <2>6. Located(v[b], pieces, b) /\ IsSeq(v[b])
    BY <1>3, <2>5
  <2>7. v[k] = v[b] \o pieces[k] /\ IsSeq(pieces[k])
    BY <1>1, <1>2, <2>5 DEF Sums
  <2> HIDE DEF b
  <2>8. Located(v[b] \o pieces[k], pieces, b + 1)
    BY <2>5, <2>6, <2>7, LocatedOn
  <2> QED
    BY <2>3, <2>5, <2>7, <2>8
<1>5. n \in 0..n
  BY <1>1
<1> QED
  BY <1>2, <1>3, <1>4, <1>5

\* Only one part of all pieces is in P.
Alone(pieces, P) ==
    \A k, m \in DOMAIN pieces : \A i \in DOMAIN pieces[k], j \in DOMAIN pieces[m] :
        pieces[k][i] \in P /\ pieces[m][j] \in P => k = m /\ i = j

LEMMA FlatFacts ==
    ASSUME NEW pieces, NEW n, ArePieces(pieces, n)
    PROVE  /\ IsSeq(FlattenSeq(pieces))
           /\ \A p \in DOMAIN FlattenSeq(pieces) : \E k \in 1..n : \E j \in DOMAIN pieces[k] :
                  FlattenSeq(pieces)[p] = pieces[k][j]
           /\ \A k \in 1..n : \A j \in DOMAIN pieces[k] : \E p \in DOMAIN FlattenSeq(pieces) :
                  FlattenSeq(pieces)[p] = pieces[k][j]
           /\ \A P : Alone(pieces, P) => AtMostOnce(FlattenSeq(pieces), P)
<1> DEFINE flat == FlattenSeq(pieces)
<1>1. IsSeq(flat) /\ Located(flat, pieces, n)
  BY FlatLocated
<1>2. n \in Nat /\ DOMAIN pieces = 1..n
  BY SeqFacts DEF ArePieces
<1> HIDE DEF flat
<1>3. PICK piece, part : LocatedBy(flat, pieces, n, piece, part)
  BY <1>1 DEF Located
<1>4. \A p \in DOMAIN flat : /\ piece[p] \in 1..n /\ part[p] \in DOMAIN pieces[piece[p]]
                             /\ flat[p] = pieces[piece[p]][part[p]]
  BY <1>3 DEF LocatedBy
<1>5. ASSUME NEW k \in 1..n, NEW j \in DOMAIN pieces[k]
      PROVE  \E p \in DOMAIN flat : flat[p] = pieces[k][j]
  <2>1. PICK p \in DOMAIN flat : piece[p] = k /\ part[p] = j
    BY <1>3 DEF LocatedBy
  <2> QED
    BY <1>4, <2>1
<1>6. ASSUME NEW P, Alone(pieces, P), NEW p \in DOMAIN flat, NEW q \in DOMAIN flat,
             flat[p] \in P, flat[q] \in P
      PROVE  p = q
  <2>1. piece[p] = piece[q] /\ part[p] = part[q]
    BY <1>2, <1>4, <1>6 DEF Alone
  <2> QED
    BY <1>3, <2>1 DEF LocatedBy
<1>7. \A P : Alone(pieces, P) => AtMostOnce(flat, P)
  BY <1>6 DEF AtMostOnce
<1>8. \A p \in DOMAIN flat : \E k \in 1..n : \E j \in DOMAIN pieces[k] : flat[p] = pieces[k][j]
  BY <1>4
<1> QED
  BY <1>1, <1>5, <1>7, <1>8 DEF flat

\* Pieces of which none has anything make nothing.
LEMMA FlatNothing ==
    ASSUME NEW pieces, NEW n, ArePieces(pieces, n), \A k \in 1..n : pieces[k] = <<>>
    PROVE  FlattenSeq(pieces) = <<>>
<1> DEFINE flat == FlattenSeq(pieces)
<1>1. IsSeq(flat)
  BY FlatFacts
<1>2. \A p \in DOMAIN flat : \E k \in 1..n : \E j \in DOMAIN pieces[k] : flat[p] = pieces[k][j]
  BY FlatFacts
<1> HIDE DEF flat
<1>3. DOMAIN flat = {}
  BY <1>2, EmptyFacts
<1>4. Len(flat) = 0
  BY <1>1, <1>3, SeqFacts
<1>5. flat = <<>>
  BY <1>1, <1>4, SeqFacts
<1> QED
  BY <1>5 DEF flat

\* Pieces put together are the first ones put together, and the others behind them.
IsSplit(pieces, front, m, back, n) ==
    /\ ArePieces(front, m) /\ ArePieces(back, n) /\ ArePieces(pieces, m + n)
    /\ \A k \in 1..m : pieces[k] = front[k]
    /\ \A k \in 1..n : pieces[m + k] = back[k]

LEMMA FlatSplit ==
    ASSUME NEW pieces, NEW front, NEW m, NEW back, NEW n, IsSplit(pieces, front, m, back, n)
    PROVE  FlattenSeq(pieces) = FlattenSeq(front) \o FlattenSeq(back)
<1>1. /\ ArePieces(front, m) /\ ArePieces(back, n) /\ ArePieces(pieces, m + n)
      /\ \A k \in 1..m : pieces[k] = front[k]
      /\ \A k \in 1..n : pieces[m + k] = back[k]
  BY DEF IsSplit
<1>2. m \in Nat /\ n \in Nat /\ \A k \in 1..n : IsSeq(back[k])
  BY <1>1 DEF ArePieces
<1>3. PICK v : Sums(v, pieces, m + n) /\ FlattenSeq(pieces) = v[m + n]
  BY <1>1, FlatSums
<1>4. PICK a : Sums(a, front, m) /\ FlattenSeq(front) = a[m]
  BY <1>1, FlatSums
<1>5. PICK b : Sums(b, back, n) /\ FlattenSeq(back) = b[n]
  BY <1>1, FlatSums
<1>6. v[0] = <<>> /\ a[0] = <<>> /\ b[0] = <<>>
  BY <1>3, <1>4, <1>5 DEF Sums
<1>7. /\ \A k \in 1..(m + n) : v[k] = v[k - 1] \o pieces[k]
      /\ \A k \in 1..m : a[k] = a[k - 1] \o front[k]
      /\ \A k \in 1..n : b[k] = b[k - 1] \o back[k]
  BY <1>3, <1>4, <1>5 DEF Sums
<1>8. (\A k \in 0..m : IsSeq(a[k])) /\ \A k \in 0..n : IsSeq(b[k])
  BY <1>4, <1>5 DEF Sums
<1> DEFINE Wrong == {k \in 0..m : v[k] # a[k]}
           head == a[m]
           fits(k) == v[m + k] = head \o b[k]
           Worse == {k \in 0..n : ~fits(k)}
<1>9. Wrong = {}
  <2>1. SUFFICES ASSUME Wrong # {} PROVE FALSE
    OBVIOUS
  <2>2. PICK k \in Wrong : \A j \in Wrong : k <= j
    <3>1. Wrong \in SUBSET Nat
      BY <1>2
    <3> HIDE DEF Wrong
    <3> QED
      BY <2>1, <3>1, NatMin
  <2>3. k \in 0..m /\ v[k] # a[k]
    OBVIOUS
  <2>4. k \in 1..m /\ k - 1 \in 0..m /\ k - 1 \notin Wrong /\ k \in 1..(m + n)
    BY <1>2, <1>6, <2>2, <2>3
  <2>5. v[k - 1] = a[k - 1] /\ pieces[k] = front[k]
    BY <1>1, <2>4
  <2> QED
    BY <1>7, <2>3, <2>4, <2>5
<1>10. v[m] = a[m] /\ IsSeq(a[m])
  <2>1. m \in 0..m /\ m \notin Wrong
    BY <1>2, <1>9
  <2> QED
    BY <1>8, <2>1
<1> HIDE DEF head
<1>11. \A k : fits(k) <=> v[m + k] = head \o b[k]
  OBVIOUS
<1>12. v[m] = head /\ IsSeq(head)
  BY <1>10 DEF head
<1> HIDE DEF fits
<1>13. Worse = {}
  <2>1. SUFFICES ASSUME Worse # {} PROVE FALSE
    OBVIOUS
  <2>2. PICK k \in Worse : \A j \in Worse : k <= j
    <3>1. Worse \in SUBSET Nat
      BY <1>2
    <3> HIDE DEF Worse
    <3> QED
      BY <2>1, <3>1, NatMin
  <2>3. k \in 0..n /\ ~fits(k)
    OBVIOUS
  <2>4. k # 0
    <3>1. head \o <<>> = head
      BY <1>12, ConcatFacts
    <3>2. m + 0 = m
      BY <1>2
    <3>3. fits(0)
      BY <1>6, <1>11, <1>12, <3>1, <3>2
    <3> QED
      BY <2>3, <3>3
  <2> DEFINE l == k - 1
             p == m + k
  <2>5. l \in 0..n /\ l \notin Worse /\ k \in 1..n /\ p \in 1..(m + n) /\ p - 1 = m + l
    BY <1>2, <2>2, <2>3, <2>4
  <2>6. fits(l)
    BY <2>5
  <2> DEFINE x == b[l]
             y == back[k]
  <2>7. pieces[p] = y /\ b[k] = x \o y /\ IsSeq(y) /\ IsSeq(x)
    BY <1>1, <1>2, <1>7, <1>8, <2>5
  <2>8. v[p] = v[p - 1] \o pieces[p]
    BY <1>7, <2>5
  <2>9. v[p - 1] = head \o x
    BY <1>11, <2>5, <2>6
  <2> HIDE DEF l, p, x, y
  <2>10. (head \o x) \o y = head \o (x \o y)
    BY <1>12, <2>7, ConcatAssoc
  <2>11. v[p] = head \o b[k]
    BY <2>7, <2>8, <2>9, <2>10
  <2>12. fits(k)
    BY <1>11, <2>11 DEF p
  <2> QED
    BY <2>3, <2>12
<1>14. fits(n)
  <2>1. n \in 0..n /\ n \notin Worse
    BY <1>2, <1>13
  <2> QED
    BY <2>1
<1> QED
  BY <1>3, <1>4, <1>5, <1>11, <1>14 DEF head

\* Pieces of which only the last has anything are that one.
LEMMA FlatLast ==
    ASSUME NEW pieces, NEW n, ArePieces(pieces, n), n > 0, \A k \in 1..(n - 1) : pieces[k] = <<>>
    PROVE  FlattenSeq(pieces) = pieces[n]
<1>1. n \in Nat /\ IsSeq(pieces[n])
  BY DEF ArePieces
<1> DEFINE m == n - 1
<1>2. m \in Nat /\ n = m + 1 /\ n \in 1..n
  BY <1>1
<1>3. PICK v : Sums(v, pieces, n) /\ FlattenSeq(pieces) = v[n]
  BY FlatSums
<1>4. v[n] = v[m] \o pieces[n]
  BY <1>2, <1>3 DEF Sums
<1> DEFINE Wrong == {k \in 0..m : v[k] # <<>>}
<1>5. Wrong = {}
  <2>1. SUFFICES ASSUME Wrong # {} PROVE FALSE
    OBVIOUS
  <2>2. PICK k \in Wrong : \A j \in Wrong : k <= j
    <3>1. Wrong \in SUBSET Nat
      BY <1>2
    <3> HIDE DEF Wrong
    <3> QED
      BY <2>1, <3>1, NatMin
  <2>3. k \in 0..m /\ v[k] # <<>>
    OBVIOUS
  <2>4. k # 0
    BY <1>3, <2>3 DEF Sums
  <2>5. k \in 1..n /\ k \in 1..(n - 1) /\ k - 1 \in 0..m /\ k - 1 \notin Wrong
    BY <1>2, <2>2, <2>3, <2>4
  <2>6. v[k] = v[k - 1] \o pieces[k] /\ v[k - 1] = <<>> /\ pieces[k] = <<>>
    BY <1>3, <2>5 DEF Sums
  <2> QED
    BY <2>3, <2>6, NothingBefore, EmptyIsSeq
<1>6. v[m] = <<>>
  BY <1>2, <1>5
<1> QED
  BY <1>1, <1>3, <1>4, <1>6, NothingBefore

LEMMA FlatLacks ==
    ASSUME NEW pieces, NEW n, ArePieces(pieces, n), NEW P
    PROVE  Lacks(FlattenSeq(pieces), P) <=> \A k \in 1..n : Lacks(pieces[k], P)
<1> DEFINE flat == FlattenSeq(pieces)
<1>1. \A p \in DOMAIN flat : \E k \in 1..n : \E j \in DOMAIN pieces[k] : flat[p] = pieces[k][j]
  BY FlatFacts
<1>2. \A k \in 1..n : \A j \in DOMAIN pieces[k] : \E p \in DOMAIN flat : flat[p] = pieces[k][j]
  BY FlatFacts
<1> HIDE DEF flat
<1>3. Lacks(flat, P) <=> \A k \in 1..n : Lacks(pieces[k], P)
  BY <1>1, <1>2 DEF Lacks
<1> QED
  BY <1>3 DEF flat

-----------------------------------------------------------------------------
(* The messages: what their calls and results are, however they came in.    *)

Roles == {"user", "assistant", "tool"}
IsMessage(m) ==
    /\ m = [role |-> m.role, texts |-> m.texts, calls |-> m.calls, results |-> m.results]
    /\ m.role \in Roles /\ IsSeq(m.texts) /\ IsSeq(m.calls) /\ IsSeq(m.results)
    /\ m.calls # <<>> => m.role = "assistant"
    /\ m.results # <<>> => m.role # "assistant"

\* Each call that was shown is in the messages once, under the name that was asked for.
IsCall(c, history) ==
    /\ c.id \in 1..Len(history) /\ c.complete \in BOOLEAN
    /\ history[c.id].asked = c.name
CallsSound(ms, history) ==
    /\ \A i \in DOMAIN ms : \A k \in DOMAIN ms[i].calls : IsCall(ms[i].calls[k], history)
    /\ \A i, j \in DOMAIN ms : \A k \in DOMAIN ms[i].calls, l \in DOMAIN ms[j].calls :
           ms[i].calls[k].id = ms[j].calls[l].id => i = j /\ k = l
    /\ \A id \in 1..Len(history) : \E i \in DOMAIN ms : \E k \in DOMAIN ms[i].calls :
           ms[i].calls[k].id = id

\* Each result is of one item of the input, and of a call that was shown.
IsResult(r, history, count) == r.nr \in 1..count /\ r.call \in 1..Len(history)
ResultsSound(ms, history, count) ==
    /\ \A i \in DOMAIN ms : \A k \in DOMAIN ms[i].results : IsResult(ms[i].results[k], history, count)
    /\ \A i, j \in DOMAIN ms : \A k \in DOMAIN ms[i].results, l \in DOMAIN ms[j].results :
           ms[i].results[k].nr = ms[j].results[l].nr => i = j /\ k = l

MessagesSound(ms, history, count) ==
    /\ IsSeq(ms) /\ IsSeq(history) /\ count \in Nat
    /\ \A i \in DOMAIN ms : IsMessage(ms[i])
    /\ CallsSound(ms, history)
    /\ ResultsSound(ms, history, count)

InputInv ==
    /\ protocol \in Protocols
    /\ previous \in 0..Len(messages) /\ (protocol # "responses" => previous = 0)
    /\ items \in 0..MaxInputs
    /\ MessagesSound(messages, shown, items)

LEMMA MoreItems ==
    ASSUME NEW ms, NEW history, NEW count, MessagesSound(ms, history, count)
    PROVE  MessagesSound(ms, history, count + 1)
<1>1. count \in Nat
  BY DEF MessagesSound
<1>2. ResultsSound(ms, history, count + 1)
  BY <1>1 DEF MessagesSound, ResultsSound, IsResult
<1> QED
  BY <1>1, <1>2 DEF MessagesSound

\* A message without calls and results.
Plain(m) == IsMessage(m) /\ m.calls = <<>> /\ m.results = <<>>

LEMMA PlainMessages ==
    /\ \A role \in Roles : Plain(EmptyMessage(role)) /\ EmptyMessage(role).role = role
    /\ \A role \in Roles : \A n : Plain(TextMessage(role, n))
<1>1. ASSUME NEW role \in Roles
      PROVE  Plain(EmptyMessage(role)) /\ EmptyMessage(role).role = role
  BY EmptyIsSeq DEF EmptyMessage, Plain, IsMessage
<1>2. ASSUME NEW role \in Roles, NEW n
      PROVE  Plain(TextMessage(role, n))
  <2>1. TextMessage(role, n) = [role |-> role, texts |-> <<n>>, calls |-> <<>>, results |-> <<>>]
    BY DEF TextMessage, EmptyMessage
  <2>2. IsSeq(<<n>>)
    BY AppendToNothing
  <2> DEFINE texts == <<n>>
  <2> HIDE DEF texts
  <2>3. Plain([role |-> role, texts |-> texts, calls |-> <<>>, results |-> <<>>])
    BY <2>2, EmptyIsSeq DEF Plain, IsMessage, texts
  <2> QED
    BY <2>1, <2>3 DEF texts
<1> QED
  BY <1>1, <1>2

LEMMA PlainAdded ==
    ASSUME NEW ms, NEW history, NEW count, MessagesSound(ms, history, count), NEW m, Plain(m)
    PROVE  /\ MessagesSound(Append(ms, m), history, count)
           /\ Append(ms, m) # <<>> /\ Append(ms, m)[Len(Append(ms, m))] = m
<1> DEFINE more == Append(ms, m)
           n == Len(ms)
<1>1. /\ IsSeq(ms) /\ IsSeq(history) /\ count \in Nat /\ n \in Nat /\ DOMAIN ms = 1..n
      /\ IsSeq(more) /\ Len(more) = n + 1 /\ DOMAIN more = 1..(n + 1)
      /\ \A i \in 1..n : more[i] = ms[i]
      /\ more[n + 1] = m
  BY SeqFacts, AppendFacts DEF MessagesSound
<1> HIDE DEF more, n
<1>2. \A i \in DOMAIN more : (i \in DOMAIN ms /\ more[i] = ms[i]) \/ more[i] = m
  BY <1>1
<1>3. \A i \in DOMAIN more : IsMessage(more[i])
  BY <1>2 DEF MessagesSound, Plain
<1>4. m.calls = <<>> /\ m.results = <<>> /\ DOMAIN <<>> = {}
  BY EmptyFacts DEF Plain
<1>5. \A i \in DOMAIN more : \A k \in DOMAIN more[i].calls : i \in DOMAIN ms /\ more[i] = ms[i]
  BY <1>2, <1>4
<1>6. \A i \in DOMAIN more : \A k \in DOMAIN more[i].results : i \in DOMAIN ms /\ more[i] = ms[i]
  BY <1>2, <1>4
<1>7. \A i \in DOMAIN ms : i \in DOMAIN more /\ more[i] = ms[i]
  BY <1>1
<1>8. CallsSound(ms, history) /\ ResultsSound(ms, history, count)
  BY DEF MessagesSound
<1>9. CallsSound(more, history)
  BY <1>5, <1>7, <1>8 DEF CallsSound
<1>10. ResultsSound(more, history, count)
  BY <1>6, <1>8 DEF ResultsSound
<1>11. MessagesSound(more, history, count)
  BY <1>1, <1>3, <1>9, <1>10 DEF MessagesSound
<1>12. more # <<>> /\ more[Len(more)] = m
  BY <1>1, SeqFacts
<1> QED
  BY <1>11, <1>12 DEF more

\* The last message is another one now.
Replaced(ms, m) == [i \in DOMAIN ms |-> IF i = Len(ms) THEN m ELSE ms[i]]

ReplacedBy(new, ms, m) ==
    /\ IsSeq(new) /\ Len(new) = Len(ms) /\ DOMAIN new = DOMAIN ms
    /\ new[Len(ms)] = m
    /\ \A i \in DOMAIN ms : i # Len(ms) => new[i] = ms[i]

LEMMA ReplacedFacts ==
    ASSUME NEW ms, IsSeq(ms), ms # <<>>, NEW m
    PROVE  /\ Front(ms) \o <<m>> = Replaced(ms, m)
           /\ ReplacedBy(Replaced(ms, m), ms, m)
           /\ Len(ms) \in Nat /\ Len(ms) > 0 /\ DOMAIN ms = 1..Len(ms)
<1> PICK S : ms \in Seq(S)
  BY DEF IsSeq
<1> DEFINE n == Len(ms)
           T == S \cup {m}
           new == Replaced(ms, m)
           front == Front(ms)
           last == <<m>>
<1>1. ms \in Seq(T) /\ m \in T /\ n \in Nat /\ n > 0 /\ DOMAIN ms = 1..n
  OBVIOUS
<1> HIDE DEF T
<1>2. new = [i \in 1..n |-> new[i]]
  BY <1>1 DEF Replaced
<1>3. \A i \in 1..n : new[i] = IF i = n THEN m ELSE ms[i]
  BY <1>1 DEF Replaced
<1> HIDE DEF new
<1>4. IsSeq(new) /\ Len(new) = n
  BY <1>1, <1>2, FunctionIsSeq
<1>5. /\ front \in Seq(T) /\ Len(front) = n - 1
      /\ \A i \in 1..(n - 1) : front[i] = ms[i]
  BY <1>1 DEF Front
<1>6. last \in Seq(T) /\ Len(last) = 1 /\ last[1] = m
  BY <1>1
<1> HIDE DEF front, last
<1>7. IsSeq(front) /\ IsSeq(last)
  BY <1>5, <1>6 DEF IsSeq
<1> DEFINE both == front \o last
<1>8. IsSeq(both) /\ DOMAIN both = 1..n
  <2>1. DOMAIN both = 1..(Len(front) + Len(last)) /\ IsSeq(both)
    BY <1>7, JoinFacts
  <2>2. Len(front) + Len(last) = n
    BY <1>1, <1>5, <1>6
  <2> QED
    BY <2>1, <2>2
<1>9. \A i \in 1..n : both[i] = IF i = n THEN m ELSE ms[i]
  <2> TAKE i \in 1..n
  <2>1. i \in DOMAIN both /\ DOMAIN front = 1..(n - 1) /\ DOMAIN last = 1..1
    BY <1>5, <1>6, <1>7, <1>8, SeqFacts
  <2>2. \/ i \in DOMAIN front /\ both[i] = front[i]
        \/ i - Len(front) \in DOMAIN last /\ both[i] = last[i - Len(front)]
    BY <1>7, <2>1, JoinPlaces
  <2> HIDE DEF both
  <2>3. CASE i \in DOMAIN front /\ both[i] = front[i]
    BY <1>1, <1>5, <2>1, <2>3
  <2>4. CASE i - Len(front) \in DOMAIN last /\ both[i] = last[i - Len(front)]
    <3>1. i - Len(front) = 1 /\ i = n
      BY <1>1, <1>5, <2>1, <2>4
    <3> QED
      BY <1>6, <2>4, <3>1
  <2> QED
    BY <2>2, <2>3, <2>4
<1> HIDE DEF both
<1>10. Len(both) = n
  <2>1. 1..Len(both) = 1..n /\ Len(both) \in Nat
    BY <1>8, SeqFacts
  <2> QED
    BY <1>1, <2>1
<1>11. both = new
  BY <1>3, <1>4, <1>8, <1>9, <1>10, SameSeq
<1>12. DOMAIN new = 1..n
  BY <1>2
<1>13. ReplacedBy(new, ms, m)
  <2>1. n \in 1..n
    BY <1>1
  <2>2. new[n] = m
    BY <1>3, <2>1
  <2>3. \A i \in DOMAIN ms : i # n => new[i] = ms[i]
    BY <1>1, <1>3
  <2>4. DOMAIN new = DOMAIN ms
    BY <1>1, <1>12
  <2> QED
    BY Zenon, <1>4, <2>2, <2>3, <2>4 DEF ReplacedBy
<1>14. Front(ms) \o <<m>> = new
  BY <1>11 DEF both, front, last
<1>15. n \in Nat /\ n > 0 /\ DOMAIN ms = 1..n
  BY <1>1
<1> QED
  BY Zenon, <1>13, <1>14, <1>15 DEF new

\* A message that is appended as it is made is one that is changed as soon as it is there.
LEMMA AppendReplaced ==
    ASSUME NEW ms, IsSeq(ms), NEW old, NEW m
    PROVE  Append(ms, m) = Replaced(Append(ms, old), m)
<1> DEFINE n == Len(ms)
           a == Append(ms, old)
           b == Append(ms, m)
<1>1. IsSeq(a) /\ Len(a) = n + 1 /\ DOMAIN a = 1..(n + 1) /\ \A i \in 1..n : a[i] = ms[i]
  BY AppendFacts
<1>2. /\ IsSeq(b) /\ Len(b) = n + 1 /\ DOMAIN b = 1..(n + 1)
      /\ b[n + 1] = m /\ \A i \in 1..n : b[i] = ms[i]
  BY AppendFacts
<1>3. n \in Nat
  BY SeqFacts
<1> HIDE DEF a, b, n
<1> DEFINE c == Replaced(a, m)
<1>4. a # <<>>
  BY <1>1, <1>3, SeqFacts
<1>a. ReplacedBy(c, a, m)
  BY <1>1, <1>4, ReplacedFacts
<1> HIDE DEF c
<1>5. /\ IsSeq(c) /\ Len(c) = n + 1 /\ DOMAIN c = 1..(n + 1)
      /\ c[n + 1] = m /\ \A i \in 1..(n + 1) : i # n + 1 => c[i] = a[i]
  BY <1>1, <1>a DEF ReplacedBy
<1>6. \A i \in 1..(n + 1) : b[i] = c[i]
  <2> TAKE i \in 1..(n + 1)
  <2>1. i = n + 1 \/ i \in 1..n
    BY <1>3
  <2> QED
    BY <1>1, <1>2, <1>5, <2>1
<1>7. b = c
  BY <1>2, <1>5, <1>6, SameSeq
<1> QED
  BY <1>7 DEF a, b, c

LEMMA WithCallFacts ==
    ASSUME NEW m, IsMessage(m), m.role = "assistant", NEW call
    PROVE  /\ IsMessage(WithCall(m, call))
           /\ WithCall(m, call).calls = Append(m.calls, call)
           /\ WithCall(m, call).results = m.results
<1> DEFINE calls == Append(m.calls, call)
<1>1. IsSeq(calls)
  BY AppendFacts DEF IsMessage
<1> HIDE DEF calls
<1> DEFINE new == [role |-> m.role, texts |-> m.texts, calls |-> calls, results |-> m.results]
<1>2. IsMessage(new) /\ new.calls = calls /\ new.results = m.results
  BY <1>1 DEF IsMessage
<1>3. WithCall(m, call) = new
  <2> DEFINE r == m.role
             t == m.texts
             c == m.calls
             s == m.results
  <2>1. m = [role |-> r, texts |-> t, calls |-> c, results |-> s]
    BY DEF IsMessage
  <2> HIDE DEF r, t, c, s
  <2>2. WithCall(m, call) = [role |-> r, texts |-> t, calls |-> Append(c, call), results |-> s]
    BY <2>1 DEF WithCall
  <2> QED
    BY <2>2 DEF r, t, c, s, calls
<1> HIDE DEF new
<1> QED
  BY <1>2, <1>3 DEF calls

LEMMA WithResultFacts ==
    ASSUME NEW m, IsMessage(m), m.role # "assistant", NEW result
    PROVE  /\ IsMessage(WithResult(m, result))
           /\ WithResult(m, result).results = Append(m.results, result)
           /\ WithResult(m, result).calls = m.calls
<1> DEFINE results == Append(m.results, result)
<1>1. IsSeq(results)
  BY AppendFacts DEF IsMessage
<1> HIDE DEF results
<1> DEFINE new == [role |-> m.role, texts |-> m.texts, calls |-> m.calls, results |-> results]
<1>2. IsMessage(new) /\ new.results = results /\ new.calls = m.calls
  BY <1>1 DEF IsMessage
<1>3. WithResult(m, result) = new
  <2> DEFINE r == m.role
             t == m.texts
             c == m.calls
             s == m.results
  <2>1. m = [role |-> r, texts |-> t, calls |-> c, results |-> s]
    BY DEF IsMessage
  <2> HIDE DEF r, t, c, s
  <2>2. WithResult(m, result) = [role |-> r, texts |-> t, calls |-> c, results |-> Append(s, result)]
    BY <2>1 DEF WithResult
  <2> QED
    BY <2>2 DEF r, t, c, s, results
<1> HIDE DEF new
<1> QED
  BY <1>2, <1>3 DEF results

\* A call of the last message, and in it, is the next call of the conversation.
LEMMA CallAdded ==
    ASSUME NEW ms, NEW history, NEW count, MessagesSound(ms, history, count), ms # <<>>,
           ms[Len(ms)].role = "assistant",
           NEW call, call.id = Len(history) + 1, call.complete \in BOOLEAN,
           NEW entry, entry.asked = call.name
    PROVE  MessagesSound(Replaced(ms, WithCall(ms[Len(ms)], call)), Append(history, entry), count)
<1> DEFINE n == Len(ms)
           old == ms[n]
           w == WithCall(old, call)
           new == Replaced(ms, w)
           more == Append(history, entry)
           L == Len(history)
           p == Len(old.calls)
<1>1. /\ IsSeq(ms) /\ IsSeq(history) /\ count \in Nat
      /\ CallsSound(ms, history) /\ ResultsSound(ms, history, count)
      /\ \A i \in DOMAIN ms : IsMessage(ms[i])
  BY DEF MessagesSound
<1>2. n \in Nat /\ n > 0 /\ DOMAIN ms = 1..n /\ ReplacedBy(new, ms, w)
  BY <1>1, ReplacedFacts
<1>3. IsMessage(old) /\ old.role = "assistant"
  BY <1>1, <1>2
<1>4. IsMessage(w) /\ w.calls = Append(old.calls, call) /\ w.results = old.results
  BY <1>3, WithCallFacts
<1>5. /\ IsSeq(more) /\ Len(more) = L + 1 /\ L \in Nat /\ DOMAIN history = 1..L
      /\ more[L + 1] = entry /\ \A i \in 1..L : more[i] = history[i]
  BY <1>1, AppendFacts, SeqFacts
<1>6. /\ p \in Nat /\ DOMAIN old.calls = 1..p /\ DOMAIN w.calls = 1..(p + 1)
      /\ w.calls[p + 1] = call /\ \A k \in 1..p : w.calls[k] = old.calls[k]
  BY <1>3, <1>4, AppendFacts, SeqFacts DEF IsMessage
<1> HIDE DEF new, w, more, p
<1>7. /\ IsSeq(new) /\ DOMAIN new = DOMAIN ms /\ n \in DOMAIN ms /\ new[n] = w
      /\ \A i \in DOMAIN ms : i # n => new[i] = ms[i]
  BY <1>2 DEF ReplacedBy
<1> DEFINE q == p + 1
<1>8. \A i \in DOMAIN new : \A k \in DOMAIN new[i].calls :
          \/ i = n /\ k = q /\ new[i].calls[k] = call
          \/ i \in DOMAIN ms /\ k \in DOMAIN ms[i].calls /\ new[i].calls[k] = ms[i].calls[k]
  BY <1>6, <1>7
<1>9. \A i \in DOMAIN ms : \A k \in DOMAIN ms[i].calls :
          /\ i \in DOMAIN new /\ k \in DOMAIN new[i].calls
          /\ new[i].calls[k] = ms[i].calls[k]
  BY <1>6, <1>7
<1>10. n \in DOMAIN new /\ q \in DOMAIN new[n].calls /\ new[n].calls[q] = call
  BY <1>6, <1>7
<1>11. \A i \in DOMAIN new : i \in DOMAIN ms /\ IsMessage(new[i]) /\ new[i].results = ms[i].results
  BY <1>1, <1>4, <1>7
<1> HIDE DEF q
<1>12. IsCall(call, more) /\ \A c : IsCall(c, history) => IsCall(c, more) /\ c.id # call.id
  <2>1. IsCall(call, more)
    BY <1>5 DEF IsCall
  <2>2. ASSUME NEW c, IsCall(c, history) PROVE IsCall(c, more) /\ c.id # call.id
    BY <1>5, <2>2 DEF IsCall
  <2> QED
    BY <2>1, <2>2
<1>13. \A i \in DOMAIN ms : \A k \in DOMAIN ms[i].calls : IsCall(ms[i].calls[k], history)
  BY <1>1 DEF CallsSound
<1>14. CallsSound(new, more)
  <2>1. \A i \in DOMAIN new : \A k \in DOMAIN new[i].calls : IsCall(new[i].calls[k], more)
    BY <1>8, <1>12, <1>13
  <2>2. ASSUME NEW i \in DOMAIN new, NEW j \in DOMAIN new,
               NEW k \in DOMAIN new[i].calls, NEW l \in DOMAIN new[j].calls,
               new[i].calls[k].id = new[j].calls[l].id
        PROVE  i = j /\ k = l
    <3>1. CASE i = n /\ k = q /\ new[i].calls[k] = call
      BY <1>8, <1>12, <1>13, <2>2, <3>1
    <3>2. CASE j = n /\ l = q /\ new[j].calls[l] = call
      BY <1>8, <1>12, <1>13, <2>2, <3>2
    <3>3. CASE /\ i \in DOMAIN ms /\ k \in DOMAIN ms[i].calls /\ new[i].calls[k] = ms[i].calls[k]
               /\ j \in DOMAIN ms /\ l \in DOMAIN ms[j].calls /\ new[j].calls[l] = ms[j].calls[l]
      BY <1>1, <2>2, <3>3 DEF CallsSound
    <3> QED
      BY <1>8, <3>1, <3>2, <3>3
  <2>3. ASSUME NEW id \in 1..Len(more)
        PROVE  \E i \in DOMAIN new : \E k \in DOMAIN new[i].calls : new[i].calls[k].id = id
    <3>1. CASE id = L + 1
      BY <1>10, <3>1
    <3>2. CASE id \in 1..L
      <4>1. PICK i \in DOMAIN ms : \E k \in DOMAIN ms[i].calls : ms[i].calls[k].id = id
        BY <1>1, <3>2 DEF CallsSound
      <4>2. PICK k \in DOMAIN ms[i].calls : ms[i].calls[k].id = id
        BY <4>1
      <4> QED
        BY <1>9, <4>2
    <3> QED
      BY <1>5, <3>1, <3>2
  <2> QED
    BY <2>1, <2>2, <2>3 DEF CallsSound
<1>15. ResultsSound(new, more, count)
  <2>1. \A r : IsResult(r, history, count) => IsResult(r, more, count)
    BY <1>5 DEF IsResult
  <2> QED
    BY <1>1, <1>11, <2>1 DEF ResultsSound
<1>16. MessagesSound(new, more, count)
  BY <1>1, <1>5, <1>7, <1>11, <1>14, <1>15 DEF MessagesSound
<1> QED
  BY <1>16 DEF new, w, more

\* A result in the last message is the one of the next item.
LEMMA ResultAdded ==
    ASSUME NEW ms, NEW history, NEW count, MessagesSound(ms, history, count), ms # <<>>,
           ms[Len(ms)].role # "assistant",
           NEW result, result.nr = count + 1, result.call \in 1..Len(history)
    PROVE  MessagesSound(Replaced(ms, WithResult(ms[Len(ms)], result)), history, count + 1)
<1> DEFINE n == Len(ms)
           old == ms[n]
           w == WithResult(old, result)
           new == Replaced(ms, w)
           next == count + 1
           p == Len(old.results)
<1>1. /\ IsSeq(ms) /\ IsSeq(history) /\ count \in Nat
      /\ CallsSound(ms, history) /\ ResultsSound(ms, history, count)
      /\ \A i \in DOMAIN ms : IsMessage(ms[i])
  BY DEF MessagesSound
<1>2. n \in Nat /\ n > 0 /\ DOMAIN ms = 1..n /\ ReplacedBy(new, ms, w)
  BY <1>1, ReplacedFacts
<1>3. IsMessage(old) /\ old.role # "assistant"
  BY <1>1, <1>2
<1>4. IsMessage(w) /\ w.results = Append(old.results, result) /\ w.calls = old.calls
  BY <1>3, WithResultFacts
<1>6. /\ p \in Nat /\ DOMAIN old.results = 1..p /\ DOMAIN w.results = 1..(p + 1)
      /\ w.results[p + 1] = result /\ \A k \in 1..p : w.results[k] = old.results[k]
  BY <1>3, <1>4, AppendFacts, SeqFacts DEF IsMessage
<1> HIDE DEF new, w, p
<1>7. /\ IsSeq(new) /\ DOMAIN new = DOMAIN ms /\ n \in DOMAIN ms /\ new[n] = w
      /\ \A i \in DOMAIN ms : i # n => new[i] = ms[i]
  BY <1>2 DEF ReplacedBy
<1> DEFINE q == p + 1
<1>8. \A i \in DOMAIN new : \A k \in DOMAIN new[i].results :
          \/ i = n /\ k = q /\ new[i].results[k] = result
          \/ i \in DOMAIN ms /\ k \in DOMAIN ms[i].results /\ new[i].results[k] = ms[i].results[k]
  BY <1>6, <1>7
<1>11. /\ DOMAIN new = DOMAIN ms
       /\ \A i \in DOMAIN ms : IsMessage(new[i]) /\ new[i].calls = ms[i].calls
  BY <1>1, <1>4, <1>7
<1> HIDE DEF q
<1>12. IsResult(result, history, next) /\ \A r : IsResult(r, history, count) =>
                                                    IsResult(r, history, next) /\ r.nr # result.nr
  <2>1. IsResult(result, history, next)
    BY <1>1 DEF IsResult
  <2>2. ASSUME NEW r, IsResult(r, history, count) PROVE IsResult(r, history, next) /\ r.nr # result.nr
    BY <1>1, <2>2 DEF IsResult
  <2> QED
    BY <2>1, <2>2
<1>13. \A i \in DOMAIN ms : \A k \in DOMAIN ms[i].results : IsResult(ms[i].results[k], history, count)
  BY <1>1 DEF ResultsSound
<1>14. ResultsSound(new, history, next)
  <2>1. \A i \in DOMAIN new : \A k \in DOMAIN new[i].results : IsResult(new[i].results[k], history, next)
    BY <1>8, <1>12, <1>13
  <2>2. ASSUME NEW i \in DOMAIN new, NEW j \in DOMAIN new,
               NEW k \in DOMAIN new[i].results, NEW l \in DOMAIN new[j].results,
               new[i].results[k].nr = new[j].results[l].nr
        PROVE  i = j /\ k = l
    <3>1. CASE i = n /\ k = q /\ new[i].results[k] = result
      BY <1>8, <1>12, <1>13, <2>2, <3>1
    <3>2. CASE j = n /\ l = q /\ new[j].results[l] = result
      BY <1>8, <1>12, <1>13, <2>2, <3>2
    <3>3. CASE /\ i \in DOMAIN ms /\ k \in DOMAIN ms[i].results /\ new[i].results[k] = ms[i].results[k]
               /\ j \in DOMAIN ms /\ l \in DOMAIN ms[j].results /\ new[j].results[l] = ms[j].results[l]
      BY <1>1, <2>2, <3>3 DEF ResultsSound
    <3> QED
      BY <1>8, <3>1, <3>2, <3>3
  <2> QED
    BY <2>1, <2>2 DEF ResultsSound
<1>15. CallsSound(new, history)
  BY <1>1, <1>11 DEF CallsSound
<1>16. MessagesSound(new, history, next)
  BY <1>1, <1>7, <1>11, <1>14, <1>15 DEF MessagesSound
<1> QED
  BY <1>16 DEF new, w

\* The first n messages are as they were, and none is gone.
Keeps(new, ms, n) == IsSeq(new) /\ Len(ms) <= Len(new) /\ \A i \in 1..n : new[i] = ms[i]

LEMMA CallJoined ==
    ASSUME NEW ms, NEW history, NEW count, MessagesSound(ms, history, count), ms # <<>>,
           Last(ms).role = "assistant",
           NEW call, call.id = Len(history) + 1, call.complete \in BOOLEAN,
           NEW entry, entry.asked = call.name
    PROVE  /\ MessagesSound(Front(ms) \o <<WithCall(Last(ms), call)>>, Append(history, entry), count)
           /\ Keeps(Front(ms) \o <<WithCall(Last(ms), call)>>, ms, Len(ms) - 1)
<1> DEFINE w == WithCall(ms[Len(ms)], call)
           new == Replaced(ms, w)
           more == Append(history, entry)
           n == Len(ms)
<1>1. Last(ms) = ms[n]
  BY DEF Last
<1>2. MessagesSound(new, more, count)
  BY <1>1, CallAdded
<1>3. IsSeq(ms)
  BY DEF MessagesSound
<1> DEFINE joined == Front(ms) \o <<w>>
<1>4. joined = new /\ ReplacedBy(new, ms, w) /\ n \in Nat /\ DOMAIN ms = 1..n
  BY <1>3, ReplacedFacts
<1> HIDE DEF joined, new, n
<1>5. Keeps(new, ms, n - 1)
  BY <1>4 DEF ReplacedBy, Keeps, n
<1>6. MessagesSound(joined, more, count) /\ Keeps(joined, ms, n - 1)
  BY <1>2, <1>4, <1>5
<1> QED
  BY Zenon, <1>1, <1>6 DEF joined, w, more, n

LEMMA ResultJoined ==
    ASSUME NEW ms, NEW history, NEW count, MessagesSound(ms, history, count), ms # <<>>,
           Last(ms).role # "assistant",
           NEW result, result.nr = count + 1, result.call \in 1..Len(history)
    PROVE  /\ MessagesSound(Front(ms) \o <<WithResult(Last(ms), result)>>, history, count + 1)
           /\ Keeps(Front(ms) \o <<WithResult(Last(ms), result)>>, ms, Len(ms) - 1)
<1> DEFINE w == WithResult(ms[Len(ms)], result)
           new == Replaced(ms, w)
           next == count + 1
           n == Len(ms)
<1>1. Last(ms) = ms[n]
  BY DEF Last
<1>2. MessagesSound(new, history, next)
  BY <1>1, ResultAdded
<1>3. IsSeq(ms)
  BY DEF MessagesSound
<1> DEFINE joined == Front(ms) \o <<w>>
<1>4. joined = new /\ ReplacedBy(new, ms, w) /\ n \in Nat /\ DOMAIN ms = 1..n
  BY <1>3, ReplacedFacts
<1> HIDE DEF joined, new, n, next
<1>5. Keeps(new, ms, n - 1)
  BY <1>4 DEF ReplacedBy, Keeps, n
<1>6. MessagesSound(joined, history, next) /\ Keeps(joined, ms, n - 1)
  BY <1>2, <1>4, <1>5
<1> QED
  BY Zenon, <1>1, <1>6 DEF joined, w, next, n

LEMMA MessageAppended ==
    ASSUME NEW ms, IsSeq(ms), NEW m
    PROVE  Keeps(Append(ms, m), ms, Len(ms))
<1> DEFINE more == Append(ms, m)
           n == Len(ms)
<1>1. n \in Nat /\ IsSeq(more) /\ Len(more) = n + 1 /\ \A i \in 1..n : more[i] = ms[i]
  BY AppendFacts, SeqFacts
<1> HIDE DEF more, n
<1>2. Keeps(more, ms, n)
  BY <1>1 DEF Keeps, n
<1> QED
  BY <1>2 DEF more, n

LEMMA CallAppended ==
    ASSUME NEW ms, NEW history, NEW count, MessagesSound(ms, history, count),
           NEW call, call.id = Len(history) + 1, call.complete \in BOOLEAN,
           NEW entry, entry.asked = call.name
    PROVE  MessagesSound(Append(ms, WithCall(EmptyMessage("assistant"), call)),
                         Append(history, entry), count)
<1> DEFINE empty == EmptyMessage("assistant")
           begun == Append(ms, empty)
           w == WithCall(empty, call)
           more == Append(history, entry)
<1>1. Plain(empty) /\ empty.role = "assistant"
  BY PlainMessages DEF Roles
<1> HIDE DEF empty
<1>2. MessagesSound(begun, history, count) /\ begun # <<>> /\ begun[Len(begun)] = empty
  BY <1>1, PlainAdded
<1>3. IsSeq(ms)
  BY DEF MessagesSound
<1>4. Append(ms, w) = Replaced(begun, w)
  BY <1>3, AppendReplaced
<1> HIDE DEF begun
<1>5. MessagesSound(Replaced(begun, WithCall(begun[Len(begun)], call)), more, count)
  BY <1>1, <1>2, CallAdded
<1>6. MessagesSound(Append(ms, w), more, count)
  BY <1>2, <1>4, <1>5
<1> QED
  BY <1>6 DEF empty, w, more

LEMMA ResultAppended ==
    ASSUME NEW ms, NEW history, NEW count, MessagesSound(ms, history, count),
           NEW role \in {"user", "tool"},
           NEW result, result.nr = count + 1, result.call \in 1..Len(history)
    PROVE  MessagesSound(Append(ms, WithResult(EmptyMessage(role), result)), history, count + 1)
<1> DEFINE empty == EmptyMessage(role)
           begun == Append(ms, empty)
           w == WithResult(empty, result)
           next == count + 1
<1>1. Plain(empty) /\ empty.role # "assistant"
  <2>1. role \in Roles /\ role # "assistant"
    BY DEF Roles
  <2> QED
    BY <2>1, PlainMessages
<1> HIDE DEF empty
<1>2. MessagesSound(begun, history, count) /\ begun # <<>> /\ begun[Len(begun)] = empty
  BY <1>1, PlainAdded
<1>3. IsSeq(ms)
  BY DEF MessagesSound
<1>4. Append(ms, w) = Replaced(begun, w)
  BY <1>3, AppendReplaced
<1> HIDE DEF begun
<1>5. MessagesSound(Replaced(begun, WithResult(begun[Len(begun)], result)), history, next)
  BY <1>1, <1>2, ResultAdded
<1>6. MessagesSound(Append(ms, w), history, next)
  BY <1>2, <1>4, <1>5
<1> QED
  BY <1>6 DEF empty, w, next

-----------------------------------------------------------------------------
(* The invariant is kept, and so are the stored messages.                   *)

\* A call that the client replays is of the tool that was asked for, whatever it was shown as.
LEMMA ShownAgain == \A name : ReplayedName(Shown(name)) = name
<1> TAKE name
<1>1. CASE CustomInfo(name) # {}
  <2> DEFINE t == CHOOSE t \in CustomInfo(name) : TRUE
  <2>1. t \in CustomInfo(name) /\ Shown(name) = t
    BY <1>1 DEF Shown
  <2> HIDE DEF t
  <2>2. protocol = "responses" /\ t.custom /\ UpstreamName(t) = name
    BY <2>1 DEF CustomInfo
  <2> QED
    BY <2>1, <2>2 DEF UpstreamName, ReplayedName
<1>2. CASE CustomInfo(name) = {}
  BY <1>2 DEF Shown, ReplayedName
<1> QED
  BY <1>1, <1>2

\* What is asked for, and the note of it.
LEMMA AskedFacts ==
    ASSUME NEW name, NEW complete \in BOOLEAN
    PROVE  /\ Asked(name, complete).id = Len(shown) + 1
           /\ Asked(name, complete).complete = complete
           /\ Asked(name, complete).name = name
           /\ AskedAndStored(name, complete).id = Len(shown) + 1
           /\ AskedAndStored(name, complete).complete = complete
           /\ AskedAndStored(name, complete).name = name
BY ShownAgain DEF Asked, AskedAndStored

THEOREM InputStart == InputInit => InputInv
<1> SUFFICES ASSUME InputInit PROVE InputInv
  OBVIOUS
<1>1. /\ protocol \in Protocols /\ previous = 0 /\ items = 0
      /\ messages = <<>> /\ shown = <<>>
  BY DEF InputInit
<1>2. DOMAIN <<>> = {} /\ Len(<<>>) = 0 /\ IsSeq(<<>>)
  BY EmptyFacts, EmptyIsSeq
<1>3. MessagesSound(messages, shown, items)
  BY <1>1, <1>2 DEF MessagesSound, CallsSound, ResultsSound
<1>4. previous \in 0..Len(messages) /\ items \in 0..MaxInputs
  BY <1>1, <1>2, InputAssumption
<1> QED
  BY <1>1, <1>3, <1>4 DEF InputInv

\* A step leaves the previous messages as they were and keeps what is sound.
Steps == InputInv' /\ Keeps(messages', messages, previous)

LEMMA StepFacts ==
    ASSUME InputInv, protocol' = protocol, previous' = previous, HasRoom, Counts,
           NEW n \in Int, Keeps(messages', messages, n), previous <= n,
           MessagesSound(messages', shown', items')
    PROVE  Steps
<1>1. /\ previous \in 0..Len(messages) /\ (protocol # "responses" => previous = 0)
      /\ protocol \in Protocols /\ items \in 0..MaxInputs /\ IsSeq(messages)
  BY DEF InputInv, MessagesSound
<1>2. items' \in 0..MaxInputs
  BY <1>1, InputAssumption DEF HasRoom, Counts
<1>3. IsSeq(messages') /\ Len(messages) <= Len(messages')
  BY DEF Keeps
<1>4. Len(messages) \in Nat /\ Len(messages') \in Nat
  BY <1>1, <1>3, SeqFacts
<1>5. previous' \in 0..Len(messages')
  BY <1>1, <1>3, <1>4
<1>6. InputInv'
  BY <1>1, <1>2, <1>5 DEF InputInv
<1>7. Keeps(messages', messages, previous)
  BY <1>1, <1>4 DEF Keeps
<1> QED
  BY <1>6, <1>7 DEF Steps

\* A message is appended.
LEMMA AppendStep ==
    ASSUME InputInv, protocol' = protocol, previous' = previous, HasRoom, Counts,
           NEW m, messages' = Append(messages, m),
           MessagesSound(messages', shown', items')
    PROVE  Steps
<1>1. IsSeq(messages) /\ previous \in 0..Len(messages)
  BY DEF InputInv, MessagesSound
<1>2. Len(messages) \in Int /\ previous <= Len(messages)
  BY <1>1, SeqFacts
<1>3. Keeps(messages', messages, Len(messages))
  BY <1>1, MessageAppended
<1> QED
  BY <1>2, <1>3, StepFacts

\* The messages stay as they are.
LEMMA StillStep ==
    ASSUME InputInv, protocol' = protocol, previous' = previous, HasRoom, Counts,
           messages' = messages, shown' = shown
    PROVE  Steps
<1>1. IsSeq(messages) /\ previous \in 0..Len(messages) /\ MessagesSound(messages, shown, items)
  BY DEF InputInv, MessagesSound
<1>2. Len(messages) \in Int /\ previous <= Len(messages)
  BY <1>1, SeqFacts
<1>3. Keeps(messages', messages, Len(messages))
  BY <1>1, <1>2 DEF Keeps
<1>4. MessagesSound(messages', shown', items')
  BY <1>1, MoreItems DEF Counts
<1> QED
  BY <1>2, <1>3, <1>4, StepFacts

LEMMA MessageItemSteps ==
    ASSUME InputInv, NEW role \in {"user", "assistant"}, MessageItem(role)
    PROVE  Steps
<1>1. /\ protocol' = protocol /\ previous' = previous /\ HasRoom /\ Counts /\ shown' = shown
      /\ messages' = Append(messages, TextMessage(role, Number))
  BY DEF MessageItem
<1>2. Plain(TextMessage(role, Number))
  BY PlainMessages DEF Roles
<1>3. MessagesSound(messages, shown, items + 1)
  BY MoreItems DEF InputInv
<1> DEFINE m == TextMessage(role, Number)
<1> HIDE DEF m
<1>4. MessagesSound(Append(messages, m), shown, items + 1)
  BY <1>2, <1>3, PlainAdded DEF m
<1>5. MessagesSound(messages', shown', items')
  BY <1>1, <1>4 DEF Counts, m
<1> QED
  BY <1>1, <1>5, AppendStep

\* What a new call is noted with.
LEMMA CallsFacts ==
    ASSUME InputInv, NEW name, NEW complete, Calls(name, complete)
    PROVE  \E entry : entry.asked = name /\ shown' = Append(shown, entry)
<1> DEFINE entry == [asked |-> name, item |-> Shown(name)]
<1>1. shown' = Append(shown, entry) /\ entry.asked = name
  BY DEF Calls, Note
<1> QED
  BY <1>1

LEMMA AppendedCallSteps ==
    ASSUME InputInv, protocol' = protocol, previous' = previous, HasRoom, Counts,
           NEW name, NEW complete \in BOOLEAN, Calls(name, complete),
           NEW call, call \in {Asked(name, complete), AskedAndStored(name, complete)},
           messages' = Append(messages, WithCall(EmptyMessage("assistant"), call))
    PROVE  Steps
<1>1. PICK entry : entry.asked = name /\ shown' = Append(shown, entry)
  BY CallsFacts
<1>2. call.id = Len(shown) + 1 /\ call.complete \in BOOLEAN /\ entry.asked = call.name
  BY <1>1, AskedFacts
<1>3. MessagesSound(messages, shown, items + 1)
  BY MoreItems DEF InputInv
<1>4. MessagesSound(Append(messages, WithCall(EmptyMessage("assistant"), call)),
                    Append(shown, entry), items + 1)
  BY <1>2, <1>3, CallAppended
<1>5. MessagesSound(messages', shown', items')
  BY <1>1, <1>4 DEF Counts
<1> DEFINE w == WithCall(EmptyMessage("assistant"), call)
<1>6. messages' = Append(messages, w)
  OBVIOUS
<1> HIDE DEF w
<1> QED
  BY <1>5, <1>6, AppendStep

LEMMA JoinedCallSteps ==
    ASSUME InputInv, protocol' = protocol, previous' = previous, HasRoom, Counts,
           NEW name, NEW complete \in BOOLEAN, Calls(name, complete),
           messages # <<>>, Last(messages).role = "assistant", previous < Len(messages),
           messages' = Front(messages) \o <<WithCall(Last(messages), Asked(name, complete))>>
    PROVE  Steps
<1> DEFINE call == Asked(name, complete)
           joined == Front(messages) \o <<WithCall(Last(messages), call)>>
           n == Len(messages) - 1
<1>1. PICK entry : entry.asked = name /\ shown' = Append(shown, entry)
  BY CallsFacts
<1>2. call.id = Len(shown) + 1 /\ call.complete \in BOOLEAN /\ entry.asked = call.name
  BY <1>1, AskedFacts
<1>3. MessagesSound(messages, shown, items + 1)
  BY MoreItems DEF InputInv
<1> HIDE DEF call
<1>4. MessagesSound(joined, Append(shown, entry), items + 1) /\ Keeps(joined, messages, n)
  BY <1>2, <1>3, CallJoined
<1>5. messages' = joined
  BY DEF call
<1> HIDE DEF joined
<1>6. MessagesSound(messages', shown', items') /\ Keeps(messages', messages, n)
  BY <1>1, <1>4, <1>5 DEF Counts
<1>7. n \in Int /\ previous <= n
  <2>1. IsSeq(messages) /\ previous \in 0..Len(messages)
    BY DEF InputInv, MessagesSound
  <2>2. Len(messages) \in Nat
    BY <2>1, SeqFacts
  <2> QED
    BY <2>1, <2>2
<1> HIDE DEF n
<1> QED
  BY <1>6, <1>7, StepFacts

LEMMA SomeMessages == InputInv /\ messages # <<>> => Len(messages) \in Nat /\ Len(messages) > 0
BY SeqFacts DEF InputInv, MessagesSound

LEMMA CallItemSteps ==
    ASSUME InputInv, NEW name, NEW complete \in BOOLEAN, CallItem(name, complete)
    PROVE  Steps
<1>1. /\ protocol' = protocol /\ previous' = previous /\ HasRoom /\ Counts /\ Calls(name, complete)
      /\ AppendCall(Asked(name, complete))
  BY DEF CallItem
<1>2. CASE CanMerge
  <2>1. /\ Len(messages) > previous /\ Last(messages).role = "assistant"
        /\ messages' = Front(messages) \o <<WithCall(Last(messages), Asked(name, complete))>>
    BY <1>1, <1>2 DEF CanMerge, AppendCall
  <2>2. messages # <<>> /\ previous < Len(messages)
    <3>1. previous \in 0..Len(messages) /\ IsSeq(messages)
      BY DEF InputInv, MessagesSound
    <3>2. Len(messages) \in Nat /\ Len(<<>>) = 0
      BY <3>1, SeqFacts, EmptyFacts
    <3> QED
      BY <2>1, <3>1, <3>2
  <2> QED
    BY <1>1, <2>1, <2>2, JoinedCallSteps
<1>3. CASE ~CanMerge
  <2>1. messages' = Append(messages, WithCall(EmptyMessage("assistant"), Asked(name, complete)))
    BY <1>1, <1>3 DEF AppendCall
  <2> DEFINE call == Asked(name, complete)
  <2>2. call \in {Asked(name, complete), AskedAndStored(name, complete)}
    OBVIOUS
  <2> HIDE DEF call
  <2>3. messages' = Append(messages, WithCall(EmptyMessage("assistant"), call))
    BY <2>1 DEF call
  <2> QED
    BY <1>1, <2>2, <2>3, AppendedCallSteps
<1> QED
  BY <1>2, <1>3

LEMMA AssistantCallsSteps ==
    ASSUME InputInv, NEW name, NEW complete \in BOOLEAN, NEW joins \in BOOLEAN,
           AssistantCalls(name, complete, joins)
    PROVE  Steps
<1>1. /\ protocol' = protocol /\ previous' = previous /\ HasRoom /\ Counts /\ Calls(name, complete)
      /\ protocol # "responses"
  BY DEF AssistantCalls
<1>2. CASE joins
  <2>1. /\ messages # <<>> /\ Last(messages).role = "assistant"
        /\ messages' = Front(messages) \o <<WithCall(Last(messages), Asked(name, complete))>>
    BY <1>2 DEF AssistantCalls
  <2>2. previous < Len(messages)
    BY <1>1, <2>1, SomeMessages DEF InputInv
  <2> QED
    BY <1>1, <2>1, <2>2, JoinedCallSteps
<1>3. CASE ~joins
  <2>1. messages' = Append(messages, WithCall(EmptyMessage("assistant"), Asked(name, complete)))
    BY <1>3 DEF AssistantCalls
  <2> DEFINE call == Asked(name, complete)
  <2>2. call \in {Asked(name, complete), AskedAndStored(name, complete)}
    OBVIOUS
  <2> HIDE DEF call
  <2>3. messages' = Append(messages, WithCall(EmptyMessage("assistant"), call))
    BY <2>1 DEF call
  <2> QED
    BY <1>1, <2>2, <2>3, AppendedCallSteps
<1> QED
  BY <1>2, <1>3

\* From then on all the messages are stored ones.
LEMMA ContinueSteps ==
    ASSUME InputInv, NEW name, NEW complete \in BOOLEAN, ContinueFromStored(name, complete)
    PROVE  Steps
<1> DEFINE call == AskedAndStored(name, complete)
           w == WithCall(EmptyMessage("assistant"), call)
<1>1. /\ protocol' = protocol /\ HasRoom /\ Counts /\ Calls(name, complete)
      /\ protocol = "responses" /\ previous' = Len(messages') /\ messages' = Append(messages, w)
  BY DEF ContinueFromStored
<1>2. PICK entry : entry.asked = name /\ shown' = Append(shown, entry)
  BY <1>1, CallsFacts
<1>3. call.id = Len(shown) + 1 /\ call.complete \in BOOLEAN /\ entry.asked = call.name
  BY <1>2, AskedFacts
<1>4. MessagesSound(messages, shown, items + 1)
  BY MoreItems DEF InputInv
<1> HIDE DEF call
<1>5. MessagesSound(Append(messages, w), Append(shown, entry), items + 1)
  BY <1>3, <1>4, CallAppended
<1> HIDE DEF w
<1>6. MessagesSound(messages', shown', items')
  BY <1>1, <1>2, <1>5 DEF Counts
<1>7. IsSeq(messages) /\ previous \in 0..Len(messages) /\ protocol \in Protocols
  BY DEF InputInv, MessagesSound
<1>8. Keeps(messages', messages, Len(messages)) /\ Len(messages) \in Nat
  BY <1>1, <1>7, MessageAppended, SeqFacts
<1>9. Keeps(messages', messages, previous)
  BY <1>7, <1>8 DEF Keeps
<1>10. Len(messages') \in Nat
  BY <1>8, SeqFacts DEF Keeps
<1>11. items' \in 0..MaxInputs
  BY <1>1, InputAssumption DEF HasRoom, Counts, InputInv
<1>12. previous' \in 0..Len(messages')
  BY <1>1, <1>10
<1>13. InputInv'
  BY <1>1, <1>6, <1>7, <1>11, <1>12 DEF InputInv
<1> QED
  BY <1>9, <1>13 DEF Steps

LEMMA ResultSteps ==
    ASSUME InputInv, protocol' = protocol, previous' = previous, HasRoom, Counts, shown' = shown,
           NEW id \in Ids, NEW role \in {"user", "tool"},
           messages' = Append(messages, WithResult(EmptyMessage(role), [nr |-> Number, call |-> id]))
    PROVE  Steps
<1> DEFINE result == [nr |-> Number, call |-> id]
           w == WithResult(EmptyMessage(role), result)
<1>1. result.nr = items + 1 /\ result.call \in 1..Len(shown)
  BY SeqFacts DEF Number, Ids, InputInv, MessagesSound
<1> HIDE DEF result
<1>2. MessagesSound(messages, shown, items)
  BY DEF InputInv
<1>3. MessagesSound(Append(messages, w), shown, items + 1)
  BY <1>1, <1>2, ResultAppended
<1>4. messages' = Append(messages, w)
  BY DEF result
<1> HIDE DEF w
<1>5. MessagesSound(messages', shown', items')
  BY <1>3, <1>4 DEF Counts
<1> QED
  BY <1>4, <1>5, AppendStep

LEMMA OutputItemSteps ==
    ASSUME InputInv, NEW id \in Ids, OutputItem(id)
    PROVE  Steps
<1>1. /\ protocol' = protocol /\ previous' = previous /\ HasRoom /\ Counts /\ shown' = shown
      /\ messages' = Append(messages, WithResult(EmptyMessage("tool"), [nr |-> Number, call |-> id]))
  BY DEF OutputItem
<1> DEFINE role == "tool"
<1>2. role \in {"user", "tool"}
  OBVIOUS
<1> HIDE DEF role
<1>3. messages' = Append(messages, WithResult(EmptyMessage(role), [nr |-> Number, call |-> id]))
  BY <1>1 DEF role
<1> QED
  BY <1>1, <1>2, <1>3, ResultSteps

LEMMA ResultBlockSteps ==
    ASSUME InputInv, NEW id \in Ids, NEW joins \in BOOLEAN, ResultBlock(id, joins)
    PROVE  Steps
<1> DEFINE result == [nr |-> Number, call |-> id]
<1>1. /\ protocol' = protocol /\ previous' = previous /\ HasRoom /\ Counts /\ shown' = shown
      /\ protocol = "anthropic"
  BY DEF ResultBlock
<1>2. CASE ~joins
  <2>1. messages' = Append(messages, WithResult(EmptyMessage("user"), [nr |-> Number, call |-> id]))
    BY <1>2 DEF ResultBlock
  <2> DEFINE role == "user"
  <2>2. role \in {"user", "tool"}
    OBVIOUS
  <2> HIDE DEF role
  <2>3. messages' = Append(messages, WithResult(EmptyMessage(role), [nr |-> Number, call |-> id]))
    BY <2>1 DEF role
  <2> QED
    BY <1>1, <2>2, <2>3, ResultSteps
<1>3. CASE joins
  <2> DEFINE joined == Front(messages) \o <<WithResult(Last(messages), result)>>
             n == Len(messages) - 1
  <2>1. messages # <<>> /\ Last(messages).role = "user" /\ messages' = joined
    BY <1>3 DEF ResultBlock
  <2>2. result.nr = items + 1 /\ result.call \in 1..Len(shown)
    BY SeqFacts DEF Number, Ids, InputInv, MessagesSound
  <2> HIDE DEF result
  <2>3. MessagesSound(messages, shown, items) /\ Last(messages).role # "assistant"
    BY <2>1 DEF InputInv
  <2>4. MessagesSound(joined, shown, items + 1) /\ Keeps(joined, messages, n)
    BY <2>1, <2>2, <2>3, ResultJoined
  <2>5. n \in Int /\ previous <= n
    BY <1>1, <2>1, SomeMessages DEF InputInv
  <2> HIDE DEF joined, n
  <2>6. MessagesSound(messages', shown', items') /\ Keeps(messages', messages, n)
    BY <1>1, <2>1, <2>4 DEF Counts
  <2> QED
    BY <1>1, <2>5, <2>6, StepFacts
<1> QED
  BY <1>2, <1>3

LEMMA InputStep == InputInv /\ [InputNext]_inputVars => Steps
<1> SUFFICES ASSUME InputInv, [InputNext]_inputVars PROVE Steps
  OBVIOUS
<1>1. ASSUME NEW role \in {"user", "assistant"}, MessageItem(role) PROVE Steps
  BY <1>1, MessageItemSteps
<1>2. CASE GuidanceItem
  BY <1>2, StillStep DEF GuidanceItem, Guides
<1>3. CASE OpaqueItem
  BY <1>3, StillStep DEF OpaqueItem
<1>4. ASSUME NEW name, NEW complete \in BOOLEAN, CallItem(name, complete) PROVE Steps
  BY <1>4, CallItemSteps
<1>5. ASSUME NEW name, NEW complete \in BOOLEAN, ContinueFromStored(name, complete) PROVE Steps
  BY <1>5, ContinueSteps
<1>6. ASSUME NEW name, NEW complete \in BOOLEAN, NEW joins \in BOOLEAN,
             AssistantCalls(name, complete, joins)
      PROVE  Steps
  BY <1>6, AssistantCallsSteps
<1>7. ASSUME NEW id \in Ids, OutputItem(id) PROVE Steps
  BY <1>7, OutputItemSteps
<1>8. ASSUME NEW id \in Ids, NEW joins \in BOOLEAN, ResultBlock(id, joins) PROVE Steps
  BY <1>8, ResultBlockSteps
<1>9. CASE UNCHANGED inputVars
  <2>1. /\ protocol' = protocol /\ previous' = previous /\ messages' = messages
        /\ items' = items /\ shown' = shown
    BY <1>9 DEF inputVars
  <2>2. InputInv'
    BY <2>1 DEF InputInv
  <2>3. IsSeq(messages) /\ previous \in 0..Len(messages)
    BY DEF InputInv, MessagesSound
  <2>4. Keeps(messages', messages, previous)
    BY <2>1, <2>3, SeqFacts DEF Keeps
  <2> QED
    BY <2>2, <2>4 DEF Steps
<1> QED
  BY <1>1, <1>2, <1>3, <1>4, <1>5, <1>6, <1>7, <1>8, <1>9 DEF InputNext

\* The answer of a stored response is not altered by the next request's input: append_item
\* joins a call only to a message that came after previous_len (openai_responses.rs).
THEOREM StoredIsKeptHolds == InputSpec => StoredIsKept
<1>1. InputInv /\ [InputNext]_inputVars => InputInv'
  BY InputStep DEF Steps
<1>2. InputInv /\ [InputNext]_inputVars
      => [SubSeq(messages', 1, previous) = SubSeq(messages, 1, previous)]_inputVars
  <2> SUFFICES ASSUME InputInv, [InputNext]_inputVars
               PROVE  SubSeq(messages', 1, previous) = SubSeq(messages, 1, previous)
    OBVIOUS
  <2>1. Keeps(messages', messages, previous) /\ previous \in 0..Len(messages) /\ IsSeq(messages)
    BY InputStep DEF Steps, InputInv, MessagesSound
  <2> QED
    BY <2>1, SeqFacts DEF Keeps
<1> QED
  BY <1>1, <1>2, InputStart, PTL DEF InputSpec, StoredIsKept

-----------------------------------------------------------------------------
(* The body of the request: where the history ends, and what is in it.      *)

Round == ActiveToolRound(messages, Declared)
RoundCalls == IF Round > 0 THEN RoundIds(messages[Round], Declared) ELSE {}
HistoryLen == CurrentStart(messages, Round) - 1
HistoryEntry(i) == IF i = Round THEN AssistantToolMessage(messages[i], RoundCalls)
                   ELSE MessageToHistory(messages[i])
Current == SubSeq(messages, CurrentStart(messages, Round), Len(messages))

LEMMA NatMax ==
    ASSUME NEW n \in Nat, NEW T \in SUBSET (1..n), T # {}
    PROVE  Max(T) \in T /\ \A y \in T : Max(T) >= y
<1> DEFINE below == {n - x : x \in T}
<1>1. below \in SUBSET Nat /\ below # {}
  <2>1. \A x \in T : n - x \in Nat
    OBVIOUS
  <2>2. below \in SUBSET Nat
    BY <2>1
  <2>3. PICK x : x \in T
    OBVIOUS
  <2>4. n - x \in below
    BY <2>3
  <2> QED
    BY <2>2, <2>4
<1> HIDE DEF below
<1>2. PICK d \in below : \A e \in below : d <= e
  BY <1>1, NatMin
<1>3. PICK x \in T : d = n - x
  BY <1>2 DEF below
<1>4. \A y \in T : x >= y
  <2> TAKE y \in T
  <2>1. d <= n - y
    BY <1>2 DEF below
  <2> QED
    BY <1>3, <2>1
<1> QED
  BY <1>3, <1>4 DEF Max

\* There are no more than one round, and what comes after it is not in the history.
LEMMA RoundFacts ==
    ASSUME InputInv
    PROVE  /\ Len(messages) \in Nat /\ DOMAIN messages = 1..Len(messages)
           /\ Round \in 0..Len(messages) /\ HistoryLen \in 0..Len(messages)
           /\ Round > 0 => /\ IsActiveRound(messages, Round, Declared) /\ Round \in DOMAIN messages
                           /\ HistoryLen = Round /\ Round < Len(messages)
           /\ Round = 0 => HistoryLen = IF Len(messages) = 0 THEN 0 ELSE Len(messages) - 1
           /\ CurrentStart(messages, Round) = HistoryLen + 1
<1> DEFINE size == Len(messages)
           active == {i \in DOMAIN messages : IsActiveRound(messages, i, Declared)}
<1>1. IsSeq(messages)
  BY DEF InputInv, MessagesSound
<1>2. size \in Nat /\ DOMAIN messages = 1..size /\ (messages = <<>> <=> size = 0)
  BY <1>1, SeqFacts
<1>3. active \in SUBSET (1..size)
  BY <1>2
<1>4. Round = 0 \/ (active # {} /\ Round = Max(active))
  BY DEF Round, ActiveToolRound
<1>5. Round = 0 \/ Round \in active
  <2> HIDE DEF active
  <2> QED
    BY <1>2, <1>3, <1>4, NatMax
<1>6. Round > 0 => IsActiveRound(messages, Round, Declared) /\ Round \in 1..size
  BY <1>2, <1>5
<1>7. Round > 0 => Round < size
  BY <1>6 DEF IsActiveRound
<1>8. Round \in 0..size
  BY <1>2, <1>5
<1>9. CurrentStart(messages, Round) = IF Round > 0 THEN Round + 1 ELSE IF size = 0 THEN 1 ELSE size
  BY <1>2 DEF CurrentStart
<1> QED
  BY <1>2, <1>6, <1>7, <1>8, <1>9 DEF HistoryLen

LEMMA BodyFacts ==
    /\ RequestBody.history = [i \in 1..HistoryLen |-> HistoryEntry(i)]
    /\ RequestBody.guidance = guidance
    /\ RequestBody.texts = FlattenSeq([i \in DOMAIN Current |-> Current[i].texts])
    /\ RequestBody.calls = IF Round > 0 THEN <<>>
                           ELSE FlattenSeq([i \in DOMAIN Current |-> Current[i].calls])
    /\ RequestBody.results =
           FlattenSeq([i \in DOMAIN Current |-> IF Round > 0
                                                THEN ActiveRoundText(Current[i], RoundCalls)
                                                ELSE Current[i].results])
    /\ RequestBody.toolResults =
           FirstResults(FlattenSeq([i \in DOMAIN Current |-> Current[i].results]), RoundCalls)
BY DEF RequestBody, ConversationBody, HistoryLen, HistoryEntry, Current, RoundCalls, Round

LEMMA CurrentFacts ==
    ASSUME InputInv
    PROVE  /\ IsSeq(Current) /\ DOMAIN Current = 1..(Len(messages) - HistoryLen)
           /\ Len(Current) = Len(messages) - HistoryLen
           /\ \A i \in DOMAIN Current : /\ HistoryLen + i \in DOMAIN messages
                                        /\ Current[i] = messages[HistoryLen + i]
           /\ \A j \in DOMAIN messages : j > HistoryLen => /\ j - HistoryLen \in DOMAIN Current
                                                           /\ Current[j - HistoryLen] = messages[j]
<1> DEFINE h == HistoryLen
           size == Len(messages)
<1>1. IsSeq(messages)
  BY DEF InputInv, MessagesSound
<1>2. /\ size \in Nat /\ DOMAIN messages = 1..size /\ h \in 0..size
      /\ CurrentStart(messages, Round) = h + 1
  BY RoundFacts
<1> HIDE DEF h
<1>3. PICK S : messages \in Seq(S)
  BY <1>1 DEF IsSeq
<1>4. Current = SubSeq(messages, h + 1, size)
  BY <1>2 DEF Current
<1>5. /\ Current \in Seq(S) /\ Len(Current) = size - h
      /\ \A i \in 1..(size - h) : Current[i] = messages[h + i]
  <2>1. Current = [i \in 1..(size - h) |-> messages[h + i]]
    BY <1>2, <1>3, <1>4
  <2>2. \A i \in 1..(size - h) : messages[h + i] \in S
    BY <1>2, <1>3
  <2>3. size - h \in Nat
    BY <1>2
  <2> QED
    BY <2>1, <2>2, <2>3
<1>6. IsSeq(Current) /\ DOMAIN Current = 1..(size - h)
  BY <1>5 DEF IsSeq
<1> QED
  BY <1>2, <1>5, <1>6 DEF h

\* The places of the round's calls and of the others in the message that made them.
RoundPlaces == {k \in DOMAIN messages[Round].calls : InRound(messages[Round].calls[k], RoundCalls)}
OtherPlaces == {k \in DOMAIN messages[Round].calls : ~InRound(messages[Round].calls[k], RoundCalls)}

LEMMA EntryFacts ==
    ASSUME InputInv, NEW i \in 1..HistoryLen
    PROVE  /\ i \in DOMAIN messages /\ IsMessage(messages[i])
           /\ HistoryEntry(i).texts = messages[i].texts
           /\ i # Round => /\ HistoryEntry(i).calls = messages[i].calls
                           /\ HistoryEntry(i).results = messages[i].results
                           /\ HistoryEntry(i).uses = <<>>
           /\ i = Round => /\ HistoryEntry(i).calls = Picked(messages[Round].calls, OtherPlaces)
                           /\ HistoryEntry(i).results = <<>> /\ messages[i].results = <<>>
                           /\ HistoryEntry(i).uses = Picked(messages[Round].calls, RoundPlaces)
           /\ IsSeq(HistoryEntry(i).texts) /\ IsSeq(HistoryEntry(i).calls)
           /\ IsSeq(HistoryEntry(i).results) /\ IsSeq(HistoryEntry(i).uses)
<1> DEFINE e == HistoryEntry(i)
<1>1. i \in DOMAIN messages /\ IsMessage(messages[i])
  BY RoundFacts DEF InputInv, MessagesSound
<1>2. IsSeq(messages[i].texts) /\ IsSeq(messages[i].calls) /\ IsSeq(messages[i].results)
  BY <1>1 DEF IsMessage
<1>3. i # Round => /\ e.texts = messages[i].texts /\ e.calls = messages[i].calls
                   /\ e.results = messages[i].results /\ e.uses = <<>>
  BY DEF HistoryEntry, MessageToHistory
<1>4. i = Round => /\ e.texts = messages[i].texts
                   /\ e.calls = Picked(messages[Round].calls, OtherPlaces)
                   /\ e.results = <<>>
                   /\ e.uses = Picked(messages[Round].calls, RoundPlaces)
  BY DEF HistoryEntry, AssistantToolMessage, OtherPlaces, RoundPlaces
<1> HIDE DEF e
<1>5. i = Round => messages[i].results = <<>>
  <2>1. SUFFICES ASSUME i = Round PROVE messages[i].results = <<>>
    OBVIOUS
  <2>2. Round > 0
    BY <2>1, RoundFacts
  <2>3. messages[Round].role = "assistant"
    BY <2>2, RoundFacts DEF IsActiveRound
  <2> QED
    BY <1>1, <2>1, <2>3 DEF IsMessage
<1>6. i = Round => /\ IsSeq(Picked(messages[Round].calls, OtherPlaces))
                   /\ IsSeq(Picked(messages[Round].calls, RoundPlaces))
  BY <1>2, PickedFacts DEF OtherPlaces, RoundPlaces
<1>7. IsSeq(e.texts) /\ IsSeq(e.calls) /\ IsSeq(e.results) /\ IsSeq(e.uses)
  BY <1>2, <1>3, <1>4, <1>6, EmptyIsSeq
<1> QED
  BY <1>1, <1>3, <1>4, <1>5, <1>7 DEF e

LEMMA UsesFacts ==
    ASSUME InputInv
    PROVE  /\ Round = 0 => Uses(RequestBody) = <<>>
           /\ Round > 0 => /\ Uses(RequestBody) = Picked(messages[Round].calls, RoundPlaces)
                           /\ Last(RequestBody.history).uses = Uses(RequestBody)
<1> DEFINE h == HistoryLen
           history == RequestBody.history
           pieces == [i \in DOMAIN history |-> history[i].uses]
           picked == Picked(messages[Round].calls, RoundPlaces)
<1>1. h \in Nat /\ (Round > 0 => Round = h) /\ (Round = 0 => \A i \in 1..h : i # Round)
  BY RoundFacts
<1>2. DOMAIN history = 1..h /\ \A i \in 1..h : history[i] = HistoryEntry(i)
  BY BodyFacts
<1>3. \A i \in 1..h : /\ IsSeq(history[i].uses)
                      /\ i # Round => history[i].uses = <<>>
                      /\ i = Round => history[i].uses = picked
  BY <1>2, EntryFacts
<1> HIDE DEF history
<1>4. DOMAIN pieces = 1..h /\ \A i \in 1..h : pieces[i] = history[i].uses
  BY <1>2
<1>5. pieces = [i \in 1..h |-> pieces[i]]
  BY <1>2
<1>6. Uses(RequestBody) = FlattenSeq(pieces)
  BY DEF Uses, history
<1> HIDE DEF pieces, picked, h
<1>7. ArePieces(pieces, h)
  BY <1>1, <1>3, <1>4, <1>5, FunctionIsSeq DEF ArePieces
<1>8. CASE Round = 0
  <2>1. \A k \in 1..h : pieces[k] = <<>>
    BY <1>1, <1>3, <1>4, <1>8
  <2> QED
    BY <1>6, <1>7, <1>8, <2>1, FlatNothing
<1>9. CASE Round > 0
  <2>1. h > 0 /\ (\A k \in 1..(h - 1) : pieces[k] = <<>>) /\ pieces[h] = picked
    BY <1>1, <1>3, <1>4, <1>9
  <2>2. FlattenSeq(pieces) = picked
    BY <1>7, <2>1, FlatLast
  <2>3. Len(history) = h
    <3>1. history = [i \in 1..h |-> HistoryEntry(i)]
      BY BodyFacts DEF history, h
    <3> QED
      BY <1>1, <1>5, <3>1, FunctionIsSeq
  <2>4. Last(history).uses = pieces[h]
    BY <1>1, <1>4, <2>1, <2>3 DEF Last
  <2> QED
    BY <1>6, <1>9, <2>1, <2>2, <2>4 DEF history, picked
<1> QED
  BY <1>1, <1>8, <1>9, RoundFacts

\* One result for each call of the round that has any.
FirstPlaces(results, ids) ==
    {i \in OfRound(results, ids) : \A j \in 1..(i - 1) : results[j].call # results[i].call}

LEMMA FirstFacts ==
    ASSUME NEW s, IsSeq(s), NEW ids
    PROVE  /\ IsSeq(FirstResults(s, ids))
           /\ \A n \in DOMAIN FirstResults(s, ids) : \E i \in DOMAIN s :
                  FirstResults(s, ids)[n] = s[i] /\ s[i].call \in ids
           /\ \A i \in DOMAIN s : s[i].call \in ids =>
                  \E n \in DOMAIN FirstResults(s, ids) : FirstResults(s, ids)[n].call = s[i].call
           /\ \A m, n \in DOMAIN FirstResults(s, ids) :
                  FirstResults(s, ids)[m].call = FirstResults(s, ids)[n].call => m = n
           /\ \A P : AtMostOnce(s, P) => AtMostOnce(FirstResults(s, ids), P)
<1> DEFINE places == FirstPlaces(s, ids)
           first == FirstResults(s, ids)
<1>1. Len(s) \in Nat /\ DOMAIN s = 1..Len(s)
  BY SeqFacts
<1>2. \A i : i \in places <=> /\ i \in DOMAIN s /\ s[i].call \in ids
                              /\ \A j \in 1..(i - 1) : s[j].call # s[i].call
  BY DEF FirstPlaces, OfRound
<1>3. first = Picked(s, places)
  BY DEF FirstResults, FirstPlaces
<1> HIDE DEF places, first
<1>4. places \in SUBSET (DOMAIN s)
  BY <1>2
<1>5. /\ IsSeq(first)
      /\ \A n \in DOMAIN first : \E i \in places : first[n] = s[i]
      /\ \A i \in places : \E n \in DOMAIN first : first[n] = s[i]
  BY <1>3, <1>4, PickedFacts
<1>6. \A P : (\A i, j \in places : s[i] \in P /\ s[j] \in P => i = j) => AtMostOnce(first, P)
  BY <1>3, <1>4, PickedFacts
<1>7. \A n \in DOMAIN first : \E i \in DOMAIN s : first[n] = s[i] /\ s[i].call \in ids
  BY <1>2, <1>5
<1>8. ASSUME NEW i \in DOMAIN s, s[i].call \in ids
      PROVE  \E n \in DOMAIN first : first[n].call = s[i].call
  <2> DEFINE same == {j \in DOMAIN s : s[j].call = s[i].call}
  <2>1. same \in SUBSET Nat /\ same # {}
    BY <1>1
  <2>2. \A j : j \in same <=> j \in 1..Len(s) /\ s[j].call = s[i].call
    BY <1>1
  <2> HIDE DEF same
  <2>3. PICK j \in same : \A k \in same : j <= k
    BY <2>1, NatMin
  <2>4. j \in 1..Len(s) /\ s[j].call = s[i].call
    BY <2>2, <2>3
  <2>5. \A k \in 1..(j - 1) : s[k].call # s[j].call
    <3> SUFFICES ASSUME NEW k \in 1..(j - 1), s[k].call = s[j].call PROVE FALSE
      OBVIOUS
    <3>1. k \in 1..Len(s) /\ k < j
      BY <1>1, <2>4
    <3>2. k \in same
      BY <2>2, <2>4, <3>1
    <3> QED
      BY <1>1, <2>3, <2>4, <3>1, <3>2
  <2>6. j \in places
    BY <1>1, <1>2, <1>8, <2>4, <2>5
  <2> QED
    BY <1>5, <2>4, <2>6
<1>9. ASSUME NEW i \in places, NEW j \in places, s[i].call = s[j].call
      PROVE  i = j
  <2>1. i \in 1..Len(s) /\ j \in 1..Len(s)
    BY <1>1, <1>4
  <2>2. ~(i < j) /\ ~(j < i)
    BY <1>1, <1>2, <1>9, <2>1
  <2> QED
    BY <1>1, <2>1, <2>2
<1>10. ASSUME NEW m \in DOMAIN first, NEW n \in DOMAIN first, first[m].call = first[n].call
       PROVE  m = n
  <2> DEFINE P == {s[i] : i \in {j \in places : s[j].call = first[m].call}}
  <2>1. \A i \in places : s[i] \in P => s[i].call = first[m].call
    OBVIOUS
  <2>2. first[m] \in P /\ first[n] \in P
    BY <1>5, <1>10
  <2> HIDE DEF P
  <2>3. AtMostOnce(first, P)
    <3>1. \A i, j \in places : s[i] \in P /\ s[j] \in P => i = j
      BY <1>9, <2>1
    <3> QED
      BY <1>6, <3>1
  <2> QED
    BY <2>2, <2>3 DEF AtMostOnce
<1>11. ASSUME NEW P, AtMostOnce(s, P) PROVE AtMostOnce(first, P)
  <2>1. \A i, j \in places : s[i] \in P /\ s[j] \in P => i = j
    BY <1>4, <1>11 DEF AtMostOnce
  <2> QED
    BY <1>6, <2>1
<1> QED
  BY <1>5, <1>7, <1>8, <1>10, <1>11 DEF first

CurrentResults == FlattenSeq([i \in DOMAIN Current |-> Current[i].results])

\* The results of the current messages: at one place each.
LEMMA CurrentResultsFacts ==
    ASSUME InputInv
    PROVE  /\ IsSeq(CurrentResults)
           /\ \A p \in DOMAIN CurrentResults : \E j \in DOMAIN messages :
                  /\ j > HistoryLen
                  /\ \E k \in DOMAIN messages[j].results : CurrentResults[p] = messages[j].results[k]
           /\ \A j \in DOMAIN messages : j > HistoryLen => \A k \in DOMAIN messages[j].results :
                  \E p \in DOMAIN CurrentResults : CurrentResults[p] = messages[j].results[k]
           /\ \A p, q \in DOMAIN CurrentResults :
                  CurrentResults[p].nr = CurrentResults[q].nr => p = q
<1> DEFINE n == Len(messages) - HistoryLen
           pieces == [i \in DOMAIN Current |-> Current[i].results]
           flat == CurrentResults
<1>1. n \in Nat /\ HistoryLen \in Nat /\ DOMAIN messages \subseteq Nat
  BY RoundFacts
<1>2. /\ DOMAIN Current = 1..n
      /\ \A i \in 1..n : HistoryLen + i \in DOMAIN messages /\ Current[i] = messages[HistoryLen + i]
      /\ \A j \in DOMAIN messages : j > HistoryLen => /\ j - HistoryLen \in DOMAIN Current
                                                      /\ Current[j - HistoryLen] = messages[j]
  BY CurrentFacts
<1>3. \A i \in 1..n : IsSeq(Current[i].results)
  BY <1>2 DEF InputInv, MessagesSound, IsMessage
<1> HIDE DEF n
<1>4. pieces = [i \in 1..n |-> pieces[i]] /\ \A i \in 1..n : pieces[i] = Current[i].results
  BY <1>2
<1>5. flat = FlattenSeq(pieces)
  BY DEF CurrentResults
<1> HIDE DEF pieces, flat
<1>6. ArePieces(pieces, n)
  BY <1>1, <1>3, <1>4, FunctionIsSeq DEF ArePieces
<1>7. /\ IsSeq(flat)
      /\ \A p \in DOMAIN flat : \E k \in 1..n : \E j \in DOMAIN pieces[k] : flat[p] = pieces[k][j]
      /\ \A k \in 1..n : \A j \in DOMAIN pieces[k] : \E p \in DOMAIN flat : flat[p] = pieces[k][j]
  BY <1>5, <1>6, FlatFacts
<1>8. \A P : Alone(pieces, P) => AtMostOnce(flat, P)
  BY <1>5, <1>6, FlatFacts
<1>9. ASSUME NEW p \in DOMAIN flat
      PROVE  \E j \in DOMAIN messages :
                 /\ j > HistoryLen
                 /\ \E k \in DOMAIN messages[j].results : flat[p] = messages[j].results[k]
  <2>1. PICK i \in 1..n : \E k \in DOMAIN pieces[i] : flat[p] = pieces[i][k]
    BY <1>7
  <2>2. HistoryLen + i \in DOMAIN messages /\ pieces[i] = messages[HistoryLen + i].results
    BY <1>2, <1>4
  <2>3. HistoryLen + i > HistoryLen
    BY <1>1
  <2> QED
    BY <2>1, <2>2, <2>3
<1>10. ASSUME NEW j \in DOMAIN messages, j > HistoryLen, NEW k \in DOMAIN messages[j].results
       PROVE  \E p \in DOMAIN flat : flat[p] = messages[j].results[k]
  <2>1. j - HistoryLen \in 1..n /\ pieces[j - HistoryLen] = messages[j].results
    BY <1>2, <1>4, <1>10
  <2> QED
    BY <1>7, <2>1
<1>11. ASSUME NEW p \in DOMAIN flat, NEW q \in DOMAIN flat, flat[p].nr = flat[q].nr
       PROVE  p = q
  <2> DEFINE P == {r \in {flat[p], flat[q]} : TRUE}
  <2>1. \A r \in P : r.nr = flat[p].nr
    BY <1>11
  <2>2. flat[p] \in P /\ flat[q] \in P
    OBVIOUS
  <2> HIDE DEF P
  <2>3. Alone(pieces, P)
    <3> SUFFICES ASSUME NEW k \in DOMAIN pieces, NEW m \in DOMAIN pieces,
                        NEW i \in DOMAIN pieces[k], NEW j \in DOMAIN pieces[m],
                        pieces[k][i] \in P, pieces[m][j] \in P
                 PROVE  k = m /\ i = j
      BY DEF Alone
    <3>1. pieces[k][i].nr = pieces[m][j].nr
      BY <2>1
    <3>2. k \in 1..n /\ m \in 1..n
      BY <1>4
    <3>3. /\ HistoryLen + k \in DOMAIN messages /\ pieces[k] = messages[HistoryLen + k].results
          /\ HistoryLen + m \in DOMAIN messages /\ pieces[m] = messages[HistoryLen + m].results
      BY <1>2, <1>4, <3>2
    <3>4. ResultsSound(messages, shown, items)
      BY DEF InputInv, MessagesSound
    <3>5. HistoryLen + k = HistoryLen + m /\ i = j
      BY <3>1, <3>3, <3>4 DEF ResultsSound
    <3> QED
      BY <1>1, <3>2, <3>5
  <2> QED
    BY <1>8, <2>2, <2>3 DEF AtMostOnce
<1> QED
  BY <1>7, <1>9, <1>10, <1>11 DEF flat

-----------------------------------------------------------------------------
(* The structures of a body are whole rounds.                               *)

\* The calls of the round as structures: those of its message that are whole and offered.
LEMMA RoundUses ==
    ASSUME InputInv, Round > 0
    PROVE  /\ IsSeq(Uses(RequestBody))
           /\ \A n \in DOMAIN Uses(RequestBody) :
                  /\ Uses(RequestBody)[n].complete /\ Uses(RequestBody)[n].name \in Declared
                  /\ Uses(RequestBody)[n].id \in RoundCalls
                  /\ \E k \in DOMAIN messages[Round].calls :
                         Uses(RequestBody)[n] = messages[Round].calls[k]
           /\ \A id \in RoundCalls : \E n \in DOMAIN Uses(RequestBody) : Uses(RequestBody)[n].id = id
           /\ \A m, n \in DOMAIN Uses(RequestBody) :
                  Uses(RequestBody)[m].id = Uses(RequestBody)[n].id => m = n
<1> DEFINE calls == messages[Round].calls
           uses == Uses(RequestBody)
<1>1. uses = Picked(calls, RoundPlaces)
  BY UsesFacts
<1>2. Round \in DOMAIN messages /\ IsMessage(messages[Round]) /\ CallsSound(messages, shown)
  BY RoundFacts DEF InputInv, MessagesSound
<1>3. IsSeq(calls)
  BY <1>2 DEF IsMessage
<1>4. \A k : k \in RoundPlaces <=> k \in DOMAIN calls /\ calls[k].id \in RoundCalls
  BY DEF RoundPlaces, InRound
<1>5. \A id : id \in RoundCalls <=> \E k \in DOMAIN calls : /\ calls[k].complete
                                                            /\ calls[k].name \in Declared
                                                            /\ calls[k].id = id
  <2>1. RoundCalls = {c.id : c \in {d \in Range(calls) : d.complete /\ d.name \in Declared}}
    BY DEF RoundCalls, RoundIds
  <2>2. Range(calls) = {calls[k] : k \in DOMAIN calls}
    BY DEF Range
  <2> HIDE DEF calls
  <2> QED
    BY <2>1, <2>2
<1>6. \A k, l \in DOMAIN calls : calls[k].id = calls[l].id => k = l
  BY <1>2 DEF CallsSound
<1> HIDE DEF calls, uses
<1>7. /\ IsSeq(uses)
      /\ \A n \in DOMAIN uses : \E k \in RoundPlaces : uses[n] = calls[k]
      /\ \A k \in RoundPlaces : \E n \in DOMAIN uses : uses[n] = calls[k]
      /\ \A P : (\A i, j \in RoundPlaces : calls[i] \in P /\ calls[j] \in P => i = j)
                    => AtMostOnce(uses, P)
  <2>1. RoundPlaces \in SUBSET (DOMAIN calls)
    BY <1>4
  <2> QED
    BY <1>1, <1>3, <2>1, PickedFacts
<1>8. ASSUME NEW n \in DOMAIN uses
      PROVE  /\ uses[n].complete /\ uses[n].name \in Declared /\ uses[n].id \in RoundCalls
             /\ \E k \in DOMAIN calls : uses[n] = calls[k]
  <2>1. PICK k \in RoundPlaces : uses[n] = calls[k]
    BY <1>7
  <2>2. k \in DOMAIN calls /\ calls[k].id \in RoundCalls
    BY <1>4, <2>1
  <2>3. PICK l \in DOMAIN calls : /\ calls[l].complete /\ calls[l].name \in Declared
                                  /\ calls[l].id = calls[k].id
    BY <1>5, <2>2
  <2>4. l = k
    BY <1>6, <2>2, <2>3
  <2> QED
    BY <2>1, <2>2, <2>3, <2>4
<1>9. ASSUME NEW id \in RoundCalls PROVE \E n \in DOMAIN uses : uses[n].id = id
  <2>1. PICK k \in DOMAIN calls : calls[k].id = id
    BY <1>5
  <2>2. k \in RoundPlaces
    BY <1>4, <2>1
  <2> QED
    BY <1>7, <2>1, <2>2
<1>10. ASSUME NEW m \in DOMAIN uses, NEW n \in DOMAIN uses, uses[m].id = uses[n].id
       PROVE  m = n
  <2> DEFINE P == {uses[m], uses[n]}
  <2>1. \A c \in P : c.id = uses[m].id
    BY <1>10
  <2>2. uses[m] \in P /\ uses[n] \in P
    OBVIOUS
  <2> HIDE DEF P
  <2>3. \A i, j \in RoundPlaces : calls[i] \in P /\ calls[j] \in P => i = j
    BY <1>4, <1>6, <2>1
  <2>4. AtMostOnce(uses, P)
    BY <1>7, <2>3
  <2> QED
    BY <2>2, <2>4 DEF AtMostOnce
<1> QED
  BY <1>7, <1>8, <1>9, <1>10 DEF uses, calls

\* The results as structures: one for each call of the round.
LEMMA RoundResults ==
    ASSUME InputInv, Round > 0
    PROVE  /\ IsSeq(RequestBody.toolResults)
           /\ \A n \in DOMAIN RequestBody.toolResults : RequestBody.toolResults[n].call \in RoundCalls
           /\ \A id \in RoundCalls : \E n \in DOMAIN RequestBody.toolResults :
                  RequestBody.toolResults[n].call = id
           /\ \A m, n \in DOMAIN RequestBody.toolResults :
                  RequestBody.toolResults[m].call = RequestBody.toolResults[n].call => m = n
<1> DEFINE results == RequestBody.toolResults
           s == CurrentResults
<1>1. results = FirstResults(s, RoundCalls) /\ IsSeq(s)
  BY BodyFacts, CurrentResultsFacts DEF CurrentResults
<1>2. ASSUME NEW id \in RoundCalls
      PROVE  \E p \in DOMAIN s : s[p].call = id
  <2>1. id \in AnsweredAfter(messages, Round) /\ HistoryLen = Round
    BY RoundFacts DEF IsActiveRound, RoundCalls
  <2>2. PICK j \in (Round + 1)..Len(messages) : \E r \in Range(messages[j].results) : r.call = id
    BY <2>1 DEF AnsweredAfter
  <2>3. j \in DOMAIN messages /\ j > HistoryLen
    BY <2>1, <2>2, RoundFacts
  <2>4. PICK k \in DOMAIN messages[j].results : messages[j].results[k].call = id
    BY <2>2 DEF Range
  <2>5. PICK p \in DOMAIN s : s[p] = messages[j].results[k]
    BY <2>3, <2>4, CurrentResultsFacts
  <2> QED
    BY <2>4, <2>5
<1> HIDE DEF results, s
<1>3. /\ IsSeq(results)
      /\ \A n \in DOMAIN results : \E i \in DOMAIN s : results[n] = s[i] /\ s[i].call \in RoundCalls
      /\ \A i \in DOMAIN s : s[i].call \in RoundCalls =>
             \E n \in DOMAIN results : results[n].call = s[i].call
      /\ \A m, n \in DOMAIN results : results[m].call = results[n].call => m = n
  BY <1>1, FirstFacts
<1>4. /\ \A n \in DOMAIN results : results[n].call \in RoundCalls
      /\ \A id \in RoundCalls : \E n \in DOMAIN results : results[n].call = id
  BY <1>2, <1>3
<1> QED
  BY <1>3, <1>4 DEF results

\* Without a round there are no structures.
LEMMA NoRoundNoStructures ==
    ASSUME InputInv, Round = 0
    PROVE  Uses(RequestBody) = <<>> /\ RequestBody.toolResults = <<>> /\ RoundCalls = {}
<1>1. RoundCalls = {}
  BY DEF RoundCalls
<1>2. FirstPlaces(CurrentResults, RoundCalls) = {}
  BY <1>1 DEF FirstPlaces, OfRound
<1>3. RequestBody.toolResults = Picked(CurrentResults, {})
  BY <1>2, BodyFacts DEF FirstResults, FirstPlaces, CurrentResults
<1> QED
  BY <1>1, <1>3, PickedNone, UsesFacts

LEMMA OneOf ==
    ASSUME NEW T, NEW n, T = {n}
    PROVE  Cardinality(T) = 1
BY FS_Singleton

THEOREM TypeOK == InputInv => InputTypeOK
<1> SUFFICES ASSUME InputInv PROVE InputTypeOK
  OBVIOUS
<1>1. /\ protocol \in Protocols /\ previous \in 0..Len(messages) /\ items \in 0..MaxInputs
      /\ MessagesSound(messages, shown, items)
  BY DEF InputInv
<1>2. ASSUME NEW i \in DOMAIN messages
      PROVE  /\ messages[i].role \in {"user", "assistant", "tool"}
             /\ \A c \in Range(messages[i].calls) : c.id \in Ids /\ c.complete \in BOOLEAN
             /\ \A r \in Range(messages[i].results) : r.call \in Ids /\ r.nr \in 1..items
  <2>1. messages[i].role \in {"user", "assistant", "tool"}
    BY <1>1 DEF MessagesSound, IsMessage, Roles
  <2>2. Ids = 1..Len(shown)
    BY <1>1, SeqFacts DEF Ids, MessagesSound
  <2>3. \A k \in DOMAIN messages[i].calls : IsCall(messages[i].calls[k], shown)
    BY <1>1 DEF MessagesSound, CallsSound
  <2>4. \A k \in DOMAIN messages[i].results : IsResult(messages[i].results[k], shown, items)
    BY <1>1 DEF MessagesSound, ResultsSound
  <2>5. \A c \in Range(messages[i].calls) : IsCall(c, shown)
    BY <2>3 DEF Range
  <2>6. \A r \in Range(messages[i].results) : IsResult(r, shown, items)
    BY <2>4 DEF Range
  <2> QED
    BY <2>1, <2>2, <2>5, <2>6 DEF IsCall, IsResult
<1> QED
  BY <1>1, <1>2 DEF InputTypeOK

LEMMA StructuresHold ==
    ASSUME InputInv
    PROVE  StructuresAreRounds
<1> DEFINE uses == Uses(RequestBody)
           results == RequestBody.toolResults
<1>1. CASE Round = 0
  <2>1. uses = <<>> /\ results = <<>>
    BY <1>1, NoRoundNoStructures
  <2>2. Range(<<>>) = {}
    BY EmptyFacts DEF Range
  <2> QED
    BY <2>1, <2>2 DEF StructuresAreRounds
<1>2. CASE Round > 0
  <2>1. \A n \in DOMAIN uses : uses[n].complete /\ uses[n].name \in Declared /\ uses[n].id \in RoundCalls
    BY <1>2, RoundUses
  <2>2. \A id \in RoundCalls : \E n \in DOMAIN uses : uses[n].id = id
    BY <1>2, RoundUses
  <2>3. \A m, n \in DOMAIN uses : uses[m].id = uses[n].id => m = n
    BY <1>2, RoundUses
  <2>4. /\ \A n \in DOMAIN results : results[n].call \in RoundCalls
        /\ \A id \in RoundCalls : \E n \in DOMAIN results : results[n].call = id
        /\ \A m, n \in DOMAIN results : results[m].call = results[n].call => m = n
    BY <1>2, RoundResults
  <2>5. Last(RequestBody.history).uses = uses
    BY <1>2, UsesFacts
  <2> HIDE DEF uses, results
  <2>6. ASSUME NEW c \in Range(uses)
        PROVE  /\ c.complete /\ c.name \in Declared
               /\ Cardinality({i \in DOMAIN results : results[i].call = c.id}) = 1
    <3>1. c.complete /\ c.name \in Declared /\ c.id \in RoundCalls
      BY <2>1 DEF Range
    <3>2. PICK n \in DOMAIN results : results[n].call = c.id
      BY <2>4, <3>1
    <3>3. {i \in DOMAIN results : results[i].call = c.id} = {n}
      BY <2>4, <3>2
    <3> QED
      BY <3>1, <3>3, OneOf
  <2>7. ASSUME NEW r \in Range(results)
        PROVE  Cardinality({i \in DOMAIN uses : uses[i].id = r.call}) = 1
    <3>1. r.call \in RoundCalls
      BY <2>4 DEF Range
    <3>2. PICK n \in DOMAIN uses : uses[n].id = r.call
      BY <2>2, <3>1
    <3>3. {i \in DOMAIN uses : uses[i].id = r.call} = {n}
      BY <2>3, <3>2
    <3> QED
      BY <3>3, OneOf
  <2> QED
    BY <2>5, <2>6, <2>7 DEF StructuresAreRounds, Count, uses, results
<1> QED
  BY <1>1, <1>2, RoundFacts

LEMMA InputInvHolds == InputSpec => []InputInv
<1>1. InputInv /\ [InputNext]_inputVars => InputInv'
  BY InputStep DEF Steps
<1> QED
  BY <1>1, InputStart, PTL DEF InputSpec

\* The structures in a body are whole rounds: active_tool_round takes a round only with all its
\* results, and each call and each result is sent once (endpoint/mod.rs:258-330).
THEOREM RoundsAreWholeHolds == InputSpec => []RoundsAreWhole
<1>1. InputInv => RoundsAreWhole
  BY TypeOK, StructuresHold DEF RoundsAreWhole
<1> QED
  BY <1>1, InputInvHolds, PTL

-----------------------------------------------------------------------------
(* The round that a request answers is sent as structures.                  *)

LEMMA LastTurnFacts ==
    ASSUME InputInv, LastTurn > 0
    PROVE  /\ LastTurn \in DOMAIN messages /\ messages[LastTurn].role = "assistant"
           /\ \A j \in DOMAIN messages : messages[j].role = "assistant" => j <= LastTurn
<1> DEFINE turns == {i \in DOMAIN messages : messages[i].role = "assistant"}
<1>1. Len(messages) \in Nat /\ turns \in SUBSET (1..Len(messages))
  BY RoundFacts
<1>2. turns # {} /\ LastTurn = Max(turns)
  BY DEF LastTurn
<1>3. \A i : i \in turns <=> i \in DOMAIN messages /\ messages[i].role = "assistant"
  OBVIOUS
<1> HIDE DEF turns
<1>4. LastTurn \in turns /\ \A j \in turns : LastTurn >= j
  BY <1>1, <1>2, NatMax
<1>5. \A j \in turns : j <= LastTurn
  BY <1>1, <1>4
<1> QED
  BY <1>3, <1>4, <1>5

LEMMA NativeHolds ==
    ASSUME InputInv
    PROVE  CurrentRoundIsNative
<1> DEFINE T == LastTurn
           calls == messages[T].calls
<1>1. SUFFICES ASSUME T > 0, T < Len(messages), calls # <<>>,
                      \A c \in Range(calls) : shown[c.id].asked \in Declared /\ c.complete,
                      \A j \in (T + 1)..Len(messages) : messages[j].results # <<>>,
                      IdsOf(calls) \subseteq AnsweredAfter(messages, T)
               PROVE  Uses(RequestBody) = calls
  BY DEF CurrentRoundIsNative
<1>2. /\ T \in DOMAIN messages /\ messages[T].role = "assistant"
      /\ \A j \in DOMAIN messages : messages[j].role = "assistant" => j <= T
  BY <1>1, LastTurnFacts
<1>3. DOMAIN messages = 1..Len(messages) /\ Len(messages) \in Nat
  BY RoundFacts
<1>4. \A j \in DOMAIN messages : IsMessage(messages[j])
  BY DEF InputInv, MessagesSound
<1>5. IsSeq(calls)
  BY <1>2, <1>4 DEF IsMessage
<1>6. \A k \in DOMAIN calls : calls[k].complete /\ calls[k].name \in Declared
  <2> TAKE k \in DOMAIN calls
  <2>1. calls[k] \in Range(calls)
    BY DEF Range
  <2>2. IsCall(calls[k], shown)
    BY <1>2 DEF InputInv, MessagesSound, CallsSound
  <2> QED
    BY <1>1, <2>1, <2>2 DEF IsCall
<1>7. RoundIds(messages[T], Declared) = IdsOf(calls)
  <2>1. RoundIds(messages[T], Declared)
            = {c.id : c \in {d \in Range(calls) : d.complete /\ d.name \in Declared}}
    BY DEF RoundIds
  <2>2. {d \in Range(calls) : d.complete /\ d.name \in Declared} = {calls[k] : k \in DOMAIN calls}
    BY <1>6 DEF Range
  <2> QED
    BY <2>1, <2>2 DEF IdsOf
<1>8. \E k : k \in DOMAIN calls
  <2>1. calls # <<>>
    BY <1>1
  <2> HIDE DEF calls
  <2>2. Len(calls) \in Nat /\ Len(calls) # 0 /\ DOMAIN calls = 1..Len(calls)
    BY <1>5, <2>1, SeqFacts
  <2>3. 1 \in DOMAIN calls
    BY <2>2
  <2> QED
    BY <2>3
<1>9. IdsOf(calls) # {} /\ Declared # {}
  BY <1>6, <1>8 DEF IdsOf
<1>10. \A j \in (T + 1)..Len(messages) : messages[j].calls = <<>> /\ messages[j].results # <<>>
  <2> TAKE j \in (T + 1)..Len(messages)
  <2>1. j \in DOMAIN messages /\ ~(j <= T)
    BY <1>2, <1>3
  <2> QED
    BY <1>1, <1>2, <1>4, <2>1 DEF IsMessage
<1>11. IsActiveRound(messages, T, Declared)
  BY <1>1, <1>2, <1>7, <1>9, <1>10 DEF IsActiveRound
<1>12. Round = T
  <2> DEFINE active == {i \in DOMAIN messages : IsActiveRound(messages, i, Declared)}
  <2>1. T \in active /\ active \in SUBSET (1..Len(messages))
    BY <1>2, <1>3, <1>11
  <2>2. \A i \in active : i \in DOMAIN messages /\ messages[i].role = "assistant"
    BY DEF IsActiveRound
  <2>3. Len(messages) \in (T + 1)..Len(messages)
    BY <1>1, <1>2, <1>3
  <2>4. messages # <<>> /\ Last(messages).results # <<>>
    <3>1. messages # <<>>
      BY <1>2, EmptyFacts
    <3> QED
      BY <1>1, <2>3, <3>1 DEF Last
  <2>5. Round = Max(active)
    BY <1>9, <2>1, <2>4 DEF Round, ActiveToolRound
  <2> HIDE DEF active
  <2>6. Max(active) \in active /\ \A y \in active : Max(active) >= y
    BY <1>3, <2>1, NatMax
  <2>7. Round \in DOMAIN messages /\ Round <= T /\ Round >= T
    BY <1>2, <2>1, <2>2, <2>5, <2>6
  <2> QED
    BY <1>2, <1>3, <2>7
<1>13. RoundPlaces = DOMAIN calls
  <2>1. RoundCalls = IdsOf(calls)
    BY <1>1, <1>7, <1>12 DEF RoundCalls
  <2>2. \A k \in DOMAIN calls : InRound(calls[k], RoundCalls)
    BY <2>1 DEF InRound, IdsOf
  <2> QED
    BY <1>12, <2>2 DEF RoundPlaces
<1>14. Uses(RequestBody) = Picked(calls, DOMAIN calls)
  BY <1>1, <1>12, <1>13, UsesFacts
<1> HIDE DEF calls
<1> QED
  BY <1>5, <1>14, PickedAll

\* The round that a request answers is sent as structures, whatever names the client knows the
\* tools by: what is replayed has the upstream's name (openai_responses.rs), and
\* active_tool_round finds the last answer of the model (endpoint/mod.rs:258-300).
THEOREM CurrentRoundIsNativeHolds == InputSpec => []CurrentRoundIsNative
BY NativeHolds, InputInvHolds, PTL

-----------------------------------------------------------------------------
(* Nothing is lost.                                                         *)

\* The sequences that NothingIsLost counts in.
HistoryTexts == FlattenSeq([i \in DOMAIN RequestBody.history |-> RequestBody.history[i].texts])
HistoryCalls == FlattenSeq([i \in DOMAIN RequestBody.history |-> RequestBody.history[i].calls])
HistoryResults == FlattenSeq([i \in DOMAIN RequestBody.history |-> RequestBody.history[i].results])
AllCalls == (HistoryCalls \o RequestBody.calls) \o Uses(RequestBody)
AllResults == (HistoryResults \o RequestBody.results) \o RequestBody.toolResults

\* What is in one piece only.
LEMMA FlatOnce ==
    ASSUME NEW pieces, NEW n, ArePieces(pieces, n), NEW r \in 1..n, NEW P,
           \A k \in 1..n : k # r => Lacks(pieces[k], P)
    PROVE  /\ AtMostOnce(pieces[r], P) => AtMostOnce(FlattenSeq(pieces), P)
           /\ Once(pieces[r], P) => Once(FlattenSeq(pieces), P)
<1> DEFINE flat == FlattenSeq(pieces)
<1>1. /\ \A k \in 1..n : \A j \in DOMAIN pieces[k] : \E p \in DOMAIN flat : flat[p] = pieces[k][j]
      /\ Alone(pieces, P) => AtMostOnce(flat, P)
  BY FlatFacts
<1>2. DOMAIN pieces = 1..n
  BY SeqFacts DEF ArePieces
<1> HIDE DEF flat
<1>3. ASSUME AtMostOnce(pieces[r], P) PROVE AtMostOnce(flat, P)
  <2>1. \A k \in DOMAIN pieces : \A i \in DOMAIN pieces[k] : pieces[k][i] \in P => k = r
    BY <1>2 DEF Lacks
  <2>2. Alone(pieces, P)
    BY <1>3, <2>1 DEF Alone, AtMostOnce
  <2> QED
    BY <1>1, <2>2
<1>4. ASSUME Once(pieces[r], P) PROVE Once(flat, P)
  <2>1. AtMostOnce(flat, P)
    BY <1>3, <1>4 DEF Once
  <2>2. PICK j \in DOMAIN pieces[r] : pieces[r][j] \in P
    BY <1>4 DEF Once
  <2> QED
    BY <1>1, <2>1, <2>2 DEF Once
<1> QED
  BY <1>3, <1>4 DEF flat

\* The parts of the history, message by message.
LEMMA HistoryPieces ==
    ASSUME InputInv
    PROVE  /\ \E pieces : /\ ArePieces(pieces, HistoryLen) /\ HistoryTexts = FlattenSeq(pieces)
                          /\ \A i \in 1..HistoryLen : pieces[i] = messages[i].texts
           /\ \E pieces : /\ ArePieces(pieces, HistoryLen) /\ HistoryCalls = FlattenSeq(pieces)
                          /\ \A i \in 1..HistoryLen : pieces[i] = HistoryEntry(i).calls
           /\ \E pieces : /\ ArePieces(pieces, HistoryLen) /\ HistoryResults = FlattenSeq(pieces)
                          /\ \A i \in 1..HistoryLen : pieces[i] = HistoryEntry(i).results
<1> DEFINE h == HistoryLen
           history == RequestBody.history
<1>1. h \in Nat
  BY RoundFacts
<1>2. DOMAIN history = 1..h /\ \A i \in 1..h : history[i] = HistoryEntry(i)
  BY BodyFacts
<1>3. \A i \in 1..h : /\ HistoryEntry(i).texts = messages[i].texts /\ IsSeq(messages[i].texts)
                      /\ IsSeq(HistoryEntry(i).calls) /\ IsSeq(HistoryEntry(i).results)
  BY EntryFacts
<1> DEFINE texts == [i \in DOMAIN history |-> history[i].texts]
           calls == [i \in DOMAIN history |-> history[i].calls]
           results == [i \in DOMAIN history |-> history[i].results]
<1>4. /\ HistoryTexts = FlattenSeq(texts) /\ HistoryCalls = FlattenSeq(calls)
      /\ HistoryResults = FlattenSeq(results)
  BY DEF HistoryTexts, HistoryCalls, HistoryResults
<1> HIDE DEF h, history
<1>5. /\ texts = [i \in 1..h |-> texts[i]]
      /\ \A i \in 1..h : texts[i] = messages[i].texts
  BY <1>2, <1>3
<1>6. /\ calls = [i \in 1..h |-> calls[i]]
      /\ \A i \in 1..h : calls[i] = HistoryEntry(i).calls
  BY <1>2
<1>7. /\ results = [i \in 1..h |-> results[i]]
      /\ \A i \in 1..h : results[i] = HistoryEntry(i).results
  BY <1>2
<1> HIDE DEF texts, calls, results
<1>8. ArePieces(texts, h)
  BY <1>1, <1>3, <1>5, FunctionIsSeq DEF ArePieces
<1>9. ArePieces(calls, h)
  BY <1>1, <1>3, <1>6, FunctionIsSeq DEF ArePieces
<1>10. ArePieces(results, h)
  BY <1>1, <1>3, <1>7, FunctionIsSeq DEF ArePieces
<1> QED
  BY <1>4, <1>5, <1>6, <1>7, <1>8, <1>9, <1>10 DEF h

\* The parts of the current messages.
CurrentPart(i) == IF Round > 0 THEN ActiveRoundText(Current[i], RoundCalls) ELSE Current[i].results

LEMMA CurrentPieces ==
    ASSUME InputInv, NEW n, n = Len(messages) - HistoryLen
    PROVE  /\ \E pieces : /\ ArePieces(pieces, n) /\ RequestBody.texts = FlattenSeq(pieces)
                          /\ \A i \in 1..n : pieces[i] = messages[HistoryLen + i].texts
           /\ Round = 0 =>
                  \E pieces : /\ ArePieces(pieces, n) /\ RequestBody.calls = FlattenSeq(pieces)
                              /\ \A i \in 1..n : pieces[i] = messages[HistoryLen + i].calls
           /\ \E pieces : /\ ArePieces(pieces, n) /\ RequestBody.results = FlattenSeq(pieces)
                          /\ \A i \in 1..n : pieces[i] = CurrentPart(i)
<1>1. n \in Nat
  BY RoundFacts
<1>2. DOMAIN Current = 1..n
  BY CurrentFacts
<1>3. ASSUME NEW i \in 1..n
      PROVE  /\ Current[i] = messages[HistoryLen + i]
             /\ IsSeq(Current[i].texts) /\ IsSeq(Current[i].calls) /\ IsSeq(Current[i].results)
             /\ IsSeq(CurrentPart(i))
  <2>1. Current[i] = messages[HistoryLen + i] /\ HistoryLen + i \in DOMAIN messages
    BY <1>2, CurrentFacts
  <2>2. IsSeq(Current[i].texts) /\ IsSeq(Current[i].calls) /\ IsSeq(Current[i].results)
    BY <2>1 DEF InputInv, MessagesSound, IsMessage
  <2> DEFINE s == Current[i].results
             places == {k \in DOMAIN s : s[k].call \notin RoundCalls}
  <2>3. ActiveRoundText(Current[i], RoundCalls) = Picked(s, places)
    BY DEF ActiveRoundText
  <2>4. places \in SUBSET (DOMAIN s)
    OBVIOUS
  <2> HIDE DEF places, s
  <2>5. IsSeq(s)
    BY <2>2 DEF s
  <2>6. IsSeq(Picked(s, places))
    BY <2>4, <2>5, PickedFacts
  <2> QED
    BY <2>1, <2>2, <2>3, <2>6 DEF CurrentPart
<1> DEFINE texts == [i \in DOMAIN Current |-> Current[i].texts]
           calls == [i \in DOMAIN Current |-> Current[i].calls]
           results == [i \in DOMAIN Current |-> CurrentPart(i)]
<1>4. /\ RequestBody.texts = FlattenSeq(texts)
      /\ Round = 0 => RequestBody.calls = FlattenSeq(calls)
      /\ RequestBody.results = FlattenSeq(results)
  BY BodyFacts DEF CurrentPart
<1>5. /\ texts = [i \in 1..n |-> texts[i]]
      /\ \A i \in 1..n : texts[i] = Current[i].texts
  BY <1>2
<1>6. /\ calls = [i \in 1..n |-> calls[i]]
      /\ \A i \in 1..n : calls[i] = Current[i].calls
  BY <1>2
<1>7. /\ results = [i \in 1..n |-> results[i]]
      /\ \A i \in 1..n : results[i] = CurrentPart(i)
  BY <1>2
<1> HIDE DEF texts, calls, results
<1>8. ArePieces(texts, n)
  BY <1>1, <1>3, <1>5, FunctionIsSeq DEF ArePieces
<1>9. ArePieces(calls, n)
  BY <1>1, <1>3, <1>6, FunctionIsSeq DEF ArePieces
<1>10. ArePieces(results, n)
  BY <1>1, <1>3, <1>7, FunctionIsSeq DEF ArePieces
<1>11. \A i \in 1..n : texts[i] = messages[HistoryLen + i].texts /\ calls[i] = messages[HistoryLen + i].calls
  BY <1>3, <1>5, <1>6
<1> QED
  BY <1>4, <1>7, <1>8, <1>9, <1>10, <1>11

LEMMA TextsKept ==
    ASSUME InputInv
    PROVE  HistoryTexts \o RequestBody.texts
               = FlattenSeq([i \in DOMAIN messages |-> messages[i].texts])
<1> DEFINE h == HistoryLen
           size == Len(messages)
           n == size - h
           all == [i \in DOMAIN messages |-> messages[i].texts]
<1>1. size \in Nat /\ h \in 0..size /\ DOMAIN messages = 1..size /\ n \in Nat /\ h + n = size
  BY RoundFacts
<1>2. PICK front : /\ ArePieces(front, h) /\ HistoryTexts = FlattenSeq(front)
                   /\ \A i \in 1..h : front[i] = messages[i].texts
  BY HistoryPieces
<1>3. PICK back : /\ ArePieces(back, n) /\ RequestBody.texts = FlattenSeq(back)
                  /\ \A i \in 1..n : back[i] = messages[h + i].texts
  BY CurrentPieces
<1>4. \A i \in 1..size : IsSeq(messages[i].texts)
  BY <1>1 DEF InputInv, MessagesSound, IsMessage
<1>5. all = [i \in 1..size |-> all[i]] /\ \A i \in 1..size : all[i] = messages[i].texts
  BY <1>1
<1> HIDE DEF all, h, size, n
<1>6. ArePieces(all, size)
  BY <1>1, <1>4, <1>5, FunctionIsSeq DEF ArePieces
<1>7. \A k \in 1..h : all[k] = front[k]
  BY <1>1, <1>2, <1>5
<1>8. \A k \in 1..n : all[h + k] = back[k]
  <2> TAKE k \in 1..n
  <2>1. h + k \in 1..size
    BY <1>1
  <2> QED
    BY <1>3, <1>5, <2>1
<1>9. IsSplit(all, front, h, back, n)
  BY <1>1, <1>2, <1>3, <1>6, <1>7, <1>8 DEF IsSplit
<1>10. FlattenSeq(all) = HistoryTexts \o RequestBody.texts
  <2>1. FlattenSeq(all) = FlattenSeq(front) \o FlattenSeq(back)
    BY <1>9, FlatSplit
  <2> QED
    BY Zenon, <1>2, <1>3, <2>1
<1> QED
  BY <1>10 DEF all

\* A call of the messages is one of the body's, as text or as a structure.
LEMMA CallsOnce ==
    ASSUME InputInv, NEW i \in DOMAIN messages, NEW k \in DOMAIN messages[i].calls, NEW P,
           \A j \in DOMAIN messages : \A l \in DOMAIN messages[j].calls :
               messages[j].calls[l] \in P <=> j = i /\ l = k
    PROVE  IsSeq(AllCalls) /\ Once(AllCalls, P)
<1> DEFINE h == HistoryLen
           size == Len(messages)
           n == size - h
           A == HistoryCalls
           B == RequestBody.calls
           C == Uses(RequestBody)
<1>1. /\ size \in Nat /\ h \in 0..size /\ DOMAIN messages = 1..size /\ n \in Nat
      /\ Round \in 0..size
      /\ Round > 0 => IsActiveRound(messages, Round, Declared) /\ Round \in DOMAIN messages /\ h = Round
  BY RoundFacts
<1>2. /\ Once(messages[i].calls, P)
      /\ \A j \in DOMAIN messages : j # i => Lacks(messages[j].calls, P)
  BY DEF Once, AtMostOnce, Lacks
<1>3. PICK front : /\ ArePieces(front, h) /\ A = FlattenSeq(front)
                   /\ \A j \in 1..h : front[j] = HistoryEntry(j).calls
  BY HistoryPieces
<1>4. Round > 0 => B = <<>>
  BY BodyFacts
<1>5. Round = 0 => C = <<>>
  BY NoRoundNoStructures
<1>6. IsSeq(A) /\ IsSeq(B) /\ IsSeq(C)
  <2>1. IsSeq(A)
    BY <1>3, FlatFacts
  <2>2. CASE Round = 0
    <3>1. PICK back : ArePieces(back, n) /\ B = FlattenSeq(back)
      BY <2>2, CurrentPieces
    <3> QED
      BY <1>5, <2>1, <2>2, <3>1, FlatFacts, EmptyIsSeq
  <2>3. CASE Round > 0
    BY <1>4, <2>1, <2>3, RoundUses, EmptyIsSeq
  <2> QED
    BY <1>1, <2>2, <2>3
<1> DEFINE s == messages[Round].calls
           outside == Picked(s, OtherPlaces)
           inside == Picked(s, RoundPlaces)
<1>7. Round > 0 => /\ IsSeq(s) /\ C = inside
                   /\ OtherPlaces \in SUBSET (DOMAIN s) /\ RoundPlaces \in SUBSET (DOMAIN s)
                   /\ \A l \in DOMAIN s : l \in OtherPlaces <=> l \notin RoundPlaces
  <2>1. Round > 0 => IsSeq(s)
    BY <1>1 DEF InputInv, MessagesSound, IsMessage
  <2>2. Round > 0 => C = inside
    BY UsesFacts
  <2> QED
    BY <2>1, <2>2 DEF OtherPlaces, RoundPlaces
<1>8. \A j \in 1..h : j # Round => front[j] = messages[j].calls
  BY <1>3, EntryFacts
<1>9. Round > 0 => front[Round] = outside
  <2>1. Round > 0 => Round \in 1..h
    BY <1>1
  <2> QED
    BY <1>3, <2>1, EntryFacts
<1>10. Round > 0 /\ Lacks(s, P) => Lacks(outside, P) /\ Lacks(inside, P)
  <2> SUFFICES ASSUME Round > 0, Lacks(s, P) PROVE Lacks(outside, P) /\ Lacks(inside, P)
    OBVIOUS
  <2> HIDE DEF s
  <2>1. /\ \A m \in DOMAIN outside : \E l \in OtherPlaces : outside[m] = s[l]
        /\ \A m \in DOMAIN inside : \E l \in RoundPlaces : inside[m] = s[l]
    BY <1>7, PickedFacts
  <2> HIDE DEF outside, inside
  <2> QED
    BY <1>7, <2>1 DEF Lacks
<1>11. Round > 0 /\ i = Round => \/ Once(outside, P) /\ Lacks(inside, P)
                                 \/ Lacks(outside, P) /\ Once(inside, P)
  <2> SUFFICES ASSUME Round > 0, i = Round
               PROVE  \/ Once(outside, P) /\ Lacks(inside, P)
                      \/ Lacks(outside, P) /\ Once(inside, P)
    OBVIOUS
  <2>1. k \in DOMAIN s /\ \A l \in DOMAIN s : s[l] \in P <=> l = k
    OBVIOUS
  <2> HIDE DEF s
  <2>2. /\ \A m \in DOMAIN outside : \E l \in OtherPlaces : outside[m] = s[l]
        /\ \A l \in OtherPlaces : \E m \in DOMAIN outside : outside[m] = s[l]
        /\ (\A l, m \in OtherPlaces : s[l] \in P /\ s[m] \in P => l = m) => AtMostOnce(outside, P)
    BY <1>7, PickedFacts
  <2>3. /\ \A m \in DOMAIN inside : \E l \in RoundPlaces : inside[m] = s[l]
        /\ \A l \in RoundPlaces : \E m \in DOMAIN inside : inside[m] = s[l]
        /\ (\A l, m \in RoundPlaces : s[l] \in P /\ s[m] \in P => l = m) => AtMostOnce(inside, P)
    BY <1>7, PickedFacts
  <2> HIDE DEF outside, inside
  <2>4. CASE k \in RoundPlaces
    <3>1. Lacks(outside, P)
      BY <1>7, <2>1, <2>2, <2>4 DEF Lacks
    <3>2. AtMostOnce(inside, P)
      BY <1>7, <2>1, <2>3
    <3>3. \E m \in DOMAIN inside : inside[m] \in P
      BY <2>1, <2>3, <2>4
    <3> QED
      BY <3>1, <3>2, <3>3 DEF Once
  <2>5. CASE k \notin RoundPlaces
    <3>1. k \in OtherPlaces
      BY <1>7, <2>1, <2>5
    <3>2. Lacks(inside, P)
      BY <1>7, <2>1, <2>3, <2>5 DEF Lacks
    <3>3. AtMostOnce(outside, P)
      BY <1>7, <2>1, <2>2
    <3>4. \E m \in DOMAIN outside : outside[m] \in P
      BY <2>1, <2>2, <3>1
    <3> QED
      BY <3>2, <3>3, <3>4 DEF Once
  <2> QED
    BY <2>4, <2>5
<1> HIDE DEF A, B, C, h, n, size, s, outside, inside
<1>12. Round > 0 /\ i # Round => Lacks(s, P)
  BY <1>1, <1>2 DEF s
<1>13. Lacks(<<>>, P)
  BY EmptyFacts
<1>14. \A j \in 1..h : j # i => Lacks(front[j], P)
  <2> SUFFICES ASSUME NEW j \in 1..h, j # i PROVE Lacks(front[j], P)
    OBVIOUS
  <2>1. CASE j = Round
    <3>1. Round > 0 /\ i # Round
      BY <1>1, <2>1
    <3> QED
      BY <1>9, <1>10, <1>12, <2>1, <3>1
  <2>2. CASE j # Round
    BY <1>1, <1>2, <1>8, <2>2
  <2> QED
    BY <2>1, <2>2
<1>15. CASE i \in 1..h /\ i # Round
  <2>1. Once(A, P)
    BY <1>2, <1>3, <1>8, <1>14, <1>15, FlatOnce
  <2>2. CASE Round > 0
    <3>1. Lacks(B, P) /\ Lacks(C, P)
      BY <1>4, <1>7, <1>10, <1>12, <1>13, <1>15, <2>2
    <3> QED
      BY <1>6, <2>1, <3>1, JoinOnce, JoinFacts DEF AllCalls, A, B, C
  <2>3. CASE Round = 0
    <3>1. Lacks(C, P)
      BY <1>5, <1>13, <2>3
    <3>2. PICK back : /\ ArePieces(back, n) /\ B = FlattenSeq(back)
                      /\ \A j \in 1..n : back[j] = messages[h + j].calls
      BY <2>3, CurrentPieces DEF B, n, h, size
    <3>3. \A j \in 1..n : h + j \in DOMAIN messages /\ h + j # i
      BY <1>1, <1>15 DEF n
    <3>4. Lacks(B, P)
      BY <1>2, <3>2, <3>3, FlatLacks
    <3> QED
      BY <1>6, <2>1, <3>1, <3>4, JoinOnce, JoinFacts DEF AllCalls, A, B, C
  <2> QED
    BY <1>1, <2>2, <2>3
<1>16. CASE i \in 1..h /\ i = Round
  <2>1. Round > 0
    BY <1>1, <1>16
  <2>2. Lacks(B, P)
    BY <1>4, <1>13, <2>1
  <2>3. CASE Once(outside, P) /\ Lacks(inside, P)
    <3>1. Once(A, P)
      BY <1>3, <1>9, <1>14, <1>16, <2>1, <2>3, FlatOnce
    <3>2. Lacks(C, P)
      BY <1>7, <2>1, <2>3
    <3> QED
      BY <1>6, <2>2, <3>1, <3>2, JoinOnce, JoinFacts DEF AllCalls, A, B, C
  <2>4. CASE Lacks(outside, P) /\ Once(inside, P)
    <3>1. \A j \in 1..h : Lacks(front[j], P)
      BY <1>9, <1>14, <1>16, <2>1, <2>4
    <3>2. Lacks(A, P)
      BY <1>3, <3>1, FlatLacks
    <3>3. Once(C, P)
      BY <1>7, <2>1, <2>4
    <3>4. Lacks(A \o B, P)
      BY <1>6, <2>2, <3>2, JoinLacks
    <3> QED
      BY <1>6, <3>3, <3>4, JoinOnce, JoinFacts DEF AllCalls, A, B, C
  <2> QED
    BY <1>11, <1>16, <2>1, <2>3, <2>4
<1>17. CASE i \notin 1..h
  <2>1. i > h /\ i \in 1..size
    BY <1>1, <1>17
  <2>2. Round = 0
    <3> SUFFICES ASSUME Round > 0 PROVE FALSE
      BY <1>1
    <3>1. i \in (Round + 1)..Len(messages)
      BY <1>1, <2>1 DEF size
    <3>2. messages[i].calls = <<>>
      BY <1>1, <3>1 DEF IsActiveRound
    <3> QED
      BY <3>2, EmptyFacts
  <2>3. Lacks(C, P)
    BY <1>5, <1>13, <2>2
  <2>4. \A j \in 1..h : Lacks(front[j], P)
    BY <1>14, <1>17
  <2>5. Lacks(A, P)
    BY <1>3, <2>4, FlatLacks
  <2>6. PICK back : /\ ArePieces(back, n) /\ B = FlattenSeq(back)
                    /\ \A j \in 1..n : back[j] = messages[h + j].calls
    BY <2>2, CurrentPieces DEF B, n, h, size
  <2> DEFINE r == i - h
  <2>7. r \in 1..n /\ h + r = i
    BY <1>1, <2>1 DEF n
  <2>8. \A j \in 1..n : h + j \in DOMAIN messages /\ (j # r => h + j # i)
    BY <1>1, <2>7 DEF n
  <2> HIDE DEF r
  <2>9. Once(back[r], P) /\ \A j \in 1..n : j # r => Lacks(back[j], P)
    BY <1>2, <2>6, <2>7, <2>8
  <2>10. Once(B, P)
    BY <2>6, <2>7, <2>9, FlatOnce
  <2>11. Once(A \o B, P)
    BY <1>6, <2>5, <2>10, JoinOnce
  <2> QED
    BY <1>6, <2>3, <2>11, JoinOnce, JoinFacts DEF AllCalls, A, B, C
<1> QED
  BY <1>15, <1>16, <1>17

\* The results of a current message that are sent as text: those that are not of the round.
LEMMA PartFacts ==
    ASSUME InputInv, NEW j \in 1..(Len(messages) - HistoryLen), NEW s,
           s = messages[HistoryLen + j].results
    PROVE  /\ IsSeq(s)
           /\ \A m \in DOMAIN CurrentPart(j) : \E l \in DOMAIN s :
                  CurrentPart(j)[m] = s[l] /\ s[l].call \notin RoundCalls
           /\ \A l \in DOMAIN s : s[l].call \notin RoundCalls =>
                  \E m \in DOMAIN CurrentPart(j) : CurrentPart(j)[m] = s[l]
           /\ \A P : AtMostOnce(s, P) => AtMostOnce(CurrentPart(j), P)
<1> DEFINE part == CurrentPart(j)
           places == {l \in DOMAIN s : s[l].call \notin RoundCalls}
<1>1. HistoryLen + j \in DOMAIN messages /\ Current[j] = messages[HistoryLen + j]
  BY CurrentFacts
<1>2. IsSeq(s)
  BY <1>1 DEF InputInv, MessagesSound, IsMessage
<1>3. CASE Round = 0
  <2>1. part = s /\ RoundCalls = {}
    BY <1>1, <1>3, NoRoundNoStructures DEF CurrentPart
  <2> HIDE DEF part
  <2> QED
    BY <1>2, <2>1 DEF part
<1>4. CASE Round > 0
  <2>1. part = Picked(s, places)
    BY <1>1, <1>4 DEF CurrentPart, ActiveRoundText
  <2>2. places \in SUBSET (DOMAIN s) /\ \A l : l \in places <=> l \in DOMAIN s /\ s[l].call \notin RoundCalls
    OBVIOUS
  <2> HIDE DEF part, places
  <2>3. /\ \A m \in DOMAIN part : \E l \in places : part[m] = s[l]
        /\ \A l \in places : \E m \in DOMAIN part : part[m] = s[l]
    BY <1>2, <2>1, <2>2, PickedFacts
  <2>4. \A P : (\A l, m \in places : s[l] \in P /\ s[m] \in P => l = m) => AtMostOnce(part, P)
    BY <1>2, <2>1, <2>2, PickedFacts
  <2>5. ASSUME NEW P, AtMostOnce(s, P) PROVE AtMostOnce(part, P)
    <3>1. \A l, m \in places : s[l] \in P /\ s[m] \in P => l = m
      BY <2>2, <2>5 DEF AtMostOnce
    <3> QED
      BY <2>4, <3>1
  <2> QED
    BY <1>2, <2>2, <2>3, <2>5 DEF part
<1> QED
  BY <1>3, <1>4, RoundFacts

\* A result of the messages is one of the body's, unless it is the second one of its call.
LEMMA ResultsOnce ==
    ASSUME InputInv, NEW i \in DOMAIN messages, NEW k \in DOMAIN messages[i].results, NEW P,
           \A j \in DOMAIN messages : \A l \in DOMAIN messages[j].results :
               messages[j].results[l] \in P <=> j = i /\ l = k,
           NEW r, r = messages[i].results[k]
    PROVE  /\ IsSeq(AllResults) /\ AtMostOnce(AllResults, P)
           /\ r.call \notin RoundCalls => Once(AllResults, P)
<1> DEFINE h == HistoryLen
           size == Len(messages)
           n == size - h
           A == HistoryResults
           B == RequestBody.results
           C == RequestBody.toolResults
           s == CurrentResults
<1>1. /\ size \in Nat /\ h \in 0..size /\ DOMAIN messages = 1..size /\ n \in Nat
  BY RoundFacts
<1>2. /\ Once(messages[i].results, P)
      /\ \A j \in DOMAIN messages : j # i => Lacks(messages[j].results, P)
  BY DEF Once, AtMostOnce, Lacks
<1>3. PICK front : /\ ArePieces(front, h) /\ A = FlattenSeq(front)
                   /\ \A j \in 1..h : front[j] = HistoryEntry(j).results
  BY HistoryPieces
<1>4. PICK back : /\ ArePieces(back, n) /\ B = FlattenSeq(back)
                  /\ \A j \in 1..n : back[j] = CurrentPart(j)
  BY CurrentPieces
<1>5. /\ IsSeq(s)
      /\ \A p \in DOMAIN s : \E j \in DOMAIN messages :
             j > h /\ \E l \in DOMAIN messages[j].results : s[p] = messages[j].results[l]
      /\ \A p, q \in DOMAIN s : s[p].nr = s[q].nr => p = q
      /\ C = FirstResults(s, RoundCalls)
  BY BodyFacts, CurrentResultsFacts DEF CurrentResults
<1> HIDE DEF A, B, C, s
<1>6. IsSeq(A) /\ IsSeq(B)
  BY <1>3, <1>4, FlatFacts
<1>7. \A p \in DOMAIN s : s[p] \in P => s[p] = r /\ i > h
  BY <1>5
<1>8. /\ IsSeq(C)
      /\ \A m \in DOMAIN C : \E p \in DOMAIN s : C[m] = s[p] /\ s[p].call \in RoundCalls
      /\ AtMostOnce(s, P) => AtMostOnce(C, P)
  BY <1>5, FirstFacts
<1>9. AtMostOnce(C, P)
  BY <1>5, <1>7, <1>8 DEF AtMostOnce
<1>10. r.call \notin RoundCalls \/ ~(i > h) => Lacks(C, P)
  BY <1>7, <1>8 DEF Lacks
<1>11. Lacks(<<>>, P)
  BY EmptyFacts
<1>12. \A j \in 1..h : front[j] = IF j = Round THEN <<>> ELSE messages[j].results
  BY <1>3, EntryFacts
<1>13. \A j \in 1..h : j # i => Lacks(front[j], P)
  <2> TAKE j \in 1..h
  <2>1. j \in DOMAIN messages
    BY <1>1
  <2> QED
    BY <1>2, <1>11, <1>12, <2>1
<1>14. \A j \in 1..n : /\ h + j \in DOMAIN messages
                       /\ \A m \in DOMAIN back[j] : \E l \in DOMAIN messages[h + j].results :
                              /\ back[j][m] = messages[h + j].results[l]
                              /\ messages[h + j].results[l].call \notin RoundCalls
  <2> TAKE j \in 1..n
  <2>1. h + j \in DOMAIN messages
    BY <1>1
  <2>2. back[j] = CurrentPart(j)
    BY <1>4
  <2> DEFINE t == messages[h + j].results
  <2> HIDE DEF t
  <2>3. \A m \in DOMAIN CurrentPart(j) : \E l \in DOMAIN t :
            CurrentPart(j)[m] = t[l] /\ t[l].call \notin RoundCalls
    BY PartFacts DEF t
  <2> QED
    BY <2>1, <2>2, <2>3 DEF t
<1>15. \A j \in 1..n : h + j # i \/ r.call \in RoundCalls => Lacks(back[j], P)
  BY <1>14 DEF Lacks
<1> HIDE DEF n, h, size
<1>16. CASE i \in 1..h
  <2>1. i # Round
    <3> SUFFICES ASSUME i = Round PROVE FALSE
      OBVIOUS
    <3>1. messages[i].results = <<>>
      BY <1>16, EntryFacts DEF h
    <3> QED
      BY <3>1, EmptyFacts
  <2>2. Once(front[i], P)
    BY <1>2, <1>12, <1>16, <2>1
  <2>3. Once(A, P)
    BY <1>3, <1>13, <1>16, <2>2, FlatOnce
  <2>4. \A j \in 1..n : Lacks(back[j], P)
    <3> TAKE j \in 1..n
    <3>1. h + j # i
      BY <1>1, <1>16 DEF n
    <3> QED
      BY <1>15, <3>1
  <2>5. Lacks(B, P)
    BY <1>4, <2>4, FlatLacks
  <2>6. Lacks(C, P)
    BY <1>1, <1>10, <1>16
  <2>7. Once(AllResults, P) /\ IsSeq(AllResults)
    BY <1>6, <1>8, <2>3, <2>5, <2>6, JoinOnce, JoinFacts DEF AllResults, A, B, C
  <2> QED
    BY <2>7 DEF Once
<1>17. CASE i \notin 1..h
  <2>1. \A j \in 1..h : Lacks(front[j], P)
    BY <1>13, <1>17
  <2>2. Lacks(A, P)
    BY <1>3, <2>1, FlatLacks
  <2> DEFINE q == i - h
  <2>3. q \in 1..n /\ h + q = i
    BY <1>1, <1>17 DEF n
  <2>4. \A j \in 1..n : j # q => h + j # i
    BY <1>1, <2>3 DEF n
  <2> HIDE DEF q
  <2>5. \A j \in 1..n : j # q => Lacks(back[j], P)
    BY <1>15, <2>4
  <2>6. CASE r.call \in RoundCalls
    <3>1. \A j \in 1..n : Lacks(back[j], P)
      BY <1>15, <2>6
    <3>2. Lacks(B, P)
      BY <1>4, <3>1, FlatLacks
    <3>3. Lacks(A \o B, P) /\ IsSeq(A \o B)
      BY <1>6, <2>2, <3>2, JoinLacks, JoinFacts
    <3>4. AtMostOnce(AllResults, P) /\ IsSeq(AllResults)
      BY <1>8, <1>9, <3>3, JoinOnce, JoinFacts DEF AllResults, A, B, C
    <3> QED
      BY <2>6, <3>4
  <2>7. CASE r.call \notin RoundCalls
    <3>1. Once(back[q], P)
      <4> DEFINE t == messages[i].results
      <4>1. back[q] = CurrentPart(q) /\ q \in 1..(Len(messages) - HistoryLen) /\ HistoryLen + q = i
        BY <1>4, <2>3 DEF n, h, size
      <4> HIDE DEF t
      <4>2. t = messages[HistoryLen + q].results
        BY <4>1 DEF t
      <4>3. /\ \A l \in DOMAIN t : t[l].call \notin RoundCalls =>
                   \E m \in DOMAIN CurrentPart(q) : CurrentPart(q)[m] = t[l]
            /\ \A Q : AtMostOnce(t, Q) => AtMostOnce(CurrentPart(q), Q)
        BY <4>1, <4>2, PartFacts
      <4>4. k \in DOMAIN t /\ t[k] = r /\ t[k] \in P /\ AtMostOnce(t, P)
        BY <1>2 DEF t, Once
      <4> QED
        BY <2>7, <4>1, <4>3, <4>4 DEF Once
    <3>2. Once(B, P)
      BY <1>4, <2>3, <2>5, <3>1, FlatOnce
    <3>3. Once(A \o B, P) /\ IsSeq(A \o B)
      BY <1>6, <2>2, <3>2, JoinOnce, JoinFacts
    <3>4. Lacks(C, P)
      BY <1>10, <2>7
    <3>5. Once(AllResults, P) /\ IsSeq(AllResults)
      BY <1>8, <3>3, <3>4, JoinOnce, JoinFacts DEF AllResults, A, B, C
    <3> QED
      BY <3>5 DEF Once
  <2> QED
    BY <2>6, <2>7
<1> QED
  BY <1>16, <1>17

LEMMA CallsCounted ==
    ASSUME InputInv, NEW id \in Ids
    PROVE  Cardinality({p \in DOMAIN AllCalls : AllCalls[p].id = id}) = 1
<1>1. CallsSound(messages, shown) /\ Ids = 1..Len(shown)
  BY SeqFacts DEF InputInv, MessagesSound, Ids
<1>2. PICK i \in DOMAIN messages : \E k \in DOMAIN messages[i].calls : messages[i].calls[k].id = id
  BY <1>1 DEF CallsSound
<1>3. PICK k \in DOMAIN messages[i].calls : messages[i].calls[k].id = id
  BY <1>2
<1> DEFINE U == {AllCalls[p] : p \in DOMAIN AllCalls}
           V == UNION {{messages[j].calls[l] : l \in DOMAIN messages[j].calls} : j \in DOMAIN messages}
           P == {c \in U \cup V : c.id = id}
<1>4. \A j \in DOMAIN messages : \A l \in DOMAIN messages[j].calls : messages[j].calls[l] \in V
  OBVIOUS
<1>5. \A p \in DOMAIN AllCalls : AllCalls[p] \in U
  OBVIOUS
<1> HIDE DEF U, V
<1>6. \A j \in DOMAIN messages : \A l \in DOMAIN messages[j].calls :
          messages[j].calls[l] \in P <=> messages[j].calls[l].id = id
  BY <1>4
<1>7. \A p \in DOMAIN AllCalls : AllCalls[p] \in P <=> AllCalls[p].id = id
  BY <1>5
<1> HIDE DEF P
<1>8. \A j \in DOMAIN messages : \A l \in DOMAIN messages[j].calls :
          messages[j].calls[l] \in P <=> j = i /\ l = k
  BY <1>1, <1>3, <1>6 DEF CallsSound
<1>9. Once(AllCalls, P)
  BY <1>8, CallsOnce
<1>10. PICK p \in DOMAIN AllCalls : AllCalls[p] \in P
  BY <1>9 DEF Once
<1>11. {q \in DOMAIN AllCalls : AllCalls[q].id = id} = {p}
  BY <1>7, <1>9, <1>10 DEF Once, AtMostOnce
<1> QED
  BY <1>11, OneOf

LEMMA ResultsCounted ==
    ASSUME InputInv, NEW i \in DOMAIN messages, NEW k \in DOMAIN messages[i].results,
           NEW r, r = messages[i].results[k],
           NEW N, N = Cardinality({p \in DOMAIN AllResults : AllResults[p].nr = r.nr})
    PROVE  N <= 1 /\ (r.call \notin RoundCalls => N = 1)
<1>1. ResultsSound(messages, shown, items)
  BY DEF InputInv, MessagesSound
<1> DEFINE U == {AllResults[p] : p \in DOMAIN AllResults}
           V == UNION {{messages[j].results[l] : l \in DOMAIN messages[j].results} : j \in DOMAIN messages}
           P == {x \in U \cup V : x.nr = r.nr}
           places == {p \in DOMAIN AllResults : AllResults[p].nr = r.nr}
<1>4. \A j \in DOMAIN messages : \A l \in DOMAIN messages[j].results : messages[j].results[l] \in V
  OBVIOUS
<1>5. \A p \in DOMAIN AllResults : AllResults[p] \in U
  OBVIOUS
<1> HIDE DEF U, V
<1>6. \A j \in DOMAIN messages : \A l \in DOMAIN messages[j].results :
          messages[j].results[l] \in P <=> messages[j].results[l].nr = r.nr
  BY <1>4
<1>7. \A p \in DOMAIN AllResults : AllResults[p] \in P <=> p \in places
  BY <1>5
<1> HIDE DEF P
<1>8. \A j \in DOMAIN messages : \A l \in DOMAIN messages[j].results :
          messages[j].results[l] \in P <=> j = i /\ l = k
  BY <1>1, <1>6 DEF ResultsSound
<1>9. AtMostOnce(AllResults, P) /\ (r.call \notin RoundCalls => Once(AllResults, P))
  BY <1>8, ResultsOnce
<1>10. \A p, q \in places : p = q
  BY <1>7, <1>9 DEF AtMostOnce
<1>11. r.call \notin RoundCalls => places # {}
  BY <1>7, <1>9 DEF Once
<1>12. N = Cardinality(places)
  OBVIOUS
<1> HIDE DEF places
<1>13. CASE places = {}
  BY <1>11, <1>12, <1>13, FS_EmptySet
<1>14. CASE places # {}
  <2>1. PICK p : p \in places
    BY <1>14
  <2>2. places = {p}
    BY <1>10, <2>1
  <2> QED
    BY <1>12, <2>2, OneOf
<1> QED
  BY <1>13, <1>14

\* The calls that are structures are those of the round, and each has a result.
LEMMA AnsweredUses ==
    ASSUME InputInv, NEW id
    PROVE  /\ id \in RoundCalls <=> \E c \in Range(Uses(RequestBody)) : c.id = id
           /\ id \in RoundCalls => \E x \in Range(RequestBody.toolResults) : x.call = id
<1> DEFINE uses == Uses(RequestBody)
           results == RequestBody.toolResults
<1>1. CASE Round = 0
  <2>1. uses = <<>> /\ RoundCalls = {}
    BY <1>1, NoRoundNoStructures
  <2> HIDE DEF uses
  <2>2. Range(uses) = {}
    BY <2>1, EmptyFacts DEF Range
  <2> QED
    BY <2>1, <2>2 DEF uses
<1>2. CASE Round > 0
  <2>1. /\ \A n \in DOMAIN uses : uses[n].id \in RoundCalls
        /\ \A x \in RoundCalls : \E n \in DOMAIN uses : uses[n].id = x
    BY <1>2, RoundUses
  <2>2. \A x \in RoundCalls : \E n \in DOMAIN results : results[n].call = x
    BY <1>2, RoundResults
  <2> HIDE DEF uses, results
  <2> QED
    BY <2>1, <2>2 DEF Range, uses, results
<1> QED
  BY <1>1, <1>2, RoundFacts

\* Where a result of the messages is.
LEMMA ResultPlace ==
    ASSUME InputInv,
           NEW r \in Range(FlattenSeq([i \in DOMAIN messages |-> messages[i].results]))
    PROVE  \E i \in DOMAIN messages : \E k \in DOMAIN messages[i].results : r = messages[i].results[k]
<1> DEFINE pieces == [i \in DOMAIN messages |-> messages[i].results]
           n == Len(messages)
           flat == FlattenSeq(pieces)
<1>1. n \in Nat /\ DOMAIN messages = 1..n
  BY RoundFacts
<1>2. pieces = [i \in 1..n |-> pieces[i]] /\ \A i \in 1..n : pieces[i] = messages[i].results
  BY <1>1
<1>3. \A i \in 1..n : IsSeq(messages[i].results)
  BY <1>1 DEF InputInv, MessagesSound, IsMessage
<1>4. PICK p \in DOMAIN flat : r = flat[p]
  BY DEF Range
<1> HIDE DEF pieces, n
<1>5. ArePieces(pieces, n)
  BY <1>1, <1>2, <1>3, FunctionIsSeq DEF ArePieces
<1>6. PICK i \in 1..n : \E j \in DOMAIN pieces[i] : flat[p] = pieces[i][j]
  BY <1>5, FlatFacts
<1> QED
  BY <1>1, <1>2, <1>4, <1>6

LEMMA NothingLost ==
    ASSUME InputInv
    PROVE  NothingIsLost
<1>1. HistoryTexts \o RequestBody.texts = FlattenSeq([i \in DOMAIN messages |-> messages[i].texts])
  BY TextsKept
<1>2. RequestBody.guidance = guidance
  BY BodyFacts
<1>3. \A id \in Ids : Cardinality({p \in DOMAIN AllCalls : AllCalls[p].id = id}) = 1
  BY CallsCounted
<1>4. ASSUME NEW r \in Range(FlattenSeq([i \in DOMAIN messages |-> messages[i].results])),
             NEW N, N = Cardinality({p \in DOMAIN AllResults : AllResults[p].nr = r.nr})
      PROVE  IF \E c \in Range(Uses(RequestBody)) : c.id = r.call
             THEN N <= 1 /\ \E x \in Range(RequestBody.toolResults) : x.call = r.call
             ELSE N = 1
  <2>1. PICK i \in DOMAIN messages : \E k \in DOMAIN messages[i].results : r = messages[i].results[k]
    BY ResultPlace
  <2>2. PICK k \in DOMAIN messages[i].results : r = messages[i].results[k]
    BY <2>1
  <2>3. N <= 1 /\ (r.call \notin RoundCalls => N = 1)
    BY <1>4, <2>2, ResultsCounted
  <2> QED
    BY <2>3, AnsweredUses
<1> QED
  BY Zenon, <1>1, <1>2, <1>3, <1>4
     DEF NothingIsLost, AllOf, Concat, Count, AllCalls, AllResults, HistoryTexts, HistoryCalls,
         HistoryResults

\* Every text, call and result of the messages is in the body once, as text or as a structure;
\* only a second result for a call of the round is dropped (endpoint/mod.rs:258-455).
THEOREM NothingIsLostHolds == InputSpec => []NothingIsLost
BY NothingLost, InputInvHolds, PTL

-----------------------------------------------------------------------------
(* One frame: decode_one looks at as many bytes as the frame is long.       *)

Octets == 0..(Base - 1)
FrameOf(bytes) == SubSeq(bytes, 1, Word(bytes, 1))
MessageOf(bytes) == Message(Headers(bytes).headers, Payload(bytes))
Received(bytes, rest) == [kind |-> "message", message |-> MessageOf(bytes), rest |-> rest]

LEMMA ReceivedFacts ==
    ASSUME NEW bytes, NEW rest
    PROVE  /\ Received(bytes, rest).kind = "message"
           /\ Received(bytes, rest).message = MessageOf(bytes)
           /\ Received(bytes, rest).rest = rest
<1>1. \A m : [kind |-> "message", message |-> m, rest |-> rest].rest = rest
  OBVIOUS
<1>2. \A m : /\ [kind |-> "message", message |-> m, rest |-> rest].kind = "message"
            /\ [kind |-> "message", message |-> m, rest |-> rest].message = m
  OBVIOUS
<1> QED
  BY <1>1, <1>2 DEF Received

LEMMA WordFacts ==
    ASSUME NEW b \in Seq(Octets), NEW at \in 1..(Len(b) - 1)
    PROVE  Word(b, at) \in Nat
<1>1. b[at] \in Octets /\ b[at + 1] \in Octets
  OBVIOUS
<1>2. Base \in Nat /\ b[at] \in Nat /\ b[at + 1] \in Nat
  BY <1>1, FrameAssumption DEF FrameAssumption, Octets
<1>3. Base * b[at] \in Nat
  BY <1>2
<1> QED
  BY <1>2, <1>3 DEF Word

\* Two sequences have the same first n bytes.
Agree(a, b, n) ==
    n \in Nat /\ n <= Len(a) /\ n <= Len(b) /\ \A i \in 1..n : a[i] = b[i]

LEMMA AgreeFacts ==
    ASSUME NEW a \in Seq(Octets), NEW b \in Seq(Octets), NEW n, Agree(a, b, n)
    PROVE  /\ \A m \in 0..n : SubSeq(a, 1, m) = SubSeq(b, 1, m)
           /\ \A at \in 1..(n - 1) : Word(a, at) = Word(b, at)
<1>1. n \in Nat /\ n <= Len(a) /\ n <= Len(b) /\ \A i \in 1..n : a[i] = b[i]
  BY DEF Agree
<1>2. ASSUME NEW m \in 0..n PROVE SubSeq(a, 1, m) = SubSeq(b, 1, m)
  <2>1. m \in Nat /\ m <= Len(a) /\ m <= Len(b) /\ \A i \in 1..m : a[i] = b[i]
    BY <1>1
  <2> QED
    BY <2>1
<1>3. ASSUME NEW at \in 1..(n - 1) PROVE Word(a, at) = Word(b, at)
  <2>1. at \in 1..n /\ at + 1 \in 1..n
    BY <1>1
  <2>2. a[at] = b[at] /\ a[at + 1] = b[at + 1]
    BY <1>1, <2>1
  <2> QED
    BY <2>2 DEF Word
<1> QED
  BY <1>2, <1>3

LEMMA FrameFacts ==
    ASSUME NEW b \in Seq(Octets), Len(b) >= PreludeSize, LengthsFit(b), Len(b) >= Word(b, 1)
    PROVE  /\ FrameOf(b) \in Seq(Octets) /\ Len(FrameOf(b)) = Word(b, 1)
           /\ Word(b, 1) \in Nat /\ Word(b, 1) >= MinFrameSize
           /\ Word(FrameOf(b), 1) = Word(b, 1) /\ Word(FrameOf(b), 3) = Word(b, 3)
           /\ Word(FrameOf(b), 5) = Word(b, 5) /\ SubSeq(FrameOf(b), 1, 4) = SubSeq(b, 1, 4)
           /\ LengthsFit(FrameOf(b))
<1> DEFINE n == Word(b, 1)
<1>1. Len(b) \in Nat /\ Len(b) >= 6
  BY DEF PreludeSize
<1>2. n \in Nat /\ n >= 8 /\ n <= Len(b)
  BY <1>1, WordFacts DEF LengthsFit, MinFrameSize
<1> HIDE DEF n
<1> DEFINE f == SubSeq(b, 1, n)
<1>3. f \in Seq(Octets) /\ Len(f) = n /\ \A i \in 1..n : f[i] = b[i]
  BY <1>1, <1>2
<1> HIDE DEF f
<1>4. Agree(f, b, n)
  BY <1>1, <1>2, <1>3 DEF Agree
<1>5. 1 \in 1..(n - 1) /\ 3 \in 1..(n - 1) /\ 5 \in 1..(n - 1) /\ 4 \in 0..n
  BY <1>2
<1>6. Word(f, 1) = n /\ Word(f, 3) = Word(b, 3) /\ Word(f, 5) = Word(b, 5)
      /\ SubSeq(f, 1, 4) = SubSeq(b, 1, 4)
  BY <1>3, <1>4, <1>5, AgreeFacts DEF n
<1>7. LengthsFit(f)
  BY <1>6 DEF LengthsFit, n
<1>8. f = FrameOf(b)
  BY DEF f, n, FrameOf
<1> QED
  BY <1>2, <1>3, <1>6, <1>7, <1>8 DEF n, MinFrameSize

LEMMA DecodeOneIs ==
    ASSUME NEW b \in Seq(Octets)
    PROVE  DecodeOne(b) = IF Len(b) < PreludeSize THEN More
                          ELSE IF ~LengthsFit(b) THEN Bad
                          ELSE IF Len(b) < Word(b, 1) THEN More
                          ELSE IF ~IsFrame(FrameOf(b)) THEN Bad
                          ELSE Received(FrameOf(b), SubSeq(b, Word(b, 1) + 1, Len(b)))
<1>1. CASE Len(b) < PreludeSize
  BY <1>1 DEF DecodeOne
<1>2. CASE ~(Len(b) < PreludeSize) /\ ~LengthsFit(b)
  <2>1. Word(b, 1) \notin MinFrameSize..MaxFrameSize \/ Word(b, 3) > Word(b, 1) - MinFrameSize
    <3>1. Len(b) \in Nat /\ Len(b) >= 6
      BY <1>2 DEF PreludeSize
    <3>2. Word(b, 1) \in Nat /\ Word(b, 3) \in Nat
      BY <3>1, WordFacts
    <3> QED
      BY <1>2, <3>2 DEF LengthsFit, MinFrameSize
  <2> QED
    BY <1>2, <2>1 DEF DecodeOne, DecodeFrame
<1>3. CASE ~(Len(b) < PreludeSize) /\ LengthsFit(b) /\ Len(b) < Word(b, 1)
  <2>1. ~(Word(b, 1) \notin MinFrameSize..MaxFrameSize \/ Word(b, 3) > Word(b, 1) - MinFrameSize)
    <3>1. Len(b) \in Nat /\ Len(b) >= 6
      BY <1>3 DEF PreludeSize
    <3>2. Word(b, 1) \in Nat /\ Word(b, 3) \in Nat
      BY <3>1, WordFacts
    <3> QED
      BY <1>3, <3>2 DEF LengthsFit, MinFrameSize
  <2> QED
    BY <1>3, <2>1 DEF DecodeOne, DecodeFrame
<1>4. CASE ~(Len(b) < PreludeSize) /\ LengthsFit(b) /\ ~(Len(b) < Word(b, 1))
  <2>1. Len(b) \in Nat /\ Len(b) >= 6
    BY <1>4 DEF PreludeSize
  <2>2. Word(b, 1) \in Nat /\ Word(b, 3) \in Nat
    BY <2>1, WordFacts
  <2>3. Len(b) >= PreludeSize /\ Len(b) >= Word(b, 1)
    BY <1>4, <2>1, <2>2 DEF PreludeSize
  <2>4. ~(Word(b, 1) \notin MinFrameSize..MaxFrameSize \/ Word(b, 3) > Word(b, 1) - MinFrameSize)
    BY <1>4, <2>2 DEF LengthsFit, MinFrameSize
  <2> DEFINE f == FrameOf(b)
             n == Word(b, 1)
             size == Word(b, 3)
             parsed == ParseHeaders(SubSeq(f, PreludeSize + 1, (PreludeSize + size + 1) - 1))
             rest == SubSeq(b, n + 1, Len(b))
  <2>5. /\ Len(f) = n /\ n >= MinFrameSize /\ Word(f, 1) = n /\ Word(f, 3) = size
        /\ Word(f, 5) = Word(b, 5) /\ SubSeq(f, 1, 4) = SubSeq(b, 1, 4) /\ LengthsFit(f)
    BY <1>4, <2>3, FrameFacts
  <2>6. (PreludeSize + size + 1) - 1 = PreludeSize + size
    BY <2>2 DEF PreludeSize
  <2>7. parsed = Headers(f)
    BY <2>5, <2>6 DEF Headers
  <2>8. IsFrame(f) <=> IsIntact(f) /\ parsed.ok
    <3>1. Len(f) >= PreludeSize /\ Len(f) - 2 + 1 = Len(f) - 1 /\ 4 + 1 = 5
      BY <2>2, <2>5 DEF PreludeSize, MinFrameSize
    <3>2. IsIntact(f) <=> IsSealed(f, Len(f) - 2) /\ IsSealed(f, 4)
      BY <3>1 DEF IsIntact, IsSealed
    <3> QED
      BY <2>5, <2>7, <3>1, <3>2 DEF IsFrame
  <2>9. DecodeOne(b) = IF ~IsIntact(f) \/ ~parsed.ok THEN Bad
                       ELSE [kind |-> "message",
                             message |-> Message(parsed.headers, SubSeq(f, PreludeSize + size + 1, n - 2)),
                             rest |-> rest]
    <3>1. DecodeOne(b) = DecodeFrame(b)
      BY <1>4 DEF DecodeOne
    <3>2. ~(n \notin MinFrameSize..MaxFrameSize \/ size > n - MinFrameSize) /\ ~(Len(b) < n)
      BY <1>4, <2>4
    <3>3. DecodeFrame(b) =
              IF n \notin MinFrameSize..MaxFrameSize \/ size > n - MinFrameSize THEN Bad
              ELSE IF Len(b) < n THEN More
              ELSE IF ~IsIntact(f) \/ ~parsed.ok THEN Bad
              ELSE [kind |-> "message",
                    message |-> Message(parsed.headers, SubSeq(f, PreludeSize + size + 1, n - 2)),
                    rest |-> rest]
      BY Zenon DEF DecodeFrame, FrameOf
    <3> HIDE DEF f, n, size, parsed, rest
    <3> QED
      BY <3>1, <3>2, <3>3, Zenon
  <2>10. SubSeq(f, PreludeSize + size + 1, n - 2) = Payload(f)
    BY <2>5 DEF Payload
  <2> HIDE DEF f, n, size, parsed, rest
  <2>11. DecodeOne(b) = IF ~IsFrame(f) THEN Bad ELSE Received(f, rest)
    BY <2>7, <2>8, <2>9, <2>10, Zenon DEF Received, MessageOf
  <2> QED
    BY <1>4, <2>11, Zenon DEF f, rest, n
<1> QED
  BY Zenon, <1>1, <1>2, <1>3, <1>4

\* Two sequences agree as far as both go.
IsLike(a, b) == \A i \in 1..Len(a) : i <= Len(b) => a[i] = b[i]

LEMMA LikeFacts ==
    ASSUME NEW b \in Seq(Octets), NEW f \in Seq(Octets), IsLike(b, f),
           Len(b) >= PreludeSize, Len(f) >= PreludeSize
    PROVE  /\ Word(b, 1) = Word(f, 1) /\ Word(b, 3) = Word(f, 3) /\ Word(b, 5) = Word(f, 5)
           /\ SubSeq(b, 1, 4) = SubSeq(f, 1, 4)
           /\ LengthsFit(b) <=> LengthsFit(f)
           /\ Word(b, 1) \in Nat /\ Len(b) \in Nat /\ Len(f) \in Nat
<1>1. Len(b) \in Nat /\ Len(f) \in Nat /\ Len(b) >= 6 /\ Len(f) >= 6
  BY DEF PreludeSize
<1>2. Agree(b, f, 6)
  BY <1>1 DEF Agree, IsLike
<1>3. 1 \in 1..(6 - 1) /\ 3 \in 1..(6 - 1) /\ 5 \in 1..(6 - 1) /\ 4 \in 0..6
  OBVIOUS
<1>4. /\ Word(b, 1) = Word(f, 1) /\ Word(b, 3) = Word(f, 3) /\ Word(b, 5) = Word(f, 5)
      /\ SubSeq(b, 1, 4) = SubSeq(f, 1, 4)
  BY <1>2, <1>3, AgreeFacts
<1>5. LengthsFit(b) <=> LengthsFit(f)
  BY <1>4 DEF LengthsFit
<1>6. Word(b, 1) \in Nat
  BY <1>1, WordFacts
<1> QED
  BY <1>1, <1>4, <1>5, <1>6

LEMMA LikeFrames ==
    ASSUME NEW b \in Seq(Octets), NEW f \in Seq(Octets), IsLike(b, f),
           Len(b) >= PreludeSize, Len(f) >= PreludeSize,
           Word(f, 1) <= Len(b), Word(f, 1) <= Len(f)
    PROVE  FrameOf(b) = FrameOf(f)
<1>1. /\ Word(b, 1) = Word(f, 1) /\ Word(f, 1) \in Nat
      /\ Len(b) \in Nat /\ Len(f) \in Nat
  BY LikeFacts
<1> DEFINE n == Word(f, 1)
<1>2. Agree(b, f, n) /\ n \in 0..n
  BY <1>1 DEF Agree, IsLike
<1>3. SubSeq(b, 1, n) = SubSeq(f, 1, n)
  BY <1>2, AgreeFacts
<1> QED
  BY <1>1, <1>3 DEF FrameOf

LEMMA SoundFrame ==
    ASSUME NEW b \in Seq(Octets), NEW f \in Seq(Octets), IsFrame(f), IsLike(b, f)
    PROVE  DecodeOne(b) = IF Len(b) < Len(f) THEN More
                          ELSE Received(f, SubSeq(b, Len(f) + 1, Len(b)))
<1>1. /\ Len(f) \in Nat /\ Len(f) >= PreludeSize /\ LengthsFit(f) /\ Len(f) = Word(f, 1)
      /\ Len(b) \in Nat
  BY DEF IsFrame
<1>2. CASE Len(b) < PreludeSize
  <2>1. Len(b) < Len(f)
    BY <1>1, <1>2 DEF PreludeSize
  <2> QED
    BY <1>2, <2>1, DecodeOneIs
<1>3. CASE ~(Len(b) < PreludeSize)
  <2>1. Len(b) >= PreludeSize
    BY <1>1, <1>3 DEF PreludeSize
  <2>2. Word(b, 1) = Len(f) /\ LengthsFit(b)
    BY <1>1, <2>1, LikeFacts
  <2>3. ~(Len(b) < Len(f)) => FrameOf(b) = f
    <3>1. SUFFICES ASSUME ~(Len(b) < Len(f)) PROVE FrameOf(b) = f
      OBVIOUS
    <3>2. FrameOf(b) = FrameOf(f)
      BY <1>1, <2>1, <3>1, LikeFrames
    <3>3. FrameOf(f) = f
      BY <1>1 DEF FrameOf
    <3> QED
      BY <3>2, <3>3
  <2>4. DecodeOne(b) = IF Len(b) < Word(b, 1) THEN More
                       ELSE IF ~IsFrame(FrameOf(b)) THEN Bad
                       ELSE Received(FrameOf(b), SubSeq(b, Word(b, 1) + 1, Len(b)))
    BY <1>3, <2>2, DecodeOneIs
  <2>5. CASE Len(b) < Len(f)
    BY <2>2, <2>4, <2>5
  <2>6. CASE ~(Len(b) < Len(f))
    <3>1. DecodeOne(b) = Received(f, SubSeq(b, Len(f) + 1, Len(b)))
      BY Zenon, <2>2, <2>3, <2>4, <2>6
    <3> QED
      BY <2>6, <3>1
  <2> QED
    BY <2>5, <2>6
<1> QED
  BY <1>2, <1>3

LEMMA DamagedFrame ==
    ASSUME NEW b \in Seq(Octets), NEW f \in Seq(Octets), IsDamaged(f), IsLike(b, f)
    PROVE  DecodeOne(b) = More \/ DecodeOne(b) = Bad
<1>1. SUFFICES ASSUME ~(Len(b) < PreludeSize), LengthsFit(b), ~(Len(b) < Word(b, 1))
               PROVE  ~IsFrame(FrameOf(b))
  BY DecodeOneIs
<1>2. Len(f) >= PreludeSize /\ Len(b) >= PreludeSize /\ Len(b) \in Nat /\ Len(f) \in Nat
  BY <1>1 DEF IsDamaged, PreludeSize
<1>3. /\ Word(b, 1) = Word(f, 1) /\ Word(b, 5) = Word(f, 5) /\ Word(b, 1) \in Nat
      /\ SubSeq(b, 1, 4) = SubSeq(f, 1, 4) /\ LengthsFit(f)
  BY <1>1, <1>2, LikeFacts
<1>4. Len(b) >= Word(b, 1)
  BY <1>1, <1>2, <1>3
<1>5. Word(FrameOf(b), 5) = Word(b, 5) /\ SubSeq(FrameOf(b), 1, 4) = SubSeq(b, 1, 4)
  BY <1>1, <1>2, <1>4, FrameFacts
<1>6. IsSealed(FrameOf(b), 4) <=> IsSealed(f, 4)
  <2>1. 4 + 1 = 5
    OBVIOUS
  <2> QED
    BY <1>3, <1>5, <2>1 DEF IsSealed
<1>7. SUFFICES ASSUME IsSealed(f, 4) PROVE ~IsFrame(FrameOf(b))
  BY <1>6 DEF IsFrame
<1>8. /\ Word(f, 1) <= Len(f)
      /\ IsSealed(FrameOf(f), Len(FrameOf(f)) - 2) => ~Headers(FrameOf(f)).ok
  BY <1>3, <1>7 DEF IsDamaged, FrameOf
<1>9. FrameOf(b) = FrameOf(f)
  BY <1>2, <1>3, <1>4, <1>8, LikeFrames
<1> QED
  BY <1>8, <1>9 DEF IsFrame

\* What is left is shorter, which is why the loop of push ends.
LEMMA RestIsShorter ==
    ASSUME NEW b \in Seq(Octets), DecodeOne(b).kind = "message"
    PROVE  DecodeOne(b).rest \in Seq(Octets) /\ Len(DecodeOne(b).rest) < Len(b)
<1>1. More.kind # "message" /\ Bad.kind # "message"
  BY DEF More, Bad
<1>2. /\ ~(Len(b) < PreludeSize) /\ LengthsFit(b) /\ ~(Len(b) < Word(b, 1))
      /\ DecodeOne(b) = Received(FrameOf(b), SubSeq(b, Word(b, 1) + 1, Len(b)))
  <2>1. DecodeOne(b) # More /\ DecodeOne(b) # Bad
    BY <1>1
  <2> QED
    BY Zenon, <2>1, DecodeOneIs
<1>3. DecodeOne(b).rest = SubSeq(b, Word(b, 1) + 1, Len(b))
  BY <1>2, ReceivedFacts
<1> DEFINE n == Word(b, 1)
<1>4. Len(b) \in Nat /\ n \in Nat /\ n >= 8 /\ n <= Len(b)
  <2>1. Len(b) \in Nat /\ Len(b) >= 6
    BY <1>2 DEF PreludeSize
  <2>2. n \in Nat
    BY <2>1, WordFacts
  <2>3. n >= 8
    BY <1>2, <2>2 DEF LengthsFit, MinFrameSize
  <2> QED
    BY <1>2, <2>1, <2>2, <2>3
<1> HIDE DEF n
<1>5. SubSeq(b, n + 1, Len(b)) \in Seq(Octets)
      /\ Len(SubSeq(b, n + 1, Len(b))) = Len(b) - n
  BY <1>4
<1> QED
  BY <1>3, <1>4, <1>5 DEF n

-----------------------------------------------------------------------------
(* The loop of push is well defined.                                        *)

PushStep(from, b) ==
    LET one == DecodeOne(b) IN
    IF one.kind = "message"
      THEN [from[one.rest] EXCEPT !.messages = <<one.message>> \o @]
      ELSE [bad |-> one.kind = "bad", messages |-> <<>>, rest |-> b]

OctetsUpTo(n) == {b \in Seq(Octets) : Len(b) <= n}
PushesTo(f, n) == f = [b \in OctetsUpTo(n) |-> PushStep(f, b)]
Pushes(from) == from = [b \in Seq(Octets) |-> PushStep(from, b)]

LEMMA PushLooksAhead ==
    ASSUME NEW b \in Seq(Octets), NEW f, NEW g,
           \A c \in Seq(Octets) : Len(c) < Len(b) => f[c] = g[c]
    PROVE  PushStep(f, b) = PushStep(g, b)
<1>1. CASE DecodeOne(b).kind = "message"
  <2> DEFINE c == DecodeOne(b).rest
  <2>1. c \in Seq(Octets) /\ Len(c) < Len(b)
    BY <1>1, RestIsShorter
  <2>2. f[c] = g[c]
    BY <2>1
  <2> QED
    BY <1>1, <2>2, Zenon DEF PushStep
<1>2. CASE DecodeOne(b).kind # "message"
  BY <1>2, Zenon DEF PushStep
<1> QED
  BY <1>1, <1>2

LEMMA PushIsUnique ==
    ASSUME NEW n \in Nat, NEW f, PushesTo(f, n), NEW p \in Nat, NEW g, PushesTo(g, p),
           NEW b \in OctetsUpTo(n), b \in OctetsUpTo(p)
    PROVE  f[b] = g[b]
<1> DEFINE Wrong == {k \in Nat : \E c \in Seq(Octets) :
                         Len(c) = k /\ Len(c) <= n /\ Len(c) <= p /\ f[c] # g[c]}
<1>1. SUFFICES ASSUME Wrong # {} PROVE FALSE
  <2>1. b \in Seq(Octets) /\ Len(b) \in Nat /\ Len(b) <= n /\ Len(b) <= p
    BY DEF OctetsUpTo
  <2> QED
    BY <2>1
<1>2. PICK k \in Wrong : \A j \in Wrong : k <= j
  <2>1. Wrong \in SUBSET Nat
    OBVIOUS
  <2> HIDE DEF Wrong
  <2> QED
    BY <1>1, <2>1, NatMin
<1>3. PICK c \in Seq(Octets) : Len(c) = k /\ Len(c) <= n /\ Len(c) <= p /\ f[c] # g[c]
  OBVIOUS
<1>4. ASSUME NEW d \in Seq(Octets), Len(d) < Len(c)
      PROVE  f[d] = g[d]
  <2>1. Len(d) \in Nat /\ Len(c) \in Nat /\ Len(d) <= n /\ Len(d) <= p /\ ~(k <= Len(d))
    BY <1>3, <1>4
  <2>2. Len(d) \notin Wrong
    BY <1>2, <2>1
  <2> QED
    BY <2>1, <2>2
<1>5. PushStep(f, c) = PushStep(g, c)
  BY <1>4, PushLooksAhead
<1>6. f[c] = PushStep(f, c) /\ g[c] = PushStep(g, c)
  <2>1. c \in OctetsUpTo(n) /\ c \in OctetsUpTo(p)
    BY <1>3 DEF OctetsUpTo
  <2> QED
    BY <2>1 DEF PushesTo
<1> QED
  BY <1>3, <1>5, <1>6

LEMMA PushExistsUpTo ==
    ASSUME NEW n \in Nat
    PROVE  \E f : PushesTo(f, n)
<1> DEFINE Without == {m \in Nat : ~\E f : PushesTo(f, m)}
<1>1. SUFFICES ASSUME Without # {} PROVE FALSE
  OBVIOUS
<1>2. PICK m \in Without : \A j \in Without : m <= j
  <2>1. Without \in SUBSET Nat
    OBVIOUS
  <2> HIDE DEF Without
  <2> QED
    BY <1>1, <2>1, NatMin
<1>3. m \in Nat /\ ~\E f : PushesTo(f, m)
  OBVIOUS
<1>4. PICK g : m > 0 => PushesTo(g, m - 1)
  <2>1. m > 0 => m - 1 \in Nat /\ m - 1 \notin Without
    BY <1>2, <1>3
  <2> QED
    BY <2>1
<1> DEFINE f == [b \in OctetsUpTo(m) |-> PushStep(g, b)]
<1>5. ASSUME NEW b \in OctetsUpTo(m)
      PROVE  PushStep(g, b) = PushStep(f, b)
  <2>1. b \in Seq(Octets) /\ Len(b) \in Nat /\ Len(b) <= m
    BY DEF OctetsUpTo
  <2>2. ASSUME NEW c \in Seq(Octets), Len(c) < Len(b)
        PROVE  g[c] = f[c]
    <3>1. Len(c) \in Nat /\ m > 0 /\ Len(c) <= m - 1 /\ Len(c) <= m
      BY <1>3, <2>1, <2>2
    <3>2. c \in OctetsUpTo(m) /\ c \in OctetsUpTo(m - 1)
      BY <3>1 DEF OctetsUpTo
    <3>3. g[c] = PushStep(g, c)
      BY <1>4, <3>1, <3>2 DEF PushesTo
    <3> QED
      BY <3>2, <3>3
  <2> HIDE DEF f
  <2> QED
    BY <2>1, <2>2, PushLooksAhead
<1>6. PushesTo(f, m)
  <2>1. \A b \in OctetsUpTo(m) : f[b] = PushStep(f, b)
    BY <1>5
  <2>2. f = [b \in OctetsUpTo(m) |-> f[b]]
    OBVIOUS
  <2> HIDE DEF f
  <2> QED
    BY <2>1, <2>2 DEF PushesTo
<1> HIDE DEF f
<1> QED
  BY <1>3, <1>6

LEMMA PushExists == \E from : Pushes(from)
<1> DEFINE F(n) == CHOOSE f : PushesTo(f, n)
           from == [b \in Seq(Octets) |-> F(Len(b))[b]]
<1>1. \A n \in Nat : PushesTo(F(n), n)
  BY PushExistsUpTo
<1> HIDE DEF F
<1>2. ASSUME NEW b \in Seq(Octets)
      PROVE  from[b] = PushStep(from, b)
  <2> DEFINE n == Len(b)
  <2>1. n \in Nat /\ b \in OctetsUpTo(n)
    BY DEF OctetsUpTo
  <2>2. F(n)[b] = PushStep(F(n), b)
    BY <1>1, <2>1 DEF PushesTo
  <2>3. ASSUME NEW c \in Seq(Octets), Len(c) < Len(b)
        PROVE  F(n)[c] = from[c]
    <3>1. Len(c) \in Nat /\ c \in OctetsUpTo(n) /\ c \in OctetsUpTo(Len(c))
      BY <2>1, <2>3 DEF OctetsUpTo
    <3>2. F(n)[c] = F(Len(c))[c]
      BY <1>1, <2>1, <3>1, PushIsUnique
    <3> QED
      BY <3>2
  <2>4. from[b] = F(n)[b]
    OBVIOUS
  <2> HIDE DEF from
  <2>5. PushStep(F(n), b) = PushStep(from, b)
    BY <2>3, PushLooksAhead
  <2> QED
    BY <2>2, <2>4, <2>5
<1>3. from = [b \in Seq(Octets) |-> from[b]]
  OBVIOUS
<1> HIDE DEF from
<1>4. Pushes(from)
  BY <1>2, <1>3 DEF Pushes
<1> QED
  BY <1>4

\* What push returns is what its loop leaves.
LEMMA PushIsTheLoop ==
    \E from : /\ \A b \in Seq(Octets) : from[b] = PushStep(from, b)
              /\ \A b : DecodeAll(b) = from[b]
<1> DEFINE from == CHOOSE from : Pushes(from)
<1>1. Pushes(from)
  BY PushExists
<1>2. ASSUME NEW b PROVE DecodeAll(b) = from[b]
  BY Zenon DEF DecodeAll, Pushes, PushStep, Octets
<1> HIDE DEF from
<1>3. \A b \in Seq(Octets) : from[b] = PushStep(from, b)
  BY <1>1 DEF Pushes
<1> QED
  BY <1>2, <1>3

-----------------------------------------------------------------------------
(* The bytes of a stream, and where its frames begin.                       *)

Parts(frames) == [i \in DOMAIN frames |-> frames[i].bytes]

LEMMA FrameKinds ==
    ASSUME NEW f \in Frames
    PROVE  /\ f.bytes \in Seq(Octets) /\ IsSeq(f.bytes) /\ Len(f.bytes) \in Nat
           /\ Len(f.bytes) >= PreludeSize /\ f.sound \in BOOLEAN
           /\ f.sound => IsFrame(f.bytes) /\ f.message = MessageOf(f.bytes)
           /\ ~f.sound => IsDamaged(f.bytes)
<1>1. /\ f.bytes \in Seq(Octets) /\ f.sound \in BOOLEAN
      /\ f.sound => IsFrame(f.bytes) /\ f.message = MessageOf(f.bytes)
      /\ ~f.sound => IsDamaged(f.bytes)
  BY FrameAssumption DEF FrameAssumption, Octets, MessageOf
<1>2. Len(f.bytes) >= PreludeSize
  BY <1>1 DEF IsFrame, IsDamaged
<1> QED
  BY <1>1, <1>2 DEF IsSeq

LEMMA PartsFacts ==
    ASSUME NEW frames \in Seq(Frames)
    PROVE  /\ ArePieces(Parts(frames), Len(frames)) /\ Bytes(frames) = FlattenSeq(Parts(frames))
           /\ \A i \in 1..Len(frames) : Parts(frames)[i] = frames[i].bytes /\ frames[i] \in Frames
<1>1. Len(frames) \in Nat /\ DOMAIN frames = 1..Len(frames) /\ \A i \in 1..Len(frames) : frames[i] \in Frames
  OBVIOUS
<1>2. Parts(frames) = [i \in 1..Len(frames) |-> Parts(frames)[i]]
  BY <1>1 DEF Parts
<1>3. \A i \in 1..Len(frames) : Parts(frames)[i] = frames[i].bytes
  BY <1>1 DEF Parts
<1>4. IsSeq(Parts(frames)) /\ Len(Parts(frames)) = Len(frames)
  BY <1>1, <1>2, FunctionIsSeq
<1>5. \A i \in 1..Len(frames) : IsSeq(Parts(frames)[i])
  BY <1>1, <1>3, FrameKinds
<1>6. Bytes(frames) = FlattenSeq(Parts(frames))
  BY DEF Bytes, Parts
<1> QED
  BY <1>1, <1>3, <1>4, <1>5, <1>6 DEF ArePieces

LEMMA BytesFacts ==
    ASSUME NEW frames \in Seq(Frames)
    PROVE  Bytes(frames) \in Seq(Octets) /\ IsSeq(Bytes(frames)) /\ Len(Bytes(frames)) \in Nat
<1> DEFINE flat == Bytes(frames)
<1>1. /\ IsSeq(flat)
      /\ \A p \in DOMAIN flat : \E k \in 1..Len(frames) : \E j \in DOMAIN Parts(frames)[k] :
             flat[p] = Parts(frames)[k][j]
  BY PartsFacts, FlatFacts
<1>2. \A p \in DOMAIN flat : flat[p] \in Octets
  <2> TAKE p \in DOMAIN flat
  <2>1. PICK k \in 1..Len(frames) : \E j \in DOMAIN Parts(frames)[k] : flat[p] = Parts(frames)[k][j]
    BY <1>1
  <2>2. Parts(frames)[k] \in Seq(Octets)
    BY PartsFacts, FrameKinds
  <2> QED
    BY <2>1, <2>2
<1> HIDE DEF flat
<1>3. flat \in Seq(Octets)
  <2> PICK S : flat \in Seq(S)
    BY <1>1 DEF IsSeq
  <2> QED
    BY <1>2
<1> QED
  BY <1>1, <1>3 DEF flat

LEMMA BytesSplit ==
    ASSUME NEW frames \in Seq(Frames), NEW m \in 0..Len(frames)
    PROVE  LET front == SubSeq(frames, 1, m)
               back == SubSeq(frames, m + 1, Len(frames))
           IN  /\ front \in Seq(Frames) /\ back \in Seq(Frames)
               /\ Bytes(frames) = Bytes(front) \o Bytes(back)
<1> DEFINE front == SubSeq(frames, 1, m)
           back == SubSeq(frames, m + 1, Len(frames))
           n == Len(frames) - m
<1>1. /\ m \in Nat /\ n \in Nat /\ m + n = Len(frames)
      /\ front \in Seq(Frames) /\ Len(front) = m /\ \A k \in 1..m : front[k] = frames[k]
      /\ back \in Seq(Frames) /\ Len(back) = n /\ \A k \in 1..n : back[k] = frames[m + k]
  OBVIOUS
<1> HIDE DEF front, back, n
<1>2. /\ ArePieces(Parts(frames), m + n) /\ ArePieces(Parts(front), m) /\ ArePieces(Parts(back), n)
  BY <1>1, PartsFacts
<1>3. ASSUME NEW k \in 1..m PROVE Parts(frames)[k] = Parts(front)[k]
  <2>1. k \in 1..Len(frames)
    BY <1>1
  <2>2. Parts(frames)[k] = frames[k].bytes /\ Parts(front)[k] = front[k].bytes
    BY <1>1, <2>1, PartsFacts
  <2> QED
    BY <1>1, <2>2
<1>4. ASSUME NEW k \in 1..n PROVE Parts(frames)[m + k] = Parts(back)[k]
  <2>1. m + k \in 1..Len(frames)
    BY <1>1
  <2>2. Parts(frames)[m + k] = frames[m + k].bytes /\ Parts(back)[k] = back[k].bytes
    BY <1>1, <2>1, PartsFacts
  <2> QED
    BY <1>1, <2>2
<1>5. IsSplit(Parts(frames), Parts(front), m, Parts(back), n)
  BY <1>2, <1>3, <1>4 DEF IsSplit
<1>6. FlattenSeq(Parts(frames)) = FlattenSeq(Parts(front)) \o FlattenSeq(Parts(back))
  BY <1>5, FlatSplit
<1>7. Bytes(frames) = Bytes(front) \o Bytes(back)
  BY <1>1, <1>6, PartsFacts
<1> QED
  BY <1>1, <1>7 DEF front, back

LEMMA BytesOfOne ==
    ASSUME NEW frames \in Seq(Frames), Len(frames) = 1
    PROVE  Bytes(frames) = frames[1].bytes
<1>1. ArePieces(Parts(frames), 1) /\ Bytes(frames) = FlattenSeq(Parts(frames))
      /\ Parts(frames)[1] = frames[1].bytes
  BY PartsFacts
<1>2. \A k \in 1..(1 - 1) : Parts(frames)[k] = <<>>
  OBVIOUS
<1>3. FlattenSeq(Parts(frames)) = Parts(frames)[1]
  BY <1>1, <1>2, FlatLast
<1> QED
  BY <1>1, <1>3

LEMMA BytesOfNone ==
    ASSUME NEW frames \in Seq(Frames), Len(frames) = 0
    PROVE  Bytes(frames) = <<>>
<1>1. ArePieces(Parts(frames), 0) /\ Bytes(frames) = FlattenSeq(Parts(frames))
  BY PartsFacts
<1>2. FlattenSeq(Parts(frames)) = <<>>
  <2>1. PICK v : Sums(v, Parts(frames), 0) /\ FlattenSeq(Parts(frames)) = v[0]
    BY <1>1, FlatSums
  <2> QED
    BY <2>1 DEF Sums
<1> QED
  BY <1>1, <1>2

\* Frame k + 1 of a stream is in its bytes from the boundary behind frame k on.
LEMMA BoundaryFacts ==
    ASSUME sent \in Seq(Frames), NEW k \in 0..Len(sent)
    PROVE  /\ Boundary(k) \in Nat /\ Boundary(k) <= Len(Bytes(sent))
           /\ k = 0 => Boundary(k) = 0
           /\ k = Len(sent) => Boundary(k) = Len(Bytes(sent))
           /\ \A j \in 0..k : Boundary(j) <= Boundary(k)
<1> DEFINE upto == SubSeq(sent, 1, k)
<1>1. Len(sent) \in Nat /\ k \in Nat /\ k <= Len(sent)
  OBVIOUS
<1>2. upto \in Seq(Frames) /\ Len(upto) = k
  BY <1>1
<1>3. Boundary(k) \in Nat
  BY <1>2, BytesFacts DEF Boundary
<1>4. Boundary(k) <= Len(Bytes(sent))
  <2> DEFINE back == SubSeq(sent, k + 1, Len(sent))
  <2>1. back \in Seq(Frames) /\ Bytes(sent) = Bytes(upto) \o Bytes(back)
    BY BytesSplit
  <2> HIDE DEF back, upto
  <2>2. Bytes(upto) \in Seq(Octets) /\ Bytes(back) \in Seq(Octets)
    BY <1>2, <2>1, BytesFacts
  <2>3. Len(Bytes(upto)) <= Len(Bytes(upto) \o Bytes(back))
    BY <2>2
  <2> QED
    BY <2>1, <2>3 DEF Boundary, upto
<1>5. k = 0 => Boundary(k) = 0
  <2>1. k = 0 => Bytes(upto) = <<>>
    BY <1>2, BytesOfNone
  <2> QED
    BY <2>1 DEF Boundary
<1>6. k = Len(sent) => Boundary(k) = Len(Bytes(sent))
  <2>1. k = Len(sent) => upto = sent
    BY <1>1
  <2> QED
    BY <2>1 DEF Boundary
<1>7. ASSUME NEW j \in 0..k PROVE Boundary(j) <= Boundary(k)
  <2> DEFINE back == SubSeq(upto, j + 1, Len(upto))
             front == SubSeq(upto, 1, j)
  <2>1. j \in 0..Len(upto) /\ j \in Nat /\ j <= k
    BY <1>1, <1>2
  <2>2. front \in Seq(Frames) /\ back \in Seq(Frames) /\ Bytes(upto) = Bytes(front) \o Bytes(back)
    BY <1>2, <2>1, BytesSplit
  <2>3. front = SubSeq(sent, 1, j)
    BY <1>1, <2>1
  <2> HIDE DEF back, upto, front
  <2>4. Bytes(front) \in Seq(Octets) /\ Bytes(back) \in Seq(Octets)
    BY <2>2, BytesFacts
  <2>5. Len(Bytes(front)) <= Len(Bytes(front) \o Bytes(back))
    BY <2>4
  <2> QED
    BY <2>2, <2>3, <2>5 DEF Boundary, upto
<1> QED
  BY <1>3, <1>4, <1>5, <1>6, <1>7

LEMMA FramePlace ==
    ASSUME sent \in Seq(Frames), NEW k \in 0..(Len(sent) - 1)
    PROVE  LET f == sent[k + 1].bytes
           IN  /\ Boundary(k + 1) = Boundary(k) + Len(f)
               /\ \A j \in 1..Len(f) : Bytes(sent)[Boundary(k) + j] = f[j]
<1> DEFINE upto == SubSeq(sent, 1, k)
           next == SubSeq(sent, 1, k + 1)
           last == SubSeq(next, k + 1, Len(next))
           back == SubSeq(sent, k + 1 + 1, Len(sent))
           f == sent[k + 1].bytes
<1>1. Len(sent) \in Nat /\ k \in Nat /\ k + 1 \in Nat /\ k + 1 <= Len(sent) /\ k + 1 \in 0..Len(sent)
  OBVIOUS
<1>2. next \in Seq(Frames) /\ Len(next) = k + 1 /\ SubSeq(next, 1, k) = upto
  BY <1>1
<1>3. last \in Seq(Frames) /\ Len(last) = 1 /\ last[1] = sent[k + 1] /\ sent[k + 1] \in Frames
  BY <1>1
<1>4. back \in Seq(Frames) /\ Bytes(sent) = Bytes(next) \o Bytes(back)
  BY <1>1, BytesSplit
<1>5. upto \in Seq(Frames) /\ Bytes(next) = Bytes(upto) \o Bytes(last)
  <2>1. k \in 0..Len(next)
    BY <1>1, <1>2
  <2> QED
    BY <1>2, <2>1, BytesSplit
<1>6. Boundary(k) = Len(Bytes(upto)) /\ Boundary(k + 1) = Len(Bytes(next))
  BY DEF Boundary
<1>7. Bytes(last) = f
  BY <1>3, BytesOfOne
<1> HIDE DEF upto, next, last, back, f
<1>8. /\ Bytes(upto) \in Seq(Octets) /\ Bytes(back) \in Seq(Octets) /\ f \in Seq(Octets)
      /\ Bytes(next) = Bytes(upto) \o f
  BY <1>3, <1>4, <1>5, <1>7, BytesFacts, FrameKinds
<1> DEFINE a == Bytes(upto)
           z == Bytes(back)
<1> HIDE DEF a, z
<1>9. /\ Len(a \o f) = Len(a) + Len(f)
      /\ \A j \in 1..Len(f) : ((a \o f) \o z)[Len(a) + j] = f[j]
  <2>1. a \in Seq(Octets) /\ z \in Seq(Octets) /\ f \in Seq(Octets)
    BY <1>8 DEF a, z
  <2> QED
    BY <2>1
<1>10. /\ Boundary(k + 1) = Boundary(k) + Len(f)
       /\ \A j \in 1..Len(f) : Bytes(sent)[Boundary(k) + j] = f[j]
  BY <1>4, <1>6, <1>8, <1>9 DEF a, z
<1> QED
  BY <1>10 DEF f

-----------------------------------------------------------------------------
(* A stream, decoded from a boundary on.                                    *)

\* What has come of the frames behind frame k, when r bytes have.
After(k, r) == SubSeq(Bytes(sent), Boundary(k) + 1, r)
Reached(k, r) == k \in 0..Len(sent) /\ r \in Nat /\ Boundary(k) <= r /\ r <= Len(Bytes(sent))

LEMMA CutFacts ==
    ASSUME NEW s \in Seq(Octets), NEW from \in Nat, NEW to \in Nat, from <= to, to <= Len(s)
    PROVE  /\ SubSeq(s, from + 1, to) \in Seq(Octets) /\ Len(SubSeq(s, from + 1, to)) = to - from
           /\ \A j \in 1..(to - from) : SubSeq(s, from + 1, to)[j] = s[from + j]
OBVIOUS

LEMMA AfterFacts ==
    ASSUME sent \in Seq(Frames), NEW k, NEW r, Reached(k, r)
    PROVE  /\ After(k, r) \in Seq(Octets) /\ Len(After(k, r)) = r - Boundary(k)
           /\ \A j \in 1..(r - Boundary(k)) : After(k, r)[j] = Bytes(sent)[Boundary(k) + j]
           /\ After(k, r) = <<>> <=> r = Boundary(k)
<1> DEFINE bytes == Bytes(sent)
           b == Boundary(k)
<1>1. bytes \in Seq(Octets) /\ b \in Nat /\ b <= r /\ r <= Len(bytes) /\ r \in Nat
  BY BytesFacts, BoundaryFacts DEF Reached
<1> HIDE DEF bytes, b
<1>2. /\ SubSeq(bytes, b + 1, r) \in Seq(Octets) /\ Len(SubSeq(bytes, b + 1, r)) = r - b
      /\ \A j \in 1..(r - b) : SubSeq(bytes, b + 1, r)[j] = bytes[b + j]
  BY <1>1
<1>3. SubSeq(bytes, b + 1, r) = <<>> <=> r = b
  BY <1>1, <1>2
<1> QED
  BY <1>2, <1>3 DEF bytes, b, After

\* What comes next is like the next frame.
LEMMA NextFrame ==
    ASSUME sent \in Seq(Frames), NEW k, NEW r, Reached(k, r), k # Len(sent)
    PROVE  LET f == sent[k + 1]
           IN  /\ f \in Frames /\ IsLike(After(k, r), f.bytes)
               /\ Boundary(k + 1) = Boundary(k) + Len(f.bytes)
               /\ Boundary(k + 1) \in Nat /\ Boundary(k) \in Nat /\ r \in Nat
               /\ Boundary(k + 1) <= r <=> Reached(k + 1, r)
               /\ Reached(k + 1, r) =>
                      SubSeq(After(k, r), Len(f.bytes) + 1, Len(After(k, r))) = After(k + 1, r)
<1> DEFINE f == sent[k + 1]
           n == Len(f.bytes)
<1>1. k \in 0..(Len(sent) - 1) /\ k \in Nat /\ k + 1 \in 1..Len(sent) /\ k + 1 \in 0..Len(sent)
      /\ k \in 0..Len(sent) /\ r \in Nat /\ r <= Len(Bytes(sent)) /\ Boundary(k) <= r
  BY DEF Reached
<1>2. f \in Frames
  BY <1>1
<1>3. n \in Nat /\ f.bytes \in Seq(Octets)
  BY <1>2, FrameKinds
<1>4. /\ Boundary(k + 1) = Boundary(k) + n
      /\ \A j \in 1..n : Bytes(sent)[Boundary(k) + j] = f.bytes[j]
  BY <1>1, FramePlace
<1>5. Boundary(k) \in Nat /\ Boundary(k + 1) \in Nat
  BY <1>1, BoundaryFacts
<1>6. /\ After(k, r) \in Seq(Octets) /\ Len(After(k, r)) = r - Boundary(k)
      /\ \A j \in 1..(r - Boundary(k)) : After(k, r)[j] = Bytes(sent)[Boundary(k) + j]
  BY AfterFacts
<1> HIDE DEF f, n
<1>7. IsLike(After(k, r), f.bytes)
  <2> SUFFICES ASSUME NEW j \in 1..Len(After(k, r)), j <= n
               PROVE  After(k, r)[j] = f.bytes[j]
    BY DEF IsLike, n
  <2>1. j \in 1..(r - Boundary(k)) /\ j \in 1..n
    BY <1>1, <1>3, <1>5, <1>6
  <2> QED
    BY <1>4, <1>6, <2>1
<1>8. Boundary(k + 1) <= r <=> Reached(k + 1, r)
  BY <1>1 DEF Reached
<1>9. Reached(k + 1, r) => SubSeq(After(k, r), n + 1, Len(After(k, r))) = After(k + 1, r)
  <2> SUFFICES ASSUME Boundary(k) + n <= r
               PROVE  SubSeq(After(k, r), n + 1, Len(After(k, r))) = After(k + 1, r)
    BY <1>4, <1>8
  <2> DEFINE bytes == Bytes(sent)
             b == Boundary(k)
  <2>1. bytes \in Seq(Octets) /\ b \in Nat /\ r <= Len(bytes) /\ b + n <= r
    BY <1>1, <1>5, BytesFacts
  <2>2. After(k, r) = SubSeq(bytes, b + 1, r) /\ After(k + 1, r) = SubSeq(bytes, b + n + 1, r)
    BY <1>4 DEF After
  <2>3. Len(After(k, r)) = r - b
    BY <1>6
  <2> HIDE DEF bytes, b
  <2>4. SubSeq(SubSeq(bytes, b + 1, r), n + 1, r - b) = SubSeq(bytes, b + n + 1, r)
    <3> DEFINE s == SubSeq(bytes, b + 1, r)
    <3>1. s \in Seq(Octets) /\ Len(s) = r - b /\ \A j \in 1..(r - b) : s[j] = bytes[b + j]
      <4>1. b <= r /\ r \in Nat
        BY <1>1, <1>3, <2>1
      <4> QED
        BY <2>1, <4>1, CutFacts
    <3> HIDE DEF s
    <3> DEFINE x == SubSeq(s, n + 1, r - b)
               y == SubSeq(bytes, b + n + 1, r)
    <3>2. /\ x \in Seq(Octets) /\ Len(x) = r - b - n
          /\ \A j \in 1..(r - b - n) : x[j] = s[n + j]
      <4>1. n <= r - b /\ r - b \in Nat /\ r - b <= Len(s)
        BY <1>1, <1>3, <2>1, <3>1
      <4> QED
        BY <1>3, <3>1, <4>1, CutFacts
    <3>3. /\ y \in Seq(Octets) /\ Len(y) = r - b - n
          /\ \A j \in 1..(r - b - n) : y[j] = bytes[b + n + j]
      <4>1. b + n \in Nat /\ r \in Nat /\ r - (b + n) = r - b - n
        BY <1>1, <1>3, <2>1
      <4> HIDE DEF y
      <4>2. /\ SubSeq(bytes, (b + n) + 1, r) \in Seq(Octets) /\ Len(SubSeq(bytes, (b + n) + 1, r)) = r - (b + n)
            /\ \A j \in 1..(r - (b + n)) : SubSeq(bytes, (b + n) + 1, r)[j] = bytes[(b + n) + j]
        BY <2>1, <4>1, CutFacts
      <4> QED
        BY <4>1, <4>2 DEF y
    <3> HIDE DEF x, y
    <3>4. ASSUME NEW j \in 1..(r - b - n) PROVE x[j] = y[j]
      <4>1. n + j \in 1..(r - b) /\ b + (n + j) = b + n + j
        BY <1>1, <1>3, <2>1
      <4>2. s[n + j] = bytes[b + (n + j)]
        BY <3>1, <4>1
      <4> QED
        BY <3>2, <3>3, <4>1, <4>2
    <3>5. x = y
      BY <3>2, <3>3, <3>4
    <3> QED
      BY <3>5 DEF x, y, s
  <2> QED
    BY <2>2, <2>3, <2>4
<1> QED
  BY <1>2, <1>4, <1>5, <1>1, <1>7, <1>8, <1>9 DEF f, n

LEMMA DecodedNext ==
    ASSUME sent \in Seq(Frames), NEW k, NEW r, Reached(k, r)
    PROVE  LET f == sent[k + 1]
               one == DecodeOne(After(k, r))
           IN  /\ k = Len(sent) => one = More
               /\ k # Len(sent) /\ f.sound /\ ~Reached(k + 1, r) => one = More
               /\ k # Len(sent) /\ f.sound /\ Reached(k + 1, r) =>
                      /\ one.kind = "message" /\ one.message = f.message
                      /\ one.rest = After(k + 1, r)
               /\ k # Len(sent) /\ ~f.sound => one = More \/ one = Bad
<1> DEFINE f == sent[k + 1]
           b == After(k, r)
           one == DecodeOne(b)
<1>1. b \in Seq(Octets) /\ Len(b) = r - Boundary(k)
  BY AfterFacts
<1>2. ASSUME k = Len(sent) PROVE one = More
  <2>1. k \in 0..Len(sent) /\ r \in Nat /\ Boundary(k) <= r /\ r <= Len(Bytes(sent))
    BY DEF Reached
  <2>2. Boundary(k) = Len(Bytes(sent)) /\ Boundary(k) \in Nat
    BY <1>2, <2>1, BoundaryFacts
  <2>3. Len(b) = 0
    BY <1>1, <2>1, <2>2
  <2>4. Len(b) < PreludeSize
    BY <2>3 DEF PreludeSize
  <2> QED
    BY <1>1, <2>4, DecodeOneIs
<1>3. ASSUME k # Len(sent), f.sound
      PROVE  one = IF Reached(k + 1, r) THEN Received(f.bytes, After(k + 1, r)) ELSE More
  <2>1. /\ f \in Frames /\ IsLike(b, f.bytes) /\ Boundary(k + 1) = Boundary(k) + Len(f.bytes)
        /\ Boundary(k + 1) \in Nat /\ Boundary(k) \in Nat /\ r \in Nat
        /\ Boundary(k + 1) <= r <=> Reached(k + 1, r)
        /\ Reached(k + 1, r) => SubSeq(b, Len(f.bytes) + 1, Len(b)) = After(k + 1, r)
    BY <1>3, NextFrame
  <2>2. f.bytes \in Seq(Octets) /\ IsFrame(f.bytes) /\ Len(f.bytes) \in Nat
    BY <1>3, <2>1, FrameKinds
  <2>3. one = IF Len(b) < Len(f.bytes) THEN More
              ELSE Received(f.bytes, SubSeq(b, Len(f.bytes) + 1, Len(b)))
    BY <1>1, <2>1, <2>2, SoundFrame
  <2>4. Len(b) < Len(f.bytes) <=> ~Reached(k + 1, r)
    BY <1>1, <2>1, <2>2
  <2> HIDE DEF f, b, one
  <2>5. CASE Reached(k + 1, r)
    BY <2>1, <2>3, <2>4, <2>5
  <2>6. CASE ~Reached(k + 1, r)
    BY <2>3, <2>4, <2>6
  <2> QED
    BY <2>5, <2>6
<1>4. ASSUME k # Len(sent), f.sound, Reached(k + 1, r)
      PROVE  one.kind = "message" /\ one.message = f.message /\ one.rest = After(k + 1, r)
  <2>1. f \in Frames
    BY <1>4, NextFrame
  <2>2. f.message = MessageOf(f.bytes)
    BY <1>4, <2>1, FrameKinds
  <2>3. one = Received(f.bytes, After(k + 1, r))
    BY <1>3, <1>4
  <2> HIDE DEF f, b, one
  <2> QED
    BY <2>2, <2>3, ReceivedFacts
<1>5. ASSUME k # Len(sent), ~f.sound PROVE one = More \/ one = Bad
  <2>1. f \in Frames /\ IsLike(b, f.bytes)
    BY <1>5, NextFrame
  <2>2. f.bytes \in Seq(Octets) /\ IsDamaged(f.bytes)
    BY <1>5, <2>1, FrameKinds
  <2> QED
    BY <1>1, <2>1, <2>2, DamagedFrame
<1> HIDE DEF f, b, one
<1>6. /\ k = Len(sent) => one = More
      /\ k # Len(sent) /\ f.sound /\ ~Reached(k + 1, r) => one = More
      /\ k # Len(sent) /\ f.sound /\ Reached(k + 1, r) =>
             one.kind = "message" /\ one.message = f.message /\ one.rest = After(k + 1, r)
      /\ k # Len(sent) /\ ~f.sound => one = More \/ one = Bad
  BY <1>2, <1>3, <1>4, <1>5
<1> QED
  BY <1>6 DEF f, b, one

Yield(bad, m, rest) == [bad |-> bad, messages |-> m, rest |-> rest]

\* The messages of the frames from j + 1 to k.
Messages(j, k) == [i \in 1..(k - j) |-> sent[j + i].message]
AllSound(j, k) == \A i \in (j + 1)..k : sent[i].sound

\* What one push makes of what has come behind frame j: it decodes up to frame k, and there
\* is nothing that it can decode behind it.
Yields(all, j, k, r) ==
    /\ Reached(k, r) /\ j <= k /\ AllSound(j, k)
    /\ DecodeOne(After(k, r)) = More \/ DecodeOne(After(k, r)) = Bad
    /\ all = Yield(DecodeOne(After(k, r)) = Bad, Messages(j, k), After(k, r))

LEMMA KindFacts ==
    /\ More.kind = "more" /\ Bad.kind = "bad" /\ More # Bad
BY DEF More, Bad

PutFirst(x, all) == [all EXCEPT !.messages = <<x>> \o @]

LEMMA PutFirstFacts ==
    \A bad, m, x, rest :
        PutFirst(x, Yield(bad, m, rest)) = Yield(bad, <<x>> \o m, rest)
<1> TAKE bad, m, x, rest
<1> DEFINE all == Yield(bad, m, rest)
           new == <<x>> \o m
<1>1. all.messages = m /\ all = [bad |-> bad, messages |-> m, rest |-> rest]
  BY DEF Yield
<1> HIDE DEF all
<1>2. PutFirst(x, all) = [all EXCEPT !.messages = new]
  BY <1>1 DEF PutFirst
<1> HIDE DEF new
<1>3. [all EXCEPT !.messages = new] = Yield(bad, new, rest)
  BY <1>1 DEF Yield
<1> QED
  BY <1>2, <1>3 DEF new, all

LEMMA OneMoreMessage ==
    ASSUME NEW j \in Nat, NEW k \in Nat, j + 1 <= k
    PROVE  <<sent[j + 1].message>> \o Messages(j + 1, k) = Messages(j, k)
<1> DEFINE x == sent[j + 1].message
           rest == Messages(j + 1, k)
           all == Messages(j, k)
           n == k - (j + 1)
<1>1. n \in Nat /\ k - j = n + 1
  OBVIOUS
<1>2. IsSeq(rest) /\ Len(rest) = n /\ \A i \in 1..n : rest[i] = sent[j + 1 + i].message
  <2>1. rest = [i \in 1..n |-> rest[i]] /\ \A i \in 1..n : rest[i] = sent[j + 1 + i].message
    BY DEF Messages
  <2> QED
    BY <1>1, <2>1, FunctionIsSeq
<1>3. IsSeq(all) /\ Len(all) = n + 1 /\ \A i \in 1..(n + 1) : all[i] = sent[j + i].message
  <2>1. all = [i \in 1..(n + 1) |-> all[i]] /\ \A i \in 1..(n + 1) : all[i] = sent[j + i].message
    BY <1>1 DEF Messages
  <2> QED
    BY <1>1, <2>1, FunctionIsSeq
<1>5. all[1] = x
  BY <1>1, <1>3
<1> DEFINE head == <<x>>
<1> HIDE DEF rest, all, n, x
<1>4. IsSeq(head) /\ Len(head) = 1 /\ head[1] = x
  BY AppendToNothing
<1> HIDE DEF head
<1>6. /\ IsSeq(head \o rest) /\ Len(head \o rest) = n + 1 /\ (head \o rest)[1] = x
      /\ \A i \in 1..n : (head \o rest)[1 + i] = rest[i]
  <2>1. /\ IsSeq(head \o rest) /\ DOMAIN (head \o rest) = 1..(Len(head) + Len(rest))
        /\ \A i \in 1..Len(head) : (head \o rest)[i] = head[i]
        /\ \A i \in 1..Len(rest) : (head \o rest)[Len(head) + i] = rest[i]
    <3>1. IsSeq(head) /\ IsSeq(rest)
      BY <1>2, <1>4
    <3> QED
      BY <3>1, JoinFacts
  <2> DEFINE both == head \o rest
  <2> HIDE DEF both
  <2>2. /\ IsSeq(both) /\ DOMAIN both = 1..(1 + n)
        /\ \A i \in 1..1 : both[i] = head[i]
        /\ \A i \in 1..n : both[1 + i] = rest[i]
    BY <1>2, <1>4, <2>1 DEF both
  <2>3. Len(both) \in Nat /\ DOMAIN both = 1..Len(both)
    BY <2>2, SeqFacts
  <2>4. Len(both) = n + 1
    BY <1>1, <2>2, <2>3
  <2>5. both[1] = x /\ 1 \in 1..1
    BY <1>4, <2>2
  <2>6. /\ IsSeq(both) /\ Len(both) = n + 1 /\ both[1] = x
        /\ \A i \in 1..n : both[1 + i] = rest[i]
    BY <2>2, <2>4, <2>5
  <2> QED
    BY <2>6 DEF both
<1>7. ASSUME NEW i \in 1..(n + 1) PROVE (head \o rest)[i] = all[i]
  <2>1. CASE i = 1
    BY <1>5, <1>6, <2>1
  <2>2. CASE i # 1
    <3> DEFINE h == i - 1
    <3>1. h \in 1..n /\ i = 1 + h /\ j + 1 + h = j + i
      BY <1>1, <2>2
    <3> HIDE DEF h
    <3>2. (head \o rest)[1 + h] = sent[j + 1 + h].message
      BY <1>2, <1>6, <3>1
    <3> QED
      BY <1>3, <3>1, <3>2
  <2> QED
    BY <2>1, <2>2
<1>8. head \o rest = all
  BY <1>3, <1>6, <1>7, SameSeq
<1> QED
  BY <1>8 DEF head, x, rest, all

LEMMA NothingNext ==
    ASSUME sent \in Seq(Frames), NEW j, NEW r, Reached(j, r), NEW from,
           \A b \in Seq(Octets) : from[b] = PushStep(from, b),
           DecodeOne(After(j, r)) = More \/ DecodeOne(After(j, r)) = Bad
    PROVE  Yields(from[After(j, r)], j, j, r)
<1> DEFINE b == After(j, r)
<1>1. b \in Seq(Octets) /\ j \in Nat
  BY AfterFacts DEF Reached
<1>2. DecodeOne(b).kind # "message" /\ (DecodeOne(b).kind = "bad" <=> DecodeOne(b) = Bad)
  BY KindFacts
<1>3. Messages(j, j) = <<>>
  <2>1. 1..(j - j) = {}
    BY <1>1
  <2>2. Messages(j, j) = [i \in 1..0 |-> sent[j + i].message]
    BY <1>1 DEF Messages
  <2>3. IsSeq(Messages(j, j)) /\ Len(Messages(j, j)) = 0
    BY <2>2, FunctionIsSeq
  <2> QED
    BY <2>3, SeqFacts
<1>4. from[b] = PushStep(from, b)
  BY <1>1
<1>5. PushStep(from, b) = Yield(DecodeOne(b).kind = "bad", <<>>, b)
  BY <1>2, Zenon DEF PushStep, Yield
<1>6. (DecodeOne(b).kind = "bad") = (DecodeOne(b) = Bad)
  BY <1>2
<1>7. AllSound(j, j)
  BY <1>1 DEF AllSound
<1>8. from[b] = Yield(DecodeOne(b) = Bad, Messages(j, j), b)
  BY <1>3, <1>4, <1>5, <1>6
<1>9. j <= j
  BY <1>1
<1> QED
  BY <1>7, <1>8, <1>9 DEF Yields

LEMMA PushYields ==
    ASSUME sent \in Seq(Frames), NEW j, NEW r, Reached(j, r)
    PROVE  \E k : Yields(DecodeAll(After(j, r)), j, k, r)
<1>1. PICK from : /\ \A b \in Seq(Octets) : from[b] = PushStep(from, b)
                  /\ \A b : DecodeAll(b) = from[b]
  BY PushIsTheLoop
<1> DEFINE Wrong == {d \in Nat : \E i : /\ Reached(i, r) /\ d = Len(sent) - i
                                        /\ ~\E k : Yields(from[After(i, r)], i, k, r)}
<1>2. SUFFICES ASSUME Wrong # {} PROVE FALSE
  <2>1. Len(sent) - j \in Nat
    BY DEF Reached
  <2>2. \E k : Yields(from[After(j, r)], j, k, r)
    BY <2>1
  <2> QED
    BY <1>1, <2>2
<1>3. PICK d \in Wrong : \A x \in Wrong : d <= x
  <2>1. Wrong \in SUBSET Nat
    OBVIOUS
  <2> HIDE DEF Wrong
  <2> QED
    BY <1>2, <2>1, NatMin
<1>4. PICK i : /\ Reached(i, r) /\ d = Len(sent) - i
               /\ ~\E k : Yields(from[After(i, r)], i, k, r)
  OBVIOUS
<1> DEFINE one == DecodeOne(After(i, r))
<1>5. i # Len(sent) /\ sent[i + 1].sound /\ Reached(i + 1, r)
  <2>1. ~(one = More \/ one = Bad)
    BY <1>1, <1>4, NothingNext
  <2>2. i # Len(sent) => sent[i + 1].sound \in BOOLEAN
    BY <1>4, NextFrame, FrameKinds
  <2> HIDE DEF one
  <2> QED
    BY <1>4, <2>1, <2>2, DecodedNext DEF one
<1>6. one.kind = "message" /\ one.message = sent[i + 1].message /\ one.rest = After(i + 1, r)
  BY <1>4, <1>5, DecodedNext
<1>7. i \in Nat /\ i + 1 \in Nat /\ Len(sent) \in Nat /\ i + 1 <= Len(sent)
  BY <1>4, <1>5 DEF Reached
<1>8. PICK k : Yields(from[After(i + 1, r)], i + 1, k, r)
  <2> DEFINE e == Len(sent) - (i + 1)
  <2>1. e \in Nat /\ ~(d <= e)
    BY <1>4, <1>7
  <2>2. e \notin Wrong
    BY <1>3, <2>1
  <2> QED
    BY <1>5, <2>1, <2>2
<1>9. /\ Reached(k, r) /\ i + 1 <= k /\ AllSound(i + 1, k) /\ k \in Nat
      /\ DecodeOne(After(k, r)) = More \/ DecodeOne(After(k, r)) = Bad
      /\ from[After(i + 1, r)]
             = Yield(DecodeOne(After(k, r)) = Bad, Messages(i + 1, k), After(k, r))
  BY <1>8 DEF Yields, Reached
<1>10. from[After(i, r)] = PutFirst(sent[i + 1].message, from[After(i + 1, r)])
  <2>1. After(i, r) \in Seq(Octets)
    BY <1>4, AfterFacts
  <2>2. from[After(i, r)] = PushStep(from, After(i, r))
    BY <1>1, <2>1
  <2>3. PushStep(from, After(i, r)) = PutFirst(one.message, from[one.rest])
    BY <1>6, Zenon DEF PushStep, PutFirst
  <2> HIDE DEF one
  <2> QED
    BY <1>6, <2>2, <2>3
<1>11. <<sent[i + 1].message>> \o Messages(i + 1, k) = Messages(i, k)
  BY <1>7, <1>9, OneMoreMessage
<1>12. from[After(i, r)] = Yield(DecodeOne(After(k, r)) = Bad,
                                 <<sent[i + 1].message>> \o Messages(i + 1, k), After(k, r))
  BY <1>9, <1>10, PutFirstFacts
<1>13. from[After(i, r)] = Yield(DecodeOne(After(k, r)) = Bad, Messages(i, k), After(k, r))
  BY <1>11, <1>12
<1>14. i <= k /\ AllSound(i, k)
  <2>1. \A h \in (i + 1)..k : h = i + 1 \/ h \in (i + 1 + 1)..k
    BY <1>7, <1>9
  <2> QED
    BY <1>5, <1>7, <1>9, <2>1 DEF AllSound
<1>15. Yields(from[After(i, r)], i, k, r)
  BY <1>9, <1>13, <1>14 DEF Yields
<1> QED
  BY <1>4, <1>15

-----------------------------------------------------------------------------
(* The decoder on a stream.                                                 *)

WireType ==
    /\ sent \in Seq(Frames)
    /\ end \in Nat /\ end <= Len(Bytes(sent))
    /\ received \in Nat /\ received <= end
    /\ status \in {"open", "ended", "failed"}

DecodedTo(k) ==
    /\ k \in 0..Len(sent) /\ Sound(k)
    /\ decoded = [i \in 1..k |-> sent[i].message]

FailsRightly ==
    \/ \E k \in 1..Len(sent) : ~sent[k].sound /\ Boundary(k - 1) < received
    \/ received = end /\ \A k \in 0..Len(sent) : Boundary(k) # end

\* The frames up to frame k are decoded, and the buffer is what has come behind them, which
\* is not enough for another one.
WireKnows(k) ==
    /\ DecodedTo(k) /\ Reached(k, received)
    /\ status # "failed" => buffer = After(k, received) /\ DecodeOne(buffer) = More
    /\ status = "ended" => buffer = <<>>
    /\ status = "failed" => FailsRightly

WireInv == WireType /\ \E k \in Nat : WireKnows(k)

LEMMA DecodedFacts ==
    ASSUME WireType, NEW k, DecodedTo(k)
    PROVE  k \in Nat /\ Len(decoded) = k /\ IsSeq(decoded) /\ \A i \in 1..k : decoded[i] = sent[i].message
<1>1. k \in Nat
  BY DEF DecodedTo, WireType
<1>2. decoded = [i \in 1..k |-> sent[i].message]
  BY DEF DecodedTo
<1>3. decoded = [i \in 1..k |-> decoded[i]] /\ \A i \in 1..k : decoded[i] = sent[i].message
  BY <1>2
<1> QED
  BY <1>1, <1>3, FunctionIsSeq

LEMMA WireStarts == WireInit => WireInv
<1> SUFFICES ASSUME WireInit PROVE WireInv
  OBVIOUS
<1>1. sent \in Seq(Frames)
  <2>1. PICK n \in 0..MaxFrames : sent \in [1..n -> Frames]
    BY DEF WireInit
  <2>2. n \in Nat
    BY <2>1, FrameAssumption DEF FrameAssumption
  <2> QED
    BY <2>1, <2>2
<1>2. Len(sent) \in Nat /\ Len(Bytes(sent)) \in Nat
  BY <1>1, BytesFacts
<1>3. WireType
  BY <1>1, <1>2 DEF WireInit, WireType
<1>4. 0 \in 0..Len(sent)
  BY <1>2
<1>5. Boundary(0) = 0
  BY <1>1, <1>4, BoundaryFacts
<1>6. Reached(0, received)
  BY <1>2, <1>4, <1>5 DEF WireInit, Reached
<1>7. DecodedTo(0)
  <2>1. IsSeq([i \in 1..0 |-> sent[i].message]) /\ Len([i \in 1..0 |-> sent[i].message]) = 0
    <3> DEFINE f == [i \in 1..0 |-> sent[i].message]
    <3>1. f = [i \in 1..0 |-> f[i]]
      OBVIOUS
    <3> HIDE DEF f
    <3>2. IsSeq(f) /\ Len(f) = 0
      BY <3>1, FunctionIsSeq
    <3> QED
      BY <3>2 DEF f
  <2>2. [i \in 1..0 |-> sent[i].message] = <<>>
    BY <2>1, SeqFacts
  <2>3. Sound(0)
    BY DEF Sound
  <2> QED
    BY <1>4, <2>2, <2>3 DEF WireInit, DecodedTo
<1>8. buffer = After(0, received) /\ DecodeOne(buffer) = More
  <2>1. After(0, received) = <<>> /\ After(0, received) \in Seq(Octets) /\ Len(After(0, received)) = 0
    BY <1>1, <1>5, <1>6, AfterFacts DEF WireInit
  <2>2. Len(After(0, received)) < PreludeSize
    BY <2>1 DEF PreludeSize
  <2>3. DecodeOne(After(0, received)) = More
    BY <2>1, <2>2, DecodeOneIs
  <2> QED
    BY <2>1, <2>3 DEF WireInit
<1>9. WireKnows(0)
  BY <1>6, <1>7, <1>8 DEF WireInit, WireKnows
<1> QED
  BY <1>3, <1>9 DEF WireInv

\* What came and what comes.
LEMMA AfterPush ==
    ASSUME sent \in Seq(Frames), NEW k, NEW r, Reached(k, r), NEW q \in Nat, r <= q, q <= Len(Bytes(sent))
    PROVE  Reached(k, q) /\ After(k, r) \o SubSeq(Bytes(sent), r + 1, q) = After(k, q)
<1> DEFINE bytes == Bytes(sent)
           b == Boundary(k)
<1>1. /\ bytes \in Seq(Octets) /\ b \in Nat /\ b <= r /\ r <= Len(bytes) /\ r \in Nat
      /\ k \in 0..Len(sent) /\ q <= Len(bytes)
  BY BytesFacts, BoundaryFacts DEF Reached
<1>2. Reached(k, q)
  BY <1>1 DEF Reached
<1> HIDE DEF bytes, b
<1> DEFINE x == SubSeq(bytes, b + 1, r)
           y == SubSeq(bytes, r + 1, q)
           z == SubSeq(bytes, b + 1, q)
<1>3. /\ x \in Seq(Octets) /\ Len(x) = r - b /\ \A j \in 1..(r - b) : x[j] = bytes[b + j]
      /\ y \in Seq(Octets) /\ Len(y) = q - r /\ \A j \in 1..(q - r) : y[j] = bytes[r + j]
      /\ z \in Seq(Octets) /\ Len(z) = q - b /\ \A j \in 1..(q - b) : z[j] = bytes[b + j]
  <2>1. b <= q
    BY <1>1
  <2> QED
    BY <1>1, <2>1, CutFacts
<1> HIDE DEF x, y, z
<1> DEFINE w == x \o y
<1>4. /\ w \in Seq(Octets) /\ Len(w) = q - b
      /\ \A j \in 1..(r - b) : w[j] = x[j]
      /\ \A j \in 1..(q - r) : w[(r - b) + j] = y[j]
  <2>1. /\ w \in Seq(Octets) /\ Len(w) = Len(x) + Len(y)
        /\ \A j \in 1..Len(x) : w[j] = x[j]
        /\ \A j \in 1..Len(y) : w[Len(x) + j] = y[j]
    <3>1. x \in Seq(Octets) /\ y \in Seq(Octets)
      BY <1>3
    <3> QED
      BY <3>1
  <2> HIDE DEF w
  <2>2. (r - b) + (q - r) = q - b
    BY <1>1
  <2> QED
    BY <1>3, <2>1, <2>2
<1> HIDE DEF w
<1>5. ASSUME NEW j \in 1..(q - b) PROVE w[j] = z[j]
  <2>1. CASE j <= r - b
    <3>1. j \in 1..(r - b)
      BY <1>1, <2>1
    <3> QED
      BY <1>3, <1>4, <3>1
  <2>2. CASE ~(j <= r - b)
    <3> DEFINE h == j - (r - b)
    <3>1. h \in 1..(q - r) /\ (r - b) + h = j /\ r + h = b + j
      BY <1>1, <2>2
    <3> HIDE DEF h
    <3>2. w[j] = bytes[r + h]
      BY <1>3, <1>4, <3>1
    <3> QED
      BY <1>3, <3>1, <3>2
  <2> QED
    BY <2>1, <2>2
<1>6. w = z
  BY <1>3, <1>4, <1>5
<1> QED
  BY <1>2, <1>6 DEF w, x, y, z, bytes, b, After

LEMMA DecodedOn ==
    ASSUME WireType, NEW k, DecodedTo(k), NEW m, m \in 0..Len(sent), k <= m, AllSound(k, m)
    PROVE  /\ Sound(m)
           /\ decoded \o Messages(k, m) = [i \in 1..m |-> sent[i].message]
<1>1. k \in Nat /\ Len(decoded) = k /\ IsSeq(decoded) /\ \A i \in 1..k : decoded[i] = sent[i].message
  BY DecodedFacts
<1>2. m \in Nat /\ m - k \in Nat
  BY <1>1 DEF WireType
<1>3. Sound(m)
  <2>1. \A i \in 1..m : i \in 1..k \/ i \in (k + 1)..m
    BY <1>1, <1>2
  <2> QED
    BY <2>1 DEF Sound, AllSound, DecodedTo
<1> DEFINE new == Messages(k, m)
           all == [i \in 1..m |-> sent[i].message]
           both == decoded \o new
<1>4. IsSeq(new) /\ Len(new) = m - k /\ \A i \in 1..(m - k) : new[i] = sent[k + i].message
  <2>1. new = [i \in 1..(m - k) |-> new[i]] /\ \A i \in 1..(m - k) : new[i] = sent[k + i].message
    BY DEF Messages
  <2> QED
    BY <1>2, <2>1, FunctionIsSeq
<1>5. IsSeq(all) /\ Len(all) = m /\ \A i \in 1..m : all[i] = sent[i].message
  <2>1. all = [i \in 1..m |-> all[i]] /\ \A i \in 1..m : all[i] = sent[i].message
    OBVIOUS
  <2> HIDE DEF all
  <2> QED
    BY <1>2, <2>1, FunctionIsSeq
<1> HIDE DEF new, all
<1>6. /\ IsSeq(both) /\ DOMAIN both = 1..(Len(decoded) + Len(new))
      /\ \A i \in 1..Len(decoded) : both[i] = decoded[i]
      /\ \A i \in 1..Len(new) : both[Len(decoded) + i] = new[i]
  <2>1. IsSeq(decoded) /\ IsSeq(new)
    BY <1>1, <1>4
  <2> QED
    BY <2>1, JoinFacts
<1> HIDE DEF both
<1>7. /\ DOMAIN both = 1..m
      /\ \A i \in 1..k : both[i] = sent[i].message
      /\ \A i \in 1..(m - k) : both[k + i] = sent[k + i].message
  <2>1. Len(decoded) + Len(new) = m
    BY <1>1, <1>2, <1>4
  <2> QED
    BY <1>1, <1>4, <1>6, <2>1
<1>8. Len(both) = m
  <2>1. Len(both) \in Nat /\ DOMAIN both = 1..Len(both)
    BY <1>6, SeqFacts
  <2> QED
    BY <1>2, <1>7, <2>1
<1>9. ASSUME NEW i \in 1..m PROVE both[i] = all[i]
  <2>1. CASE i <= k
    <3>1. i \in 1..k
      BY <1>1, <2>1
    <3> QED
      BY <1>5, <1>7, <3>1
  <2>2. CASE ~(i <= k)
    <3> DEFINE h == i - k
    <3>1. h \in 1..(m - k) /\ k + h = i
      BY <1>1, <1>2, <2>2
    <3> HIDE DEF h
    <3> QED
      BY <1>5, <1>7, <3>1
  <2> QED
    BY <2>1, <2>2
<1>10. both = all
  BY <1>5, <1>6, <1>8, <1>9, SameSeq
<1> QED
  BY <1>3, <1>10 DEF both, new, all

LEMMA SameStream ==
    ASSUME sent' = sent
    PROVE  /\ \A k : Boundary(k)' = Boundary(k)
           /\ \A k, r : After(k, r)' = After(k, r)
           /\ \A k, r : Reached(k, r)' = Reached(k, r)
           /\ \A k : Sound(k)' = Sound(k)
<1>1. \A k : Boundary(k)' = Boundary(k)
  BY DEF Boundary
<1>2. \A k, r : After(k, r)' = After(k, r)
  BY <1>1 DEF After
<1>3. \A k, r : Reached(k, r)' = Reached(k, r)
  BY <1>1 DEF Reached
<1>4. \A k : Sound(k)' = Sound(k)
  BY DEF Sound
<1> QED
  BY <1>1, <1>2, <1>3, <1>4

LEMMA PushKnows ==
    ASSUME WireType, NEW k \in Nat, WireKnows(k), Push
    PROVE  WireType' /\ \E m \in Nat : WireKnows(m)'
<1> DEFINE q == received'
           all == DecodeAll(buffer \o SubSeq(Bytes(sent), received + 1, q))
<1>1. /\ status = "open" /\ q \in (received + 1)..end
      /\ buffer' = all.rest
      /\ status' = IF all.bad THEN "failed" ELSE "open"
      /\ decoded' = IF all.bad THEN decoded ELSE decoded \o all.messages
      /\ sent' = sent /\ end' = end
  BY Zenon DEF Push
<1>2. /\ sent \in Seq(Frames) /\ end \in Nat /\ end <= Len(Bytes(sent))
      /\ received \in Nat /\ received <= end
  BY DEF WireType
<1>3. /\ DecodedTo(k) /\ Reached(k, received) /\ buffer = After(k, received)
  BY <1>1 DEF WireKnows
<1>4. q \in Nat /\ received < q /\ q <= end /\ q <= Len(Bytes(sent)) /\ received <= q
  <2>1. Len(Bytes(sent)) \in Nat
    BY <1>2, BytesFacts
  <2> QED
    BY <1>1, <1>2, <2>1
<1>5. Reached(k, q) /\ buffer \o SubSeq(Bytes(sent), received + 1, q) = After(k, q)
  BY <1>2, <1>3, <1>4, AfterPush
<1>6. all = DecodeAll(After(k, q))
  BY <1>5
<1> HIDE DEF all
<1>7. PICK m : Yields(all, k, m, q)
  BY <1>2, <1>5, <1>6, PushYields
<1>8. /\ Reached(m, q) /\ k <= m /\ AllSound(k, m)
      /\ DecodeOne(After(m, q)) = More \/ DecodeOne(After(m, q)) = Bad
      /\ all.bad = (DecodeOne(After(m, q)) = Bad) /\ all.messages = Messages(k, m)
      /\ all.rest = After(m, q)
  BY <1>7 DEF Yields, Yield
<1>9. m \in Nat /\ m \in 0..Len(sent)
  BY <1>8 DEF Reached
<1>10. WireType'
  <2>1. status' \in {"open", "ended", "failed"}
    BY <1>1
  <2>2. Bytes(sent)' = Bytes(sent)
    BY <1>1
  <2> QED
    BY <1>1, <1>2, <1>4, <2>1, <2>2 DEF WireType
<1>11. /\ \A i : Boundary(i)' = Boundary(i)
       /\ \A i, r : After(i, r)' = After(i, r)
       /\ \A i, r : Reached(i, r)' = Reached(i, r)
       /\ \A i : Sound(i)' = Sound(i)
  BY <1>1, SameStream
<1>12. CASE all.bad
  <2>1. DecodeOne(After(m, q)) = Bad /\ status' = "failed" /\ decoded' = decoded
    BY <1>1, <1>8, <1>12
  <2>2. m # Len(sent) /\ ~sent[m + 1].sound
    <3>1. Bad # More /\ Bad.kind # "message"
      BY KindFacts
    <3>2. m # Len(sent)
      BY <1>2, <1>8, <2>1, <3>1, DecodedNext
    <3>3. sent[m + 1].sound => DecodeOne(After(m, q)) # Bad
      <4> SUFFICES ASSUME sent[m + 1].sound PROVE DecodeOne(After(m, q)) # Bad
        OBVIOUS
      <4>1. CASE Reached(m + 1, q)
        <5>1. DecodeOne(After(m, q)).kind = "message"
          BY <1>2, <1>8, <3>2, <4>1, DecodedNext
        <5> QED
          BY <3>1, <5>1
      <4>2. CASE ~Reached(m + 1, q)
        <5>1. DecodeOne(After(m, q)) = More
          BY <1>2, <1>8, <3>2, <4>2, DecodedNext
        <5> QED
          BY <3>1, <5>1
      <4> QED
        BY <4>1, <4>2
    <3> QED
      BY <2>1, <3>2, <3>3
  <2>3. Boundary(m) < q
    <3>1. After(m, q) \in Seq(Octets) /\ Len(After(m, q)) = q - Boundary(m)
      BY <1>2, <1>8, AfterFacts
    <3>2. ~(Len(After(m, q)) < PreludeSize)
      BY <2>1, <3>1, DecodeOneIs, KindFacts
    <3>3. Boundary(m) \in Nat
      BY <1>2, <1>9, BoundaryFacts
    <3> QED
      BY <1>4, <3>1, <3>2, <3>3 DEF PreludeSize
  <2>4. FailsRightly'
    <3> DEFINE n == m + 1
    <3>1. n \in 1..Len(sent) /\ n - 1 = m
      BY <1>2, <1>9, <2>2
    <3>2. ~sent[n].sound /\ Boundary(n - 1) < q
      BY <2>2, <2>3, <3>1
    <3> HIDE DEF n
    <3>3. \E i \in 1..Len(sent)' : ~sent'[i].sound /\ Boundary(i - 1)' < received'
      BY <1>1, <1>11, <3>1, <3>2
    <3> QED
      BY <3>3 DEF FailsRightly
  <2>5. DecodedTo(k)'
    BY <1>1, <1>3, <1>11, <2>1 DEF DecodedTo
  <2>6. Reached(k, received)'
    BY <1>1, <1>5 DEF Reached, Boundary
  <2>7. WireKnows(k)'
    BY <2>1, <2>4, <2>5, <2>6 DEF WireKnows
  <2> QED
    BY <1>10, <2>7
<1>13. CASE ~all.bad
  <2>1. /\ DecodeOne(After(m, q)) = More /\ status' = "open"
        /\ decoded' = decoded \o Messages(k, m) /\ buffer' = After(m, q)
    BY <1>1, <1>8, <1>13
  <2>2. Sound(m) /\ decoded \o Messages(k, m) = [i \in 1..m |-> sent[i].message]
    BY <1>3, <1>8, <1>9, DecodedOn
  <2>3. DecodedTo(m)'
    BY <1>1, <1>9, <1>11, <2>1, <2>2 DEF DecodedTo
  <2>4. Reached(m, received)'
    BY <1>1, <1>8 DEF Reached, Boundary
  <2>5. After(m, received)' = After(m, q)
    BY <1>1 DEF After, Boundary
  <2>6. WireKnows(m)'
    <3>1. DecodeOne(buffer)' = More
      BY <2>1
    <3> QED
      BY <2>1, <2>3, <2>4, <2>5, <3>1 DEF WireKnows
  <2> QED
    BY <1>9, <1>10, <2>6
<1> QED
  BY <1>12, <1>13

\* A stream that breaks off in a sound frame ends between no two frames.
LEMMA BrokenOff ==
    ASSUME WireType, NEW k \in Nat, WireKnows(k), status = "open", received = end, buffer # <<>>
    PROVE  FailsRightly
<1>1. /\ sent \in Seq(Frames) /\ Reached(k, received) /\ DecodeOne(After(k, received)) = More
      /\ After(k, received) # <<>> /\ k \in 0..Len(sent) /\ received \in Nat /\ end \in Nat
      /\ end <= Len(Bytes(sent)) /\ Boundary(k) <= received
  BY DEF WireType, WireKnows, Reached
<1>2. Boundary(k) \in Nat /\ Boundary(k) < received
  <2>1. Boundary(k) \in Nat /\ (k = Len(sent) => Boundary(k) = Len(Bytes(sent)))
    BY <1>1, BoundaryFacts
  <2>2. received # Boundary(k)
    BY <1>1, AfterFacts
  <2> QED
    BY <1>1, <2>1, <2>2
<1>3. k # Len(sent)
  <2>1. k = Len(sent) => Boundary(k) = Len(Bytes(sent))
    BY <1>1, BoundaryFacts
  <2>2. Len(Bytes(sent)) \in Nat
    BY <1>1, BytesFacts
  <2> QED
    BY <1>1, <1>2, <2>1, <2>2
<1>4. k + 1 \in 1..Len(sent) /\ k + 1 \in 0..Len(sent) /\ (k + 1) - 1 = k
  BY <1>1, <1>3
<1>5. CASE ~sent[k + 1].sound
  <2> DEFINE n == k + 1
  <2>1. n \in 1..Len(sent) /\ ~sent[n].sound /\ Boundary(n - 1) < received
    BY <1>2, <1>4, <1>5
  <2> HIDE DEF n
  <2> QED
    BY <2>1 DEF FailsRightly
<1>6. CASE sent[k + 1].sound
  <2>1. ~Reached(k + 1, received)
    <3> SUFFICES ASSUME Reached(k + 1, received) PROVE FALSE
      OBVIOUS
    <3>1. DecodeOne(After(k, received)).kind = "message"
      BY <1>1, <1>3, <1>6, DecodedNext
    <3> QED
      BY <1>1, <3>1, KindFacts
  <2>2. Boundary(k + 1) \in Nat /\ ~(Boundary(k + 1) <= received)
    BY <1>1, <1>3, <2>1, NextFrame
  <2>3. ASSUME NEW i \in 0..Len(sent) PROVE Boundary(i) # end
    <3>1. Boundary(i) \in Nat
      BY <1>1, BoundaryFacts
    <3>2. CASE i <= k
      <4>1. i \in 0..k
        BY <1>1, <3>2
      <4>2. Boundary(i) <= Boundary(k)
        BY <1>1, <4>1, BoundaryFacts
      <4> QED
        BY <1>1, <1>2, <3>1, <4>2
    <3>3. CASE ~(i <= k)
      <4>1. k + 1 \in 0..i
        BY <1>1, <3>3
      <4>2. Boundary(k + 1) <= Boundary(i)
        BY <1>1, <4>1, BoundaryFacts
      <4> QED
        BY <1>1, <2>2, <3>1, <4>2
    <3> QED
      BY <3>2, <3>3
  <2> QED
    BY <2>3 DEF FailsRightly
<1>7. sent[k + 1].sound \in BOOLEAN
  BY <1>1, <1>4, FrameKinds
<1> QED
  BY <1>5, <1>6, <1>7

LEMMA FinishKnows ==
    ASSUME WireType, NEW k \in Nat, WireKnows(k), Finish
    PROVE  WireType' /\ WireKnows(k)'
<1>1. /\ status = "open" /\ received = end
      /\ status' = IF buffer = <<>> THEN "ended" ELSE "failed"
      /\ sent' = sent /\ end' = end /\ received' = received /\ buffer' = buffer /\ decoded' = decoded
  BY DEF Finish
<1>2. WireType'
  <2>1. Bytes(sent)' = Bytes(sent)
    BY <1>1
  <2> QED
    BY <1>1, <2>1 DEF WireType
<1>3. (DecodedTo(k) /\ Reached(k, received))'
  BY <1>1 DEF WireKnows, DecodedTo, Reached, Boundary, Sound
<1>4. (buffer = After(k, received) /\ DecodeOne(buffer) = More)'
  BY <1>1 DEF WireKnows, After, Boundary
<1>5. status' = "failed" => FailsRightly'
  <2> SUFFICES ASSUME status' = "failed" PROVE FailsRightly'
    OBVIOUS
  <2>1. FailsRightly
    BY <1>1, BrokenOff
  <2>2. \A i : Boundary(i)' = Boundary(i)
    BY <1>1, SameStream
  <2> QED
    BY <1>1, <2>1, <2>2 DEF FailsRightly
<1>6. status' = "ended" => buffer' = <<>>
  BY <1>1
<1> QED
  BY <1>2, <1>3, <1>4, <1>5, <1>6 DEF WireKnows

LEMMA WireSteps == WireInv /\ [WireNext]_wireVars => WireInv'
<1> SUFFICES ASSUME WireInv, [WireNext]_wireVars PROVE WireInv'
  OBVIOUS
<1>1. PICK k \in Nat : WireKnows(k)
  BY DEF WireInv
<1>2. WireType
  BY DEF WireInv
<1>3. CASE Push
  BY <1>1, <1>2, <1>3, PushKnows DEF WireInv
<1>4. CASE Finish
  BY <1>1, <1>2, <1>4, FinishKnows DEF WireInv
<1>5. CASE UNCHANGED wireVars
  <2>1. WireType'
    BY <1>2, <1>5 DEF WireType, wireVars, Bytes
  <2>2. WireKnows(k)'
    BY <1>1, <1>5 DEF WireKnows, wireVars, DecodedTo, Reached, After, Boundary, Sound, FailsRightly, Bytes
  <2> QED
    BY <2>1, <2>2 DEF WireInv
<1> QED
  BY <1>3, <1>4, <1>5 DEF WireNext, WireDone

LEMMA StreamDecoded == WireInv => StreamIsDecoded
<1> SUFFICES ASSUME WireInv PROVE StreamIsDecoded
  OBVIOUS
<1>1. PICK k \in Nat : WireKnows(k)
  BY DEF WireInv
<1>2. WireType
  BY DEF WireInv
<1>3. /\ DecodedTo(k) /\ Reached(k, received) /\ sent \in Seq(Frames)
      /\ k \in 0..Len(sent) /\ received \in Nat
  BY <1>1, <1>2 DEF WireKnows, Reached, WireType
<1>4. Len(decoded) = k /\ Len(sent) \in Nat /\ k <= Len(sent)
  BY <1>2, <1>3, DecodedFacts
<1>5. DecodedWasSent
  BY <1>3, <1>4 DEF DecodedTo, DecodedWasSent
<1>6. NothingHeldBack
  <2> SUFFICES ASSUME status # "failed", NEW h \in 0..Len(sent), Sound(h), Boundary(h) <= received
               PROVE  h <= k
    BY <1>4 DEF NothingHeldBack
  <2> SUFFICES ASSUME ~(h <= k) PROVE FALSE
    OBVIOUS
  <2>1. k + 1 \in 0..h /\ k + 1 \in 1..h /\ k + 1 \in 0..Len(sent) /\ k # Len(sent) /\ h \in Nat
    BY <1>4
  <2>2. Boundary(k + 1) <= Boundary(h) /\ Boundary(h) \in Nat /\ Boundary(k + 1) \in Nat
    BY <1>3, <2>1, BoundaryFacts
  <2>3. Boundary(k + 1) <= received
    BY <1>3, <2>2
  <2>4. Reached(k + 1, received)
    BY <1>3, <2>1, <2>3, NextFrame
  <2>5. sent[k + 1].sound
    BY <2>1 DEF Sound
  <2>6. DecodeOne(After(k, received)).kind = "message"
    BY <1>3, <2>1, <2>4, <2>5, DecodedNext
  <2>7. DecodeOne(After(k, received)) = More
    BY <1>1 DEF WireKnows
  <2> QED
    BY <2>6, <2>7, KindFacts
<1>7. VerdictIsRight
  <2>1. status = "ended" => received = Boundary(k)
    <3> SUFFICES ASSUME status = "ended" PROVE received = Boundary(k)
      OBVIOUS
    <3>1. After(k, received) = <<>>
      BY <1>1 DEF WireKnows
    <3> QED
      BY <1>3, <3>1, AfterFacts
  <2>2. status = "failed" => FailsRightly
    BY <1>1 DEF WireKnows
  <2> QED
    BY <1>4, <2>1, <2>2 DEF VerdictIsRight, FailsRightly
<1> QED
  BY <1>5, <1>6, <1>7 DEF StreamIsDecoded

\* However a stream of frames is cut, the messages that were sent are decoded, in order, once
\* and with their last byte, and a damaged or broken stream fails, and no other
\* (event_stream.rs:30-113).
THEOREM StreamIsDecodedHolds == WireSpec => []StreamIsDecoded
<1>1. WireSpec => []WireInv
  BY WireStarts, WireSteps, PTL DEF WireSpec
<1> QED
  BY <1>1, StreamDecoded, PTL
=============================================================================
