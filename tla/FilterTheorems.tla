--------------------------- MODULE FilterTheorems ---------------------------
(***************************************************************************)
(* What XmlLeakFilter promises, for every set of markers, every text and   *)
(* every way of cutting it: drain is well defined, and what it hands on    *)
(* and holds back is the text without its markers. The facts about         *)
(* sequences and numbers are those that the interfaces need as well.       *)
(***************************************************************************)
EXTENDS TextChannel, FiniteSetTheorems, WellFoundedInduction, TLAPS

-----------------------------------------------------------------------------
(* Sequences of elements that need no type: what is sent holds texts of the *)
(* filter, of which these proofs use nothing.                               *)

IsSeq(s) == \E S : s \in Seq(S)

LEMMA EmptyIsSeq == IsSeq(<<>>)
<1>1. <<>> \in Seq({})
  OBVIOUS
<1> QED
  BY <1>1 DEF IsSeq

LEMMA SeqFacts ==
    ASSUME NEW s, IsSeq(s)
    PROVE  /\ Len(s) \in Nat
           /\ DOMAIN s = 1..Len(s)
           /\ s = <<>> <=> Len(s) = 0
<1> PICK S : s \in Seq(S)
  BY DEF IsSeq
<1> QED
  OBVIOUS

LEMMA AppendFacts ==
    ASSUME NEW s, IsSeq(s), NEW x
    PROVE  /\ IsSeq(Append(s, x))
           /\ Len(Append(s, x)) = Len(s) + 1
           /\ \A i \in 1..Len(s) : Append(s, x)[i] = s[i]
           /\ Append(s, x)[Len(s) + 1] = x
           /\ DOMAIN Append(s, x) = 1..(Len(s) + 1)
<1> PICK S : s \in Seq(S)
  BY DEF IsSeq
<1> DEFINE T == S \cup {x}
<1>1. s \in Seq(T) /\ x \in T
  OBVIOUS
<1> HIDE DEF T
<1>2. Append(s, x) \in Seq(T)
  BY <1>1
<1> QED
  BY <1>1, <1>2 DEF IsSeq

\* What handlers send with \o, one after the other.
LEMMA ConcatFacts ==
    ASSUME NEW s, IsSeq(s)
    PROVE  /\ s \o <<>> = s
           /\ \A x : s \o <<x>> = Append(s, x)
           /\ \A x, y : s \o <<x, y>> = Append(Append(s, x), y)
           /\ \A x, y, z : s \o (<<z>> \o <<x, y>>) = Append(Append(Append(s, z), x), y)
           /\ \A x, y : <<>> \o <<x, y>> = <<x, y>>
<1> PICK S : s \in Seq(S)
  BY DEF IsSeq
<1>1. s \o <<>> = s
  OBVIOUS
<1>2. ASSUME NEW x PROVE s \o <<x>> = Append(s, x)
  <2> DEFINE T == S \cup {x}
  <2>1. s \in Seq(T) /\ x \in T
    OBVIOUS
  <2> HIDE DEF T
  <2> QED
    BY <2>1
<1>3. ASSUME NEW x, NEW y PROVE s \o <<x, y>> = Append(Append(s, x), y)
  <2> DEFINE T == S \cup {x, y}
  <2>1. s \in Seq(T) /\ x \in T /\ y \in T
    OBVIOUS
  <2> HIDE DEF T
  <2> QED
    BY <2>1
<1>4. ASSUME NEW x, NEW y, NEW z
      PROVE  s \o (<<z>> \o <<x, y>>) = Append(Append(Append(s, z), x), y)
  <2> DEFINE T == S \cup {x, y, z}
  <2>1. s \in Seq(T) /\ x \in T /\ y \in T /\ z \in T
    OBVIOUS
  <2> HIDE DEF T
  <2> QED
    BY <2>1
<1>5. ASSUME NEW x, NEW y PROVE <<>> \o <<x, y>> = <<x, y>>
  <2> DEFINE T == {x, y}
  <2>1. <<x, y>> \in Seq(T)
    OBVIOUS
  <2> QED
    BY <2>1
<1> QED
  BY <1>1, <1>2, <1>3, <1>4, <1>5

LEMMA ConcatIsSeq ==
    ASSUME NEW a, IsSeq(a), NEW b, IsSeq(b)
    PROVE  IsSeq(a \o b)
<1> PICK S : a \in Seq(S)
  BY DEF IsSeq
<1> PICK T : b \in Seq(T)
  BY DEF IsSeq
<1>1. a \in Seq(S \cup T) /\ b \in Seq(S \cup T)
  OBVIOUS
<1>2. a \o b \in Seq(S \cup T)
  BY <1>1
<1> QED
  BY <1>2 DEF IsSeq

LEMMA ConcatAssoc ==
    ASSUME NEW a, IsSeq(a), NEW b, IsSeq(b), NEW c, IsSeq(c)
    PROVE  (a \o b) \o c = a \o (b \o c)
<1> PICK S : a \in Seq(S)
  BY DEF IsSeq
<1> PICK T : b \in Seq(T)
  BY DEF IsSeq
<1> PICK U : c \in Seq(U)
  BY DEF IsSeq
<1> DEFINE All == (S \cup T) \cup U
<1>1. a \in Seq(All) /\ b \in Seq(All) /\ c \in Seq(All)
  OBVIOUS
<1> HIDE DEF All
<1> QED
  BY <1>1

LEMMA FunctionIsSeq ==
    ASSUME NEW n \in Nat, NEW f, f = [k \in 1..n |-> f[k]]
    PROVE  IsSeq(f) /\ Len(f) = n
<1> DEFINE S == {f[k] : k \in 1..n}
<1>1. f \in [1..n -> S]
  OBVIOUS
<1> HIDE DEF S
<1>2. f \in Seq(S) /\ Len(f) = n
  BY <1>1
<1> QED
  BY <1>2 DEF IsSeq

\* A set of numbers has a least one.
LEMMA NatMin ==
    ASSUME NEW T \in SUBSET Nat, T # {}
    PROVE  \E x \in T : \A y \in T : x <= y
<1>1. IsWellFoundedOn(OpToRel(<, Nat), Nat)
  BY NatLessThanWellFounded
<1>2. PICK x \in T : \A y \in T : ~(<<y, x>> \in OpToRel(<, Nat))
  BY <1>1, WFMin
<1>3. \A y \in T : ~(y < x)
  BY <1>2, T \in SUBSET Nat DEF OpToRel
<1> QED
  BY <1>3

\* The loop of FlattenSeq.
FlatLoop(pieces, n, f) ==
    f = [i \in 1..n |-> IF i = 1 THEN pieces[i] ELSE f[i - 1] \o pieces[i]]

LEMMA FlatLoopExists ==
    ASSUME NEW pieces, NEW n \in Nat
    PROVE  \E f : FlatLoop(pieces, n, f)
<1> DEFINE Without == {m \in Nat : ~\E f : FlatLoop(pieces, m, f)}
<1>1. SUFFICES ASSUME Without # {} PROVE FALSE
  OBVIOUS
<1>2. PICK m \in Without : \A j \in Without : m <= j
  <2>1. Without \in SUBSET Nat
    OBVIOUS
  <2> HIDE DEF Without
  <2> QED
    BY <1>1, <2>1, NatMin
<1>3. m \in Nat /\ ~\E f : FlatLoop(pieces, m, f)
  OBVIOUS
<1>4. CASE m = 0
  <2> DEFINE f == [i \in 1..m |-> pieces[i]]
  <2>1. FlatLoop(pieces, m, f)
    BY <1>4 DEF FlatLoop
  <2> QED
    BY <1>3, <2>1
<1>5. CASE m > 0
  <2>1. m - 1 \in Nat /\ m - 1 \notin Without
    BY <1>2, <1>3, <1>5
  <2>2. PICK before : FlatLoop(pieces, m - 1, before)
    BY <2>1
  <2> DEFINE last == IF m = 1 THEN pieces[m] ELSE before[m - 1] \o pieces[m]
             f == [i \in 1..m |-> IF i = m THEN last ELSE before[i]]
  <2>3. \A i \in 1..(m - 1) : before[i] = IF i = 1 THEN pieces[i] ELSE before[i - 1] \o pieces[i]
    BY <2>2 DEF FlatLoop
  <2>4. \A i \in 1..m : f[i] = IF i = 1 THEN pieces[i] ELSE f[i - 1] \o pieces[i]
    BY <1>3, <1>5, <2>3
  <2>5. f = [i \in 1..m |-> f[i]]
    OBVIOUS
  <2> HIDE DEF f
  <2>6. FlatLoop(pieces, m, f)
    BY <2>4, <2>5 DEF FlatLoop
  <2> QED
    BY <1>3, <2>6
<1> QED
  BY <1>3, <1>4, <1>5

-----------------------------------------------------------------------------
(* The text filter: its loop is well defined, since every pass leaves less  *)
(* to look at.                                                              *)

DrainStep(from, final, text) ==
    IF text = <<>>
      THEN [output |-> <<>>, pending |-> text]
      ELSE IF MarkerAt(text) # {}
        THEN LET m == CHOOSE m \in MarkerAt(text) : TRUE
             IN  from[SubSeq(text, Len(m) + 1, Len(text))]
        ELSE IF ~final /\ IsStartOfMarker(text)
          THEN [output |-> <<>>, pending |-> text]
          ELSE LET rest == from[Tail(text)]
               IN  [rest EXCEPT !.output = <<Head(text)>> \o @]

UpTo(n) == {text \in Seq(STRING) : Len(text) <= n}
DrainsTo(from, final, n) == from = [text \in UpTo(n) |-> DrainStep(from, final, text)]

\* A pass looks only at what is shorter.
LEMMA StepLooksAhead ==
    ASSUME NEW final, NEW text \in Seq(STRING), NEW f, NEW g,
           \A u \in Seq(STRING) : Len(u) < Len(text) => f[u] = g[u]
    PROVE  DrainStep(f, final, text) = DrainStep(g, final, text)
<1>1. CASE text = <<>>
  BY <1>1 DEF DrainStep
<1>2. CASE text # <<>> /\ MarkerAt(text) # {}
  <2> DEFINE m == CHOOSE m \in MarkerAt(text) : TRUE
             u == SubSeq(text, Len(m) + 1, Len(text))
  <2>1. m \in KiroMarkers /\ IsPrefix(m, text)
    BY <1>2 DEF MarkerAt
  <2>2. DrainStep(f, final, text) = f[u] /\ DrainStep(g, final, text) = g[u]
    BY <1>2 DEF DrainStep
  <2> HIDE DEF m
  <2>3. m \in Seq(STRING) /\ m # <<>>
    BY <2>1, MarkerAssumption DEF MarkerAssumption
  <2>4. Len(m) \in Nat /\ Len(m) > 0 /\ Len(m) <= Len(text)
    BY <2>1, <2>3 DEF IsPrefix
  <2>5. u \in Seq(STRING) /\ Len(u) < Len(text)
    BY <2>4
  <2> HIDE DEF u
  <2> QED
    BY <2>2, <2>5
<1>3. CASE text # <<>> /\ MarkerAt(text) = {}
  <2>1. Tail(text) \in Seq(STRING) /\ Len(Tail(text)) < Len(text)
    BY <1>3
  <2>2. f[Tail(text)] = g[Tail(text)]
    BY <2>1
  <2> QED
    BY <1>3, <2>2 DEF DrainStep
<1> QED
  BY <1>1, <1>2, <1>3

LEMMA DrainIsUnique ==
    ASSUME NEW final, NEW n \in Nat, NEW f, DrainsTo(f, final, n),
           NEW p \in Nat, NEW g, DrainsTo(g, final, p),
           NEW text \in UpTo(n), text \in UpTo(p)
    PROVE  f[text] = g[text]
<1> DEFINE Bad == {k \in Nat : \E u \in Seq(STRING) :
                       Len(u) = k /\ Len(u) <= n /\ Len(u) <= p /\ f[u] # g[u]}
<1>1. SUFFICES ASSUME Bad # {} PROVE FALSE
  <2>1. text \in Seq(STRING) /\ Len(text) \in Nat /\ Len(text) <= n /\ Len(text) <= p
    BY DEF UpTo
  <2> QED
    BY <2>1
<1>2. PICK k \in Bad : \A j \in Bad : k <= j
  <2>1. Bad \in SUBSET Nat
    OBVIOUS
  <2> HIDE DEF Bad
  <2> QED
    BY <1>1, <2>1, NatMin
<1>3. PICK u \in Seq(STRING) : Len(u) = k /\ Len(u) <= n /\ Len(u) <= p /\ f[u] # g[u]
  OBVIOUS
<1>4. ASSUME NEW v \in Seq(STRING), Len(v) < Len(u)
      PROVE  f[v] = g[v]
  <2>1. Len(v) \in Nat /\ Len(u) \in Nat /\ Len(v) <= n /\ Len(v) <= p /\ ~(k <= Len(v))
    BY <1>3, <1>4
  <2>2. Len(v) \notin Bad
    BY <1>2, <2>1
  <2> QED
    BY <2>1, <2>2
<1>5. DrainStep(f, final, u) = DrainStep(g, final, u)
  BY <1>4, StepLooksAhead
<1>6. f[u] = DrainStep(f, final, u) /\ g[u] = DrainStep(g, final, u)
  <2>1. u \in UpTo(n) /\ u \in UpTo(p)
    BY <1>3 DEF UpTo
  <2> QED
    BY <2>1 DEF DrainsTo
<1> QED
  BY <1>3, <1>5, <1>6

LEMMA DrainExistsUpTo ==
    ASSUME NEW final, NEW n \in Nat
    PROVE  \E f : DrainsTo(f, final, n)
<1> DEFINE Without == {m \in Nat : ~\E f : DrainsTo(f, final, m)}
<1>1. SUFFICES ASSUME Without # {} PROVE FALSE
  OBVIOUS
<1>2. PICK m \in Without : \A j \in Without : m <= j
  <2>1. Without \in SUBSET Nat
    OBVIOUS
  <2> HIDE DEF Without
  <2> QED
    BY <1>1, <2>1, NatMin
<1>3. m \in Nat /\ ~\E f : DrainsTo(f, final, m)
  OBVIOUS
<1>4. PICK g : m > 0 => DrainsTo(g, final, m - 1)
  <2>1. m > 0 => m - 1 \in Nat /\ m - 1 \notin Without
    BY <1>2, <1>3
  <2> QED
    BY <2>1
<1> DEFINE f == [text \in UpTo(m) |-> DrainStep(g, final, text)]
<1>5. ASSUME NEW text \in UpTo(m)
      PROVE  DrainStep(g, final, text) = DrainStep(f, final, text)
  <2>1. text \in Seq(STRING) /\ Len(text) \in Nat /\ Len(text) <= m
    BY DEF UpTo
  <2>2. ASSUME NEW u \in Seq(STRING), Len(u) < Len(text)
        PROVE  g[u] = f[u]
    <3>1. Len(u) \in Nat /\ m > 0 /\ Len(u) <= m - 1 /\ Len(u) <= m
      BY <1>3, <2>1, <2>2
    <3>2. u \in UpTo(m) /\ u \in UpTo(m - 1)
      BY <3>1 DEF UpTo
    <3>3. g[u] = DrainStep(g, final, u)
      BY <1>4, <3>1, <3>2 DEF DrainsTo
    <3> QED
      BY <3>2, <3>3
  <2> HIDE DEF f
  <2> QED
    BY <2>1, <2>2, StepLooksAhead
<1>6. DrainsTo(f, final, m)
  <2>1. \A text \in UpTo(m) : f[text] = DrainStep(f, final, text)
    BY <1>5
  <2>2. f = [text \in UpTo(m) |-> f[text]]
    OBVIOUS
  <2> HIDE DEF f
  <2> QED
    BY <2>1, <2>2 DEF DrainsTo
<1> HIDE DEF f
<1> QED
  BY <1>3, <1>6

Drains(from, final) == from = [text \in Seq(STRING) |-> DrainStep(from, final, text)]

LEMMA DrainExists == \A final : \E from : Drains(from, final)
<1> TAKE final
<1> DEFINE F(n) == CHOOSE f : DrainsTo(f, final, n)
           from == [text \in Seq(STRING) |-> F(Len(text))[text]]
<1>1. \A n \in Nat : DrainsTo(F(n), final, n)
  BY DrainExistsUpTo
<1> HIDE DEF F
<1>2. ASSUME NEW text \in Seq(STRING)
      PROVE  from[text] = DrainStep(from, final, text)
  <2> DEFINE n == Len(text)
  <2>1. n \in Nat /\ text \in UpTo(n)
    BY DEF UpTo
  <2>2. F(n)[text] = DrainStep(F(n), final, text)
    BY <1>1, <2>1 DEF DrainsTo
  <2>3. ASSUME NEW u \in Seq(STRING), Len(u) < Len(text)
        PROVE  F(n)[u] = from[u]
    <3>1. Len(u) \in Nat /\ u \in UpTo(n) /\ u \in UpTo(Len(u))
      BY <2>1, <2>3 DEF UpTo
    <3>2. F(n)[u] = F(Len(u))[u]
      BY <1>1, <2>1, <3>1, DrainIsUnique
    <3> QED
      BY <3>2
  <2>4. from[text] = F(n)[text]
    OBVIOUS
  <2> HIDE DEF from
  <2>5. DrainStep(F(n), final, text) = DrainStep(from, final, text)
    BY <2>3, StepLooksAhead
  <2> QED
    BY <2>2, <2>4, <2>5
<1>3. from = [text \in Seq(STRING) |-> from[text]]
  OBVIOUS
<1> HIDE DEF from
<1>4. Drains(from, final)
  BY <1>2, <1>3 DEF Drains
<1> QED
  BY <1>4

\* What drain returns is what its loop leaves.
LEMMA DrainIsTheLoop ==
    ASSUME NEW final, NEW pending \in Seq(STRING)
    PROVE  \E from : Drains(from, final) /\ Drain(final, pending) = from[pending]
<1> DEFINE from == CHOOSE from : Drains(from, final)
<1>1. Drains(from, final)
  BY DrainExists
<1>2. Drain(final, pending) = from[pending]
  BY Zenon DEF Drain, Drains, DrainStep
<1> QED
  BY <1>1, <1>2

-----------------------------------------------------------------------------
(* Where the markers of a text are.                                         *)

\* m is at place p of the text.
IsAt(text, p, m) ==
    /\ m \in KiroMarkers /\ p \in 1..Len(text)
    /\ p + Len(m) - 1 <= Len(text)
    /\ \A j \in 1..Len(m) : text[p + j - 1] = m[j]

LEMMA MarkerFacts ==
    ASSUME NEW m \in KiroMarkers
    PROVE  /\ m \in Seq(STRING) /\ Len(m) \in Nat /\ Len(m) > 0 /\ m[1] = "<"
           /\ \A j \in 2..Len(m) : m[j] # "<"
<1>1. m \in Seq(STRING) /\ m # <<>> /\ \A i \in DOMAIN m : (m[i] = "<") = (i = 1)
  BY MarkerAssumption DEF MarkerAssumption
<1>2. Len(m) \in Nat /\ Len(m) > 0 /\ DOMAIN m = 1..Len(m)
  BY <1>1
<1> QED
  BY <1>1, <1>2

\* A text begins with what agrees with it as far as it goes.
LEMMA PrefixFacts ==
    ASSUME NEW s \in Seq(STRING), NEW t \in Seq(STRING)
    PROVE  IsPrefix(s, t) <=> Len(s) <= Len(t) /\ \A j \in 1..Len(s) : t[j] = s[j]
<1>1. Len(s) \in Nat /\ Len(t) \in Nat
  OBVIOUS
<1>2. SubSeq(s, 1, Len(s)) = s
  OBVIOUS
<1>3. CASE Len(s) <= Len(t)
  <2>1. SubSeq(t, 1, Len(s)) \in Seq(STRING) /\ Len(SubSeq(t, 1, Len(s))) = Len(s)
    BY <1>1, <1>3
  <2>2. \A j \in 1..Len(s) : SubSeq(t, 1, Len(s))[j] = t[j]
    BY <1>1, <1>3
  <2>3. SubSeq(t, 1, Len(s)) = s <=> \A j \in 1..Len(s) : t[j] = s[j]
    BY <2>1, <2>2
  <2> QED
    BY <1>2, <1>3, <2>3 DEF IsPrefix
<1>4. CASE ~(Len(s) <= Len(t))
  BY <1>4 DEF IsPrefix
<1> QED
  BY <1>3, <1>4

\* What is left of a text after its first k characters.
LEMMA RestFacts ==
    ASSUME NEW text \in Seq(STRING), NEW k \in 0..Len(text)
    PROVE  LET rest == SubSeq(text, k + 1, Len(text))
           IN  /\ rest \in Seq(STRING)
               /\ Len(rest) = Len(text) - k
               /\ \A j \in 1..(Len(text) - k) : rest[j] = text[k + j]
OBVIOUS

LEMMA StartFacts ==
    ASSUME NEW text \in Seq(STRING), NEW m \in KiroMarkers
    PROVE  IsPrefix(m, text) <=> IsAt(text, 1, m)
<1>1. m \in Seq(STRING) /\ Len(m) \in Nat /\ Len(m) > 0 /\ Len(text) \in Nat
  BY MarkerFacts
<1>2. IsPrefix(m, text) <=> Len(m) <= Len(text) /\ \A j \in 1..Len(m) : text[j] = m[j]
  BY <1>1, PrefixFacts
<1>3. \A j \in 1..Len(m) : text[1 + j - 1] = text[j]
  BY <1>1
<1> QED
  BY <1>1, <1>2, <1>3 DEF IsAt

LEMMA OccurrenceFacts ==
    ASSUME NEW text \in Seq(STRING), NEW p, NEW m
    PROVE  <<p, m>> \in Occurrences(text) <=> IsAt(text, p, m)
<1> DEFINE rest == SubSeq(text, p, Len(text))
<1>1. <<p, m>> \in Occurrences(text) <=>
          p \in 1..Len(text) /\ m \in KiroMarkers /\ IsPrefix(m, rest)
  BY DEF Occurrences
<1>2. SUFFICES ASSUME p \in 1..Len(text), m \in KiroMarkers
               PROVE  IsPrefix(m, rest) <=> IsAt(text, p, m)
  BY <1>1 DEF IsAt
<1>3. m \in Seq(STRING) /\ Len(m) \in Nat /\ Len(m) > 0 /\ Len(text) \in Nat /\ p \in Nat
  BY <1>2, MarkerFacts
<1>4. /\ rest \in Seq(STRING) /\ Len(rest) = Len(text) - p + 1
      /\ \A j \in 1..(Len(text) - p + 1) : rest[j] = text[p + j - 1]
  BY <1>2, <1>3
<1> HIDE DEF rest
<1>5. IsPrefix(m, rest) <=> Len(m) <= Len(rest) /\ \A j \in 1..Len(m) : rest[j] = m[j]
  BY <1>3, <1>4, PrefixFacts
<1>6. CASE Len(m) <= Len(rest)
  <2>1. p + Len(m) - 1 <= Len(text)
    BY <1>3, <1>4, <1>6
  <2>2. ASSUME NEW j \in 1..Len(m) PROVE rest[j] = text[p + j - 1]
    <3>1. j \in 1..(Len(text) - p + 1)
      BY <1>3, <1>4, <1>6
    <3> QED
      BY <1>4, <3>1
  <2> QED
    BY <1>2, <1>5, <1>6, <2>1, <2>2 DEF IsAt
<1>7. CASE ~(Len(m) <= Len(rest))
  <2>1. ~(p + Len(m) - 1 <= Len(text))
    BY <1>3, <1>4, <1>7
  <2> QED
    BY <1>5, <1>7, <2>1 DEF IsAt
<1> QED
  BY <1>6, <1>7

LEMMA CoveredFacts ==
    ASSUME NEW text \in Seq(STRING), NEW i
    PROVE  i \in Covered(text) <=> \E p, m : IsAt(text, p, m) /\ i \in p..(p + Len(m) - 1)
<1>1. i \in Covered(text) <=> \E o \in Occurrences(text) : i \in o[1]..(o[1] + Len(o[2]) - 1)
  BY DEF Covered
<1>2. \A o \in Occurrences(text) : o = <<o[1], o[2]>>
  BY DEF Occurrences
<1>3. ASSUME NEW p, NEW m, IsAt(text, p, m), i \in p..(p + Len(m) - 1)
      PROVE  i \in Covered(text)
  <2> DEFINE o == <<p, m>>
  <2>1. o \in Occurrences(text) /\ o[1] = p /\ o[2] = m
    BY <1>3, OccurrenceFacts
  <2> HIDE DEF o
  <2> QED
    BY <1>1, <1>3, <2>1
<1>4. ASSUME i \in Covered(text)
      PROVE  \E p, m : IsAt(text, p, m) /\ i \in p..(p + Len(m) - 1)
  <2>1. PICK o \in Occurrences(text) : i \in o[1]..(o[1] + Len(o[2]) - 1)
    BY <1>1, <1>4
  <2>2. <<o[1], o[2]>> \in Occurrences(text)
    BY <1>2, <2>1
  <2>3. IsAt(text, o[1], o[2])
    BY <2>2, OccurrenceFacts
  <2> QED
    BY <2>1, <2>3
<1> QED
  BY <1>3, <1>4

\* A marker at the start covers itself, and no other reaches over its end.
LEMMA MarkerInFront ==
    ASSUME NEW text \in Seq(STRING), NEW m, IsAt(text, 1, m),
           NEW p, NEW n, IsAt(text, p, n), p <= Len(m)
    PROVE  p = 1 /\ n = m
<1>1. /\ m \in KiroMarkers /\ n \in KiroMarkers /\ p \in 1..Len(text)
      /\ Len(m) \in Nat /\ Len(m) > 0 /\ Len(n) \in Nat /\ Len(n) > 0 /\ Len(text) \in Nat
      /\ m \in Seq(STRING) /\ n \in Seq(STRING)
  BY MarkerFacts DEF IsAt
<1>2. p = 1
  <2> SUFFICES ASSUME p # 1 PROVE FALSE
    OBVIOUS
  <2>1. p \in 2..Len(m) /\ 1 + p - 1 = p /\ p + 1 - 1 = p
    BY <1>1
  <2>2. text[p] = m[p]
    BY <1>1, <2>1 DEF IsAt
  <2>3. text[p] = n[1]
    BY <1>1, <2>1 DEF IsAt
  <2> QED
    BY <1>1, <2>1, <2>2, <2>3, MarkerFacts
<1>3. IsPrefix(m, text) /\ IsPrefix(n, text)
  BY <1>1, <1>2, StartFacts
<1>4. /\ Len(m) <= Len(text) /\ \A j \in 1..Len(m) : text[j] = m[j]
      /\ Len(n) <= Len(text) /\ \A j \in 1..Len(n) : text[j] = n[j]
  BY <1>1, <1>3, PrefixFacts
<1>5. CASE Len(m) <= Len(n)
  <2>1. \A j \in 1..Len(m) : n[j] = m[j]
    BY <1>1, <1>4, <1>5
  <2>2. IsPrefix(m, n)
    BY <1>1, <1>5, <2>1, PrefixFacts
  <2> QED
    BY <1>1, <1>2, <2>2, MarkerAssumption DEF MarkerAssumption
<1>6. CASE Len(n) <= Len(m)
  <2>1. \A j \in 1..Len(n) : m[j] = n[j]
    BY <1>1, <1>4, <1>6
  <2>2. IsPrefix(n, m)
    BY <1>1, <1>6, <2>1, PrefixFacts
  <2> QED
    BY <1>1, <1>2, <2>2, MarkerAssumption DEF MarkerAssumption
<1> QED
  BY <1>1, <1>5, <1>6

\* Cut where no marker goes on, the rest of a text has its own markers.
LEMMA CoveredRest ==
    ASSUME NEW text \in Seq(STRING), NEW k \in 0..Len(text),
           \A p, m : IsAt(text, p, m) /\ p <= k => p + Len(m) - 1 <= k,
           NEW i \in 1..(Len(text) - k)
    PROVE  k + i \in Covered(text) <=> i \in Covered(SubSeq(text, k + 1, Len(text)))
<1> DEFINE rest == SubSeq(text, k + 1, Len(text))
<1>1. /\ rest \in Seq(STRING) /\ Len(rest) = Len(text) - k
      /\ \A j \in 1..(Len(text) - k) : rest[j] = text[k + j]
  BY RestFacts
<1>2. Len(text) \in Nat /\ k \in Nat /\ k <= Len(text) /\ i \in Nat
  OBVIOUS
<1> HIDE DEF rest
<1>3. ASSUME NEW p \in Nat, p > 0, NEW m
      PROVE  IsAt(rest, p, m) <=> IsAt(text, k + p, m)
  <2>1. SUFFICES ASSUME m \in KiroMarkers PROVE IsAt(rest, p, m) <=> IsAt(text, k + p, m)
    BY DEF IsAt
  <2>2. Len(m) \in Nat /\ Len(m) > 0
    BY <2>1, MarkerFacts
  <2>3. /\ p \in 1..Len(rest) <=> k + p \in 1..Len(text)
        /\ p + Len(m) - 1 <= Len(rest) <=> k + p + Len(m) - 1 <= Len(text)
    BY <1>1, <1>2, <1>3, <2>2
  <2>4. CASE p + Len(m) - 1 <= Len(rest)
    <3>2. ASSUME NEW j \in 1..Len(m) PROVE rest[p + j - 1] = text[(k + p) + j - 1]
      <4>1. p + j - 1 \in 1..(Len(text) - k)
        BY <1>1, <1>2, <1>3, <2>2, <2>4
      <4>2. k + (p + j - 1) = (k + p) + j - 1
        BY <1>2, <1>3, <2>2
      <4> QED
        BY <1>1, <4>1, <4>2
    <3> QED
      BY <2>3, <3>2 DEF IsAt
  <2>5. CASE ~(p + Len(m) - 1 <= Len(rest))
    BY <2>3, <2>5 DEF IsAt
  <2> QED
    BY <2>4, <2>5
<1>4. ASSUME i \in Covered(rest) PROVE k + i \in Covered(text)
  <2>1. PICK p, m : IsAt(rest, p, m) /\ i \in p..(p + Len(m) - 1)
    BY <1>1, <1>4, CoveredFacts
  <2>2. p \in Nat /\ p > 0 /\ Len(m) \in Nat
    BY <1>1, <1>2, <2>1, MarkerFacts DEF IsAt
  <2>3. IsAt(text, k + p, m) /\ k + i \in (k + p)..((k + p) + Len(m) - 1)
    BY <1>2, <1>3, <2>1, <2>2
  <2> QED
    BY <2>3, CoveredFacts
<1>5. ASSUME k + i \in Covered(text) PROVE i \in Covered(rest)
  <2>1. PICK p, m : IsAt(text, p, m) /\ k + i \in p..(p + Len(m) - 1)
    BY <1>5, CoveredFacts
  <2>2. p \in Nat /\ Len(m) \in Nat /\ p <= k + i /\ k + i <= p + Len(m) - 1
    BY <1>2, <2>1, MarkerFacts DEF IsAt
  <2>3. p > k
    BY <1>2, <2>1, <2>2
  <2> DEFINE q == p - k
  <2>4. q \in Nat /\ q > 0 /\ k + q = p /\ i \in q..(q + Len(m) - 1)
    BY <1>2, <2>2, <2>3
  <2> HIDE DEF q
  <2>5. IsAt(rest, q, m)
    BY <1>3, <2>1, <2>4
  <2> QED
    BY <1>1, <2>4, <2>5, CoveredFacts
<1> QED
  BY <1>4, <1>5 DEF rest
-----------------------------------------------------------------------------
(* A text without its markers, from the front.                              *)

\* upTo[i] is what stays of the first i characters.
UnmarkedTo(upTo, text, n) ==
    upTo = [i \in 0..n |->
               IF i = 0 THEN <<>>
               ELSE IF i \in Covered(text) THEN upTo[i - 1] ELSE Append(upTo[i - 1], text[i])]

LEMMA KeepsFacts ==
    ASSUME NEW text \in Seq(STRING), NEW n \in Nat, NEW upTo, UnmarkedTo(upTo, text, n)
    PROVE  /\ upTo[0] = <<>>
           /\ \A i \in 1..n :
                  /\ i - 1 \in 0..n
                  /\ i \in Covered(text) => upTo[i] = upTo[i - 1]
                  /\ i \notin Covered(text) => upTo[i] = Append(upTo[i - 1], text[i])
<1>1. \A i \in 0..n : upTo[i] =
          IF i = 0 THEN <<>>
          ELSE IF i \in Covered(text) THEN upTo[i - 1] ELSE Append(upTo[i - 1], text[i])
  BY Zenon DEF UnmarkedTo
<1>2. 0 \in 0..n /\ \A i \in 1..n : i \in 0..n /\ i # 0 /\ i - 1 \in 0..n
  OBVIOUS
<1>3. upTo[0] = <<>>
  BY <1>1, <1>2, Zenon
<1>4. ASSUME NEW i \in 1..n
      PROVE  upTo[i] = IF i \in Covered(text) THEN upTo[i - 1] ELSE Append(upTo[i - 1], text[i])
  BY <1>1, <1>2, Zenon
<1> QED
  BY <1>2, <1>3, <1>4

LEMMA KeepsExists ==
    ASSUME NEW text \in Seq(STRING), NEW n \in Nat
    PROVE  \E upTo : UnmarkedTo(upTo, text, n)
<1> DEFINE Without == {m \in Nat : ~\E upTo : UnmarkedTo(upTo, text, m)}
<1>1. SUFFICES ASSUME Without # {} PROVE FALSE
  OBVIOUS
<1>2. PICK m \in Without : \A j \in Without : m <= j
  <2>1. Without \in SUBSET Nat
    OBVIOUS
  <2> HIDE DEF Without
  <2> QED
    BY <1>1, <2>1, NatMin
<1>3. m \in Nat /\ ~\E upTo : UnmarkedTo(upTo, text, m)
  OBVIOUS
<1>4. PICK g : m > 0 => UnmarkedTo(g, text, m - 1)
  <2>1. m > 0 => m - 1 \in Nat /\ m - 1 \notin Without
    BY <1>2, <1>3
  <2> QED
    BY <2>1
<1> DEFINE Kept1(h, i) == IF i = 0 THEN <<>>
                          ELSE IF i \in Covered(text) THEN h[i - 1] ELSE Append(h[i - 1], text[i])
           f == [i \in 0..m |-> Kept1(g, i)]
<1>5. ASSUME NEW i \in 0..m
      PROVE  Kept1(g, i) = Kept1(f, i)
  <2>1. CASE i = 0
    BY <2>1
  <2>2. CASE i > 0
    <3>1. i - 1 \in 0..(m - 1) /\ i - 1 \in 0..m /\ m > 0
      BY <1>3, <2>2
    <3>2. g[i - 1] = Kept1(g, i - 1)
      BY <1>4, <3>1 DEF UnmarkedTo
    <3>3. f[i - 1] = Kept1(g, i - 1)
      BY <3>1
    <3> HIDE DEF f
    <3> QED
      BY <2>2, <3>2, <3>3
  <2> QED
    BY <1>3, <2>1, <2>2
<1>6. f = [i \in 0..m |-> Kept1(f, i)]
  <2>1. \A i \in 0..m : f[i] = Kept1(f, i)
    BY <1>5
  <2>2. f = [i \in 0..m |-> f[i]]
    OBVIOUS
  <2> HIDE DEF f, Kept1
  <2> QED
    BY <2>1, <2>2
<1> HIDE DEF f
<1>7. UnmarkedTo(f, text, m)
  BY <1>6 DEF UnmarkedTo
<1> QED
  BY <1>3, <1>7

LEMMA WithoutIsKept ==
    ASSUME NEW text \in Seq(STRING)
    PROVE  \E upTo : UnmarkedTo(upTo, text, Len(text)) /\ WithoutMarkers(text) = upTo[Len(text)]
<1> DEFINE upTo == CHOOSE upTo : UnmarkedTo(upTo, text, Len(text))
<1>1. UnmarkedTo(upTo, text, Len(text))
  BY KeepsExists
<1>2. WithoutMarkers(text) = upTo[Len(text)]
  BY Zenon DEF WithoutMarkers, UnmarkedTo
<1> QED
  BY <1>1, <1>2

\* While everything is covered nothing stays.
LEMMA KeepsNothing ==
    ASSUME NEW text \in Seq(STRING), NEW n \in Nat, NEW upTo, UnmarkedTo(upTo, text, n),
           NEW k \in 0..n, \A i \in 1..k : i \in Covered(text)
    PROVE  upTo[k] = <<>>
<1> DEFINE Bad == {i \in 0..k : upTo[i] # <<>>}
<1>1. SUFFICES ASSUME Bad # {} PROVE FALSE
  OBVIOUS
<1>2. PICK i \in Bad : \A j \in Bad : i <= j
  <2>1. Bad \in SUBSET Nat
    OBVIOUS
  <2> HIDE DEF Bad
  <2> QED
    BY <1>1, <2>1, NatMin
<1>3. i \in 0..k /\ upTo[i] # <<>>
  OBVIOUS
<1>4. i # 0
  BY <1>3, KeepsFacts
<1>5. i \in 1..n /\ i \in 1..k /\ i - 1 \in 0..k /\ ~(i <= i - 1)
  BY <1>3, <1>4
<1>6. upTo[i] = upTo[i - 1]
  BY <1>5, KeepsFacts
<1>7. i - 1 \notin Bad
  BY <1>2, <1>5
<1> HIDE DEF Bad
<1> QED
  BY <1>3, <1>5, <1>6, <1>7 DEF Bad

LEMMA AppendToRest ==
    ASSUME NEW a, IsSeq(a), NEW b, IsSeq(b), NEW c
    PROVE  IsSeq(Append(b, c)) /\ Append(a \o b, c) = a \o Append(b, c)
<1> PICK A : a \in Seq(A)
  BY DEF IsSeq
<1> PICK B : b \in Seq(B)
  BY DEF IsSeq
<1> DEFINE S == A \cup B \cup {c}
<1>1. a \in Seq(S) /\ b \in Seq(S) /\ c \in S
  OBVIOUS
<1> HIDE DEF S
<1>2. Append(b, c) \in Seq(S)
  BY <1>1
<1>3. Append(a \o b, c) = a \o Append(b, c)
  BY <1>1
<1> QED
  BY <1>2, <1>3 DEF IsSeq

LEMMA AppendToNothing == \A x : Append(<<>>, x) = <<x>> /\ IsSeq(<<x>>)
<1> TAKE x
<1> DEFINE S == {x}
<1>1. x \in S /\ <<>> \in Seq(S) /\ <<x>> \in Seq(S)
  OBVIOUS
<1> HIDE DEF S
<1>2. Append(<<>>, x) \in Seq(S) /\ Len(Append(<<>>, x)) = 1 /\ Append(<<>>, x)[1] = x
  BY <1>1
<1>3. Append(<<>>, x) = <<x>>
  BY <1>1, <1>2
<1>4. IsSeq(<<x>>)
  BY <1>1 DEF IsSeq
<1> QED
  BY <1>3, <1>4

\* rest is what is left of the text after its first k characters, and no marker goes on
\* from there.
IsRest(rest, text, k) ==
    /\ rest \in Seq(STRING) /\ Len(rest) = Len(text) - k
    /\ \A i \in 1..Len(rest) : /\ rest[i] = text[k + i]
                               /\ k + i \in Covered(text) <=> i \in Covered(rest)

\* What part keeps of its first n characters comes after what all keeps of its first k.
MarkerFollows(part, n, all, k) == IsSeq(part[n]) /\ all[k + n] = all[k] \o part[n]

\* What stays of the rest of a text comes after what stays of its beginning.
LEMMA KeepsOn ==
    ASSUME NEW text \in Seq(STRING), NEW k \in 0..Len(text), NEW rest, IsRest(rest, text, k),
           NEW all, UnmarkedTo(all, text, Len(text)), IsSeq(all[k]),
           NEW part, UnmarkedTo(part, rest, Len(rest)),
           NEW n \in 0..Len(rest)
    PROVE  MarkerFollows(part, n, all, k)
<1> USE DEF MarkerFollows
<1> DEFINE Holds(i) == MarkerFollows(part, i, all, k)
           Bad == {i \in 0..Len(rest) : ~Holds(i)}
<1>0. Len(text) \in Nat /\ rest \in Seq(STRING) /\ Len(rest) = Len(text) - k /\ Len(rest) \in Nat /\ k \in Nat
  BY DEF IsRest
<1>1. SUFFICES ASSUME Bad # {} PROVE FALSE
  OBVIOUS
<1>2. PICK i \in Bad : \A j \in Bad : i <= j
  <2>1. Bad \in SUBSET Nat
    <3> HIDE DEF Holds, MarkerFollows
    <3> QED
      BY <1>0
  <2> HIDE DEF Bad, MarkerFollows
  <2> QED
    BY <1>1, <2>1, NatMin
<1>3. i \in 0..Len(rest) /\ ~Holds(i)
  OBVIOUS
<1>4. part[0] = <<>> /\ k + 0 = k
  BY <1>0, KeepsFacts
<1>5. Holds(0)
  BY <1>4, EmptyIsSeq, ConcatFacts
<1>6. i # 0
  BY <1>3, <1>5
<1>7. /\ i \in 1..Len(rest) /\ i - 1 \in 0..Len(rest) /\ ~(i <= i - 1)
      /\ k + i \in 1..Len(text) /\ (k + i) - 1 = k + (i - 1)
  BY <1>0, <1>3, <1>6
<1>8. Holds(i - 1)
  <2>1. i - 1 \notin Bad
    BY <1>2, <1>7
  <2> HIDE DEF Holds, MarkerFollows
  <2> QED
    BY <1>7, <2>1
<1> HIDE DEF Bad
<1>9. /\ i \in Covered(rest) => part[i] = part[i - 1]
      /\ i \notin Covered(rest) => part[i] = Append(part[i - 1], rest[i])
  BY <1>0, <1>7, KeepsFacts
<1>10. /\ k + i \in Covered(text) => all[k + i] = all[k + (i - 1)]
       /\ k + i \notin Covered(text) => all[k + i] = Append(all[k + (i - 1)], text[k + i])
  <2>1. /\ k + i \in Covered(text) => all[k + i] = all[(k + i) - 1]
        /\ k + i \notin Covered(text) => all[k + i] = Append(all[(k + i) - 1], text[k + i])
    BY <1>0, <1>7, KeepsFacts
  <2> QED
    BY <1>7, <2>1
<1>11. rest[i] = text[k + i] /\ (k + i \in Covered(text) <=> i \in Covered(rest))
  BY <1>7 DEF IsRest
<1>12. CASE i \in Covered(rest)
  <2>1. all[k + i] = all[k + (i - 1)] /\ part[i] = part[i - 1]
    BY <1>9, <1>10, <1>11, <1>12
  <2> QED
    BY <1>3, <1>8, <2>1
<1>13. CASE i \notin Covered(rest)
  <2>2. part[i] = Append(part[i - 1], rest[i]) /\ all[k + i] = Append(all[k] \o part[i - 1], rest[i])
    BY <1>8, <1>9, <1>10, <1>11, <1>13
  <2>3. /\ IsSeq(Append(part[i - 1], rest[i]))
        /\ Append(all[k] \o part[i - 1], rest[i]) = all[k] \o Append(part[i - 1], rest[i])
    <3> DEFINE c == rest[i]
               a == all[k]
               b == part[i - 1]
    <3>1. IsSeq(a) /\ IsSeq(b)
      BY <1>8
    <3> HIDE DEF a, b, c
    <3>2. IsSeq(Append(b, c)) /\ Append(a \o b, c) = a \o Append(b, c)
      BY <3>1, AppendToRest
    <3> QED
      BY <3>2 DEF a, b, c
  <2> QED
    BY <1>3, <2>2, <2>3
<1> QED
  BY <1>12, <1>13

\* front is what stays of the first k characters.
IsFront(front, text, k) ==
    IsSeq(front) /\ \A upTo : UnmarkedTo(upTo, text, Len(text)) => upTo[k] = front
ComesAfter(rest, front, text) ==
    /\ IsSeq(WithoutMarkers(rest))
    /\ WithoutMarkers(text) = front \o WithoutMarkers(rest)

\* The front of a text, when no marker goes on after its first k characters.
LEMMA WithoutFront ==
    ASSUME NEW text \in Seq(STRING), NEW k \in 0..Len(text), NEW rest, IsRest(rest, text, k),
           NEW front, IsFront(front, text, k)
    PROVE  ComesAfter(rest, front, text)
<1>1. /\ rest \in Seq(STRING) /\ Len(rest) \in Nat /\ Len(text) \in Nat
      /\ Len(rest) \in 0..Len(rest) /\ k + Len(rest) = Len(text)
  BY DEF IsRest
<1>2. PICK all : UnmarkedTo(all, text, Len(text)) /\ WithoutMarkers(text) = all[Len(text)]
  BY WithoutIsKept
<1>3. PICK part : UnmarkedTo(part, rest, Len(rest)) /\ WithoutMarkers(rest) = part[Len(rest)]
  BY <1>1, WithoutIsKept
<1>4. all[k] = front /\ IsSeq(front)
  BY <1>2 DEF IsFront
<1>5. MarkerFollows(part, Len(rest), all, k)
  BY <1>1, <1>2, <1>3, <1>4, KeepsOn
<1> QED
  BY <1>1, <1>2, <1>3, <1>4, <1>5 DEF MarkerFollows, ComesAfter

LEMMA WithoutNothing == WithoutMarkers(<<>>) = <<>>
<1>1. <<>> \in Seq(STRING) /\ Len(<<>>) = 0
  OBVIOUS
<1>2. PICK upTo : UnmarkedTo(upTo, <<>>, 0) /\ WithoutMarkers(<<>>) = upTo[0]
  BY <1>1, WithoutIsKept
<1> QED
  BY <1>1, <1>2, KeepsFacts

LEMMA WithoutIsText ==
    ASSUME NEW text \in Seq(STRING)
    PROVE  IsSeq(WithoutMarkers(text))
<1>1. 0 \in 0..Len(text) /\ <<>> \in Seq(STRING)
  OBVIOUS
<1>2. \A i \in 1..Len(text) : 0 + i = i
  OBVIOUS
<1>3. Len(text) = Len(text) - 0
  OBVIOUS
<1>4. IsRest(text, text, 0)
  BY <1>2, <1>3 DEF IsRest
<1>5. IsFront(<<>>, text, 0)
  BY <1>1, KeepsFacts, EmptyIsSeq DEF IsFront
<1>6. ComesAfter(text, <<>>, text)
  BY <1>1, <1>4, <1>5, WithoutFront
<1> QED
  BY <1>6 DEF ComesAfter

\* A marker in front goes.
LEMMA WithoutMarker ==
    ASSUME NEW text \in Seq(STRING), NEW m, IsAt(text, 1, m)
    PROVE  LET rest == SubSeq(text, Len(m) + 1, Len(text))
           IN  /\ rest \in Seq(STRING) /\ Len(rest) < Len(text)
               /\ WithoutMarkers(text) = WithoutMarkers(rest)
<1> DEFINE k == Len(m)
           rest == SubSeq(text, k + 1, Len(text))
<1>1. k \in Nat /\ k > 0 /\ k <= Len(text) /\ Len(text) \in Nat /\ k \in 0..Len(text)
  BY MarkerFacts DEF IsAt
<1>2. /\ rest \in Seq(STRING) /\ Len(rest) = Len(text) - k
      /\ \A i \in 1..(Len(text) - k) : rest[i] = text[k + i]
  BY <1>1, RestFacts
<1>3. \A p, n : IsAt(text, p, n) /\ p <= k => p + Len(n) - 1 <= k
  <2> TAKE p, n
  <2> HAVE IsAt(text, p, n) /\ p <= k
  <2>1. p = 1 /\ n = m
    BY MarkerInFront
  <2> HIDE DEF k
  <2> QED
    BY <1>1, <2>1 DEF k
<1>4. \A i \in 1..(Len(text) - k) : k + i \in Covered(text) <=> i \in Covered(rest)
  <2> HIDE DEF k
  <2> QED
    BY <1>1, <1>3, CoveredRest
<1>5. \A upTo : UnmarkedTo(upTo, text, Len(text)) => upTo[k] = <<>>
  <2>1. \A i \in 1..k : i \in Covered(text)
    <3> TAKE i \in 1..k
    <3>1. i \in 1..(1 + Len(m) - 1)
      BY <1>1
    <3> QED
      BY <3>1, CoveredFacts
  <2> HIDE DEF k
  <2> QED
    BY <1>1, <2>1, KeepsNothing
<1> HIDE DEF k, rest
<1>6. IsRest(rest, text, k)
  BY <1>2, <1>4 DEF IsRest
<1>7. IsFront(<<>>, text, k)
  BY <1>5, EmptyIsSeq DEF IsFront
<1>8. ComesAfter(rest, <<>>, text)
  BY <1>1, <1>6, <1>7, WithoutFront
<1>9. WithoutMarkers(text) = WithoutMarkers(rest)
  BY <1>8, ConcatFacts DEF ComesAfter
<1>10. Len(rest) < Len(text)
  BY <1>1, <1>2
<1> QED
  BY <1>2, <1>9, <1>10 DEF rest, k

\* A character in front with which no marker begins stays.
LEMMA WithoutCharacter ==
    ASSUME NEW text \in Seq(STRING), text # <<>>, \A m : ~IsAt(text, 1, m)
    PROVE  /\ Tail(text) \in Seq(STRING) /\ Len(Tail(text)) < Len(text)
           /\ Head(text) \in STRING
           /\ WithoutMarkers(text) = <<Head(text)>> \o WithoutMarkers(Tail(text))
<1> DEFINE rest == Tail(text)
<1>1. Len(text) \in Nat /\ Len(text) > 0 /\ 1 \in 0..Len(text) /\ 1 \in 1..Len(text)
  OBVIOUS
<1>2. rest \in Seq(STRING) /\ rest = SubSeq(text, 1 + 1, Len(text)) /\ Head(text) = text[1] /\ text[1] \in STRING
  BY <1>1
<1>3. Len(rest) = Len(text) - 1 /\ \A i \in 1..(Len(text) - 1) : rest[i] = text[1 + i]
  BY <1>1, <1>2
<1> HIDE DEF rest
<1>4. \A p, n : IsAt(text, p, n) /\ p <= 1 => p + Len(n) - 1 <= 1
  BY <1>1 DEF IsAt
<1>5. \A i \in 1..(Len(text) - 1) : 1 + i \in Covered(text) <=> i \in Covered(rest)
  BY <1>1, <1>2, <1>4, CoveredRest
<1>6. IsRest(rest, text, 1)
  BY <1>2, <1>3, <1>5 DEF IsRest
<1>7. 1 \notin Covered(text)
  <2> SUFFICES ASSUME 1 \in Covered(text) PROVE FALSE
    OBVIOUS
  <2>1. PICK p, m : IsAt(text, p, m) /\ 1 \in p..(p + Len(m) - 1)
    BY CoveredFacts
  <2>2. p = 1
    BY <2>1 DEF IsAt
  <2> QED
    BY <2>1, <2>2
<1>8. \A upTo : UnmarkedTo(upTo, text, Len(text)) => upTo[1] = <<text[1]>>
  <2> TAKE upTo
  <2> HAVE UnmarkedTo(upTo, text, Len(text))
  <2>1. upTo[0] = <<>> /\ upTo[1] = Append(upTo[1 - 1], text[1])
    BY <1>1, <1>7, KeepsFacts
  <2>2. upTo[1 - 1] = <<>>
    BY <2>1
  <2> QED
    BY <2>1, <2>2, AppendToNothing, Zenon
<1>9. IsFront(<<text[1]>>, text, 1)
  <2>1. IsSeq(<<text[1]>>)
    BY AppendToNothing, Zenon
  <2> QED
    BY <1>8, <2>1 DEF IsFront
<1>10. ComesAfter(rest, <<text[1]>>, text)
  BY <1>1, <1>6, <1>9, WithoutFront
<1>11. Len(rest) < Len(text)
  BY <1>1, <1>3
<1> QED
  BY <1>2, <1>10, <1>11 DEF rest, ComesAfter
-----------------------------------------------------------------------------
(* One run of drain hands on what stays of the text, whatever comes next,   *)
(* and holds back only the beginning of a marker.                           *)

SameJoined(a, b, c) == (a \o b) \o c = a \o (b \o c)

LEMMA Associative ==
    ASSUME NEW a, IsSeq(a), NEW b, IsSeq(b), NEW c, IsSeq(c)
    PROVE  /\ IsSeq(a \o b) /\ <<>> \o a = a /\ a \o <<>> = a
           /\ SameJoined(a, b, c)
<1> PICK A : a \in Seq(A)
  BY DEF IsSeq
<1> PICK B : b \in Seq(B)
  BY DEF IsSeq
<1> PICK C : c \in Seq(C)
  BY DEF IsSeq
<1> DEFINE S == A \cup B \cup C
<1>1. a \in Seq(S) /\ b \in Seq(S) /\ c \in Seq(S)
  OBVIOUS
<1> HIDE DEF S
<1>2. a \o b \in Seq(S)
  BY <1>1
<1>3. SameJoined(a, b, c)
  BY <1>1 DEF SameJoined
<1>4. <<>> \o a = a /\ a \o <<>> = a
  BY <1>1
<1> QED
  BY <1>2, <1>3, <1>4 DEF IsSeq

LEMMA Joined ==
    ASSUME NEW text \in Seq(STRING), NEW next \in Seq(STRING)
    PROVE  /\ text \o next \in Seq(STRING)
           /\ Len(text \o next) = Len(text) + Len(next)
           /\ \A i \in 1..Len(text) : (text \o next)[i] = text[i]
           /\ \A i \in 1..Len(next) : (text \o next)[Len(text) + i] = next[i]
OBVIOUS

\* The first k characters of a text, left out before or after the next text is joined to it.
LEMMA RestOfJoined ==
    ASSUME NEW text \in Seq(STRING), NEW next \in Seq(STRING), NEW k \in 0..Len(text)
    PROVE  SubSeq(text \o next, k + 1, Len(text \o next)) = SubSeq(text, k + 1, Len(text)) \o next
<1> DEFINE all == text \o next
           rest == SubSeq(text, k + 1, Len(text))
           left == SubSeq(all, k + 1, Len(all))
           both == rest \o next
<1>1. /\ Len(text) \in Nat /\ Len(next) \in Nat /\ k \in Nat /\ k <= Len(text)
      /\ all \in Seq(STRING) /\ Len(all) = Len(text) + Len(next) /\ k \in 0..Len(all)
  BY Joined
<1>2. /\ \A i \in 1..Len(text) : all[i] = text[i]
      /\ \A i \in 1..Len(next) : all[Len(text) + i] = next[i]
  BY Joined
<1>3. /\ rest \in Seq(STRING) /\ Len(rest) = Len(text) - k
      /\ \A i \in 1..(Len(text) - k) : rest[i] = text[k + i]
  BY RestFacts
<1> HIDE DEF all
<1>4. /\ left \in Seq(STRING) /\ Len(left) = Len(all) - k
      /\ \A i \in 1..(Len(all) - k) : left[i] = all[k + i]
  BY <1>1, RestFacts
<1> HIDE DEF rest, left
<1>5. /\ both \in Seq(STRING) /\ Len(both) = Len(rest) + Len(next)
      /\ \A i \in 1..Len(rest) : both[i] = rest[i]
      /\ \A i \in 1..Len(next) : both[Len(rest) + i] = next[i]
  BY <1>3, Joined
<1> HIDE DEF both
<1>6. Len(left) = Len(both)
  BY <1>1, <1>3, <1>4, <1>5
<1>7. ASSUME NEW i \in 1..Len(left) PROVE left[i] = both[i]
  <2>1. CASE i <= Len(text) - k
    <3>1. k + i \in 1..Len(text) /\ i \in 1..(Len(text) - k) /\ i \in 1..Len(rest) /\ i \in 1..(Len(all) - k)
      BY <1>1, <1>3, <1>4, <2>1
    <3> QED
      BY <1>2, <1>3, <1>4, <1>5, <3>1
  <2>2. CASE ~(i <= Len(text) - k)
    <3> DEFINE j == i - (Len(text) - k)
    <3>1. /\ j \in 1..Len(next) /\ k + i = Len(text) + j /\ i = Len(rest) + j /\ i \in 1..(Len(all) - k)
      BY <1>1, <1>3, <1>4, <2>2
    <3> HIDE DEF j
    <3>2. left[i] = all[k + i]
      BY <1>4, <3>1
    <3>3. all[k + i] = next[j]
      BY <1>2, <3>1
    <3>4. both[i] = next[j]
      BY <1>5, <3>1
    <3> QED
      BY <3>2, <3>3, <3>4
  <2> QED
    BY <2>1, <2>2
<1>8. left = both
  BY <1>4, <1>5, <1>6, <1>7
<1> QED
  BY <1>8 DEF left, both, all, rest

\* A marker that a text begins with is where it was when more text comes, and a marker
\* that is there then was there before or had begun.
LEMMA MarkerOfJoined ==
    ASSUME NEW text \in Seq(STRING), text # <<>>, NEW next \in Seq(STRING), NEW m
    PROVE  /\ IsAt(text, 1, m) => IsAt(text \o next, 1, m)
           /\ IsAt(text \o next, 1, m) => IsAt(text, 1, m) \/ IsPrefix(text, m)
<1> DEFINE all == text \o next
<1>1. /\ Len(text) \in Nat /\ Len(text) > 0 /\ Len(next) \in Nat
      /\ all \in Seq(STRING) /\ Len(all) = Len(text) + Len(next)
      /\ \A i \in 1..Len(text) : all[i] = text[i]
  BY Joined
<1> HIDE DEF all
<1>2. SUFFICES ASSUME m \in KiroMarkers
               PROVE  /\ IsAt(text, 1, m) => IsAt(all, 1, m)
                      /\ IsAt(all, 1, m) => IsAt(text, 1, m) \/ IsPrefix(text, m)
  BY DEF IsAt, all
<1>3. m \in Seq(STRING) /\ Len(m) \in Nat /\ Len(m) > 0
  BY <1>2, MarkerFacts
<1>4. /\ IsAt(text, 1, m) <=> Len(m) <= Len(text) /\ \A j \in 1..Len(m) : text[j] = m[j]
      /\ IsAt(all, 1, m) <=> Len(m) <= Len(all) /\ \A j \in 1..Len(m) : all[j] = m[j]
  BY <1>1, <1>2, <1>3, StartFacts, PrefixFacts
<1>5. IsPrefix(text, m) <=> Len(text) <= Len(m) /\ \A j \in 1..Len(text) : m[j] = text[j]
  BY <1>3, PrefixFacts
<1>6. CASE Len(m) <= Len(text)
  <2>1. Len(m) <= Len(all) /\ \A j \in 1..Len(m) : all[j] = text[j]
    BY <1>1, <1>3, <1>6
  <2> QED
    BY <1>4, <1>6, <2>1
<1>7. CASE ~(Len(m) <= Len(text))
  <2>1. Len(text) <= Len(m) /\ \A j \in 1..Len(text) : j \in 1..Len(m)
    BY <1>1, <1>3, <1>7
  <2> QED
    BY <1>1, <1>4, <1>5, <1>7, <2>1
<1> QED
  BY <1>6, <1>7
\* What drain returns for a text: whatever comes next, its output is what stays of the text
\* and what is pending goes on like it.
Continues(d, text, next) ==
    WithoutMarkers(text \o next) = d.output \o WithoutMarkers(d.pending \o next)
HeldBack(pending) == pending # <<>> => IsStartOfMarker(pending) /\ pending \notin KiroMarkers
Drained(d, final, text) ==
    /\ d = [output |-> d.output, pending |-> d.pending]
    /\ IsSeq(d.output) /\ d.pending \in Seq(STRING)
    /\ \A next \in Seq(STRING) : (final => next = <<>>) => Continues(d, text, next)
    /\ HeldBack(d.pending)
    /\ final => d.pending = <<>>

\* To stop is sound at the end of a text and at what may become a marker.
LEMMA StopIsSound ==
    ASSUME NEW final \in BOOLEAN, NEW text \in Seq(STRING),
           \/ text = <<>>
           \/ ~final /\ IsStartOfMarker(text) /\ text \notin KiroMarkers
    PROVE  Drained([output |-> <<>>, pending |-> text], final, text)
<1> DEFINE d == [output |-> <<>>, pending |-> text]
<1>1. d = [output |-> d.output, pending |-> d.pending] /\ d.output = <<>> /\ d.pending = text
  OBVIOUS
<1> HIDE DEF d
<1>2. ASSUME NEW next \in Seq(STRING) PROVE Continues(d, text, next)
  <2> DEFINE all == text \o next
  <2>1. all \in Seq(STRING)
    BY Joined
  <2> HIDE DEF all
  <2>2. IsSeq(WithoutMarkers(all))
    BY <2>1, WithoutIsText
  <2>3. <<>> \o WithoutMarkers(all) = WithoutMarkers(all)
    BY <2>2, Associative
  <2> QED
    BY <1>1, <2>3 DEF Continues, all
<1>3. HeldBack(text) /\ (final => text = <<>>)
  BY DEF HeldBack
<1> QED
  BY <1>1, <1>2, <1>3, EmptyIsSeq DEF Drained, d

\* To go on after a marker is sound.
LEMMA SkipIsSound ==
    ASSUME NEW final \in BOOLEAN, NEW text \in Seq(STRING), text # <<>>, NEW m, IsAt(text, 1, m),
           NEW d, Drained(d, final, SubSeq(text, Len(m) + 1, Len(text)))
    PROVE  Drained(d, final, text)
<1> DEFINE k == Len(m)
           rest == SubSeq(text, k + 1, Len(text))
<1>1. k \in Nat /\ k \in 0..Len(text)
  BY MarkerFacts DEF IsAt
<1>2. rest \in Seq(STRING)
  BY <1>1, RestFacts
<1>3. ASSUME NEW next \in Seq(STRING), final => next = <<>> PROVE Continues(d, text, next)
  <2> DEFINE all == text \o next
             left == SubSeq(all, k + 1, Len(all))
  <2>1. all \in Seq(STRING)
    BY Joined
  <2>2. IsAt(all, 1, m)
    BY MarkerOfJoined
  <2>3. left = rest \o next
    <3> HIDE DEF k
    <3> QED
      BY <1>1, RestOfJoined
  <2> HIDE DEF all
  <2>4. WithoutMarkers(all) = WithoutMarkers(left)
    BY <2>1, <2>2, WithoutMarker
  <2> HIDE DEF left, rest, k
  <2>5. Continues(d, rest, next)
    BY <1>3 DEF Drained, rest, k
  <2> QED
    BY <2>3, <2>4, <2>5 DEF Continues, all
<1> QED
  BY <1>3 DEF Drained

\* To hand on a character is sound when no marker begins there, or can.
LEMMA HandOnIsSound ==
    ASSUME NEW final \in BOOLEAN, NEW text \in Seq(STRING), text # <<>>, \A m : ~IsAt(text, 1, m),
           final \/ ~IsStartOfMarker(text),
           NEW d, Drained(d, final, Tail(text))
    PROVE  Drained([d EXCEPT !.output = <<Head(text)>> \o @], final, text)
<1> DEFINE first == <<Head(text)>>
           new == [d EXCEPT !.output = first \o @]
<1>1. /\ d = [output |-> d.output, pending |-> d.pending]
      /\ IsSeq(d.output) /\ d.pending \in Seq(STRING) /\ IsSeq(first)
  BY AppendToNothing DEF Drained
<1> HIDE DEF first
<1>2. new = [output |-> first \o d.output, pending |-> d.pending]
  <2> DEFINE o == d.output
             p == d.pending
             x == first \o d.output
  <2>1. d = [output |-> o, pending |-> p]
    BY <1>1
  <2>2. new = [d EXCEPT !.output = x]
    OBVIOUS
  <2> HIDE DEF o, p, x, new
  <2>3. new = [output |-> x, pending |-> p]
    BY <2>1, <2>2
  <2> QED
    BY <2>3 DEF x, p
<1>3. /\ new = [output |-> new.output, pending |-> new.pending]
      /\ new.output = first \o d.output /\ new.pending = d.pending
  BY <1>2
<1> HIDE DEF new
<1>4. IsSeq(new.output)
  BY <1>1, <1>3, Associative
<1>5. ASSUME NEW next \in Seq(STRING), final => next = <<>> PROVE Continues(new, text, next)
  <2> DEFINE all == text \o next
  <2>1. all \in Seq(STRING) /\ all # <<>> /\ Head(all) = Head(text)
    BY Joined
  <2>2. Tail(all) = Tail(text) \o next
    <3>1. Tail(text) = SubSeq(text, 1 + 1, Len(text)) /\ 1 \in 0..Len(text)
      OBVIOUS
    <3>2. Tail(all) = SubSeq(all, 1 + 1, Len(all))
      BY <2>1
    <3>3. SubSeq(all, 1 + 1, Len(all)) = SubSeq(text, 1 + 1, Len(text)) \o next
      BY <3>1, RestOfJoined
    <3> QED
      BY <3>1, <3>2, <3>3, Zenon
  <2>3. \A m : ~IsAt(all, 1, m)
    <3>1. CASE final
      <4>1. text \o <<>> = text
        OBVIOUS
      <4>2. all = text
        BY <1>5, <3>1, <4>1
      <4> HIDE DEF all
      <4> QED
        BY <4>2
    <3>2. CASE ~IsStartOfMarker(text)
      <4> TAKE m
      <4>1. IsAt(all, 1, m) => IsAt(text, 1, m) \/ IsPrefix(text, m)
        BY MarkerOfJoined
      <4>2. IsPrefix(text, m) => m \notin KiroMarkers
        BY <3>2 DEF IsStartOfMarker
      <4> HIDE DEF all
      <4> QED
        BY <4>1, <4>2 DEF IsAt
    <3> QED
      BY <3>1, <3>2
  <2> DEFINE after == Tail(text) \o next
             held == d.pending \o next
  <2> HIDE DEF all
  <2>4. WithoutMarkers(all) = first \o WithoutMarkers(Tail(all))
    BY <2>1, <2>3, WithoutCharacter DEF first
  <2>5. WithoutMarkers(after) = d.output \o WithoutMarkers(held)
    BY <1>5 DEF Drained, Continues
  <2>6. IsSeq(WithoutMarkers(held))
    <3>1. held \in Seq(STRING)
      BY <1>1, Joined
    <3> HIDE DEF held
    <3> QED
      BY <3>1, WithoutIsText
  <2>7. WithoutMarkers(all) = first \o WithoutMarkers(after)
    BY <2>2, <2>4
  <2> HIDE DEF after, held
  <2>8. first \o (d.output \o WithoutMarkers(held)) = (first \o d.output) \o WithoutMarkers(held)
    <3>1. SameJoined(first, d.output, WithoutMarkers(held))
      BY <1>1, <2>6, Associative
    <3> QED
      BY <3>1 DEF SameJoined
  <2>9. WithoutMarkers(all) = new.output \o WithoutMarkers(held)
    BY <1>3, <2>5, <2>7, <2>8
  <2> QED
    BY <1>3, <2>9 DEF Continues, all, held
<1>6. HeldBack(new.pending) /\ (final => new.pending = <<>>) /\ new.pending \in Seq(STRING)
  BY <1>1, <1>3 DEF Drained
<1> QED
  BY <1>3, <1>4, <1>5, <1>6 DEF Drained, new, first

\* One pass of the loop is sound if the passes over shorter texts are.
LEMMA StepIsSound ==
    ASSUME NEW final \in BOOLEAN, NEW text \in Seq(STRING), NEW from,
           \A u \in Seq(STRING) : Len(u) < Len(text) => Drained(from[u], final, u)
    PROVE  Drained(DrainStep(from, final, text), final, text)
<1>1. CASE text = <<>>
  <2>1. DrainStep(from, final, text) = [output |-> <<>>, pending |-> text]
    BY <1>1 DEF DrainStep
  <2> QED
    BY <1>1, <2>1, StopIsSound
<1>2. CASE text # <<>> /\ MarkerAt(text) # {}
  <2> DEFINE m == CHOOSE m \in MarkerAt(text) : TRUE
             u == SubSeq(text, Len(m) + 1, Len(text))
  <2>1. m \in KiroMarkers /\ IsPrefix(m, text)
    BY <1>2 DEF MarkerAt
  <2>2. DrainStep(from, final, text) = from[u]
    BY <1>2 DEF DrainStep
  <2> HIDE DEF m
  <2>3. IsAt(text, 1, m)
    BY <2>1, StartFacts
  <2>4. u \in Seq(STRING) /\ Len(u) < Len(text)
    BY <2>3, WithoutMarker
  <2>5. Drained(from[u], final, u)
    <3> HIDE DEF u
    <3> QED
      BY <2>4
  <2> QED
    BY <1>2, <2>2, <2>3, <2>5, SkipIsSound
<1>3. CASE text # <<>> /\ MarkerAt(text) = {} /\ ~final /\ IsStartOfMarker(text)
  <2>1. DrainStep(from, final, text) = [output |-> <<>>, pending |-> text]
    BY <1>3 DEF DrainStep
  <2>2. text \notin KiroMarkers
    <3>1. IsPrefix(text, text)
      BY PrefixFacts
    <3> QED
      BY <1>3, <3>1 DEF MarkerAt
  <2> QED
    BY <1>3, <2>1, <2>2, StopIsSound
<1>4. CASE text # <<>> /\ MarkerAt(text) = {} /\ (final \/ ~IsStartOfMarker(text))
  <2> DEFINE rest == from[Tail(text)]
  <2>1. DrainStep(from, final, text) = [rest EXCEPT !.output = <<Head(text)>> \o @]
    BY <1>4 DEF DrainStep
  <2>2. Tail(text) \in Seq(STRING) /\ Len(Tail(text)) < Len(text)
    BY <1>4
  <2>3. Drained(rest, final, Tail(text))
    BY <2>2
  <2>4. \A m : ~IsAt(text, 1, m)
    BY <1>4, StartFacts DEF MarkerAt, IsAt
  <2> HIDE DEF rest
  <2> QED
    BY <1>4, <2>1, <2>3, <2>4, HandOnIsSound
<1> QED
  BY <1>1, <1>2, <1>3, <1>4

LEMMA DrainIsSound ==
    ASSUME NEW final \in BOOLEAN, NEW pending \in Seq(STRING)
    PROVE  Drained(Drain(final, pending), final, pending)
<1>1. PICK from : Drains(from, final) /\ Drain(final, pending) = from[pending]
  BY DrainIsTheLoop
<1> DEFINE Bad == {k \in Nat : \E u \in Seq(STRING) : Len(u) = k /\ ~Drained(from[u], final, u)}
<1>2. SUFFICES ASSUME Bad # {} PROVE FALSE
  <2>1. Len(pending) \in Nat
    OBVIOUS
  <2> QED
    BY <1>1, <2>1
<1>3. PICK k \in Bad : \A j \in Bad : k <= j
  <2>1. Bad \in SUBSET Nat
    OBVIOUS
  <2> HIDE DEF Bad
  <2> QED
    BY <1>2, <2>1, NatMin
<1>4. PICK u \in Seq(STRING) : Len(u) = k /\ ~Drained(from[u], final, u)
  OBVIOUS
<1>5. ASSUME NEW v \in Seq(STRING), Len(v) < Len(u)
      PROVE  Drained(from[v], final, v)
  <2>1. Len(v) \in Nat /\ Len(u) \in Nat /\ ~(k <= Len(v))
    BY <1>4, <1>5
  <2>2. Len(v) \notin Bad
    BY <1>3, <2>1
  <2> QED
    BY <2>1, <2>2
<1>6. Drained(DrainStep(from, final, u), final, u)
  BY <1>5, StepIsSound
<1>7. from[u] = DrainStep(from, final, u)
  BY <1>1 DEF Drains
<1> QED
  BY <1>4, <1>6, <1>7

\* Where nothing is covered everything stays.
LEMMA KeepsAll ==
    ASSUME NEW text \in Seq(STRING), \A i : i \notin Covered(text)
    PROVE  WithoutMarkers(text) = text
<1>1. Len(text) \in Nat /\ DOMAIN text = 1..Len(text)
  OBVIOUS
<1>2. PICK upTo : UnmarkedTo(upTo, text, Len(text)) /\ WithoutMarkers(text) = upTo[Len(text)]
  BY WithoutIsKept
<1> DEFINE Same(k) == /\ IsSeq(upTo[k]) /\ Len(upTo[k]) = k
                      /\ \A i \in 1..k : upTo[k][i] = text[i]
           Bad == {k \in 0..Len(text) : ~Same(k)}
<1>3. Bad = {}
  <2>1. SUFFICES ASSUME Bad # {} PROVE FALSE
    OBVIOUS
  <2>2. PICK k \in Bad : \A j \in Bad : k <= j
    <3>1. Bad \in SUBSET Nat
      <4> HIDE DEF Same
      <4> QED
        BY <1>1
    <3> HIDE DEF Bad
    <3> QED
      BY <2>1, <3>1, NatMin
  <2>3. k \in 0..Len(text) /\ ~Same(k)
    OBVIOUS
  <2>4. upTo[0] = <<>>
    BY <1>1, <1>2, KeepsFacts
  <2>5. Same(0)
    BY <2>4, EmptyIsSeq
  <2>6. k # 0
    BY <2>3, <2>5
  <2>7. k \in 1..Len(text) /\ k - 1 \in 0..Len(text) /\ ~(k <= k - 1) /\ k \in Nat /\ (k - 1) + 1 = k
    BY <1>1, <2>3, <2>6
  <2>8. Same(k - 1)
    <3>1. k - 1 \notin Bad
      BY <2>2, <2>7
    <3> HIDE DEF Same
    <3> QED
      BY <2>7, <3>1
  <2> HIDE DEF Bad
  <2> DEFINE s == upTo[k - 1]
             c == text[k]
  <2>9. upTo[k] = Append(s, c)
    BY <1>1, <1>2, <2>7, KeepsFacts
  <2>10. IsSeq(s) /\ Len(s) = k - 1 /\ \A i \in 1..(k - 1) : s[i] = text[i]
    BY <2>8
  <2> HIDE DEF s
  <2>11. /\ IsSeq(Append(s, c)) /\ Len(Append(s, c)) = k
         /\ \A i \in 1..(k - 1) : Append(s, c)[i] = s[i]
         /\ Append(s, c)[k] = c
    <3> HIDE DEF c
    <3> QED
      BY <2>7, <2>10, AppendFacts
  <2>12. \A i \in 1..k : i \in 1..(k - 1) \/ i = k
    BY <2>7
  <2> QED
    BY <2>3, <2>9, <2>10, <2>11, <2>12
<1>4. Same(Len(text))
  <2> HIDE DEF Same
  <2> QED
    BY <1>1, <1>3
<1> DEFINE all == upTo[Len(text)]
<1>5. IsSeq(all) /\ Len(all) = Len(text) /\ \A i \in 1..Len(text) : all[i] = text[i]
  BY <1>4
<1> HIDE DEF all
<1>6. all = text
  <2> PICK S : all \in Seq(S)
    BY <1>5 DEF IsSeq
  <2> QED
    BY <1>1, <1>5
<1> QED
  BY <1>2, <1>6 DEF all

\* The beginning of a marker has no marker to remove.
LEMMA NothingToRemove ==
    ASSUME NEW text \in Seq(STRING), HeldBack(text)
    PROVE  WithoutMarkers(text) = text
<1>1. CASE text = <<>>
  BY <1>1, WithoutNothing
<1>2. CASE text # <<>>
  <2>1. PICK m \in KiroMarkers : IsPrefix(text, m)
    BY <1>2 DEF HeldBack, IsStartOfMarker
  <2>2. /\ m \in Seq(STRING) /\ Len(m) \in Nat /\ Len(text) \in Nat /\ Len(text) <= Len(m)
        /\ \A j \in 1..Len(text) : m[j] = text[j]
    BY <2>1, MarkerFacts, PrefixFacts
  <2>3. \A p, n : ~IsAt(text, p, n)
    <3> SUFFICES ASSUME NEW p, NEW n, IsAt(text, p, n) PROVE FALSE
      OBVIOUS
    <3>1. /\ n \in KiroMarkers /\ n \in Seq(STRING) /\ Len(n) \in Nat /\ Len(n) > 0 /\ p \in 1..Len(text)
          /\ text[p] = n[1] /\ n[1] = "<"
      <4>1. n \in KiroMarkers /\ p \in 1..Len(text) /\ \A j \in 1..Len(n) : text[p + j - 1] = n[j]
        BY DEF IsAt
      <4>2. Len(n) \in Nat /\ Len(n) > 0 /\ n[1] = "<" /\ n \in Seq(STRING)
        BY <4>1, MarkerFacts
      <4>3. 1 \in 1..Len(n) /\ p + 1 - 1 = p
        BY <4>1, <4>2
      <4> QED
        BY <4>1, <4>2, <4>3
    <3>2. p = 1
      BY <2>1, <2>2, <3>1, MarkerFacts
    <3>3. IsPrefix(n, text)
      BY <3>1, <3>2, StartFacts
    <3>4. Len(n) <= Len(text) /\ \A j \in 1..Len(n) : text[j] = n[j]
      BY <3>1, <3>3, PrefixFacts
    <3>5. Len(n) <= Len(m) /\ \A j \in 1..Len(n) : m[j] = n[j]
      BY <2>2, <3>1, <3>4
    <3>6. IsPrefix(n, m)
      BY <2>2, <3>1, <3>5, PrefixFacts
    <3>7. n = m
      BY <2>1, <3>1, <3>6, MarkerAssumption DEF MarkerAssumption
    <3>8. text = m
      BY <2>2, <3>4, <3>7
    <3> QED
      BY <1>2, <2>1, <3>8 DEF HeldBack
  <2>4. \A i : i \notin Covered(text)
    BY <2>3, CoveredFacts
  <2> QED
    BY <2>4, KeepsAll
<1> QED
  BY <1>1, <1>2

-----------------------------------------------------------------------------
(* The text of an answer on its way through the filter.                     *)

\* Whatever comes next, what was handed on stays, and what is pending goes on like
\* everything that was pushed.
TextInv ==
    /\ textIn \in Seq(STRING) /\ IsSeq(textOut) /\ textPending \in Seq(STRING)
    /\ textFinished \in BOOLEAN
    /\ \A next \in Seq(STRING) : (textFinished => next = <<>>) =>
           Continues([output |-> textOut, pending |-> textPending], textIn, next)
    /\ HeldBack(textPending)
    /\ textFinished => textPending = <<>>

LEMMA TextStarts == TextInit => TextInv
<1> SUFFICES ASSUME TextInit PROVE TextInv
  OBVIOUS
<1>1. <<>> \in Seq(STRING)
  OBVIOUS
<1>2. Drained([output |-> <<>>, pending |-> <<>>], FALSE, <<>>)
  BY <1>1, StopIsSound
<1> QED
  BY <1>1, <1>2, EmptyIsSeq DEF TextInit, TextInv, Drained

\* A run of drain over what is pending and a chunk keeps the promise for the text so far.
LEMMA TextDrains ==
    ASSUME TextInv, ~textFinished, NEW final \in BOOLEAN, NEW chunk \in Seq(STRING),
           final => chunk = <<>>
    PROVE  LET d == Drain(final, textPending \o chunk)
               out == textOut \o d.output
           IN  /\ Drained(d, final, textPending \o chunk)
               /\ IsSeq(out)
               /\ \A next \in Seq(STRING) : (final => next = <<>>) =>
                      Continues([output |-> out, pending |-> d.pending], textIn \o chunk, next)
<1> DEFINE held == textPending \o chunk
           d == Drain(final, held)
           out == textOut \o d.output
<1>1. held \in Seq(STRING)
  BY Joined DEF TextInv
<1>2. Drained(d, final, held)
  <2> HIDE DEF held
  <2> QED
    BY <1>1, DrainIsSound
<1> HIDE DEF d
<1>3. IsSeq(d.output) /\ IsSeq(textOut) /\ d.pending \in Seq(STRING)
  BY <1>2 DEF Drained, TextInv
<1>4. IsSeq(out)
  BY <1>3, Associative
<1>5. ASSUME NEW next \in Seq(STRING), final => next = <<>>
      PROVE  Continues([output |-> out, pending |-> d.pending], textIn \o chunk, next)
  <2> DEFINE more == chunk \o next
             left == WithoutMarkers(d.pending \o next)
  <2>1. more \in Seq(STRING)
    BY Joined
  <2>2. /\ (textIn \o chunk) \o next = textIn \o more
        /\ held \o next = textPending \o more
    BY Associative DEF TextInv, IsSeq
  <2> HIDE DEF more
  <2>3. WithoutMarkers(textIn \o more) = textOut \o WithoutMarkers(textPending \o more)
    <3>1. Continues([output |-> textOut, pending |-> textPending], textIn, more)
      BY <2>1 DEF TextInv
    <3> QED
      BY <3>1 DEF Continues
  <2>4. WithoutMarkers(held \o next) = d.output \o left
    BY <1>2, <1>5 DEF Drained, Continues
  <2>5. IsSeq(left)
    BY <1>3, Joined, WithoutIsText
  <2> HIDE DEF left, held
  <2>6. textOut \o (d.output \o left) = (textOut \o d.output) \o left
    <3>1. SameJoined(textOut, d.output, left)
      BY <1>3, <2>5, Associative
    <3> QED
      BY <3>1 DEF SameJoined
  <2>7. WithoutMarkers((textIn \o chunk) \o next) = out \o left
    BY <2>2, <2>3, <2>4, <2>6
  <2> HIDE DEF out
  <2> QED
    BY <2>7 DEF Continues, left
<1> QED
  BY <1>2, <1>4, <1>5 DEF d

LEMMA TextSteps == TextInv /\ [TextNext]_textVars => TextInv'
<1> SUFFICES ASSUME TextInv, [TextNext]_textVars PROVE TextInv'
  OBVIOUS
<1> USE ChunkAssumption DEF ChunkAssumption
<1>1. ASSUME NEW chunk \in TextChunks, PushText(chunk) PROVE TextInv'
  <2> DEFINE d == Drain(FALSE, textPending \o chunk)
             out == textOut \o d.output
  <2>1. chunk \in Seq(STRING) /\ ~textFinished
    BY <1>1 DEF PushText
  <2>2. /\ Drained(d, FALSE, textPending \o chunk)
        /\ IsSeq(out)
        /\ \A next \in Seq(STRING) :
               Continues([output |-> out, pending |-> d.pending], textIn \o chunk, next)
    BY <2>1, TextDrains
  <2>3. /\ textIn' = textIn \o chunk /\ textPending' = d.pending /\ textOut' = out
        /\ textFinished' = textFinished
    BY <1>1 DEF PushText, FilterPush
  <2>4. textIn \o chunk \in Seq(STRING)
    BY <2>1, Joined DEF TextInv
  <2> HIDE DEF d, out
  <2> QED
    BY <2>1, <2>2, <2>3, <2>4 DEF TextInv, Drained
<1>2. ASSUME FinishText PROVE TextInv'
  <2> DEFINE d == Drain(TRUE, textPending)
             out == textOut \o d.output
  <2>1. ~textFinished /\ <<>> \in Seq(STRING)
    BY <1>2 DEF FinishText
  <2>2. textPending \o <<>> = textPending /\ textIn \o <<>> = textIn
    BY DEF TextInv
  <2>3. /\ Drained(d, TRUE, textPending)
        /\ IsSeq(out)
        /\ \A next \in Seq(STRING) : next = <<>> =>
               Continues([output |-> out, pending |-> d.pending], textIn, next)
    BY <2>1, <2>2, TextDrains
  <2>4. /\ textIn' = textIn /\ textPending' = d.pending /\ textOut' = out
        /\ textFinished' = TRUE
    BY <1>2 DEF FinishText, FilterFinish
  <2> HIDE DEF d, out
  <2> QED
    BY <2>3, <2>4 DEF TextInv, Drained
<1>3. CASE UNCHANGED textVars
  BY <1>3 DEF textVars, TextInv
<1> QED
  BY <1>1, <1>2, <1>3 DEF TextNext, TextDone

\* The markers of leaked tool calls are removed from a text and nothing else, however the
\* text is cut, and only the beginning of a marker is held back (truncation.rs:23-66).
THEOREM FilterIsExactHolds == TextSpec => []FilterIsExact
<1>1. TextInv => FilterIsExact
  <2> SUFFICES ASSUME TextInv PROVE FilterIsExact
    OBVIOUS
  <2>1. <<>> \in Seq(STRING)
    OBVIOUS
  <2>2. Continues([output |-> textOut, pending |-> textPending], textIn, <<>>)
    BY <2>1 DEF TextInv
  <2>3. textIn \o <<>> = textIn /\ textPending \o <<>> = textPending
    BY DEF TextInv
  <2>4. WithoutMarkers(textIn) = textOut \o WithoutMarkers(textPending)
    BY <2>2, <2>3 DEF Continues
  <2>5. WithoutMarkers(textPending) = textPending
    BY NothingToRemove DEF TextInv
  <2> QED
    BY <2>4, <2>5 DEF TextInv, FilterIsExact, ChunkingIsInvisible, HeldBackIsPartialMarker, HeldBack
<1> QED
  BY <1>1, TextStarts, TextSteps, PTL DEF TextSpec
=============================================================================
