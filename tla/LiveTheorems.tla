----------------------------- MODULE LiveTheorems -----------------------------
(***************************************************************************)
(* What the stream of a Responses request promises, for every stream of    *)
(* the upstream: the inductive invariant of LiveResponse, and the          *)
(* properties of MCInterfaces that follow from it.                         *)
(***************************************************************************)
EXTENDS InterfaceTheorems

-----------------------------------------------------------------------------
(* What may be sent next, whatever was sent before.                         *)

Adds(out) == {i \in DOMAIN out : out[i].type = "added"}
Dones(out) == {i \in DOMAIN out : out[i].type = "item_done"}
IsAdded(out, index) == \E i \in Adds(out) : out[i].index = index
AddedAs(out, index, kinds) == \E i \in Adds(out) : out[i].index = index /\ out[i].kind \in kinds
CallAdded(out, index) ==
    \E i \in Adds(out) : out[i].index = index /\ out[i].kind \notin {"message", "reasoning"}

\* ItemsAreSound of the event at i, events the upstream's so far.
AddAt(out, i) ==
    out[i].type = "added" =>
        out[i].index = Cardinality({j \in 1..(i - 1) : out[j].type = "added"})
KnownAt(out, i) ==
    Live!HasIndex(out[i]) => \E j \in 1..i : out[j].type = "added" /\ out[j].index = out[i].index
AfterAt(out, i, events) ==
    Live!HasIndex(out[i]) =>
        \A j \in 1..(i - 1) : out[j].type = "item_done" /\ out[j].index = out[i].index =>
            /\ out[i].type # "item_done"
            /\ ~Live!HasIds(events)
            /\ \E k \in 1..j : /\ out[k].type = "added" /\ out[k].index = out[j].index
                               /\ out[k].kind \notin {"message", "reasoning"}
SoundAt(out, i, events) ==
    AddAt(out, i) /\ KnownAt(out, i) /\ AfterAt(out, i, events) /\ out[i].type # "terminal"

EventsSound(out, events) == IsSeq(out) /\ \A i \in DOMAIN out : SoundAt(out, i, events)

\* The items added are 0..next-1, in this order, and those of done are done.
ItemsSound(out, next, done, events) ==
    /\ EventsSound(out, events)
    /\ next \in Nat /\ IsFiniteSet(Adds(out)) /\ Cardinality(Adds(out)) = next
    /\ \A i \in Adds(out) : out[i].index \in Nat /\ out[i].index < next
    /\ \A i, j \in Adds(out) : i < j => out[i].index < out[j].index
    /\ done = {out[i].index : i \in Dones(out)}

\* What was added stays added.
Extends(out, more) == \A i \in Adds(out) : i \in Adds(more) /\ more[i] = out[i]

\* What is sent later changes nothing of what was said of an earlier event.
LEMMA SoundBefore ==
    ASSUME NEW s, IsSeq(s), NEW x, NEW events, NEW i \in 1..Len(s), SoundAt(s, i, events)
    PROVE  SoundAt(Append(s, x), i, events)
<1> DEFINE t == Append(s, x)
<1>1. t[i] = s[i] /\ \A j \in 1..i : t[j] = s[j] /\ j \in 1..Len(s)
  BY AppendFacts, SeqFacts
<1>2. i \in Nat
  BY SeqFacts
<1> HIDE DEF t
<1>3. \A j \in 1..(i - 1) : t[j] = s[j]
  BY <1>1, <1>2
<1>4. {j \in 1..(i - 1) : t[j].type = "added"} = {j \in 1..(i - 1) : s[j].type = "added"}
  BY <1>3
<1>5. AddAt(t, i)
  BY <1>1, <1>4 DEF SoundAt, AddAt
<1>6. KnownAt(t, i)
  BY <1>1 DEF SoundAt, KnownAt
<1>7. AfterAt(t, i, events)
  <2>1. \A j \in 1..(i - 1) : \A k \in 1..j : t[k] = s[k]
    BY <1>1, <1>2
  <2> QED
    BY <1>1, <1>3, <2>1 DEF SoundAt, AfterAt
<1>8. SoundAt(t, i, events)
  BY <1>1, <1>5, <1>6, <1>7 DEF SoundAt
<1> QED
  BY <1>8 DEF t

\* What is the same for every event x that is sent, as the n-th.
Sends(s, x, t, n) ==
    /\ IsSeq(s) /\ IsSeq(t) /\ Len(t) = n /\ n \in Nat /\ n > 0 /\ Len(s) = n - 1
    /\ DOMAIN t = 1..n /\ DOMAIN s = 1..(n - 1)
    /\ t[n] = x /\ \A i \in 1..(n - 1) : t[i] = s[i]
    /\ \A i \in DOMAIN t : i \in 1..(n - 1) \/ i = n
    /\ Adds(t) = Adds(s) \cup (IF x.type = "added" THEN {n} ELSE {})
    /\ Dones(t) = Dones(s) \cup (IF x.type = "item_done" THEN {n} ELSE {})
    /\ \A i \in Adds(s) \cup Dones(s) : i \in 1..(n - 1) /\ t[i] = s[i]

LEMMA OneMoreItem ==
    ASSUME NEW s, IsSeq(s), NEW x
    PROVE  Sends(s, x, Append(s, x), Len(s) + 1)
<1> DEFINE t == Append(s, x)
           n == Len(s) + 1
<1>1. /\ IsSeq(t) /\ Len(t) = n /\ Len(s) \in Nat /\ DOMAIN t = 1..n /\ DOMAIN s = 1..Len(s)
      /\ t[n] = x /\ \A i \in 1..Len(s) : t[i] = s[i]
  BY AppendFacts, SeqFacts
<1>2. Len(s) = n - 1 /\ n \in Nat /\ n > 0
  BY <1>1
<1> HIDE DEF t, n
<1>3. \A i \in DOMAIN t : i \in 1..(n - 1) \/ i = n
  BY <1>1, <1>2
<1>4. Adds(t) = Adds(s) \cup (IF x.type = "added" THEN {n} ELSE {})
  BY <1>1, <1>2, <1>3 DEF Adds
<1>5. Dones(t) = Dones(s) \cup (IF x.type = "item_done" THEN {n} ELSE {})
  BY <1>1, <1>2, <1>3 DEF Dones
<1>6. \A i \in Adds(s) \cup Dones(s) : i \in 1..(n - 1) /\ t[i] = s[i]
  BY <1>1, <1>2 DEF Adds, Dones
<1>7. Sends(s, x, t, n)
  BY <1>1, <1>2, <1>3, <1>4, <1>5, <1>6 DEF Sends
<1> QED
  BY <1>7 DEF t, n

\* An item is added: its index is the next one.
LEMMA SendsAdd ==
    ASSUME NEW s, NEW next, NEW done, NEW events, ItemsSound(s, next, done, events),
           NEW x, x.type = "added", x.index = next
    PROVE  /\ ItemsSound(Append(s, x), next + 1, done, events)
           /\ Extends(s, Append(s, x))
           /\ \A kinds : x.kind \in kinds => AddedAs(Append(s, x), next, kinds)
           /\ IsAdded(Append(s, x), next)
<1> DEFINE t == Append(s, x)
           n == Len(s) + 1
<1>0. Sends(s, x, t, n)
  BY OneMoreItem DEF ItemsSound, EventsSound
<1> HIDE DEF t, n
<1>1. /\ IsSeq(s) /\ IsSeq(t) /\ n \in Nat /\ n > 0 /\ Len(s) = n - 1
      /\ DOMAIN t = 1..n /\ DOMAIN s = 1..(n - 1)
      /\ t[n] = x /\ \A i \in 1..(n - 1) : t[i] = s[i]
      /\ \A i \in DOMAIN t : i \in 1..(n - 1) \/ i = n
      /\ \A i \in Adds(s) \cup Dones(s) : i \in 1..(n - 1) /\ t[i] = s[i]
      /\ Adds(t) = Adds(s) \cup {n} /\ Dones(t) = Dones(s)
  BY <1>0 DEF Sends
<1>2. /\ next \in Nat /\ IsFiniteSet(Adds(s)) /\ Cardinality(Adds(s)) = next
      /\ \A i \in Adds(s) : s[i].index \in Nat /\ s[i].index < next
      /\ \A i, j \in Adds(s) : i < j => s[i].index < s[j].index
      /\ done = {s[i].index : i \in Dones(s)}
      /\ \A i \in DOMAIN s : SoundAt(s, i, events)
  BY DEF ItemsSound, EventsSound
<1>3. \A i \in 1..(n - 1) : SoundAt(t, i, events)
  BY <1>1, <1>2, SoundBefore DEF t, n
<1>4. IsFiniteSet(Adds(t)) /\ Cardinality(Adds(t)) = next + 1
  <2>1. n \notin Adds(s)
    BY <1>1
  <2>2. IsFiniteSet(Adds(s) \cup {n}) /\ Cardinality(Adds(s) \cup {n}) = next + 1
    BY <1>2, <2>1, FS_AddElement
  <2> QED
    BY <1>1, <2>2
<1>5. \A i \in Adds(t) : t[i].index \in Nat /\ t[i].index < next + 1
  BY <1>1, <1>2
<1>6. \A i, j \in Adds(t) : i < j => t[i].index < t[j].index
  BY <1>1, <1>2
<1>7. done = {t[i].index : i \in Dones(t)}
  BY <1>1, <1>2
<1>8. SoundAt(t, n, events)
  <2>1. {j \in 1..(n - 1) : t[j].type = "added"} = Adds(s)
    BY <1>1 DEF Adds
  <2>2. AddAt(t, n)
    BY <1>1, <1>2, <2>1 DEF AddAt
  <2>3. KnownAt(t, n)
    BY <1>1 DEF KnownAt
  <2>4. ASSUME NEW j \in 1..(n - 1), t[j].type = "item_done", t[j].index = next
        PROVE  FALSE
    <3>1. t[j] = s[j] /\ j \in DOMAIN s /\ SoundAt(s, j, events)
      BY <1>1, <1>2
    <3>2. PICK k \in 1..j : s[k].type = "added" /\ s[k].index = next
      BY <2>4, <3>1 DEF SoundAt, KnownAt, Live!HasIndex
    <3>3. k \in Adds(s)
      BY <1>1, <3>2 DEF Adds
    <3> QED
      BY <1>2, <3>2, <3>3
  <2>5. AfterAt(t, n, events)
    BY <1>1, <2>4 DEF AfterAt
  <2> QED
    BY <1>1, <2>2, <2>3, <2>5 DEF SoundAt
<1>9. EventsSound(t, events)
  <2>1. \A i \in DOMAIN t : SoundAt(t, i, events)
    BY <1>1, <1>3, <1>8
  <2> QED
    BY <1>1, <2>1 DEF EventsSound
<1>10. ItemsSound(t, next + 1, done, events)
  <2>1. next + 1 \in Nat
    BY <1>2
  <2> DEFINE more == next + 1
  <2> HIDE DEF more
  <2>2. ItemsSound(t, more, done, events)
    BY <1>4, <1>5, <1>6, <1>7, <1>9, <2>1 DEF ItemsSound, more
  <2> QED
    BY <2>2 DEF more
<1>11. /\ \A kinds : x.kind \in kinds => AddedAs(t, next, kinds)
       /\ IsAdded(t, next) /\ Extends(s, t)
  BY <1>1 DEF AddedAs, IsAdded, Extends
<1> QED
  BY <1>10, <1>11 DEF t

\* An index belongs to one item.
LEMMA OneAdd ==
    ASSUME NEW s, NEW next, NEW done, NEW events, ItemsSound(s, next, done, events)
    PROVE  /\ \A i, j \in Adds(s) : s[i].index = s[j].index => i = j
           /\ done \subseteq {s[i].index : i \in Adds(s)}
           /\ \A index : IsAdded(s, index) => index \in Nat /\ index < next
<1>1. DOMAIN s = 1..Len(s) /\ Len(s) \in Nat
  BY SeqFacts DEF ItemsSound, EventsSound
<1>2. ASSUME NEW i \in Adds(s), NEW j \in Adds(s), s[i].index = s[j].index
      PROVE  i = j
  <2>1. i \in Nat /\ j \in Nat
    BY <1>1 DEF Adds
  <2>2. /\ s[i].index \in Nat /\ s[j].index \in Nat
        /\ i < j => s[i].index < s[j].index
        /\ j < i => s[j].index < s[i].index
    BY DEF ItemsSound
  <2> QED
    BY <1>2, <2>1, <2>2
<1>3. ASSUME NEW j \in Dones(s)
      PROVE  \E i \in Adds(s) : s[i].index = s[j].index
  <2>1. j \in 1..Len(s) /\ s[j].type = "item_done" /\ SoundAt(s, j, events)
    BY <1>1 DEF Dones, ItemsSound, EventsSound
  <2>2. PICK k \in 1..j : s[k].type = "added" /\ s[k].index = s[j].index
    BY <2>1 DEF SoundAt, KnownAt, Live!HasIndex
  <2>3. k \in DOMAIN s
    BY <1>1, <2>1
  <2> QED
    BY <2>2, <2>3 DEF Adds
<1>4. done \subseteq {s[i].index : i \in Adds(s)}
  BY <1>3 DEF ItemsSound
<1> QED
  BY <1>2, <1>4 DEF ItemsSound, IsAdded

\* Something else is said of an item that was added, and of one that is done only in doubt.
LEMMA SendsMore ==
    ASSUME NEW s, NEW next, NEW done, NEW events, ItemsSound(s, next, done, events),
           NEW x, Live!HasIndex(x), x.type # "added", IsAdded(s, x.index),
           x.index \in done => x.type # "item_done" /\ ~Live!HasIds(events) /\ CallAdded(s, x.index)
    PROVE  /\ ItemsSound(Append(s, x), next,
                         done \cup (IF x.type = "item_done" THEN {x.index} ELSE {}), events)
           /\ Extends(s, Append(s, x))
<1> DEFINE t == Append(s, x)
           n == Len(s) + 1
<1>0. Sends(s, x, t, n)
  BY OneMoreItem DEF ItemsSound, EventsSound
<1> HIDE DEF t, n
<1>1. /\ IsSeq(s) /\ IsSeq(t) /\ n \in Nat /\ n > 0 /\ Len(s) = n - 1
      /\ DOMAIN t = 1..n /\ DOMAIN s = 1..(n - 1)
      /\ t[n] = x /\ \A i \in 1..(n - 1) : t[i] = s[i]
      /\ \A i \in DOMAIN t : i \in 1..(n - 1) \/ i = n
      /\ \A i \in Adds(s) \cup Dones(s) : i \in 1..(n - 1) /\ t[i] = s[i]
      /\ Adds(t) = Adds(s)
      /\ Dones(t) = Dones(s) \cup (IF x.type = "item_done" THEN {n} ELSE {})
  BY <1>0 DEF Sends
<1>2. /\ next \in Nat /\ IsFiniteSet(Adds(s)) /\ Cardinality(Adds(s)) = next
      /\ \A i \in Adds(s) : s[i].index \in Nat /\ s[i].index < next
      /\ \A i, j \in Adds(s) : i < j => s[i].index < s[j].index
      /\ done = {s[i].index : i \in Dones(s)}
      /\ \A i \in DOMAIN s : SoundAt(s, i, events)
  BY DEF ItemsSound, EventsSound
<1>3. \A i \in 1..(n - 1) : SoundAt(t, i, events)
  BY <1>1, <1>2, SoundBefore DEF t, n
<1>4. /\ \A i \in Adds(t) : t[i].index \in Nat /\ t[i].index < next
      /\ \A i, j \in Adds(t) : i < j => t[i].index < t[j].index
  BY <1>1, <1>2
<1>5. done \cup (IF x.type = "item_done" THEN {x.index} ELSE {}) = {t[i].index : i \in Dones(t)}
  BY <1>1, <1>2
<1>6. SoundAt(t, n, events)
  <2>1. AddAt(t, n)
    BY <1>1 DEF AddAt
  <2>2. KnownAt(t, n)
    BY <1>1 DEF KnownAt, IsAdded, Adds
  <2>3. ASSUME NEW j \in 1..(n - 1), t[j].type = "item_done", t[j].index = x.index
        PROVE  /\ x.type # "item_done" /\ ~Live!HasIds(events)
               /\ \E k \in 1..j : /\ t[k].type = "added" /\ t[k].index = t[j].index
                                  /\ t[k].kind \notin {"message", "reasoning"}
    <3>1. t[j] = s[j] /\ j \in DOMAIN s /\ SoundAt(s, j, events) /\ j \in Dones(s)
      BY <1>1, <1>2, <2>3 DEF Dones
    <3>2. x.type # "item_done" /\ ~Live!HasIds(events) /\ CallAdded(s, x.index)
      BY <1>2, <2>3, <3>1
    <3>3. PICK k \in 1..j : s[k].type = "added" /\ s[k].index = x.index
      BY <2>3, <3>1 DEF SoundAt, KnownAt, Live!HasIndex
    <3>4. k \in Adds(s)
      BY <1>1, <3>1, <3>3 DEF Adds
    <3>5. PICK i \in Adds(s) : s[i].index = x.index /\ s[i].kind \notin {"message", "reasoning"}
      BY <3>2 DEF CallAdded
    <3>6. i = k
      BY <3>3, <3>4, <3>5, OneAdd
    <3>7. t[k] = s[k]
      BY <1>1, <3>4
    <3> QED
      BY <2>3, <3>2, <3>3, <3>5, <3>6, <3>7
  <2>4. AfterAt(t, n, events)
    BY <1>1, <2>3 DEF AfterAt
  <2>5. x.type # "terminal"
    BY DEF Live!HasIndex
  <2> QED
    BY <1>1, <2>1, <2>2, <2>4, <2>5 DEF SoundAt
<1>7. EventsSound(t, events)
  BY <1>1, <1>3, <1>6 DEF EventsSound
<1>8. ItemsSound(t, next, done \cup (IF x.type = "item_done" THEN {x.index} ELSE {}), events)
  BY <1>1, <1>2, <1>4, <1>5, <1>7 DEF ItemsSound
<1>9. Extends(s, t)
  BY <1>1 DEF Extends
<1> QED
  BY <1>8, <1>9 DEF t
\* What was said with less doubt stands.
LEMMA DoubtGrows ==
    ASSUME NEW s, NEW next, NEW done, NEW events, ItemsSound(s, next, done, events),
           NEW more, Live!HasIds(more) => Live!HasIds(events)
    PROVE  ItemsSound(s, next, done, more)
<1>1. \A i \in DOMAIN s : SoundAt(s, i, more)
  BY DEF ItemsSound, EventsSound, SoundAt, AfterAt
<1>2. EventsSound(s, more)
  BY <1>1 DEF ItemsSound, EventsSound
<1> QED
  BY <1>2 DEF ItemsSound

-----------------------------------------------------------------------------
(* The state of the items.                                                  *)

LiveShape(s) ==
    /\ s = [l |-> s.l, out |-> s.out]
    /\ s.l = [textIndex |-> s.l.textIndex, reasoning |-> s.l.reasoning, tools |-> s.l.tools,
              next |-> s.l.next, text |-> s.l.text, thinking |-> s.l.thinking,
              stop |-> s.l.stop, filter |-> s.l.filter]
ToolShape(tool) ==
    tool = [callId |-> tool.callId, name |-> tool.name, arguments |-> tool.arguments,
            index |-> tool.index, ended |-> tool.ended, custom |-> tool.custom]

\* A call has one entry and one item.
CallsAreOne(tools) ==
    /\ IsSeq(tools)
    /\ \A i \in DOMAIN tools : ToolShape(tools[i])
    /\ \A i, j \in DOMAIN tools :
           tools[i].index = tools[j].index \/ tools[i].callId = tools[j].callId => i = j

\* The items are those that the state remembers.
ItemsKnown(l, out) ==
    /\ CallsAreOne(l.tools)
    /\ l.textIndex # Live!NoItem => AddedAs(out, l.textIndex, {"message"})
    /\ l.reasoning # Live!NoItem => AddedAs(out, l.reasoning, {"reasoning"})
    /\ \A i \in DOMAIN l.tools : CallAdded(out, l.tools[i].index)
    /\ \A k \in Nat : k < l.next =>
           k = l.textIndex \/ k = l.reasoning \/ \E i \in DOMAIN l.tools : l.tools[i].index = k

DoneIn(tools) == {tools[i].index : i \in {i \in DOMAIN tools : tools[i].ended}}

\* Without doubt, a call that has ended was named by an end.
EndsSeen(tools, events) ==
    Live!HasIds(events) =>
        \A i \in DOMAIN tools : tools[i].ended =>
            \E j \in DOMAIN events : events[j].kind = "end" /\ events[j].id = tools[i].callId

LiveSound(s, events) ==
    /\ LiveShape(s)
    /\ ItemsSound(s.out, s.l.next, DoneIn(s.l.tools), events)
    /\ ItemsKnown(s.l, s.out)
    /\ EndsSeen(s.l.tools, events)

LEMMA StaysAdded ==
    ASSUME NEW out, NEW more, Extends(out, more)
    PROVE  /\ \A index : IsAdded(out, index) => IsAdded(more, index)
           /\ \A index, kinds : AddedAs(out, index, kinds) => AddedAs(more, index, kinds)
           /\ \A index : CallAdded(out, index) => CallAdded(more, index)
BY DEF Extends, IsAdded, AddedAs, CallAdded

\* An item is of one kind, and only calls are done while the stream goes on.
LEMMA ItemFacts ==
    ASSUME NEW s, NEW events, LiveSound(s, events)
    PROVE  /\ s.l.next \in Nat /\ IsSeq(s.out) /\ s.l.next # Live!NoItem
           /\ s.l.next \notin DoneIn(s.l.tools) /\ ~IsAdded(s.out, s.l.next)
           /\ \A index, kinds : AddedAs(s.out, index, kinds) => IsAdded(s.out, index)
           /\ \A index : CallAdded(s.out, index) => IsAdded(s.out, index)
           /\ \A index : IsAdded(s.out, index) => index \in Nat /\ index < s.l.next
           /\ \A index, kinds : AddedAs(s.out, index, kinds) /\ kinds \subseteq {"message", "reasoning"}
                                    => ~CallAdded(s.out, index)
           /\ \A index : ~(AddedAs(s.out, index, {"message"}) /\ AddedAs(s.out, index, {"reasoning"}))
           /\ \A index \in DoneIn(s.l.tools) : CallAdded(s.out, index)
<1>1. ItemsSound(s.out, s.l.next, DoneIn(s.l.tools), events)
  BY DEF LiveSound
<1>2. /\ \A i, j \in Adds(s.out) : s.out[i].index = s.out[j].index => i = j
      /\ \A index : IsAdded(s.out, index) => index \in Nat /\ index < s.l.next
  BY <1>1, OneAdd
<1>3. s.l.next \in Nat /\ IsSeq(s.out)
  BY <1>1 DEF ItemsSound, EventsSound
<1>4. /\ \A index, kinds : AddedAs(s.out, index, kinds) => IsAdded(s.out, index)
      /\ \A index : CallAdded(s.out, index) => IsAdded(s.out, index)
  BY DEF AddedAs, CallAdded, IsAdded
<1>5. /\ \A index, kinds : AddedAs(s.out, index, kinds) /\ kinds \subseteq {"message", "reasoning"}
                               => ~CallAdded(s.out, index)
      /\ \A index : ~(AddedAs(s.out, index, {"message"}) /\ AddedAs(s.out, index, {"reasoning"}))
  BY <1>2 DEF AddedAs, CallAdded
<1>6. \A index \in DoneIn(s.l.tools) : CallAdded(s.out, index)
  BY DEF DoneIn, LiveSound, ItemsKnown
<1>7. s.l.next # Live!NoItem /\ ~IsAdded(s.out, s.l.next)
  BY <1>2, <1>3 DEF Live!NoItem
<1>8. s.l.next \notin DoneIn(s.l.tools)
  BY <1>4, <1>6, <1>7
<1> QED
  BY <1>2, <1>3, <1>4, <1>5, <1>6, <1>7, <1>8

LEMMA UpdateIsSeq ==
    ASSUME NEW s, IsSeq(s), NEW i \in DOMAIN s, NEW x
    PROVE  LET t == [s EXCEPT ![i] = x]
           IN  /\ IsSeq(t) /\ Len(t) = Len(s) /\ DOMAIN t = DOMAIN s /\ t[i] = x
               /\ \A j \in DOMAIN s : j # i => t[j] = s[j]
<1> PICK S : s \in Seq(S)
  BY DEF IsSeq
<1> DEFINE T == S \cup {x}
           t == [s EXCEPT ![i] = x]
<1>1. s \in Seq(T) /\ x \in T
  OBVIOUS
<1> HIDE DEF T
<1>2. t \in Seq(T) /\ Len(t) = Len(s)
  BY <1>1
<1> QED
  BY <1>2 DEF IsSeq

\* What else the state says of texts and calls has nothing to do with the items.
SameItems(l, m) ==
    /\ m.textIndex = l.textIndex /\ m.reasoning = l.reasoning /\ m.next = l.next
    /\ IsSeq(m.tools) /\ DOMAIN m.tools = DOMAIN l.tools
    /\ \A i \in DOMAIN l.tools :
           /\ ToolShape(m.tools[i])
           /\ m.tools[i].index = l.tools[i].index /\ m.tools[i].callId = l.tools[i].callId
           /\ m.tools[i].ended = l.tools[i].ended

SameFields(l, m) ==
    /\ m.textIndex = l.textIndex /\ m.reasoning = l.reasoning /\ m.next = l.next /\ m.tools = l.tools

LEMMA FieldsAreItems ==
    ASSUME NEW s, NEW events, LiveSound(s, events), NEW m, SameFields(s.l, m)
    PROVE  SameItems(s.l, m)
BY DEF LiveSound, ItemsKnown, CallsAreOne, SameFields, SameItems

LEMMA OtherSound ==
    ASSUME NEW s, NEW events, LiveSound(s, events), NEW t, LiveShape(t), t.out = s.out,
           SameItems(s.l, t.l)
    PROVE  LiveSound(t, events)
<1>1. DoneIn(t.l.tools) = DoneIn(s.l.tools)
  BY DEF DoneIn, SameItems
<1>2. CallsAreOne(t.l.tools)
  BY DEF LiveSound, ItemsKnown, CallsAreOne, SameItems
<1>3. ItemsKnown(t.l, t.out)
  BY <1>2 DEF LiveSound, ItemsKnown, SameItems
<1>4. EndsSeen(t.l.tools, events)
  BY DEF LiveSound, EndsSeen, SameItems
<1> QED
  BY <1>1, <1>3, <1>4 DEF LiveSound, SameItems
\* The text item, if there is none.
LEMMA LiveEnsuresText ==
    ASSUME NEW s, NEW events, LiveSound(s, events)
    PROVE  LET t == Live!EnsureText(s)
           IN  /\ LiveSound(t, events) /\ t.l.tools = s.l.tools
               /\ AddedAs(t.out, t.l.textIndex, {"message"})
<1> DEFINE t == Live!EnsureText(s)
           x == Live!Added(s.l.next, "message", "")
           y == Live!PartAdded(s.l.next)
           one == Append(s.out, x)
           two == Append(one, y)
<1>1. CASE s.l.textIndex # Live!NoItem
  <2>1. t = s
    BY <1>1 DEF Live!EnsureText
  <2> QED
    BY <1>1, <2>1 DEF LiveSound, ItemsKnown
<1>2. CASE s.l.textIndex = Live!NoItem
  <2>1. /\ ItemsSound(s.out, s.l.next, DoneIn(s.l.tools), events)
        /\ ItemsKnown(s.l, s.out) /\ LiveShape(s) /\ EndsSeen(s.l.tools, events)
    BY DEF LiveSound
  <2>2. /\ x.type = "added" /\ x.index = s.l.next /\ x.kind = "message"
        /\ y.type = "part_added" /\ y.index = s.l.next /\ Live!HasIndex(y)
    BY DEF Live!Added, Live!PartAdded, Live!HasIndex
  <2>3. t = [l |-> [s.l EXCEPT !.textIndex = s.l.next, !.next = @ + 1], out |-> s.out \o <<x, y>>]
    BY <1>2 DEF Live!EnsureText
  <2> HIDE DEF x, y
  <2>4. s.out \o <<x, y>> = two
    BY ItemFacts, ConcatFacts
  <2>5. /\ ItemsSound(one, s.l.next + 1, DoneIn(s.l.tools), events)
        /\ Extends(s.out, one) /\ AddedAs(one, s.l.next, {"message"}) /\ IsAdded(one, s.l.next)
    BY <2>1, <2>2, SendsAdd
  <2>6. s.l.next \notin DoneIn(s.l.tools) /\ s.l.next \in Nat
    BY ItemFacts
  <2> HIDE DEF one
  <2>7. /\ ItemsSound(two, s.l.next + 1, DoneIn(s.l.tools) \cup {}, events)
        /\ Extends(one, two)
    BY <2>2, <2>5, <2>6, SendsMore
  <2>8. Extends(s.out, two) /\ AddedAs(two, s.l.next, {"message"})
    BY <2>5, <2>7, StaysAdded DEF Extends
  <2> HIDE DEF two
  <2> HIDE DEF t
  <2>9. /\ t.out = two /\ LiveShape(t) /\ t.l.textIndex = s.l.next /\ t.l.next = s.l.next + 1
        /\ t.l.tools = s.l.tools /\ t.l.reasoning = s.l.reasoning
    <3>1. t = [l |-> [s.l EXCEPT !.textIndex = s.l.next, !.next = @ + 1], out |-> two] /\ LiveShape(s)
      BY <2>1, <2>3, <2>4
    <3> QED
      BY <3>1 DEF LiveShape
  <2>10. ItemsKnown(t.l, t.out)
    <3>1. \A k \in Nat : k < t.l.next => k < s.l.next \/ k = t.l.textIndex
      BY <2>6, <2>9
    <3>2. s.l.reasoning # Live!NoItem => AddedAs(two, s.l.reasoning, {"reasoning"})
      BY <2>1, <2>8, StaysAdded DEF ItemsKnown
    <3>3. \A i \in DOMAIN s.l.tools : CallAdded(two, s.l.tools[i].index)
      BY <2>1, <2>8, StaysAdded DEF ItemsKnown
    <3>4. \A k \in Nat : k < s.l.next =>
              k = s.l.reasoning \/ \E i \in DOMAIN s.l.tools : s.l.tools[i].index = k
      BY <1>2, <2>1 DEF ItemsKnown, Live!NoItem
    <3> QED
      BY <2>1, <2>8, <2>9, <3>1, <3>2, <3>3, <3>4 DEF ItemsKnown
  <2>11. LiveSound(t, events)
    BY <2>1, <2>7, <2>9, <2>10 DEF LiveSound
  <2> QED
    BY <2>8, <2>9, <2>11 DEF t
<1> QED
  BY <1>1, <1>2

\* The reasoning item, if there is none.
LEMMA LiveEnsuresReasoning ==
    ASSUME NEW s, NEW events, LiveSound(s, events)
    PROVE  LET t == Live!EnsureReasoning(s)
           IN  /\ LiveSound(t, events)
               /\ AddedAs(t.out, t.l.reasoning, {"reasoning"})
<1> DEFINE t == Live!EnsureReasoning(s)
           x == Live!Added(s.l.next, "reasoning", "")
           y == Live!PartAdded(s.l.next)
           one == Append(s.out, x)
           two == Append(one, y)
<1>1. CASE s.l.reasoning # Live!NoItem
  <2>1. t = s
    BY <1>1 DEF Live!EnsureReasoning
  <2> QED
    BY <1>1, <2>1 DEF LiveSound, ItemsKnown
<1>2. CASE s.l.reasoning = Live!NoItem
  <2>1. /\ ItemsSound(s.out, s.l.next, DoneIn(s.l.tools), events)
        /\ ItemsKnown(s.l, s.out) /\ LiveShape(s) /\ EndsSeen(s.l.tools, events)
    BY DEF LiveSound
  <2>2. /\ x.type = "added" /\ x.index = s.l.next /\ x.kind = "reasoning"
        /\ y.type = "part_added" /\ y.index = s.l.next /\ Live!HasIndex(y)
    BY DEF Live!Added, Live!PartAdded, Live!HasIndex
  <2>3. t = [l |-> [s.l EXCEPT !.reasoning = s.l.next, !.next = @ + 1], out |-> s.out \o <<x, y>>]
    BY <1>2 DEF Live!EnsureReasoning
  <2> HIDE DEF x, y
  <2>4. s.out \o <<x, y>> = two
    BY ItemFacts, ConcatFacts
  <2>5. /\ ItemsSound(one, s.l.next + 1, DoneIn(s.l.tools), events)
        /\ Extends(s.out, one) /\ AddedAs(one, s.l.next, {"reasoning"}) /\ IsAdded(one, s.l.next)
    BY <2>1, <2>2, SendsAdd
  <2>6. s.l.next \notin DoneIn(s.l.tools) /\ s.l.next \in Nat
    BY ItemFacts
  <2> HIDE DEF one
  <2>7. /\ ItemsSound(two, s.l.next + 1, DoneIn(s.l.tools) \cup {}, events)
        /\ Extends(one, two)
    BY <2>2, <2>5, <2>6, SendsMore
  <2>8. Extends(s.out, two) /\ AddedAs(two, s.l.next, {"reasoning"})
    BY <2>5, <2>7, StaysAdded DEF Extends
  <2> HIDE DEF two
  <2> HIDE DEF t
  <2>9. /\ t.out = two /\ LiveShape(t) /\ t.l.reasoning = s.l.next /\ t.l.next = s.l.next + 1
        /\ t.l.tools = s.l.tools /\ t.l.textIndex = s.l.textIndex
    <3>1. t = [l |-> [s.l EXCEPT !.reasoning = s.l.next, !.next = @ + 1], out |-> two] /\ LiveShape(s)
      BY <2>1, <2>3, <2>4
    <3> QED
      BY <3>1 DEF LiveShape
  <2>10. ItemsKnown(t.l, t.out)
    <3>1. \A k \in Nat : k < t.l.next => k < s.l.next \/ k = t.l.reasoning
      BY <2>6, <2>9
    <3>2. s.l.textIndex # Live!NoItem => AddedAs(two, s.l.textIndex, {"message"})
      BY <2>1, <2>8, StaysAdded DEF ItemsKnown
    <3>3. \A i \in DOMAIN s.l.tools : CallAdded(two, s.l.tools[i].index)
      BY <2>1, <2>8, StaysAdded DEF ItemsKnown
    <3>4. \A k \in Nat : k < s.l.next =>
              k = s.l.textIndex \/ \E i \in DOMAIN s.l.tools : s.l.tools[i].index = k
      BY <1>2, <2>1 DEF ItemsKnown, Live!NoItem
    <3> QED
      BY <2>1, <2>8, <2>9, <3>1, <3>2, <3>3, <3>4 DEF ItemsKnown
  <2>11. LiveSound(t, events)
    BY <2>1, <2>7, <2>9, <2>10 DEF LiveSound
  <2> QED
    BY <2>8, <2>9, <2>11 DEF t
<1> QED
  BY <1>1, <1>2

\* A delta of an item that is not done, or of a call in doubt.
LEMMA LiveSays ==
    ASSUME NEW s, NEW events, LiveSound(s, events), NEW index, NEW text, IsAdded(s.out, index),
           index \in DoneIn(s.l.tools) => ~Live!HasIds(events)
    PROVE  LiveSound(Live!Say(s, index, text), events)
<1> DEFINE x == Live!DeltaOf(index, text)
           t == [s EXCEPT !.out = Append(@, x)]
<1>1. x.type = "delta" /\ x.index = index /\ Live!HasIndex(x)
  BY DEF Live!DeltaOf, Live!HasIndex
<1>2. /\ ItemsSound(s.out, s.l.next, DoneIn(s.l.tools), events)
      /\ ItemsKnown(s.l, s.out) /\ LiveShape(s) /\ EndsSeen(s.l.tools, events)
      /\ \A i \in DoneIn(s.l.tools) : CallAdded(s.out, i)
  BY ItemFacts DEF LiveSound
<1>3. Live!Say(s, index, text) = IF text = <<>> THEN s ELSE t
  BY DEF Live!Say
<1> HIDE DEF x
<1>4. t.out = Append(s.out, x) /\ t.l = s.l /\ LiveShape(t)
  BY <1>2 DEF LiveShape
<1>5. /\ ItemsSound(Append(s.out, x), s.l.next, DoneIn(s.l.tools) \cup {}, events)
      /\ Extends(s.out, Append(s.out, x))
  BY <1>1, <1>2, SendsMore
<1> HIDE DEF t
<1>6. ItemsKnown(t.l, t.out)
  BY <1>2, <1>4, <1>5, StaysAdded DEF ItemsKnown
<1>7. LiveSound(t, events)
  BY <1>2, <1>4, <1>5, <1>6 DEF LiveSound
<1> QED
  BY <1>3, <1>7

LEMMA LiveOnText ==
    ASSUME NEW s, NEW events, LiveSound(s, events), NEW event
    PROVE  LiveSound(Live!OnText(s, event), events)
<1> DEFINE drained == Live!FilterPush(s.l.filter, event.text)
           longer == [s EXCEPT !.l.filter = drained.pending, !.l.text = @ \o drained.output]
           ready == Live!EnsureText(longer)
<1>1. Live!OnText(s, event) = Live!Say(ready, ready.l.textIndex, drained.output)
  BY DEF Live!OnText
<1> HIDE DEF drained
<1> DEFINE first == [s EXCEPT !.l.filter = drained.pending]
           said == s.l.text \o drained.output
<1>2. LiveShape(longer) /\ longer.out = s.out /\ SameItems(s.l, longer.l)
  <2>1. LiveShape(first) /\ first.out = s.out /\ SameFields(s.l, first.l)
    BY DEF LiveSound, LiveShape, SameFields
  <2>2. longer = [first EXCEPT !.l.text = said]
    OBVIOUS
  <2> HIDE DEF first, longer, said
  <2>3. LiveShape(longer) /\ longer.out = first.out /\ SameFields(first.l, longer.l)
    BY <2>1, <2>2 DEF LiveShape, SameFields
  <2> QED
    BY <2>1, <2>3, FieldsAreItems DEF SameFields
<1> HIDE DEF longer
<1>3. LiveSound(longer, events)
  BY <1>2, OtherSound
<1>4. LiveSound(ready, events) /\ AddedAs(ready.out, ready.l.textIndex, {"message"})
  BY <1>3, LiveEnsuresText
<1> HIDE DEF ready
<1>5. IsAdded(ready.out, ready.l.textIndex) /\ ready.l.textIndex \notin DoneIn(ready.l.tools)
  BY <1>4, ItemFacts
<1> QED
  BY <1>1, <1>4, <1>5, LiveSays

LEMMA LiveOnThinking ==
    ASSUME NEW s, NEW events, LiveSound(s, events), NEW event
    PROVE  LiveSound(Live!OnThinking(s, event), events)
<1> DEFINE said == s.l.thinking \o event.text
           longer == [s EXCEPT !.l.thinking = said]
           ready == Live!EnsureReasoning(longer)
<1>1. Live!OnThinking(s, event) = Live!Say(ready, ready.l.reasoning, event.text)
  BY DEF Live!OnThinking
<1> HIDE DEF said
<1>2. LiveShape(longer) /\ longer.out = s.out /\ SameFields(s.l, longer.l)
  BY DEF LiveSound, LiveShape, SameFields
<1> HIDE DEF longer
<1>3. LiveSound(longer, events)
  BY <1>2, FieldsAreItems, OtherSound
<1>4. LiveSound(ready, events) /\ AddedAs(ready.out, ready.l.reasoning, {"reasoning"})
  BY <1>3, LiveEnsuresReasoning
<1> HIDE DEF ready
<1>5. IsAdded(ready.out, ready.l.reasoning) /\ ready.l.reasoning \notin DoneIn(ready.l.tools)
  BY <1>4, ItemFacts
<1> QED
  BY <1>1, <1>4, <1>5, LiveSays
LEMMA ToolAtFacts ==
    ASSUME NEW l, IsSeq(l.tools), NEW callId
    PROVE  LET i == Live!ToolAt(l, callId)
           IN  /\ i # 0 => i \in DOMAIN l.tools /\ l.tools[i].callId = callId
               /\ i = 0 => \A j \in DOMAIN l.tools : l.tools[j].callId # callId
<1>1. \A j \in DOMAIN l.tools : j # 0
  BY SeqFacts
<1> QED
  BY <1>1 DEF Live!ToolAt

\* From s to t, the i-th call got a name, or became a custom call, or went on.
Retold(s, t, i) ==
    /\ t.out = s.out /\ t.l.textIndex = s.l.textIndex /\ t.l.reasoning = s.l.reasoning
    /\ t.l.next = s.l.next /\ t.l.text = s.l.text /\ t.l.thinking = s.l.thinking
    /\ DOMAIN t.l.tools = DOMAIN s.l.tools
    /\ \A j \in DOMAIN s.l.tools : j # i => t.l.tools[j] = s.l.tools[j]
    /\ t.l.tools[i].callId = s.l.tools[i].callId /\ t.l.tools[i].index = s.l.tools[i].index

WithCall(s, i, tool) == [s EXCEPT !.l.tools[i] = tool]

LEMMA ToolSaid ==
    ASSUME NEW s, NEW events, LiveSound(s, events), NEW i \in DOMAIN s.l.tools,
           NEW tool, ToolShape(tool), tool.index = s.l.tools[i].index,
           tool.callId = s.l.tools[i].callId, tool.ended = s.l.tools[i].ended
    PROVE  /\ LiveSound(WithCall(s, i, tool), events)
           /\ Retold(s, WithCall(s, i, tool), i)
           /\ WithCall(s, i, tool).l.tools[i] = tool
<1> DEFINE tools == [s.l.tools EXCEPT ![i] = tool]
           t == WithCall(s, i, tool)
<1>1. t = [s EXCEPT !.l.tools = tools]
  BY DEF WithCall
<1>2. /\ IsSeq(tools) /\ DOMAIN tools = DOMAIN s.l.tools /\ tools[i] = tool
      /\ \A j \in DOMAIN s.l.tools : j # i => tools[j] = s.l.tools[j]
  BY UpdateIsSeq DEF LiveSound, ItemsKnown, CallsAreOne
<1> HIDE DEF tools, t
<1>3. /\ LiveShape(t) /\ t.out = s.out /\ t.l.tools = tools
      /\ t.l.textIndex = s.l.textIndex /\ t.l.reasoning = s.l.reasoning /\ t.l.next = s.l.next
      /\ t.l.text = s.l.text /\ t.l.thinking = s.l.thinking
  BY <1>1 DEF LiveSound, LiveShape
<1>4. \A j \in DOMAIN s.l.tools : ToolShape(s.l.tools[j])
  BY DEF LiveSound, ItemsKnown, CallsAreOne
<1>5. SameItems(s.l, t.l)
  BY <1>2, <1>3, <1>4 DEF SameItems
<1>6. LiveSound(t, events)
  BY <1>3, <1>5, OtherSound
<1>7. Retold(s, t, i) /\ t.l.tools[i] = tool
  BY <1>2, <1>3 DEF Retold
<1> QED
  BY <1>6, <1>7 DEF t

LEMMA ToolRecord ==
    ASSUME NEW tool, ToolShape(tool), NEW a
    PROVE  /\ \A t : t = [tool EXCEPT !.name = a] =>
                  /\ ToolShape(t) /\ t.name = a /\ t.custom = tool.custom /\ t.index = tool.index
                  /\ t.ended = tool.ended /\ t.callId = tool.callId /\ t.arguments = tool.arguments
           /\ \A t : t = [tool EXCEPT !.custom = a] =>
                  /\ ToolShape(t) /\ t.name = tool.name /\ t.custom = a /\ t.index = tool.index
                  /\ t.ended = tool.ended /\ t.callId = tool.callId /\ t.arguments = tool.arguments
           /\ \A t : t = [tool EXCEPT !.arguments = a] =>
                  /\ ToolShape(t) /\ t.name = tool.name /\ t.custom = tool.custom /\ t.index = tool.index
                  /\ t.ended = tool.ended /\ t.callId = tool.callId /\ t.arguments = a
           /\ \A t : t = [tool EXCEPT !.ended = a] =>
                  /\ ToolShape(t) /\ t.name = tool.name /\ t.custom = tool.custom /\ t.index = tool.index
                  /\ t.ended = a /\ t.callId = tool.callId /\ t.arguments = tool.arguments
<1>1. \A t : t = [tool EXCEPT !.name = a] =>
          /\ ToolShape(t) /\ t.name = a /\ t.custom = tool.custom /\ t.index = tool.index
          /\ t.ended = tool.ended /\ t.callId = tool.callId /\ t.arguments = tool.arguments
  BY DEF ToolShape
<1>2. \A t : t = [tool EXCEPT !.custom = a] =>
          /\ ToolShape(t) /\ t.name = tool.name /\ t.custom = a /\ t.index = tool.index
          /\ t.ended = tool.ended /\ t.callId = tool.callId /\ t.arguments = tool.arguments
  BY DEF ToolShape
<1>3. \A t : t = [tool EXCEPT !.arguments = a] =>
          /\ ToolShape(t) /\ t.name = tool.name /\ t.custom = tool.custom /\ t.index = tool.index
          /\ t.ended = tool.ended /\ t.callId = tool.callId /\ t.arguments = a
  BY DEF ToolShape
<1>4. \A t : t = [tool EXCEPT !.ended = a] =>
          /\ ToolShape(t) /\ t.name = tool.name /\ t.custom = tool.custom /\ t.index = tool.index
          /\ t.ended = a /\ t.callId = tool.callId /\ t.arguments = tool.arguments
  BY DEF ToolShape
<1> QED
  BY <1>1, <1>2, <1>3, <1>4

\* The entry of a call that is known may get its name and become a custom call.
WithName(s, i, name, custom) == [s EXCEPT !.l.tools[i].name = name, !.l.tools[i].custom = custom]

LEMMA ToolNamed ==
    ASSUME NEW s, NEW events, LiveSound(s, events), NEW i \in DOMAIN s.l.tools, NEW name, NEW custom
    PROVE  /\ LiveSound(WithName(s, i, name, custom), events)
           /\ Retold(s, WithName(s, i, name, custom), i)
           /\ WithName(s, i, name, custom).l.tools[i].name = name
           /\ WithName(s, i, name, custom).l.tools[i].custom = custom
           /\ WithName(s, i, name, custom).l.tools[i].arguments = s.l.tools[i].arguments
<1> DEFINE old == s.l.tools[i]
           named == [old EXCEPT !.name = name]
           new == [named EXCEPT !.custom = custom]
           t == WithName(s, i, name, custom)
<1>1. ToolShape(old) /\ LiveShape(s)
  BY DEF LiveSound, ItemsKnown, CallsAreOne
<1>2. t = WithCall(s, i, new)
  BY <1>1 DEF LiveShape, WithName, WithCall
<1> HIDE DEF t, old
<1>3. /\ ToolShape(named) /\ named.callId = old.callId /\ named.index = old.index
      /\ named.ended = old.ended /\ named.arguments = old.arguments /\ named.name = name
  BY <1>1, ToolRecord
<1> HIDE DEF named
<1>4. /\ ToolShape(new) /\ new.callId = old.callId /\ new.index = old.index
      /\ new.ended = old.ended /\ new.arguments = old.arguments
      /\ new.name = name /\ new.custom = custom
  BY <1>3, ToolRecord
<1> HIDE DEF new
<1>5. LiveSound(t, events) /\ Retold(s, t, i) /\ t.l.tools[i] = new
  BY <1>2, <1>4, ToolSaid DEF old
<1> QED
  BY <1>4, <1>5 DEF t, old

WithItem(s, tools, out) == [l |-> [s.l EXCEPT !.tools = tools, !.next = @ + 1], out |-> out]

LEMMA ItemRecord ==
    ASSUME NEW s, LiveShape(s), NEW tools, NEW out
    PROVE  LET t == WithItem(s, tools, out)
           IN  /\ LiveShape(t) /\ t.out = out /\ t.l.tools = tools /\ t.l.next = s.l.next + 1
               /\ t.l.textIndex = s.l.textIndex /\ t.l.reasoning = s.l.reasoning
               /\ t.l.text = s.l.text /\ t.l.thinking = s.l.thinking /\ t.l.filter = s.l.filter
BY DEF LiveShape, WithItem

\* A call that is new gets an entry and an item.
WithTool(s, tool, kind) ==
    [l |-> [s.l EXCEPT !.tools = Append(@, tool), !.next = @ + 1],
     out |-> Append(s.out, Live!Added(s.l.next, kind, tool.callId))]

LEMMA ToolAdded ==
    ASSUME NEW s, NEW events, LiveSound(s, events), NEW tool, ToolShape(tool),
           \A j \in DOMAIN s.l.tools : s.l.tools[j].callId # tool.callId,
           tool.index = s.l.next, ~tool.ended, NEW kind, kind \notin {"message", "reasoning"}
    PROVE  LET t == WithTool(s, tool, kind)
           IN  /\ LiveSound(t, events) /\ t.l.tools = Append(s.l.tools, tool)
               /\ t.out = Append(s.out, Live!Added(s.l.next, kind, tool.callId))
               /\ t.l.textIndex = s.l.textIndex /\ t.l.reasoning = s.l.reasoning
               /\ t.l.next = s.l.next + 1
               /\ Extends(s.out, t.out)
<1> DEFINE t == WithTool(s, tool, kind)
           x == Live!Added(s.l.next, kind, tool.callId)
           tools == Append(s.l.tools, tool)
           n == Len(s.l.tools) + 1
           out == Append(s.out, x)
<1>1. /\ ItemsSound(s.out, s.l.next, DoneIn(s.l.tools), events)
      /\ ItemsKnown(s.l, s.out) /\ LiveShape(s) /\ EndsSeen(s.l.tools, events)
  BY DEF LiveSound
<1>2. x.type = "added" /\ x.index = s.l.next /\ x.kind = kind
  BY DEF Live!Added
<1>3. /\ IsSeq(tools) /\ n \in Nat /\ DOMAIN tools = DOMAIN s.l.tools \cup {n} /\ n \notin DOMAIN s.l.tools
      /\ tools[n] = tool /\ \A i \in DOMAIN s.l.tools : tools[i] = s.l.tools[i]
  BY <1>1, AppendFacts, SeqFacts DEF ItemsKnown, CallsAreOne
<1>4. t = WithItem(s, tools, out)
  BY DEF WithTool, WithItem
<1> HIDE DEF x, tools, n, t
<1>5. /\ ItemsSound(out, s.l.next + 1, DoneIn(s.l.tools), events) /\ Extends(s.out, out)
      /\ AddedAs(out, s.l.next, {kind})
  BY <1>1, <1>2, SendsAdd
<1> HIDE DEF out
<1>6. /\ LiveShape(t) /\ t.out = out /\ t.l.tools = tools /\ t.l.next = s.l.next + 1
      /\ t.l.textIndex = s.l.textIndex /\ t.l.reasoning = s.l.reasoning
  BY <1>1, <1>4, ItemRecord
<1>7. \A j \in DOMAIN s.l.tools : s.l.tools[j].index # s.l.next
  BY <1>1, ItemFacts DEF ItemsKnown
<1>8. CallsAreOne(tools)
  BY <1>1, <1>3, <1>7 DEF ItemsKnown, CallsAreOne
<1>9. \A i \in DOMAIN tools : CallAdded(out, tools[i].index)
  <2>1. CallAdded(out, s.l.next)
    BY <1>5 DEF AddedAs, CallAdded
  <2>2. \A i \in DOMAIN s.l.tools : CallAdded(out, s.l.tools[i].index)
    BY <1>1, <1>5, StaysAdded DEF ItemsKnown
  <2> QED
    BY <1>3, <2>1, <2>2
<1>10. \A k \in Nat : k < s.l.next + 1 =>
           k = s.l.textIndex \/ k = s.l.reasoning \/ \E i \in DOMAIN tools : tools[i].index = k
  <2> SUFFICES ASSUME NEW k \in Nat, k < s.l.next + 1
               PROVE  k = s.l.textIndex \/ k = s.l.reasoning \/ \E i \in DOMAIN tools : tools[i].index = k
    OBVIOUS
  <2>1. k = s.l.next \/ k < s.l.next
    BY ItemFacts
  <2>2. CASE k = s.l.next
    BY <1>3, <2>2
  <2>3. CASE k < s.l.next
    BY <1>1, <1>3, <2>3 DEF ItemsKnown
  <2> QED
    BY <2>1, <2>2, <2>3
<1>11. ItemsKnown(t.l, t.out)
  <2>1. s.l.textIndex # Live!NoItem => AddedAs(out, s.l.textIndex, {"message"})
    BY <1>1, <1>5, StaysAdded DEF ItemsKnown
  <2>2. s.l.reasoning # Live!NoItem => AddedAs(out, s.l.reasoning, {"reasoning"})
    BY <1>1, <1>5, StaysAdded DEF ItemsKnown
  <2> QED
    BY <1>6, <1>8, <1>9, <1>10, <2>1, <2>2 DEF ItemsKnown
<1>12. DoneIn(tools) = DoneIn(s.l.tools) /\ EndsSeen(tools, events)
  BY <1>1, <1>3 DEF DoneIn, EndsSeen
<1>13. LiveSound(t, events)
  BY <1>5, <1>6, <1>11, <1>12 DEF LiveSound
<1> QED
  BY <1>5, <1>6, <1>13 DEF out, x, tools, t

LEMMA LiveEnsuresTool ==
    ASSUME NEW s, NEW events, LiveSound(s, events), NEW callId, NEW name
    PROVE  LET t == Live!EnsureTool(s, callId, name)
               i == Live!ToolAt(t.l, callId)
           IN  LiveSound(t, events) /\ i \in DOMAIN t.l.tools /\ t.l.tools[i].callId = callId
<1> DEFINE t == Live!EnsureTool(s, callId, name)
           i == Live!ToolAt(s.l, callId)
           tool == [callId |-> callId, name |-> name, arguments |-> <<>>, index |-> s.l.next,
                    ended |-> FALSE, custom |-> Live!IsCustom(name)]
           kind == IF tool.custom THEN "custom_tool_call" ELSE "function_call"
<1>0. IsSeq(s.l.tools)
  BY DEF LiveSound, ItemsKnown, CallsAreOne
<1>1. SUFFICES LiveSound(t, events) /\ \E j \in DOMAIN t.l.tools : t.l.tools[j].callId = callId
  <2>1. IsSeq(t.l.tools)
    BY DEF LiveSound, ItemsKnown, CallsAreOne
  <2> HIDE DEF t
  <2> QED
    BY <2>1, ToolAtFacts DEF t
<1>2. CASE i # 0
  <2> DEFINE named == IF s.l.tools[i].name = "" THEN name ELSE s.l.tools[i].name
             custom == s.l.tools[i].custom \/ Live!IsCustom(name)
  <2>1. t = WithName(s, i, named, custom)
    BY <1>2 DEF Live!EnsureTool, WithName
  <2>2. i \in DOMAIN s.l.tools /\ s.l.tools[i].callId = callId
    BY <1>0, <1>2, ToolAtFacts
  <2> HIDE DEF t, i
  <2>3. PICK new, other : t = WithName(s, i, new, other)
    BY <2>1
  <2>4. LiveSound(t, events) /\ Retold(s, t, i)
    BY <2>2, <2>3, ToolNamed
  <2> QED
    BY <2>2, <2>4 DEF Retold
<1>3. CASE i = 0
  <2>1. t = WithTool(s, tool, kind)
    BY <1>3 DEF Live!EnsureTool, WithTool
  <2>2. kind \notin {"message", "reasoning"}
    OBVIOUS
  <2>3. ToolShape(tool) /\ tool.callId = callId /\ tool.index = s.l.next /\ ~tool.ended
    BY DEF ToolShape
  <2>4. \A j \in DOMAIN s.l.tools : s.l.tools[j].callId # callId
    BY <1>0, <1>3, ToolAtFacts
  <2> HIDE DEF kind, tool, t, i
  <2>5. LiveSound(t, events) /\ t.l.tools = Append(s.l.tools, tool)
    BY <2>1, <2>2, <2>3, <2>4, ToolAdded
  <2>6. Len(s.l.tools) + 1 \in DOMAIN t.l.tools /\ t.l.tools[Len(s.l.tools) + 1] = tool
    BY <1>0, <2>5, AppendFacts, SeqFacts
  <2> QED
    BY <2>3, <2>5, <2>6
<1> QED
  BY <1>2, <1>3

LEMMA ShortSeqs ==
    /\ \A x : IsSeq(<<x>>)
    /\ \A x, y : IsSeq(<<x, y>>)
    /\ \A p, x : IsSeq(Live!Optional(p, x))
<1>1. ASSUME NEW x PROVE IsSeq(<<x>>)
  <2>1. <<x>> \in Seq({x})
    OBVIOUS
  <2> QED
    BY <2>1 DEF IsSeq
<1>2. ASSUME NEW x, NEW y PROVE IsSeq(<<x, y>>)
  <2>1. <<x, y>> = Append(<<x>>, y)
    OBVIOUS
  <2>2. IsSeq(Append(<<x>>, y))
    BY <1>1, AppendFacts
  <2> QED
    BY <2>1, <2>2
<1>3. ASSUME NEW p, NEW x PROVE IsSeq(Live!Optional(p, x))
  BY <1>1, EmptyIsSeq DEF Live!Optional
<1> QED
  BY <1>1, <1>2, <1>3

\* What is sent of an item that is not done before it is.
LEMMA SendsOne ==
    ASSUME NEW s, NEW next, NEW done, NEW events, ItemsSound(s, next, done, events),
           NEW x, x.type \in {"part_added", "delta", "text_done", "part_done"},
           IsAdded(s, x.index), x.index \notin done
    PROVE  /\ ItemsSound(Append(s, x), next, done, events)
           /\ Extends(s, Append(s, x)) /\ IsAdded(Append(s, x), x.index)
<1>1. Live!HasIndex(x) /\ x.type # "added" /\ x.type # "item_done"
  BY DEF Live!HasIndex
<1>2. ItemsSound(Append(s, x), next, done \cup {}, events) /\ Extends(s, Append(s, x))
  BY <1>1, SendsMore
<1> QED
  BY <1>2, StaysAdded

LEMMA SendsInputs ==
    ASSUME NEW s, NEW next, NEW done, NEW events, ItemsSound(s, next, done, events),
           NEW tool, NEW arguments, IsAdded(s, tool.index), tool.index \notin done
    PROVE  LET t == s \o Live!Inputs(tool, arguments)
           IN  /\ ItemsSound(t, next, done, events) /\ Extends(s, t)
               /\ IsSeq(Live!Inputs(tool, arguments))
<1> DEFINE input == Live!CustomInput(arguments)
           delta == Live!DeltaOf(tool.index, input)
           whole == Live!TextDone(tool.index, IF tool.custom THEN input ELSE arguments)
           first == Live!Optional(tool.custom /\ input # <<>>, delta)
           t == s \o first
<1>1. /\ delta.type = "delta" /\ delta.index = tool.index
      /\ whole.type = "text_done" /\ whole.index = tool.index
  BY DEF Live!DeltaOf, Live!TextDone
<1>2. first = <<>> \/ first = <<delta>>
  BY DEF Live!Optional
<1>3. IsSeq(s) /\ IsSeq(first)
  BY ShortSeqs DEF ItemsSound, EventsSound
<1>4. Live!Inputs(tool, arguments) = first \o <<whole>> /\ IsSeq(<<whole>>)
  <2>1. tool.custom => Live!Inputs(tool, arguments) = first \o <<whole>>
    BY DEF Live!Inputs, Live!Optional
  <2>2. ~tool.custom => Live!Inputs(tool, arguments) = <<whole>> /\ first = <<>>
    BY DEF Live!Inputs, Live!Optional
  <2>3. <<>> \o <<whole>> = <<whole>>
    BY EmptyIsSeq, ConcatFacts, AppendFacts
  <2> QED
    BY <2>1, <2>2, <2>3, ShortSeqs
<1> HIDE DEF delta, whole, first
<1>5. t = s \/ t = Append(s, delta)
  BY <1>2, <1>3, ConcatFacts
<1>6. IsSeq(t) /\ t \o <<whole>> = s \o (first \o <<whole>>)
  BY <1>3, <1>4, ConcatIsSeq, ConcatAssoc
<1> HIDE DEF t
<1>7. t \o <<whole>> = s \o Live!Inputs(tool, arguments) /\ t \o <<whole>> = Append(t, whole)
  BY <1>4, <1>6, ConcatFacts
<1>11. ItemsSound(t, next, done, events) /\ Extends(s, t) /\ IsAdded(t, tool.index)
  <2>1. CASE t = s
    BY <2>1 DEF Extends
  <2>2. CASE t = Append(s, delta)
    <3>1. /\ ItemsSound(Append(s, delta), next, done, events)
          /\ Extends(s, Append(s, delta)) /\ IsAdded(Append(s, delta), delta.index)
      BY <1>1, SendsOne
    <3> QED
      BY <1>1, <2>2, <3>1
  <2> QED
    BY <1>5, <2>1, <2>2
<1>8. ItemsSound(Append(t, whole), next, done, events) /\ Extends(t, Append(t, whole))
  BY <1>1, <1>11, SendsOne
<1>9. Extends(s, Append(t, whole))
  BY <1>11, <1>8 DEF Extends
<1>10. IsSeq(Live!Inputs(tool, arguments))
  BY <1>3, <1>4, ConcatIsSeq
<1> QED
  BY <1>7, <1>8, <1>9, <1>10

\* An item is done, for the first time.
LEMMA SendsDone ==
    ASSUME NEW s, NEW next, NEW done, NEW events, ItemsSound(s, next, done, events),
           NEW index, IsAdded(s, index), index \notin done, NEW item
    PROVE  LET t == Append(s, Live!ItemDone(index, item))
           IN  ItemsSound(t, next, done \cup {index}, events) /\ Extends(s, t)
<1> DEFINE x == Live!ItemDone(index, item)
<1>1. Live!HasIndex(x) /\ x.type = "item_done" /\ x.index = index
  BY DEF Live!HasIndex, Live!ItemDone
<1> HIDE DEF x
<1>2. /\ ItemsSound(Append(s, x), next, done \cup {index}, events)
      /\ Extends(s, Append(s, x))
  BY <1>1, SendsMore
<1> QED
  BY <1>2 DEF x

-----------------------------------------------------------------------------
(* The arms for calls.                                                      *)

HasId(event) == event.id # ""

\* A delta names its call, and one that has not ended, unless in doubt.
GoesOnFor(event, events) ==
    Live!HasIds(events) =>
        /\ HasId(event)
        /\ \A j \in DOMAIN events : events[j].kind = "end" => events[j].id # event.id
EndsFor(event, events) ==
    Live!HasIds(events) =>
        /\ HasId(event)
        /\ \E j \in DOMAIN events : events[j].kind = "end" /\ events[j].id = event.id

LEMMA LiveOnToolStart ==
    ASSUME NEW s, NEW events, LiveSound(s, events), NEW event
    PROVE  LiveSound(Live!OnToolStart(s, event), events)
<1> DEFINE key == IF event.id # "" THEN event.id ELSE Live!GeneratedKey(s.l)
           ready == Live!EnsureTool(s, key, event.name)
<1>1. Live!OnToolStart(s, event) = ready
  BY DEF Live!OnToolStart
<1> HIDE DEF key
<1>2. LiveSound(ready, events)
  BY LiveEnsuresTool
<1> HIDE DEF ready
<1> QED
  BY <1>1, <1>2

LEMMA LiveOnToolDelta ==
    ASSUME NEW s, NEW events, LiveSound(s, events), NEW event, GoesOnFor(event, events)
    PROVE  LiveSound(Live!OnToolDelta(s, event), events)
<1> DEFINE key == IF event.id # "" THEN event.id ELSE Live!LastKey(s.l)
           unnamed == ""
           ready == Live!EnsureTool(s, key, unnamed)
           i == Live!ToolAt(ready.l, key)
           tool == ready.l.tools[i]
           more == tool.arguments \o event.arguments
           new == [tool EXCEPT !.arguments = more]
           longer == [ready EXCEPT !.l.tools[i].arguments = @ \o event.arguments]
<1>1. Live!OnToolDelta(s, event)
        = IF tool.custom THEN longer ELSE Live!Say(longer, tool.index, event.arguments)
  BY DEF Live!OnToolDelta
<1>2. Live!HasIds(events) => key = event.id
  BY Zenon DEF GoesOnFor, HasId
<1> HIDE DEF key, unnamed
<1>3. LiveSound(ready, events) /\ i \in DOMAIN ready.l.tools /\ tool.callId = key
  BY LiveEnsuresTool
<1> HIDE DEF ready, i
<1>4. LiveShape(ready) /\ ToolShape(tool) /\ CallAdded(ready.out, tool.index)
  BY <1>3 DEF LiveSound, ItemsKnown, CallsAreOne
<1>5. longer = WithCall(ready, i, new)
  BY <1>3, <1>4 DEF LiveShape, WithCall
<1> HIDE DEF longer, tool
<1>6. /\ ToolShape(new) /\ new.index = tool.index /\ new.callId = tool.callId
      /\ new.ended = tool.ended
  BY <1>4, ToolRecord
<1> HIDE DEF new
<1>7. LiveSound(longer, events) /\ Retold(ready, longer, i) /\ longer.l.tools[i] = new
  BY <1>3, <1>5, <1>6, ToolSaid DEF tool
<1>8. IsAdded(longer.out, tool.index)
  <2>1. CallAdded(longer.out, tool.index)
    BY <1>4, <1>7 DEF Retold
  <2> QED
    BY <1>7, <2>1, ItemFacts
<1>9. ASSUME Live!HasIds(events)
      PROVE  tool.index \notin DoneIn(longer.l.tools)
  <2> SUFFICES ASSUME NEW j \in DOMAIN longer.l.tools, longer.l.tools[j].ended,
                      longer.l.tools[j].index = tool.index
               PROVE  FALSE
    BY DEF DoneIn
  <2>1. i \in DOMAIN longer.l.tools /\ CallsAreOne(longer.l.tools) /\ EndsSeen(longer.l.tools, events)
    BY <1>3, <1>7 DEF LiveSound, ItemsKnown, Retold
  <2>2. j = i
    BY <1>6, <1>7, <2>1 DEF CallsAreOne
  <2>3. longer.l.tools[j].callId = event.id
    BY <1>2, <1>3, <1>6, <1>7, <1>9, <2>2
  <2> QED
    BY <1>9, <2>1, <2>3 DEF EndsSeen, GoesOnFor
<1>10. LiveSound(Live!Say(longer, tool.index, event.arguments), events)
  BY <1>7, <1>8, <1>9, LiveSays
<1> QED
  BY <1>1, <1>7, <1>10

WithTools(s, tools, out) == [l |-> [s.l EXCEPT !.tools = tools], out |-> out]

LEMMA ToolsRecord ==
    ASSUME NEW s, LiveShape(s), NEW tools, NEW out
    PROVE  LET t == WithTools(s, tools, out)
           IN  /\ LiveShape(t) /\ t.out = out /\ t.l.tools = tools /\ t.l.next = s.l.next
               /\ t.l.textIndex = s.l.textIndex /\ t.l.reasoning = s.l.reasoning
               /\ t.l.text = s.l.text /\ t.l.thinking = s.l.thinking /\ t.l.filter = s.l.filter
BY DEF LiveShape, WithTools

\* From tools to more, the i-th call has ended.
HasEnded(tools, more, i) ==
    /\ IsSeq(more) /\ DOMAIN more = DOMAIN tools
    /\ \A j \in DOMAIN tools : j # i => more[j] = tools[j]
    /\ ToolShape(more[i]) /\ more[i].ended /\ more[i].arguments = tools[i].arguments
    /\ more[i].callId = tools[i].callId /\ more[i].index = tools[i].index
    /\ more[i].custom = tools[i].custom

LEMMA CallEnds ==
    ASSUME NEW tools, CallsAreOne(tools), NEW i \in DOMAIN tools
    PROVE  HasEnded(tools, [tools EXCEPT ![i].ended = TRUE], i)
<1> DEFINE tool == tools[i]
           ended == [tool EXCEPT !.ended = TRUE]
           more == [tools EXCEPT ![i] = ended]
<1>1. [tools EXCEPT ![i].ended = TRUE] = more
  OBVIOUS
<1>2. ToolShape(tool) /\ IsSeq(tools)
  BY DEF CallsAreOne
<1>3. /\ ToolShape(ended) /\ ended.index = tool.index /\ ended.callId = tool.callId /\ ended.ended
      /\ ended.arguments = tool.arguments /\ ended.custom = tool.custom
  <2> HIDE DEF tool
  <2> QED
    BY <1>2, ToolRecord
<1> HIDE DEF ended
<1>4. /\ IsSeq(more) /\ DOMAIN more = DOMAIN tools /\ more[i] = ended
      /\ \A j \in DOMAIN tools : j # i => more[j] = tools[j]
  BY <1>2, UpdateIsSeq
<1> HIDE DEF more
<1>5. HasEnded(tools, more, i)
  BY <1>3, <1>4 DEF HasEnded
<1> QED
  BY <1>1, <1>5

LEMMA HasEndedFacts ==
    ASSUME NEW tools, NEW more, NEW i \in DOMAIN tools, CallsAreOne(tools), HasEnded(tools, more, i)
    PROVE  /\ CallsAreOne(more) /\ DoneIn(more) = DoneIn(tools) \cup {tools[i].index}
           /\ \A j \in DOMAIN tools : more[j].index = tools[j].index
           /\ \A j \in DOMAIN tools : more[j].callId = tools[j].callId
<1>1. \A j \in DOMAIN tools : /\ ToolShape(more[j]) /\ more[j].index = tools[j].index
                              /\ more[j].callId = tools[j].callId
  BY DEF HasEnded, CallsAreOne
<1>2. CallsAreOne(more)
  BY <1>1 DEF HasEnded, CallsAreOne
<1>3. DoneIn(more) \subseteq DoneIn(tools) \cup {tools[i].index}
  BY <1>1 DEF DoneIn, HasEnded
<1>4. \A j \in DOMAIN tools : tools[j].ended => more[j].ended
  BY DEF HasEnded
<1>5. DoneIn(tools) \subseteq DoneIn(more)
  BY <1>1, <1>4 DEF DoneIn, HasEnded
<1>6. tools[i].index \in DoneIn(more)
  BY <1>1 DEF DoneIn, HasEnded
<1> QED
  BY <1>1, <1>2, <1>3, <1>5, <1>6

LEMMA LiveOnToolEnd ==
    ASSUME NEW s, NEW events, LiveSound(s, events), NEW event, EndsFor(event, events)
    PROVE  LiveSound(Live!OnToolEnd(s, event), events)
<1> DEFINE i == IF HasId(event) THEN Live!ToolAt(s.l, event.id) ELSE Len(s.l.tools)
           tool == s.l.tools[i]
           status == Live!ToolStatus(event.complete /\ Live!AreComplete(tool.arguments))
           item == Live!ToolItem(tool.index, tool.callId, tool.name, tool.arguments, status, tool.custom)
           last == Live!ItemDone(tool.index, item)
           out == s.out \o Live!Inputs(tool, tool.arguments)
           more == [s.l.tools EXCEPT ![i].ended = TRUE]
           all == out \o <<last>>
           t == WithTools(s, more, all)
<1>1. Live!OnToolEnd(s, event) = IF i = 0 \/ tool.ended THEN s ELSE t
  BY Zenon DEF Live!OnToolEnd, HasId, WithTools
<1>2. /\ IsSeq(s.l.tools) /\ CallsAreOne(s.l.tools) /\ LiveShape(s) /\ ItemsKnown(s.l, s.out)
      /\ ItemsSound(s.out, s.l.next, DoneIn(s.l.tools), events) /\ EndsSeen(s.l.tools, events)
  BY DEF LiveSound, ItemsKnown, CallsAreOne
<1>3. i # 0 => i \in DOMAIN s.l.tools /\ (HasId(event) => tool.callId = event.id)
  <2>1. CASE HasId(event)
    BY <1>2, <2>1, ToolAtFacts
  <2>2. CASE ~HasId(event)
    BY <1>2, <2>2, SeqFacts
  <2> QED
    BY <2>1, <2>2
<1> HIDE DEF i, item
<1>4. SUFFICES ASSUME i # 0, ~tool.ended PROVE LiveSound(t, events)
  BY <1>1
<1>5. CallAdded(s.out, tool.index)
  BY <1>2, <1>3, <1>4 DEF ItemsKnown
<1>6. tool.index \notin DoneIn(s.l.tools) /\ IsAdded(s.out, tool.index)
  <2>1. tool.index \notin DoneIn(s.l.tools)
    BY <1>2, <1>3, <1>4 DEF DoneIn, CallsAreOne
  <2> QED
    BY <1>5, <2>1, ItemFacts
<1>7. HasEnded(s.l.tools, more, i)
  BY <1>2, <1>3, <1>4, CallEnds
<1> HIDE DEF more
<1>8. /\ CallsAreOne(more) /\ DoneIn(more) = DoneIn(s.l.tools) \cup {tool.index}
      /\ \A j \in DOMAIN s.l.tools : more[j].index = s.l.tools[j].index
      /\ \A j \in DOMAIN s.l.tools : more[j].callId = s.l.tools[j].callId
      /\ DOMAIN more = DOMAIN s.l.tools
      /\ \A j \in DOMAIN s.l.tools : j # i => more[j] = s.l.tools[j]
  BY <1>2, <1>3, <1>4, <1>7, HasEndedFacts DEF HasEnded
<1>9. ItemsSound(out, s.l.next, DoneIn(s.l.tools), events) /\ Extends(s.out, out)
  <2> HIDE DEF tool
  <2> QED
    BY <1>2, <1>6, SendsInputs
<1>10. all = Append(out, last)
  <2>1. IsSeq(out)
    BY <1>9 DEF ItemsSound, EventsSound
  <2> HIDE DEF out, last
  <2> QED
    BY <2>1, ConcatFacts
<1>11. IsAdded(out, tool.index)
  <2> HIDE DEF tool, out
  <2> QED
    BY <1>6, <1>9, StaysAdded
<1> HIDE DEF out
<1>12. /\ ItemsSound(Append(out, last), s.l.next, DoneIn(s.l.tools) \cup {tool.index}, events)
       /\ Extends(out, Append(out, last))
  <2> HIDE DEF tool
  <2> QED
    BY <1>6, <1>9, <1>11, SendsDone
<1> HIDE DEF last, all
<1>13. /\ LiveShape(t) /\ t.l.tools = more /\ t.l.next = s.l.next /\ t.out = Append(out, last)
       /\ t.l.textIndex = s.l.textIndex /\ t.l.reasoning = s.l.reasoning
  <2>1. LiveShape(s)
    BY <1>2
  <2>2. /\ LiveShape(t) /\ t.l.tools = more /\ t.l.next = s.l.next /\ t.out = all
        /\ t.l.textIndex = s.l.textIndex /\ t.l.reasoning = s.l.reasoning
    BY <2>1, ToolsRecord
  <2> QED
    BY <1>10, <2>2
<1> HIDE DEF t, tool
<1>14. ItemsKnown(t.l, t.out)
  <2>1. Extends(s.out, t.out)
    BY <1>9, <1>12, <1>13 DEF Extends
  <2>2. \A j \in DOMAIN more : CallAdded(t.out, more[j].index)
    BY <1>2, <1>8, <2>1, StaysAdded DEF ItemsKnown
  <2>3. /\ s.l.textIndex # Live!NoItem => AddedAs(t.out, s.l.textIndex, {"message"})
        /\ s.l.reasoning # Live!NoItem => AddedAs(t.out, s.l.reasoning, {"reasoning"})
    BY <1>2, <2>1, StaysAdded DEF ItemsKnown
  <2>4. \A k \in Nat : k < s.l.next =>
            k = s.l.textIndex \/ k = s.l.reasoning \/ \E j \in DOMAIN more : more[j].index = k
    BY <1>2, <1>8 DEF ItemsKnown
  <2> QED
    BY <1>8, <1>13, <2>2, <2>3, <2>4 DEF ItemsKnown
<1>15. EndsSeen(more, events)
  <2> SUFFICES ASSUME Live!HasIds(events), NEW j \in DOMAIN more, more[j].ended
               PROVE  \E e \in DOMAIN events : events[e].kind = "end" /\ events[e].id = more[j].callId
    BY DEF EndsSeen
  <2>1. CASE j = i
    <3>1. HasId(event) /\ more[j].callId = event.id
      BY <1>3, <1>4, <1>8, <2>1 DEF EndsFor, tool
    <3> QED
      BY <3>1 DEF EndsFor
  <2>2. CASE j # i
    BY <1>2, <1>8, <2>2 DEF EndsSeen
  <2> QED
    BY <2>1, <2>2
<1> QED
  BY <1>8, <1>12, <1>13, <1>14, <1>15 DEF LiveSound

\* Whatever the upstream says next.
Follows(event, events) ==
    /\ event.kind \in EventKinds /\ event.kind # "error"
    /\ event.kind = "delta" => GoesOnFor(event, events)
    /\ event.kind = "end" => EndsFor(event, events)

LEMMA LiveOnEvent ==
    ASSUME NEW s, NEW events, LiveSound(s, events), NEW event, Follows(event, events)
    PROVE  LiveSound(Live!OnEvent(s, event), events)
<1>1. CASE event.kind = "text"
  BY <1>1, LiveOnText DEF Live!OnEvent
<1>2. CASE event.kind = "thinking"
  BY <1>2, LiveOnThinking DEF Live!OnEvent
<1>3. CASE event.kind = "start"
  BY <1>3, LiveOnToolStart DEF Live!OnEvent
<1>4. CASE event.kind = "delta"
  BY <1>4, LiveOnToolDelta DEF Live!OnEvent, Follows
<1>5. CASE event.kind = "end"
  BY <1>5, LiveOnToolEnd DEF Live!OnEvent, Follows
<1>6. CASE event.kind = "stop"
  <2> DEFINE t == [s EXCEPT !.l.stop = event.reason]
  <2>1. Live!OnEvent(s, event) = t
    BY <1>6 DEF Live!OnEvent
  <2>2. LiveShape(t) /\ t.out = s.out /\ SameFields(s.l, t.l)
    BY DEF LiveSound, LiveShape, SameFields
  <2> HIDE DEF t
  <2> QED
    BY <2>1, <2>2, FieldsAreItems, OtherSound
<1>7. CASE event.kind = "usage"
  BY <1>7 DEF Live!OnEvent
<1> QED
  BY <1>1, <1>2, <1>3, <1>4, <1>5, <1>6, <1>7 DEF Follows, EventKinds

LEMMA LiveIds == \A events : Live!HasIds(events) <=> OpenAi!HasIds(events)
BY Zenon DEF Live!HasIds, OpenAi!HasIds

\* Of the events that leave no doubt, the last one names a call that has not ended.
LEMMA LastFollows ==
    ASSUME NEW events, IsSeq(events), NEW event, event.kind \in EventKinds, event.kind # "error"
    PROVE  /\ Follows(event, Append(events, event))
           /\ Live!HasIds(Append(events, event)) => Live!HasIds(events)
<1> DEFINE longer == Append(events, event)
           n == Len(events) + 1
           toolIn(s) == {i \in DOMAIN s : s[i].kind \in {"start", "delta", "end"}}
           earlier(s, i) == {j \in toolIn(s) : j < i /\ s[j].id = s[i].id}
           named(s, i) ==
               /\ HasId(s[i])
               /\ \A j \in earlier(s, i) : s[j].kind # "end"
<1>1. /\ Len(events) \in Nat /\ DOMAIN longer = 1..n /\ longer[n] = event /\ n \in DOMAIN longer
      /\ \A i \in DOMAIN longer : i < n \/ i = n
  BY SeqFacts, AppendFacts
<1>2. \A s : Live!HasIds(s) => \A i \in toolIn(s) : named(s, i)
  BY Zenon DEF Live!HasIds, HasId
<1>3. Live!HasIds(longer) => Live!HasIds(events)
  BY LiveIds, IdsBefore
<1> HIDE DEF longer, n
<1>4. ASSUME event.kind = "delta"
      PROVE  GoesOnFor(event, longer)
  <2> SUFFICES ASSUME Live!HasIds(longer)
               PROVE  /\ HasId(event)
                      /\ \A j \in DOMAIN longer : longer[j].kind = "end" => longer[j].id # event.id
    BY DEF GoesOnFor
  <2>1. n \in toolIn(longer)
    BY <1>1, <1>4
  <2>2. HasId(event) /\ \A j \in earlier(longer, n) : longer[j].kind # "end"
    BY <1>1, <1>2, <2>1
  <2>3. ASSUME NEW j \in DOMAIN longer, longer[j].kind = "end", longer[j].id = event.id
        PROVE  FALSE
    <3>1. j < n
      BY <1>1, <1>4, <2>3
    <3>2. j \in earlier(longer, n)
      BY <1>1, <2>3, <3>1
    <3> QED
      BY <2>2, <2>3, <3>2
  <2> QED
    BY <2>2, <2>3
<1>5. ASSUME event.kind = "end"
      PROVE  EndsFor(event, longer)
  <2>1. n \in toolIn(longer)
    BY <1>1, <1>5
  <2>2. Live!HasIds(longer) => HasId(event)
    BY <1>1, <1>2, <2>1
  <2> QED
    BY <1>1, <1>5, <2>2 DEF EndsFor
<1> QED
  BY <1>3, <1>4, <1>5 DEF Follows, longer

-----------------------------------------------------------------------------
(* The end of a stream.                                                     *)

LEMMA LiveSendTail ==
    ASSUME NEW s, NEW events, LiveSound(s, events)
    PROVE  LiveSound(Live!SendTail(s), events)
<1> DEFINE tail == Live!FilterFinish(s.l.filter).output
           ready == Live!EnsureText(s)
           said == ready.l.text \o tail
           longer == [ready EXCEPT !.l.text = said]
           t == Live!Say(longer, ready.l.textIndex, tail)
<1>1. Live!SendTail(s) = IF tail = <<>> THEN s ELSE t
  BY DEF Live!SendTail
<1> HIDE DEF tail
<1>2. LiveSound(ready, events) /\ AddedAs(ready.out, ready.l.textIndex, {"message"})
  BY LiveEnsuresText
<1> HIDE DEF ready, said
<1>3. LiveShape(longer) /\ longer.out = ready.out /\ SameFields(ready.l, longer.l)
  BY <1>2 DEF LiveSound, LiveShape, SameFields
<1> HIDE DEF longer
<1>4. LiveSound(longer, events)
  BY <1>2, <1>3, FieldsAreItems, OtherSound
<1>5. /\ AddedAs(longer.out, ready.l.textIndex, {"message"})
      /\ IsAdded(longer.out, ready.l.textIndex) /\ ready.l.textIndex \notin DoneIn(longer.l.tools)
  BY <1>2, <1>3, <1>4, ItemFacts
<1>6. LiveSound(t, events)
  BY <1>4, <1>5, LiveSays
<1> HIDE DEF t
<1> QED
  BY <1>1, <1>6

LEMMA FirstIsOne ==
    ASSUME NEW positions \in SUBSET Nat, positions # {}
    PROVE  Live!FirstOf(positions) \in positions
<1>1. \E i \in positions : \A j \in positions : i <= j
  BY NatMin
<1> QED
  BY <1>1 DEF Live!FirstOf

LEMMA ConcatAppend ==
    ASSUME NEW a, IsSeq(a), NEW b, IsSeq(b), NEW x
    PROVE  a \o Append(b, x) = Append(a \o b, x)
<1>1. Append(b, x) = b \o <<x>> /\ IsSeq(<<x>>) /\ IsSeq(a \o b)
  BY ConcatFacts, ShortSeqs, ConcatIsSeq
<1>2. a \o (b \o <<x>>) = (a \o b) \o <<x>>
  BY <1>1, ConcatAssoc
<1>3. (a \o b) \o <<x>> = Append(a \o b, x)
  BY <1>1, ConcatFacts
<1> QED
  BY <1>1, <1>2, <1>3

\* From s to t, at most the item of the index was done.
Closes(s, t, next, done, index, events) ==
    \E d : ItemsSound(t, next, d, events) /\ d \subseteq done \cup {index} /\ Extends(s, t)

LEMMA ClosesItself ==
    ASSUME NEW s, NEW next, NEW done, NEW index, NEW events, ItemsSound(s, next, done, events)
    PROVE  Closes(s, s, next, done, index, events)
<1>1. Extends(s, s)
  BY DEF Extends
<1> QED
  BY <1>1 DEF Closes

\* What closes an item: what is said of it at last, and the item, if the response has it.
LEMMA SendsItem ==
    ASSUME NEW s, NEW more, IsSeq(s), IsSeq(more), NEW next, NEW done, NEW index, NEW events,
           ItemsSound(s \o more, next, done, events), Extends(s, s \o more),
           IsAdded(s, index), index \notin done, NEW response
    PROVE  Closes(s, s \o (more \o Live!ItemIn(response, index)), next, done, index, events)
<1> DEFINE t == s \o more
           item == Live!ItemIn(response, index)
           i == Live!FirstOf({i \in DOMAIN response.output : response.output[i].index = index})
           x == response.output[i]
<1>1. item = <<>> \/ item = <<Live!ItemDone(index, x)>>
  BY DEF Live!ItemIn
<1> HIDE DEF item, x
<1>2. IsSeq(item)
  BY <1>1, EmptyIsSeq, ShortSeqs
<1>3. s \o (more \o item) = t \o item
  BY <1>2, ConcatAssoc
<1>4. IsSeq(t) /\ IsAdded(t, index)
  BY StaysAdded, ConcatIsSeq
<1> HIDE DEF t
<1>5. CASE item = <<>>
  <2>1. t \o item = t
    BY <1>4, <1>5, ConcatFacts
  <2> QED
    BY <1>3, <2>1 DEF Closes, item, t
<1>6. CASE item = <<Live!ItemDone(index, x)>>
  <2>1. t \o item = Append(t, Live!ItemDone(index, x))
    BY <1>4, <1>6, ConcatFacts
  <2>2. /\ ItemsSound(Append(t, Live!ItemDone(index, x)), next, done \cup {index}, events)
        /\ Extends(t, Append(t, Live!ItemDone(index, x)))
    BY <1>4, SendsDone DEF t
  <2>3. Extends(s, Append(t, Live!ItemDone(index, x)))
    BY <2>2 DEF Extends, t
  <2>4. Closes(s, Append(t, Live!ItemDone(index, x)), next, done, index, events)
    BY <2>2, <2>3 DEF Closes
  <2> QED
    BY <1>3, <2>1, <2>4 DEF item
<1> QED
  BY <1>1, <1>5, <1>6

LEMMA SendsTexts ==
    ASSUME NEW s, NEW next, NEW done, NEW events, ItemsSound(s, next, done, events),
           NEW index, NEW text, IsAdded(s, index), index \notin done
    PROVE  LET more == <<Live!TextDone(index, text), Live!PartDone(index, text)>>
           IN  ItemsSound(s \o more, next, done, events) /\ Extends(s, s \o more)
<1> DEFINE x == Live!TextDone(index, text)
           y == Live!PartDone(index, text)
           one == Append(s, x)
           two == Append(one, y)
<1>1. x.type = "text_done" /\ x.index = index /\ y.type = "part_done" /\ y.index = index
  BY DEF Live!TextDone, Live!PartDone
<1> HIDE DEF x, y
<1>2. s \o <<x, y>> = two
  BY ConcatFacts DEF ItemsSound, EventsSound
<1>3. ItemsSound(one, next, done, events) /\ Extends(s, one) /\ IsAdded(one, index)
  BY <1>1, SendsOne
<1> HIDE DEF one
<1>4. ItemsSound(two, next, done, events) /\ Extends(one, two)
  BY <1>1, <1>3, SendsOne
<1> HIDE DEF two
<1>5. Extends(s, two)
  BY <1>3, <1>4 DEF Extends
<1> QED
  BY <1>2, <1>4, <1>5 DEF x, y

\* The loop at the end comes to an item when the ones before it are closed.
LEMMA LiveCloses ==
    ASSUME NEW s, NEW events, LiveSound(s, events), NEW out, NEW done,
           ItemsSound(out, s.l.next, done, events), Extends(s.out, out),
           NEW index \in Nat, index < s.l.next,
           NEW Earlier, index \notin Earlier, done \subseteq DoneIn(s.l.tools) \cup Earlier,
           NEW result, NEW response
    PROVE  /\ IsSeq(Live!CloseItem(s.l, result, response, index))
           /\ Closes(out, out \o Live!CloseItem(s.l, result, response, index),
                     s.l.next, done, index, events)
<1> DEFINE item == Live!ItemIn(response, index)
           said == Live!CloseItem(s.l, result, response, index)
           next == s.l.next
<1>0. IsSeq(out) /\ IsSeq(item)
  BY EmptyIsSeq, ShortSeqs DEF ItemsSound, EventsSound, Live!ItemIn
<1>1. /\ ItemsKnown(s.l, s.out) /\ CallsAreOne(s.l.tools)
      /\ index = s.l.textIndex \/ index = s.l.reasoning
         \/ \E i \in DOMAIN s.l.tools : s.l.tools[i].index = index
      /\ index # Live!NoItem
  BY DEF LiveSound, ItemsKnown, Live!NoItem
<1>2. ASSUME index = s.l.textIndex \/ index = s.l.reasoning, NEW text,
             said = <<Live!TextDone(index, text), Live!PartDone(index, text)>> \o item
      PROVE  IsSeq(said) /\ Closes(out, out \o said, next, done, index, events)
  <2> DEFINE more == <<Live!TextDone(index, text), Live!PartDone(index, text)>>
  <2>1. \E kind \in {"message", "reasoning"} : AddedAs(s.out, index, {kind})
    BY <1>1, <1>2 DEF ItemsKnown
  <2>2. IsAdded(s.out, index) /\ index \notin DoneIn(s.l.tools)
    BY <2>1, ItemFacts
  <2>3. IsAdded(out, index) /\ index \notin done
    BY <2>2, StaysAdded
  <2>4. ItemsSound(out \o more, next, done, events) /\ Extends(out, out \o more)
    BY <2>3, SendsTexts
  <2>5. IsSeq(more)
    BY ShortSeqs
  <2> HIDE DEF more
  <2>6. Closes(out, out \o (more \o item), next, done, index, events)
    BY <1>0, <2>3, <2>4, <2>5, SendsItem
  <2>7. IsSeq(more \o item)
    BY <1>0, <2>5, ConcatIsSeq
  <2> QED
    BY <1>2, <2>6, <2>7 DEF more
<1>3. CASE index = s.l.textIndex
  <2>1. said = <<Live!TextDone(index, result.text), Live!PartDone(index, result.text)>> \o item
    BY <1>3 DEF Live!CloseItem
  <2> HIDE DEF said
  <2> QED
    BY <1>2, <1>3, <2>1 DEF said
<1>4. CASE index # s.l.textIndex /\ index = s.l.reasoning
  <2>1. said = <<Live!TextDone(index, s.l.thinking), Live!PartDone(index, s.l.thinking)>> \o item
    BY <1>4 DEF Live!CloseItem
  <2> HIDE DEF said
  <2> QED
    BY <1>2, <1>4, <2>1 DEF said
<1>5. CASE index # s.l.textIndex /\ index # s.l.reasoning
  <2> DEFINE i == Live!ToolIndexed(s.l, index)
             tool == s.l.tools[i]
             call == Live!CallOf(result, tool.callId)
             arguments == IF call = 0 THEN <<>> ELSE result.calls[call].arguments
             more == Live!Inputs(tool, arguments)
  <2>1. said = IF tool.ended THEN <<>> ELSE more \o item
    BY <1>5 DEF Live!CloseItem
  <2>2. i \in DOMAIN s.l.tools /\ tool.index = index
    <3> DEFINE positions == {j \in DOMAIN s.l.tools : s.l.tools[j].index = index}
    <3>1. positions \in SUBSET Nat /\ positions # {}
      BY <1>1, <1>5, SeqFacts DEF CallsAreOne
    <3> HIDE DEF positions
    <3>2. i \in positions
      BY <3>1, FirstIsOne DEF Live!ToolIndexed, positions
    <3> QED
      BY <3>2 DEF positions
  <2> HIDE DEF said, item, i, arguments
  <2>3. CASE tool.ended
    <3>1. said = <<>> /\ out \o <<>> = out
      BY <1>0, <2>1, <2>3, ConcatFacts
    <3> QED
      BY <3>1, ClosesItself, EmptyIsSeq DEF said
  <2>4. CASE ~tool.ended
    <3>1. CallAdded(s.out, index) /\ index \notin DoneIn(s.l.tools)
      BY <1>1, <2>2, <2>4 DEF ItemsKnown, CallsAreOne, DoneIn
    <3>2. IsAdded(out, index) /\ index \notin done
      BY <3>1, ItemFacts, StaysAdded
    <3> HIDE DEF tool
    <3>3. ItemsSound(out \o more, next, done, events) /\ Extends(out, out \o more) /\ IsSeq(more)
      BY <2>2, <3>2, SendsInputs
    <3> HIDE DEF more
    <3>4. Closes(out, out \o (more \o item), next, done, index, events)
      BY <1>0, <3>2, <3>3, SendsItem DEF item
    <3>5. IsSeq(more \o item)
      BY <1>0, <3>3, ConcatIsSeq
    <3> QED
      BY <2>1, <2>4, <3>4, <3>5 DEF said
  <2> QED
    BY <2>3, <2>4
<1> QED
  BY <1>3, <1>4, <1>5

\* The loop: closed[n] has closed the first n items.
ItemLoop(s, result, response, n, closed) ==
    closed = [k \in 0..n |->
                 IF k = 0 THEN s.out ELSE closed[k - 1] \o Live!CloseItem(s.l, result, response, k - 1)]

LEMMA ItemLoopExists ==
    ASSUME NEW s, NEW result, NEW response, NEW n \in Nat
    PROVE  \E closed : ItemLoop(s, result, response, n, closed)
<1> DEFINE Without == {m \in Nat : ~\E closed : ItemLoop(s, result, response, m, closed)}
           piece(k) == Live!CloseItem(s.l, result, response, k)
<1>1. SUFFICES ASSUME Without # {} PROVE FALSE
  OBVIOUS
<1>2. PICK m \in Without : \A j \in Without : m <= j
  <2>1. Without \in SUBSET Nat
    OBVIOUS
  <2> HIDE DEF Without
  <2> QED
    BY <1>1, <2>1, NatMin
<1>3. m \in Nat /\ ~\E closed : ItemLoop(s, result, response, m, closed)
  OBVIOUS
<1>4. CASE m = 0
  <2> DEFINE closed == [k \in 0..m |-> s.out]
  <2>1. ItemLoop(s, result, response, m, closed)
    BY <1>4 DEF ItemLoop
  <2> QED
    BY <1>3, <2>1
<1>5. CASE m > 0
  <2>1. m - 1 \in Nat /\ m - 1 \notin Without
    BY <1>2, <1>3, <1>5
  <2>2. PICK before : ItemLoop(s, result, response, m - 1, before)
    BY <2>1
  <2> DEFINE closed == [k \in 0..m |-> IF k = m THEN before[m - 1] \o piece(m - 1) ELSE before[k]]
  <2>3. \A k \in 0..(m - 1) : before[k] = IF k = 0 THEN s.out ELSE before[k - 1] \o piece(k - 1)
    BY <2>2 DEF ItemLoop
  <2> HIDE DEF piece
  <2>4. \A k \in 0..m : closed[k] = IF k = 0 THEN s.out ELSE closed[k - 1] \o piece(k - 1)
    BY <1>3, <1>5, <2>3
  <2>5. closed = [k \in 0..m |-> closed[k]]
    OBVIOUS
  <2> HIDE DEF closed
  <2>6. ItemLoop(s, result, response, m, closed)
    BY <2>4, <2>5 DEF ItemLoop, piece
  <2> QED
    BY <1>3, <2>6
<1> QED
  BY <1>3, <1>4, <1>5

LEMMA ItemLoopCloses ==
    ASSUME NEW s, NEW events, LiveSound(s, events), NEW result, NEW response,
           NEW closed, ItemLoop(s, result, response, s.l.next, closed), NEW n \in 0..s.l.next
    PROVE  Closes(s.out, closed[n], s.l.next, DoneIn(s.l.tools) \cup 0..(n - 1), n - 1, events)
<1> DEFINE Good(m) == \E d : /\ ItemsSound(closed[m], s.l.next, d, events) /\ Extends(s.out, closed[m])
                             /\ d \subseteq DoneIn(s.l.tools) \cup 0..(m - 1)
           Bad == {m \in 0..s.l.next : ~Good(m)}
<1>1. s.l.next \in Nat /\ ItemsSound(s.out, s.l.next, DoneIn(s.l.tools), events)
  BY ItemFacts DEF LiveSound
<1>2. ASSUME Bad # {} PROVE FALSE
  <2>1. PICK m \in Bad : \A j \in Bad : m <= j
    <3>1. Bad \in SUBSET Nat
      BY <1>1
    <3> HIDE DEF Bad
    <3> QED
      BY <1>2, <3>1, NatMin
  <2>2. m \in 0..s.l.next /\ ~Good(m)
    OBVIOUS
  <2>3. closed[m] = IF m = 0 THEN s.out
                    ELSE closed[m - 1] \o Live!CloseItem(s.l, result, response, m - 1)
    BY <2>2 DEF ItemLoop
  <2>4. CASE m = 0
    <3>1. closed[m] = s.out
      BY <2>3, <2>4
    <3>2. Extends(s.out, s.out)
      BY DEF Extends
    <3> QED
      BY <1>1, <2>2, <3>1, <3>2
  <2>5. CASE m > 0
    <3> DEFINE i == m - 1
    <3>1. i \in Nat /\ i < s.l.next /\ i \in 0..s.l.next /\ m \in Nat /\ ~(m <= i)
      BY <1>1, <2>2, <2>5
    <3>2. Good(i)
      BY <2>1, <3>1
    <3>3. PICK d : /\ ItemsSound(closed[i], s.l.next, d, events) /\ Extends(s.out, closed[i])
                   /\ d \subseteq DoneIn(s.l.tools) \cup 0..(i - 1)
      BY <3>2
    <3>10. m # 0
      BY <3>1, <2>5
    <3>4. closed[m] = closed[i] \o Live!CloseItem(s.l, result, response, i)
      BY <2>3, <3>10
    <3>5. i \notin 0..(i - 1) /\ 0..(i - 1) \cup {i} \subseteq 0..(m - 1)
      BY <3>1
    <3> HIDE DEF i
    <3>6. Closes(closed[i], closed[i] \o Live!CloseItem(s.l, result, response, i),
                 s.l.next, d, i, events)
      BY <3>1, <3>3, <3>5, LiveCloses
    <3>7. PICK e : /\ ItemsSound(closed[m], s.l.next, e, events) /\ Extends(closed[i], closed[m])
                   /\ e \subseteq d \cup {i}
      BY <3>4, <3>6 DEF Closes
    <3>8. Extends(s.out, closed[m])
      BY <3>3, <3>7 DEF Extends
    <3>9. Good(m)
      BY <3>3, <3>5, <3>7, <3>8
    <3> QED
      BY <2>2, <3>9
  <2> QED
    BY <1>1, <2>2, <2>4, <2>5
<1>3. Good(n)
  BY <1>2
<1> QED
  BY <1>3 DEF Closes

\* A response with no item gets a message that is empty.
LEMMA SendsEmpty ==
    ASSUME NEW s, NEW events, ItemsSound(s, 0, {}, events), NEW response
    PROVE  \E done : ItemsSound(s \o Live!EmptyMessage(response), 1, done, events)
<1> DEFINE a == Live!Added(0, "message", "")
           b == Live!PartAdded(0)
           c == Live!TextDone(0, <<>>)
           d == Live!PartDone(0, <<>>)
           item == response.output[1]
           e == Live!ItemDone(0, item)
           s1 == Append(s, a)
           s2 == Append(s1, b)
           s3 == Append(s2, c)
           s4 == Append(s3, d)
           s5 == Append(s4, e)
<1>1. /\ a.type = "added" /\ a.index = 0
      /\ b.type = "part_added" /\ b.index = 0
      /\ c.type = "text_done" /\ c.index = 0
      /\ d.type = "part_done" /\ d.index = 0
  BY DEF Live!Added, Live!PartAdded, Live!TextDone, Live!PartDone
<1>2. Live!EmptyMessage(response) = <<a, b, c, d, e>>
  BY DEF Live!EmptyMessage
<1> HIDE DEF a, b, c, d, item
<1>3. IsSeq(s)
  BY DEF ItemsSound, EventsSound
<1>4. ItemsSound(s1, 0 + 1, {}, events) /\ IsAdded(s1, 0)
  BY <1>1, SendsAdd
<1>5. ItemsSound(s1, 1, {}, events)
  BY <1>4
<1> HIDE DEF s1
<1>6. ItemsSound(s2, 1, {}, events) /\ IsAdded(s2, 0)
  BY <1>1, <1>4, <1>5, SendsOne
<1> HIDE DEF s2
<1>7. ItemsSound(s3, 1, {}, events) /\ IsAdded(s3, 0)
  BY <1>1, <1>6, SendsOne
<1> HIDE DEF s3
<1>8. ItemsSound(s4, 1, {}, events) /\ IsAdded(s4, 0)
  BY <1>1, <1>7, SendsOne
<1> HIDE DEF s4
<1>9. ItemsSound(s5, 1, {} \cup {0}, events)
  BY <1>8, SendsDone
<1> HIDE DEF e
<1>10. s \o <<a, b, c, d, e>> = s5
  <2> DEFINE t2 == <<a, b>>
             t3 == Append(t2, c)
             t4 == Append(t3, d)
             t5 == Append(t4, e)
  <2>1. <<a, b, c, d, e>> = t5
    OBVIOUS
  <2>2. IsSeq(t2) /\ s \o t2 = s2
    BY <1>3, ConcatFacts, ShortSeqs DEF s1, s2
  <2> HIDE DEF t2
  <2>3. IsSeq(t3) /\ s \o t3 = s3
    BY <1>3, <2>2, AppendFacts, ConcatAppend DEF s3
  <2> HIDE DEF t3
  <2>4. IsSeq(t4) /\ s \o t4 = s4
    BY <1>3, <2>3, AppendFacts, ConcatAppend DEF s4
  <2> HIDE DEF t4
  <2>5. s \o t5 = s5
    BY <1>3, <2>4, ConcatAppend
  <2> QED
    BY <2>1, <2>5
<1> QED
  BY <1>2, <1>9, <1>10

\* Whatever the result and the response are.
LEMMA LiveClosed ==
    ASSUME NEW s, NEW events, LiveSound(s, events), NEW result, NEW response
    PROVE  EventsSound(Live!CloseItems(s, result, response), events)
<1> DEFINE out == Live!CloseItems(s, result, response)
           next == s.l.next
<1>1. next \in Nat /\ ItemsSound(s.out, next, DoneIn(s.l.tools), events)
  BY ItemFacts DEF LiveSound
<1>2. CASE next = 0
  <2>1. out = s.out \o Live!EmptyMessage(response)
    BY <1>2 DEF Live!CloseItems
  <2>2. DoneIn(s.l.tools) = {}
    <3>1. \A index \in DoneIn(s.l.tools) : index \in Nat /\ index < next
      BY ItemFacts
    <3> QED
      BY <1>2, <3>1
  <2>3. ItemsSound(s.out, 0, {}, events)
    BY <1>1, <1>2, <2>2
  <2>4. PICK done : ItemsSound(s.out \o Live!EmptyMessage(response), 1, done, events)
    BY <2>3, SendsEmpty
  <2> QED
    BY <2>1, <2>4 DEF ItemsSound
<1>3. CASE next # 0
  <2> DEFINE loop == CHOOSE closed : ItemLoop(s, result, response, next, closed)
  <2>1. ItemLoop(s, result, response, next, loop)
    BY <1>1, ItemLoopExists
  <2>2. out = loop[next]
    BY <1>3, Zenon DEF Live!CloseItems, ItemLoop
  <2>3. next \in 0..next
    BY <1>1
  <2> HIDE DEF loop, out
  <2>4. Closes(s.out, loop[next], next, DoneIn(s.l.tools) \cup 0..(next - 1), next - 1, events)
    BY <2>1, <2>3, ItemLoopCloses
  <2> QED
    BY <2>2, <2>4 DEF Closes, ItemsSound, out
<1> QED
  BY <1>2, <1>3

\* What was sent until the store failed.
LEMMA SoundUntil ==
    ASSUME NEW out, NEW events, EventsSound(out, events), NEW n \in 0..Len(out)
    PROVE  EventsSound(SubSeq(out, 1, n), events)
<1> DEFINE t == SubSeq(out, 1, n)
<1> PICK S : out \in Seq(S)
  BY DEF EventsSound, IsSeq
<1>1. /\ t \in Seq(S) /\ Len(t) = n /\ DOMAIN t = 1..n /\ DOMAIN out = 1..Len(out) /\ Len(out) \in Nat
      /\ \A i \in 1..n : t[i] = out[i]
  OBVIOUS
<1> HIDE DEF t
<1>2. ASSUME NEW i \in DOMAIN t
      PROVE  SoundAt(t, i, events)
  <2>1. i \in 1..n /\ i \in DOMAIN out /\ i \in Nat /\ t[i] = out[i] /\ SoundAt(out, i, events)
    BY <1>1 DEF EventsSound
  <2>2. \A j \in 1..i : t[j] = out[j]
    BY <1>1, <2>1
  <2>3. \A j \in 1..(i - 1) : t[j] = out[j] /\ j \in 1..i /\ \A k \in 1..j : t[k] = out[k]
    BY <2>1, <2>2
  <2>4. {j \in 1..(i - 1) : t[j].type = "added"} = {j \in 1..(i - 1) : out[j].type = "added"}
    BY <2>3
  <2>5. AddAt(t, i)
    BY <2>1, <2>4 DEF SoundAt, AddAt
  <2>6. KnownAt(t, i)
    BY <2>1, <2>2 DEF SoundAt, KnownAt
  <2>7. AfterAt(t, i, events)
    BY <2>1, <2>3 DEF SoundAt, AfterAt
  <2> QED
    BY <2>1, <2>5, <2>6, <2>7 DEF SoundAt
<1>3. IsSeq(t)
  BY <1>1 DEF IsSeq
<1> QED
  BY <1>2, <1>3 DEF EventsSound, t

LEMMA EventsDoubt ==
    ASSUME NEW out, NEW events, EventsSound(out, events),
           NEW more, Live!HasIds(more) => Live!HasIds(events)
    PROVE  EventsSound(out, more)
BY DEF EventsSound, SoundAt, AfterAt

-----------------------------------------------------------------------------
(* The stream.                                                              *)

\* While it goes on, the events that were sent and what the handler remembers fit.
LiveGoesOn == LiveSound([l |-> live, out |-> sent], seen)

\* When it is over, one event followed, and the snapshot has its status.
LiveOver(out, base, last, events) ==
    EventsSound(base, events) /\ out = Append(base, last) /\ last.type = "terminal"

LiveInv ==
    /\ EventSeq(queue) /\ IsSeq(seen)
    /\ \/ LiveGoesOn
       \/ \E base, last : LiveOver(sent, base, last, seen) /\ snapshot.status = last.status

LEMMA LiveStarted ==
    ASSUME Live!Init
    PROVE  LiveInv
<1> DEFINE s == [l |-> live, out |-> sent]
           a == Live!Plain("created")
           b == Live!Plain("in_progress")
<1>1. queue = <<>> /\ seen = <<>> /\ live = Live!NewLive /\ sent = <<a, b>>
  BY DEF Live!Init, Live!StreamInit
<1>2. a.type = "created" /\ b.type = "in_progress"
  BY DEF Live!Plain
<1> HIDE DEF a, b
<1>3. IsSeq(sent) /\ Len(sent) = 2 /\ DOMAIN sent = {1, 2} /\ sent[1] = a /\ sent[2] = b
  BY <1>1, ShortSeqs
<1>4. Adds(sent) = {} /\ Dones(sent) = {}
  BY <1>2, <1>3 DEF Adds, Dones
<1>5. \A i \in DOMAIN sent : SoundAt(sent, i, seen)
  BY <1>2, <1>3 DEF SoundAt, AddAt, KnownAt, AfterAt, Live!HasIndex
<1>6. ItemsSound(sent, 0, {}, seen)
  <2>1. IsFiniteSet({}) /\ Cardinality({}) = 0
    BY FS_EmptySet
  <2>2. EventsSound(sent, seen)
    BY <1>3, <1>5 DEF EventsSound
  <2> QED
    BY <1>4, <2>1, <2>2 DEF ItemsSound
<1>7. /\ live.textIndex = Live!NoItem /\ live.reasoning = Live!NoItem /\ live.tools = <<>>
      /\ live.next = 0 /\ LiveShape(s)
  <2>1. PICK none : live = [textIndex |-> Live!NoItem, reasoning |-> Live!NoItem, tools |-> <<>>,
                            next |-> 0, text |-> <<>>, thinking |-> <<>>, stop |-> none, filter |-> <<>>]
    BY <1>1, Zenon DEF Live!NewLive
  <2> QED
    BY <2>1 DEF LiveShape
<1>8. DOMAIN live.tools = {} /\ IsSeq(live.tools)
  BY <1>7, EmptyIsSeq
<1>9. s.l = live /\ s.out = sent
  OBVIOUS
<1> HIDE DEF s
<1>10. ItemsKnown(live, sent)
  BY <1>7, <1>8 DEF ItemsKnown, CallsAreOne
<1>11. DoneIn(live.tools) = {} /\ EndsSeen(live.tools, seen)
  BY <1>8 DEF DoneIn, EndsSeen
<1>12. LiveSound(s, seen)
  BY <1>6, <1>7, <1>9, <1>10, <1>11 DEF LiveSound
<1> QED
  BY <1>1, <1>12, NoEvents, EmptyIsSeq DEF LiveInv, LiveGoesOn, s

LEMMA LiveDecodes == \A m : Live!DecodeGenerationEvents(m) = Anthropic!DecodeGenerationEvents(m)
BY Zenon DEF Live!DecodeGenerationEvents, Anthropic!DecodeGenerationEvents,
   Live!DecodeToolUse, Anthropic!DecodeToolUse, Live!Optional, Anthropic!Optional,
   Live!TextDelta, Anthropic!TextDelta, Live!ThinkingDelta, Anthropic!ThinkingDelta,
   Live!ToolCallStart, Anthropic!ToolCallStart, Live!ToolCallDelta, Anthropic!ToolCallDelta,
   Live!ToolCallEnd, Anthropic!ToolCallEnd, Live!Stop, Anthropic!Stop,
   Live!Usage, Anthropic!Usage, Live!Error, Anthropic!Error

LEMMA LiveQueueSteps ==
    ASSUME EventSeq(queue), Live!StreamStep
    PROVE  EventSeq(queue') /\ seen' = seen
<1>1. CASE Live!MessageArrives
  BY <1>1, DecodesEvents, LiveDecodes DEF Live!MessageArrives
<1>2. CASE Live!JsonArrives
  BY <1>2, AnswersAreEvents DEF Live!JsonArrives
<1>3. CASE Live!UpstreamEnds
  <2>1. PICK p, stop : queue' = Anthropic!Optional(p, Anthropic!Stop(stop)) /\ seen' = seen
    BY <1>3, Zenon DEF Live!UpstreamEnds, Live!Optional, Anthropic!Optional, Live!Stop, Anthropic!Stop
  <2> QED
    BY <2>1, OptionalEvent, KindsOfEvents
<1>4. CASE Live!UpstreamFails
  BY <1>4 DEF Live!UpstreamFails
<1> QED
  BY <1>1, <1>2, <1>3, <1>4 DEF Live!StreamStep

\* A stream that is over has ended, and one that goes on has not.
LEMMA LiveOverIsEnded ==
    ASSUME NEW base, NEW last, LiveOver(sent, base, last, seen)
    PROVE  /\ Sends(base, last, sent, Len(base) + 1) /\ Live!Ended
<1>1. Sends(base, last, sent, Len(base) + 1)
  BY OneMoreItem DEF LiveOver, EventsSound
<1>2. Len(sent) = Len(base) + 1 /\ Len(sent) \in Nat /\ Len(sent) > 0 /\ sent[Len(sent)] = last /\ IsSeq(sent)
  BY <1>1 DEF Sends
<1>3. sent # <<>>
  BY <1>2, SeqFacts
<1> QED
  BY <1>1, <1>2, <1>3 DEF LiveOver, Live!Ended

LEMMA LiveUntilEnded ==
    ASSUME LiveInv, ~Live!Ended
    PROVE  LiveGoesOn /\ EventsSound(sent, seen) /\ IsSeq(sent)
<1> DEFINE s == [l |-> live, out |-> sent]
<1>1. LiveSound(s, seen)
  BY LiveOverIsEnded DEF LiveInv, LiveGoesOn
<1>2. s.out = sent
  OBVIOUS
<1> HIDE DEF s
<1>3. ItemsSound(sent, s.l.next, DoneIn(s.l.tools), seen)
  BY <1>1, <1>2 DEF LiveSound
<1> QED
  BY <1>1, <1>3 DEF ItemsSound, EventsSound, LiveGoesOn, s

\* An event is taken from the stream.
LEMMA LiveTakes ==
    ASSUME LiveInv, NEW event, Live!Takes(event)
    PROVE  /\ EventSeq(queue') /\ IsSeq(seen') /\ seen' = Append(seen, event)
           /\ event.kind \in EventKinds
           /\ event.kind # "error" => Follows(event, seen')
           /\ Live!HasIds(seen') => Live!HasIds(seen)
<1>1. /\ queue # <<>> /\ event = Head(queue) /\ queue' = Tail(queue)
      /\ seen' = Append(seen, event) /\ IsSeq(seen) /\ EventSeq(queue)
  BY DEF Live!Takes, LiveInv
<1>2. event.kind \in EventKinds /\ EventSeq(queue')
  BY <1>1, EventsTaken
<1>3. IsSeq(seen')
  BY <1>1, AppendFacts
<1>4. event.kind # "error" => Follows(event, seen')
  BY <1>1, <1>2, LastFollows
<1>5. Live!HasIds(seen') => Live!HasIds(seen)
  <2>1. Live!HasIds(Append(seen, event)) => Live!HasIds(seen)
    BY <1>1, LiveIds, IdsBefore
  <2>2. \A more : more = Append(seen, event) => (Live!HasIds(more) => Live!HasIds(seen))
    BY <2>1
  <2> QED
    BY <1>1, <2>2
<1> QED
  BY <1>1, <1>2, <1>3, <1>4, <1>5

\* What one event of the upstream makes of the stream.
LEMMA LiveAfter ==
    ASSUME LiveInv, ~Live!Ended, NEW event, event.kind # "error", Live!Takes(event)
    PROVE  LiveSound(Live!OnEvent([l |-> live, out |-> sent], event), seen')
<1> DEFINE s == [l |-> live, out |-> sent]
<1>1. LiveSound(s, seen)
  BY LiveUntilEnded DEF LiveGoesOn
<1> HIDE DEF s
<1>2. Follows(event, seen') /\ (Live!HasIds(seen') => Live!HasIds(seen))
  BY LiveTakes
<1>3. LiveSound(s, seen')
  <2>1. ItemsSound(s.out, s.l.next, DoneIn(s.l.tools), seen')
    BY <1>1, <1>2, DoubtGrows DEF LiveSound
  <2>2. EndsSeen(s.l.tools, seen')
    <3> SUFFICES ASSUME Live!HasIds(seen'), NEW i \in DOMAIN s.l.tools, s.l.tools[i].ended
                 PROVE  \E j \in DOMAIN seen' : seen'[j].kind = "end" /\ seen'[j].id = s.l.tools[i].callId
      BY DEF EndsSeen
    <3>1. PICK j \in DOMAIN seen : seen[j].kind = "end" /\ seen[j].id = s.l.tools[i].callId
      BY <1>1, <1>2 DEF LiveSound, EndsSeen
    <3>2. seen' = Append(seen, event) /\ IsSeq(seen)
      BY LiveTakes DEF LiveInv
    <3>3. j \in DOMAIN seen' /\ seen'[j] = seen[j]
      BY <3>2, AppendFacts, SeqFacts
    <3> QED
      BY <3>1, <3>3
  <2> QED
    BY <1>1, <2>1, <2>2 DEF LiveSound
<1>4. LiveSound(Live!OnEvent(s, event), seen')
  BY <1>2, <1>3, LiveOnEvent
<1> QED
  BY <1>4 DEF s

LEMMA LiveReceives ==
    ASSUME LiveInv, Live!Receive
    PROVE  LiveInv'
<1> DEFINE s == [l |-> live, out |-> sent]
<1>1. PICK event : /\ ~Live!Ended /\ event.kind # "error" /\ Live!Takes(event)
                   /\ live' = Live!OnEvent(s, event).l
                   /\ sent' = Live!OnEvent(s, event).out
  BY DEF Live!Receive
<1> DEFINE t == Live!OnEvent(s, event)
<1>2. LiveSound(t, seen') /\ live' = t.l /\ sent' = t.out
  BY <1>1, LiveAfter
<1> HIDE DEF s, t
<1>3. t = [l |-> t.l, out |-> t.out]
  BY <1>2 DEF LiveSound, LiveShape
<1>4. LiveGoesOn'
  BY <1>2, <1>3 DEF LiveGoesOn
<1>5. EventSeq(queue') /\ IsSeq(seen')
  BY <1>1, LiveTakes
<1> QED
  BY <1>4, <1>5 DEF LiveInv

\* The last event follows what was sent until then.
LEMMA LiveStops ==
    ASSUME EventSeq(queue'), IsSeq(seen'), NEW base, EventsSound(base, seen'), NEW last,
           sent' = Append(base, last), last.type = "terminal", snapshot'.status = last.status
    PROVE  LiveInv'
<1>1. LiveOver(sent', base, last, seen')
  BY DEF LiveOver
<1> QED
  BY <1>1 DEF LiveInv

\* The stream of the upstream says that it failed, or has nothing more.
LEMMA LiveAtEnd ==
    ASSUME LiveInv, ~Live!Ended,
           Live!Takes(Live!Error) \/ UNCHANGED Live!streamVars
    PROVE  /\ EventSeq(queue') /\ IsSeq(seen') /\ EventsSound(sent, seen')
           /\ IsSeq(sent) /\ Len(sent) \in Nat
<1>1. EventsSound(sent, seen) /\ IsSeq(sent)
  BY LiveUntilEnded
<1>2. CASE Live!Takes(Live!Error)
  <2>1. EventSeq(queue') /\ IsSeq(seen') /\ (Live!HasIds(seen') => Live!HasIds(seen))
    BY <1>2, LiveTakes
  <2> QED
    BY <1>1, <2>1, EventsDoubt, SeqFacts
<1>3. CASE UNCHANGED Live!streamVars
  <2>1. queue' = queue /\ seen' = seen
    BY <1>3 DEF Live!streamVars
  <2> QED
    BY <1>1, <2>1, SeqFacts DEF LiveInv
<1> QED
  BY <1>2, <1>3

LEMMA LiveFails ==
    ASSUME LiveInv, Live!Fail
    PROVE  LiveInv'
<1>1. /\ ~Live!Ended /\ (Live!Takes(Live!Error) \/ UNCHANGED Live!streamVars)
      /\ sent' = Append(sent, Live!Failed) /\ snapshot' = Live!Failed
  BY DEF Live!Fail
<1>2. Live!Failed.type = "terminal"
  BY DEF Live!Failed, Live!Terminal
<1> QED
  BY <1>1, <1>2, LiveAtEnd, LiveStops

\* What is sent at the end.
LEMMA LiveClosing ==
    ASSUME LiveInv, ~Live!Ended
    PROVE  EventsSound(Live!Closing.out, seen)
<1> DEFINE s == [l |-> live, out |-> sent]
           tail == Live!SendTail(s)
           result == Live!Finished(acc)
           response == Live!Response(tail.l, result)
<1>1. LiveSound(s, seen)
  BY LiveUntilEnded DEF LiveGoesOn
<1>2. Live!Closing.out = Live!CloseItems(tail, result, response)
  BY DEF Live!Closing
<1> HIDE DEF s, result
<1>3. LiveSound(tail, seen)
  BY <1>1, LiveSendTail
<1> HIDE DEF tail, response
<1> QED
  BY <1>2, <1>3, LiveClosed

LEMMA LiveFinishes ==
    ASSUME LiveInv, Live!Finish
    PROVE  LiveInv'
<1> DEFINE closing == Live!Closing
           last == Live!Terminal(closing.response.status, closing.response.output)
<1>1. /\ ~Live!Ended /\ UNCHANGED Live!streamVars
      /\ sent' = Append(closing.out, last) /\ snapshot' = closing.response
  BY DEF Live!Finish
<1>2. EventsSound(closing.out, seen)
  BY <1>1, LiveClosing
<1> HIDE DEF closing
<1>3. last.type = "terminal" /\ last.status = closing.response.status
  BY DEF Live!Terminal
<1> HIDE DEF last
<1>4. seen' = seen /\ EventSeq(queue') /\ IsSeq(seen')
  BY <1>1 DEF Live!streamVars, LiveInv
<1>5. EventsSound(closing.out, seen')
  BY <1>2, <1>4
<1> QED
  BY <1>1, <1>3, <1>4, <1>5, LiveStops

\* The store fails: what was sent until then was sound.
LEMMA LiveStopsAfter ==
    ASSUME EventSeq(queue'), IsSeq(seen'), NEW steps, EventsSound(steps, seen'),
           IsSeq(sent), NEW last \in Int, last <= Len(steps), Live!StopAfter(steps, last)
    PROVE  LiveInv'
<1>1. PICK n \in Len(sent)..last : sent' = Append(SubSeq(steps, 1, n), Live!StorageError)
  BY DEF Live!StopAfter
<1>2. Len(sent) \in Nat /\ Len(steps) \in Nat
  BY SeqFacts DEF EventsSound
<1>3. n \in 0..Len(steps)
  BY <1>1, <1>2
<1>4. EventsSound(SubSeq(steps, 1, n), seen')
  BY <1>3, SoundUntil
<1>5. snapshot' = Live!StorageError /\ Live!StorageError.type = "terminal"
  BY DEF Live!StopAfter, Live!StorageError, Live!Terminal
<1> QED
  BY <1>1, <1>4, <1>5, LiveStops

LEMMA LiveStoreFails ==
    ASSUME LiveInv, Live!StoreFails
    PROVE  LiveInv'
<1> DEFINE s == [l |-> live, out |-> sent]
<1>1. PICK event : /\ ~Live!Ended /\ event.kind # "error" /\ Live!Takes(event)
                   /\ Live!StopAfter(Live!OnEvent(s, event).out, Len(Live!OnEvent(s, event).out) - 1)
  BY DEF Live!StoreFails
<1> DEFINE t == Live!OnEvent(s, event)
<1>2. LiveSound(t, seen')
  BY <1>1, LiveAfter
<1>3. IsSeq(sent) /\ EventSeq(queue') /\ IsSeq(seen')
  BY <1>1, LiveTakes, LiveUntilEnded
<1>4. Live!StopAfter(t.out, Len(t.out) - 1)
  BY <1>1
<1> HIDE DEF s, t
<1>5. EventsSound(t.out, seen')
  BY <1>2 DEF LiveSound, ItemsSound
<1>6. Len(t.out) \in Nat
  BY <1>5, SeqFacts DEF EventsSound
<1>7. Len(t.out) - 1 \in Int /\ Len(t.out) - 1 <= Len(t.out)
  BY <1>6
<1> QED
  BY <1>3, <1>4, <1>5, <1>7, LiveStopsAfter

LEMMA LiveStoreFailsAtEnd ==
    ASSUME LiveInv, Live!StoreFailsAtEnd
    PROVE  LiveInv'
<1>1. CASE /\ Live!Takes(Live!Error) \/ UNCHANGED Live!streamVars
           /\ Live!StopAfter(sent, Len(sent))
  <2>1. /\ EventSeq(queue') /\ IsSeq(seen') /\ EventsSound(sent, seen')
        /\ IsSeq(sent) /\ Len(sent) \in Nat
    BY <1>1, LiveAtEnd DEF Live!StoreFailsAtEnd
  <2>2. Len(sent) \in Int /\ Len(sent) <= Len(sent)
    BY <2>1
  <2> QED
    BY <1>1, <2>1, <2>2, LiveStopsAfter
<1>2. CASE UNCHANGED Live!streamVars /\ Live!StopAfter(Live!Closing.out, Len(Live!Closing.out))
  <2> DEFINE out == Live!Closing.out
  <2>1. EventsSound(out, seen) /\ IsSeq(sent)
    BY LiveClosing, LiveUntilEnded DEF Live!StoreFailsAtEnd
  <2>2. Live!StopAfter(out, Len(out)) /\ seen' = seen /\ queue' = queue
    BY <1>2 DEF Live!streamVars
  <2> HIDE DEF out
  <2>3. Len(out) \in Nat
    BY <2>1, SeqFacts DEF EventsSound
  <2>4. Len(out) \in Int /\ Len(out) <= Len(out)
    BY <2>3
  <2>5. EventSeq(queue') /\ IsSeq(seen') /\ EventsSound(out, seen')
    BY <2>1, <2>2 DEF LiveInv
  <2> QED
    BY <2>1, <2>2, <2>4, <2>5, LiveStopsAfter
<1> QED
  BY <1>1, <1>2 DEF Live!StoreFailsAtEnd

LEMMA LiveUnchanged ==
    ASSUME LiveInv, UNCHANGED <<seen, queue, live, sent, snapshot>>
    PROVE  LiveInv'
BY DEF LiveInv, LiveGoesOn

LEMMA LiveSteps ==
    ASSUME LiveInv, Live!Next
    PROVE  LiveInv'
<1>1. CASE Live!StreamStep /\ UNCHANGED <<acc, live, snapshot, sent>>
  <2>1. EventSeq(queue') /\ seen' = seen
    BY <1>1, LiveQueueSteps DEF LiveInv
  <2> QED
    BY <1>1, <2>1 DEF LiveInv, LiveGoesOn
<1>2. CASE Live!Done
  BY <1>2, LiveUnchanged DEF Live!Done, Live!vars, Live!streamVars
<1> QED
  BY <1>1, <1>2, LiveReceives, LiveFails, LiveFinishes, LiveStoreFails, LiveStoreFailsAtEnd
  DEF Live!Next

LEMMA LiveCardinality == \A S : Live!Cardinality(S) = Cardinality(S)
BY DEF Live!Cardinality, Cardinality

\* The two halves of ItemsAreSound and EndsOnce, event by event.
LEMMA LiveEventByEvent ==
    ASSUME IsSeq(sent), \A i \in DOMAIN sent : AddAt(sent, i) /\ KnownAt(sent, i) /\ AfterAt(sent, i, seen)
    PROVE  Live!ItemsAreSound
<1>1. DOMAIN sent = 1..Len(sent) /\ Len(sent) \in Nat
  BY SeqFacts
<1>2. ASSUME NEW i \in DOMAIN sent, sent[i].type = "item_done",
             NEW j \in (i + 1)..Len(sent), Live!IsOf(sent[j], sent[i].index)
      PROVE  /\ sent[j].type # "item_done" /\ ~Live!HasIds(seen)
             /\ \E k \in 1..i : /\ sent[k].type = "added" /\ sent[k].index = sent[i].index
                                /\ sent[k].kind \notin {"message", "reasoning"}
  <2>1. j \in DOMAIN sent /\ i \in 1..(j - 1)
    BY <1>1
  <2>2. AfterAt(sent, j, seen) /\ Live!HasIndex(sent[j]) /\ sent[j].index = sent[i].index
    BY <1>2, <2>1 DEF Live!IsOf
  <2> QED
    BY <1>2, <2>1, <2>2 DEF AfterAt
<1> QED
  BY <1>1, <1>2, LiveCardinality DEF AddAt, KnownAt, Live!ItemsAreSound

LEMMA LivePromises ==
    ASSUME LiveInv
    PROVE  Live!ItemsAreSound /\ Live!EndsOnce
<1>1. CASE LiveGoesOn
  <2> DEFINE s == [l |-> live, out |-> sent]
  <2>1. LiveSound(s, seen) /\ s.out = sent
    BY <1>1 DEF LiveGoesOn
  <2> HIDE DEF s
  <2>2. EventsSound(sent, seen)
    BY <2>1 DEF LiveSound, ItemsSound
  <2>3. Live!ItemsAreSound
    BY <2>2, LiveEventByEvent DEF EventsSound, SoundAt
  <2>4. ~Live!Ended
    BY <2>2, SeqFacts DEF EventsSound, SoundAt, Live!Ended
  <2> QED
    BY <2>2, <2>3, <2>4 DEF EventsSound, SoundAt, Live!EndsOnce
<1>2. CASE \E base, last : LiveOver(sent, base, last, seen) /\ snapshot.status = last.status
  <2>1. PICK base, last : LiveOver(sent, base, last, seen) /\ snapshot.status = last.status
    BY <1>2
  <2> DEFINE n == Len(base) + 1
  <2>2. Sends(base, last, sent, n)
    BY <2>1, LiveOverIsEnded
  <2>3. /\ IsSeq(sent) /\ IsSeq(base) /\ Len(sent) = n /\ n \in Nat /\ DOMAIN sent = 1..n
        /\ sent[n] = last /\ DOMAIN base = 1..(n - 1) /\ Len(base) = n - 1
        /\ \A i \in DOMAIN sent : i \in 1..(n - 1) \/ i = n
        /\ sent = Append(base, last) /\ last.type = "terminal" /\ EventsSound(base, seen)
        /\ \A i \in 1..(n - 1) : sent[i] = base[i]
    BY <2>1, <2>2 DEF Sends, LiveOver
  <2> HIDE DEF n
  <2>4. \A i \in 1..(n - 1) : SoundAt(sent, i, seen)
    BY <2>3, SoundBefore DEF EventsSound
  <2>5. AddAt(sent, n) /\ KnownAt(sent, n) /\ AfterAt(sent, n, seen)
    BY <2>3 DEF AddAt, KnownAt, AfterAt, Live!HasIndex
  <2>6. Live!ItemsAreSound
    BY <2>3, <2>4, <2>5, LiveEventByEvent DEF SoundAt
  <2>7. \A i \in 1..(n - 1) : sent[i].type # "terminal"
    BY <2>4 DEF SoundAt
  <2> QED
    BY <2>1, <2>3, <2>6, <2>7 DEF Live!EndsOnce
<1> QED
  BY <1>1, <1>2 DEF LiveInv

-----------------------------------------------------------------------------
(* The theorems.                                                            *)

ResponsesInv == interface = "responses" => LiveInv

LEMMA ResponsesInvSteps == ResponsesInv /\ [InterfaceNext]_allVars => ResponsesInv'
<1> SUFFICES ASSUME ResponsesInv, [InterfaceNext]_allVars PROVE ResponsesInv'
  OBVIOUS
<1>1. CASE InterfaceNext
  BY <1>1, LiveSteps DEF InterfaceNext, ResponsesInv
<1>2. CASE UNCHANGED allVars
  BY <1>2, LiveUnchanged DEF allVars, streamed, ResponsesInv
<1> QED
  BY <1>1, <1>2

THEOREM ResponsesInvariant == InterfaceSpec => []ResponsesInv
<1>1. InterfaceInit => ResponsesInv
  BY LiveStarted DEF InterfaceInit, ResponsesInv
<1> QED
  BY <1>1, ResponsesInvSteps, PTL DEF InterfaceSpec

\* Responses: whatever the upstream sends, and whenever the store fails, items come with the
\* indexes 0, 1, 2, ..., each is added once and before anything else is said of it, nothing
\* is said of it when it is done, and one terminal event ends the stream (live.rs:257-677).
THEOREM ItemsAreSoundHolds == InterfaceSpec => []ItemsAreSound
<1>1. ResponsesInv => ItemsAreSound
  BY LivePromises DEF ResponsesInv, ItemsAreSound
<1> QED
  BY <1>1, ResponsesInvariant, PTL

-----------------------------------------------------------------------------
(* What was said of an item: its deltas, put together.                      *)

IsDelta(event, index) == Live!IsOf(event, index) /\ event.type = "delta"
SaysLoop(out, index, n, joined) ==
    joined = [k \in 0..n |->
                 IF k = 0 THEN <<>>
                 ELSE IF IsDelta(out[k], index) THEN joined[k - 1] \o out[k].text
                 ELSE joined[k - 1]]
Said(out, index) ==
    LET joined[n \in 0..Len(out)] ==
            IF n = 0 THEN <<>>
            ELSE IF IsDelta(out[n], index) THEN joined[n - 1] \o out[n].text
            ELSE joined[n - 1]
    IN  joined[Len(out)]

\* The texts of the deltas are sequences.
DeltasAre(out) == IsSeq(out) /\ \A i \in DOMAIN out : out[i].type = "delta" => IsSeq(out[i].text)

LEMMA DeltasAreSaid == \A index : Live!Deltas(index) = Said(sent, index)
BY Zenon DEF Live!Deltas, Said, IsDelta

LEMMA SaysLoopExists ==
    ASSUME NEW out, NEW index, NEW n \in Nat
    PROVE  \E joined : SaysLoop(out, index, n, joined)
<1> DEFINE Without == {m \in Nat : ~\E joined : SaysLoop(out, index, m, joined)}
           more(text, k) == IF IsDelta(out[k], index) THEN text \o out[k].text ELSE text
<1>1. SUFFICES ASSUME Without # {} PROVE FALSE
  OBVIOUS
<1>2. PICK m \in Without : \A j \in Without : m <= j
  <2>1. Without \in SUBSET Nat
    OBVIOUS
  <2> HIDE DEF Without
  <2> QED
    BY <1>1, <2>1, NatMin
<1>3. m \in Nat /\ ~\E joined : SaysLoop(out, index, m, joined)
  OBVIOUS
<1>4. CASE m = 0
  <2> DEFINE joined == [k \in 0..m |-> <<>>]
  <2>1. SaysLoop(out, index, m, joined)
    BY <1>4 DEF SaysLoop
  <2> QED
    BY <1>3, <2>1
<1>5. CASE m > 0
  <2>1. m - 1 \in Nat /\ m - 1 \notin Without
    BY <1>2, <1>3, <1>5
  <2>2. PICK before : SaysLoop(out, index, m - 1, before)
    BY <2>1
  <2> DEFINE joined == [k \in 0..m |-> IF k = m THEN more(before[m - 1], m) ELSE before[k]]
  <2>3. \A k \in 0..(m - 1) : before[k] = IF k = 0 THEN <<>> ELSE more(before[k - 1], k)
    BY <2>2 DEF SaysLoop
  <2> HIDE DEF more
  <2>4. \A k \in 0..m : joined[k] = IF k = 0 THEN <<>> ELSE more(joined[k - 1], k)
    BY <1>3, <1>5, <2>3
  <2>5. joined = [k \in 0..m |-> joined[k]]
    OBVIOUS
  <2> HIDE DEF joined
  <2>6. SaysLoop(out, index, m, joined)
    BY <2>4, <2>5 DEF SaysLoop, more
  <2> QED
    BY <1>3, <2>6
<1> QED
  BY <1>3, <1>4, <1>5

LEMMA SaidIsTheLoop ==
    ASSUME NEW out, IsSeq(out), NEW index
    PROVE  \E joined : SaysLoop(out, index, Len(out), joined) /\ Said(out, index) = joined[Len(out)]
<1> DEFINE joined == CHOOSE joined : SaysLoop(out, index, Len(out), joined)
<1>1. Len(out) \in Nat
  BY SeqFacts
<1>2. SaysLoop(out, index, Len(out), joined)
  BY <1>1, SaysLoopExists
<1>3. Said(out, index) = joined[Len(out)]
  BY Zenon DEF Said, SaysLoop
<1> HIDE DEF joined
<1> QED
  BY <1>2, <1>3

\* Two such loops over events that are the same so far agree so far.
Agrees(a, b, k) == a[k] = b[k] /\ IsSeq(a[k])

LEMMA LoopsAgree ==
    ASSUME NEW s, NEW t, NEW index, NEW n \in Nat, NEW m \in Nat, n <= m,
           NEW a, SaysLoop(s, index, n, a), NEW b, SaysLoop(t, index, m, b),
           \A i \in 1..n : s[i] = t[i] /\ (s[i].type = "delta" => IsSeq(s[i].text))
    PROVE  \A k \in 0..n : Agrees(a, b, k)
<1> DEFINE Bad == {k \in 0..n : ~Agrees(a, b, k)}
<1>1. SUFFICES ASSUME Bad # {} PROVE FALSE
  OBVIOUS
<1>2. PICK k \in Bad : \A j \in Bad : k <= j
  <2>1. Bad \in SUBSET Nat
    OBVIOUS
  <2> HIDE DEF Bad
  <2> QED
    BY <1>1, <2>1, NatMin
<1>3. k \in 0..n /\ ~Agrees(a, b, k) /\ k \in Nat /\ k \in 0..m
  OBVIOUS
<1>4. /\ a[k] = IF k = 0 THEN <<>> ELSE IF IsDelta(s[k], index) THEN a[k - 1] \o s[k].text ELSE a[k - 1]
      /\ b[k] = IF k = 0 THEN <<>> ELSE IF IsDelta(t[k], index) THEN b[k - 1] \o t[k].text ELSE b[k - 1]
  BY <1>3 DEF SaysLoop
<1>5. CASE k = 0
  BY <1>3, <1>4, <1>5, EmptyIsSeq DEF Agrees
<1>6. CASE k # 0
  <2>1. k - 1 \in 0..n /\ k - 1 \notin Bad
    BY <1>2, <1>3, <1>6
  <2>2. Agrees(a, b, k - 1)
    BY <2>1
  <2>3. s[k] = t[k] /\ (s[k].type = "delta" => IsSeq(s[k].text))
    BY <1>3, <1>6
  <2>4. CASE IsDelta(s[k], index)
    <3>1. a[k] = a[k - 1] \o s[k].text /\ b[k] = b[k - 1] \o s[k].text
      BY <1>4, <1>6, <2>3, <2>4
    <3>2. IsSeq(a[k - 1]) /\ IsSeq(s[k].text) /\ a[k - 1] = b[k - 1]
      BY <2>2, <2>3, <2>4 DEF Agrees, IsDelta
    <3>3. IsSeq(a[k - 1] \o s[k].text)
      BY <3>2, ConcatIsSeq
    <3> QED
      BY <1>3, <3>1, <3>2, <3>3 DEF Agrees
  <2>5. CASE ~IsDelta(s[k], index)
    BY <1>3, <1>4, <1>6, <2>2, <2>3, <2>5 DEF Agrees
  <2> QED
    BY <2>4, <2>5
<1> QED
  BY <1>5, <1>6

\* One more event, and what it says.
LEMMA SaidAfter ==
    ASSUME NEW out, DeltasAre(out), NEW x, x.type = "delta" => IsSeq(x.text), NEW index
    PROVE  /\ DeltasAre(Append(out, x)) /\ IsSeq(Said(out, index))
           /\ IsDelta(x, index) => Said(Append(out, x), index) = Said(out, index) \o x.text
           /\ ~IsDelta(x, index) => Said(Append(out, x), index) = Said(out, index)
<1> DEFINE t == Append(out, x)
           n == Len(out)
<1>1. /\ IsSeq(out) /\ IsSeq(t) /\ n \in Nat /\ Len(t) = n + 1 /\ t[n + 1] = x
      /\ DOMAIN out = 1..n /\ DOMAIN t = 1..(n + 1)
      /\ \A i \in 1..n : t[i] = out[i]
      /\ \A i \in DOMAIN t : i \in 1..n \/ i = n + 1
  BY SeqFacts, AppendFacts DEF DeltasAre
<1>2. \A i \in 1..n : out[i].type = "delta" => IsSeq(out[i].text)
  BY <1>1 DEF DeltasAre
<1> HIDE DEF t, n
<1>3. DeltasAre(t)
  BY <1>1, <1>2 DEF DeltasAre
<1>4. PICK a : SaysLoop(out, index, n, a) /\ Said(out, index) = a[n]
  BY <1>1, SaidIsTheLoop DEF n
<1>5. PICK b : SaysLoop(t, index, n + 1, b) /\ Said(t, index) = b[n + 1]
  BY <1>1, SaidIsTheLoop
<1>6. \A k \in 0..n : Agrees(a, b, k)
  <2>1. n <= n + 1 /\ n + 1 \in Nat
    BY <1>1
  <2>2. \A i \in 1..n : out[i] = t[i] /\ (out[i].type = "delta" => IsSeq(out[i].text))
    BY <1>1, <1>2
  <2> QED
    BY <1>1, <1>4, <1>5, <2>1, <2>2, LoopsAgree
<1>7. a[n] = b[n] /\ IsSeq(a[n])
  BY <1>1, <1>6 DEF Agrees
<1>8. b[n + 1] = IF IsDelta(x, index) THEN b[n] \o x.text ELSE b[n]
  <2>1. n + 1 \in 0..(n + 1) /\ n + 1 # 0 /\ (n + 1) - 1 = n
    BY <1>1
  <2> QED
    BY <1>1, <1>5, <2>1 DEF SaysLoop
<1> QED
  BY <1>3, <1>4, <1>5, <1>7, <1>8 DEF t

\* Nothing is said of an item that was not added.
LEMMA NothingSaid ==
    ASSUME NEW out, DeltasAre(out), NEW index, \A i \in DOMAIN out : ~IsDelta(out[i], index)
    PROVE  Said(out, index) = <<>>
<1>1. PICK a : SaysLoop(out, index, Len(out), a) /\ Said(out, index) = a[Len(out)]
  BY SaidIsTheLoop DEF DeltasAre
<1> DEFINE n == Len(out)
<1>2. n \in Nat /\ DOMAIN out = 1..n
  BY SeqFacts DEF DeltasAre
<1> DEFINE Bad == {k \in 0..n : a[k] # <<>>}
<1>3. SUFFICES ASSUME Bad # {} PROVE FALSE
  BY <1>1, <1>2
<1> HIDE DEF n
<1>4. PICK k \in Bad : \A j \in Bad : k <= j
  <2>1. Bad \in SUBSET Nat
    BY <1>2
  <2> HIDE DEF Bad
  <2> QED
    BY <1>3, <2>1, NatMin
<1>5. k \in 0..n /\ a[k] # <<>>
  OBVIOUS
<1>6. a[k] = IF k = 0 THEN <<>> ELSE IF IsDelta(out[k], index) THEN a[k - 1] \o out[k].text ELSE a[k - 1]
  BY <1>1, <1>5 DEF SaysLoop, n
<1>7. k # 0 /\ k \in DOMAIN out
  BY <1>2, <1>5, <1>6
<1>8. k - 1 \in 0..n /\ k - 1 \notin Bad
  BY <1>2, <1>4, <1>5, <1>7
<1> QED
  BY <1>5, <1>6, <1>7, <1>8

\* From out to more nothing was said, or this of the item at index.
SaysSame(out, more) ==
    DeltasAre(more) /\ \A index : Said(more, index) = Said(out, index) /\ IsSeq(Said(out, index))
SaysOn(out, more, index, text) ==
    /\ DeltasAre(more) /\ Said(more, index) = Said(out, index) \o text
    /\ \A k : k # index => Said(more, k) = Said(out, k)
    /\ \A k : IsSeq(Said(out, k)) /\ IsSeq(Said(more, k))

LEMMA SaysNothing ==
    ASSUME NEW out, DeltasAre(out), NEW x, x.type # "delta"
    PROVE  SaysSame(out, Append(out, x)) /\ SaysSame(out, out)
<1>1. \A index : ~IsDelta(x, index)
  BY DEF IsDelta
<1> DEFINE t == Append(out, x)
<1>2. \A index : /\ DeltasAre(t) /\ IsSeq(Said(out, index))
                 /\ ~IsDelta(x, index) => Said(t, index) = Said(out, index)
  BY SaidAfter
<1> HIDE DEF t
<1>3. SaysSame(out, t) /\ SaysSame(out, out)
  BY <1>1, <1>2 DEF SaysSame
<1> QED
  BY <1>3 DEF t

LEMMA SaysSameTwice ==
    ASSUME NEW a, NEW b, SaysSame(a, b), NEW c, SaysSame(b, c)
    PROVE  SaysSame(a, c)
BY DEF SaysSame

LEMMA SaidEmpty ==
    ASSUME NEW a, IsSeq(a)
    PROVE  a \o <<>> = a /\ <<>> \o a = a
BY ConcatFacts, EmptyIsSeq

LEMMA SaysDelta ==
    ASSUME NEW out, DeltasAre(out), NEW index, NEW text, IsSeq(text)
    PROVE  SaysOn(out, Append(out, Live!DeltaOf(index, text)), index, text)
<1> DEFINE x == Live!DeltaOf(index, text)
           t == Append(out, x)
<1>1. x.type = "delta" /\ x.text = text /\ x.index = index /\ Live!HasIndex(x)
  BY DEF Live!DeltaOf, Live!HasIndex
<1> HIDE DEF x
<1>2. \A k : IsDelta(x, k) <=> k = index
  BY <1>1 DEF IsDelta, Live!IsOf
<1>3. \A k : /\ DeltasAre(t) /\ IsSeq(Said(out, k))
             /\ IsDelta(x, k) => Said(t, k) = Said(out, k) \o x.text
             /\ ~IsDelta(x, k) => Said(t, k) = Said(out, k)
  BY <1>1, SaidAfter
<1> HIDE DEF t
<1>4. /\ DeltasAre(t) /\ Said(t, index) = Said(out, index) \o text
      /\ \A k : k # index => Said(t, k) = Said(out, k)
      /\ \A k : IsSeq(Said(out, k))
  BY <1>1, <1>2, <1>3
<1>5. IsSeq(Said(t, index))
  BY <1>4, ConcatIsSeq
<1>6. \A k : IsSeq(Said(t, k))
  BY <1>4, <1>5
<1>7. SaysOn(out, t, index, text)
  BY <1>4, <1>6 DEF SaysOn
<1> QED
  BY <1>7 DEF t, x

LEMMA SaysText ==
    ASSUME NEW s, LiveShape(s), DeltasAre(s.out), NEW index, NEW text, IsSeq(text)
    PROVE  /\ SaysOn(s.out, Live!Say(s, index, text).out, index, text)
           /\ Live!Say(s, index, text).l = s.l
<1> DEFINE t == Live!Say(s, index, text)
<1>1. CASE text = <<>>
  <2>1. t = s
    BY <1>1 DEF Live!Say
  <2>2. PICK x : x.type # "delta"
    <3>1. Live!Plain("created").type # "delta"
      BY DEF Live!Plain
    <3> QED
      BY <3>1
  <2>3. \A k : IsSeq(Said(s.out, k)) /\ Said(s.out, k) \o <<>> = Said(s.out, k)
    BY <2>2, SaysNothing, SaidEmpty DEF SaysSame
  <2> HIDE DEF t
  <2> QED
    BY <1>1, <2>1, <2>3 DEF SaysOn, t
<1>2. CASE text # <<>>
  <2>1. t = [s EXCEPT !.out = Append(@, Live!DeltaOf(index, text))]
    BY <1>2 DEF Live!Say
  <2>2. t.out = Append(s.out, Live!DeltaOf(index, text)) /\ t.l = s.l
    BY <2>1 DEF LiveShape
  <2>3. SaysOn(s.out, Append(s.out, Live!DeltaOf(index, text)), index, text)
    BY SaysDelta
  <2> HIDE DEF t
  <2> QED
    BY <2>2, <2>3 DEF t
<1> QED
  BY <1>1, <1>2

-----------------------------------------------------------------------------
(* What the state remembers of the texts.                                   *)

CallSaid(tool, out) ==
    IsSeq(tool.arguments) /\ (~tool.custom => tool.arguments = Said(out, tool.index))
TextsSound(s) ==
    /\ DeltasAre(s.out)
    /\ s.l.filter \in Seq(STRING)
    /\ IsSeq(s.l.text) /\ s.l.text = Said(s.out, s.l.textIndex)
    /\ IsSeq(s.l.thinking) /\ s.l.thinking = Said(s.out, s.l.reasoning)
    /\ \A i \in DOMAIN s.l.tools : CallSaid(s.l.tools[i], s.out)

LEMMA UnsaidBefore ==
    ASSUME NEW s, NEW events, LiveSound(s, events), DeltasAre(s.out)
    PROVE  /\ \A index : ~IsAdded(s.out, index) => Said(s.out, index) = <<>>
           /\ Said(s.out, Live!NoItem) = <<>> /\ Said(s.out, s.l.next) = <<>>
<1>1. ASSUME NEW index, ~IsAdded(s.out, index), NEW i \in DOMAIN s.out, IsDelta(s.out[i], index)
      PROVE  FALSE
  <2>1. SoundAt(s.out, i, events) /\ DOMAIN s.out = 1..Len(s.out) /\ Len(s.out) \in Nat
    BY SeqFacts DEF LiveSound, ItemsSound, EventsSound
  <2>2. Live!HasIndex(s.out[i]) /\ s.out[i].index = index
    BY <1>1 DEF IsDelta, Live!IsOf
  <2>3. PICK j \in 1..i : s.out[j].type = "added" /\ s.out[j].index = index
    BY <2>1, <2>2 DEF SoundAt, KnownAt
  <2>4. j \in DOMAIN s.out
    BY <2>1, <2>3
  <2> QED
    BY <1>1, <2>3, <2>4 DEF IsAdded, Adds
<1>2. \A index : ~IsAdded(s.out, index) => Said(s.out, index) = <<>>
  BY <1>1, NothingSaid
<1>3. ~IsAdded(s.out, Live!NoItem) /\ ~IsAdded(s.out, s.l.next)
  BY ItemFacts DEF Live!NoItem
<1> QED
  BY <1>2, <1>3

\* The items of a state are different ones.
LEMMA ItemsDiffer ==
    ASSUME NEW s, NEW events, LiveSound(s, events)
    PROVE  /\ s.l.textIndex # Live!NoItem => s.l.textIndex # s.l.reasoning
           /\ s.l.textIndex # Live!NoItem => \A i \in DOMAIN s.l.tools : s.l.tools[i].index # s.l.textIndex
           /\ s.l.reasoning # Live!NoItem => \A i \in DOMAIN s.l.tools : s.l.tools[i].index # s.l.reasoning
           /\ \A i \in DOMAIN s.l.tools : /\ s.l.tools[i].index # Live!NoItem
                                          /\ s.l.tools[i].index # s.l.textIndex
                                          /\ s.l.tools[i].index # s.l.reasoning
           /\ \A i, j \in DOMAIN s.l.tools : i # j => s.l.tools[i].index # s.l.tools[j].index
<1>1. ItemsKnown(s.l, s.out)
  BY DEF LiveSound
<1>2. \A i \in DOMAIN s.l.tools : CallAdded(s.out, s.l.tools[i].index)
  BY <1>1 DEF ItemsKnown
<1>3. \A i \in DOMAIN s.l.tools : s.l.tools[i].index \in Nat
  BY <1>2, ItemFacts
<1>4. /\ s.l.textIndex # Live!NoItem => AddedAs(s.out, s.l.textIndex, {"message"})
      /\ s.l.reasoning # Live!NoItem => AddedAs(s.out, s.l.reasoning, {"reasoning"})
  BY <1>1 DEF ItemsKnown
<1>5. /\ \A index : AddedAs(s.out, index, {"message"}) => ~CallAdded(s.out, index)
      /\ \A index : AddedAs(s.out, index, {"reasoning"}) => ~CallAdded(s.out, index)
      /\ \A index : ~(AddedAs(s.out, index, {"message"}) /\ AddedAs(s.out, index, {"reasoning"}))
  <2>1. {"message"} \subseteq {"message", "reasoning"} /\ {"reasoning"} \subseteq {"message", "reasoning"}
    OBVIOUS
  <2> QED
    BY <2>1, ItemFacts
<1>6. /\ s.l.textIndex # Live!NoItem => \A i \in DOMAIN s.l.tools : s.l.tools[i].index # s.l.textIndex
      /\ s.l.reasoning # Live!NoItem => \A i \in DOMAIN s.l.tools : s.l.tools[i].index # s.l.reasoning
  BY <1>2, <1>4, <1>5
<1>7. s.l.textIndex # Live!NoItem => s.l.textIndex # s.l.reasoning
  BY <1>4, <1>5
<1>8. \A i \in DOMAIN s.l.tools : s.l.tools[i].index # Live!NoItem
  BY <1>3 DEF Live!NoItem
<1> QED
  BY <1>1, <1>6, <1>7, <1>8 DEF ItemsKnown, CallsAreOne

LEMMA EnsuredText ==
    ASSUME NEW s, NEW events, LiveSound(s, events), DeltasAre(s.out)
    PROVE  LET t == Live!EnsureText(s)
           IN  /\ SaysSame(s.out, t.out) /\ Said(t.out, t.l.textIndex) = Said(s.out, s.l.textIndex)
               /\ t.l.tools = s.l.tools /\ t.l.reasoning = s.l.reasoning
               /\ t.l.text = s.l.text /\ t.l.thinking = s.l.thinking /\ t.l.filter = s.l.filter
<1> DEFINE t == Live!EnsureText(s)
           x == Live!Added(s.l.next, "message", "")
           y == Live!PartAdded(s.l.next)
           one == Append(s.out, x)
           two == Append(one, y)
<1>1. x.type # "delta" /\ y.type # "delta"
  BY DEF Live!Added, Live!PartAdded
<1>2. CASE s.l.textIndex # Live!NoItem
  <2>1. t = s
    BY <1>2 DEF Live!EnsureText
  <2> HIDE DEF t, x
  <2> QED
    BY <1>1, <2>1, SaysNothing DEF t
<1>3. CASE s.l.textIndex = Live!NoItem
  <2>1. t = [l |-> [s.l EXCEPT !.textIndex = s.l.next, !.next = @ + 1], out |-> s.out \o <<x, y>>]
    BY <1>3 DEF Live!EnsureText
  <2> HIDE DEF x, y
  <2>2. s.out \o <<x, y>> = two
    BY ConcatFacts DEF DeltasAre
  <2>3. SaysSame(s.out, one)
    BY <1>1, SaysNothing
  <2> HIDE DEF one
  <2>4. SaysSame(s.out, two)
    BY <1>1, <2>3, SaysNothing, SaysSameTwice DEF SaysSame
  <2> HIDE DEF two, t
  <2>5. /\ t.out = two /\ t.l.textIndex = s.l.next
        /\ t.l.tools = s.l.tools /\ t.l.reasoning = s.l.reasoning
        /\ t.l.text = s.l.text /\ t.l.thinking = s.l.thinking /\ t.l.filter = s.l.filter
    BY <2>1, <2>2 DEF LiveSound, LiveShape
  <2>6. Said(s.out, Live!NoItem) = <<>> /\ Said(s.out, s.l.next) = <<>>
    BY UnsaidBefore
  <2> QED
    BY <1>3, <2>4, <2>5, <2>6 DEF SaysSame, t
<1> QED
  BY <1>2, <1>3

LEMMA EnsuredReasoning ==
    ASSUME NEW s, NEW events, LiveSound(s, events), DeltasAre(s.out)
    PROVE  LET t == Live!EnsureReasoning(s)
           IN  /\ SaysSame(s.out, t.out) /\ Said(t.out, t.l.reasoning) = Said(s.out, s.l.reasoning)
               /\ t.l.tools = s.l.tools /\ t.l.textIndex = s.l.textIndex
               /\ t.l.text = s.l.text /\ t.l.thinking = s.l.thinking /\ t.l.filter = s.l.filter
<1> DEFINE t == Live!EnsureReasoning(s)
           x == Live!Added(s.l.next, "reasoning", "")
           y == Live!PartAdded(s.l.next)
           one == Append(s.out, x)
           two == Append(one, y)
<1>1. x.type # "delta" /\ y.type # "delta"
  BY DEF Live!Added, Live!PartAdded
<1>2. CASE s.l.reasoning # Live!NoItem
  <2>1. t = s
    BY <1>2 DEF Live!EnsureReasoning
  <2> HIDE DEF t, x
  <2> QED
    BY <1>1, <2>1, SaysNothing DEF t
<1>3. CASE s.l.reasoning = Live!NoItem
  <2>1. t = [l |-> [s.l EXCEPT !.reasoning = s.l.next, !.next = @ + 1], out |-> s.out \o <<x, y>>]
    BY <1>3 DEF Live!EnsureReasoning
  <2> HIDE DEF x, y
  <2>2. s.out \o <<x, y>> = two
    BY ConcatFacts DEF DeltasAre
  <2>3. SaysSame(s.out, one)
    BY <1>1, SaysNothing
  <2> HIDE DEF one
  <2>4. SaysSame(s.out, two)
    BY <1>1, <2>3, SaysNothing, SaysSameTwice DEF SaysSame
  <2> HIDE DEF two, t
  <2>5. /\ t.out = two /\ t.l.reasoning = s.l.next
        /\ t.l.tools = s.l.tools /\ t.l.textIndex = s.l.textIndex
        /\ t.l.text = s.l.text /\ t.l.thinking = s.l.thinking /\ t.l.filter = s.l.filter
    BY <2>1, <2>2 DEF LiveSound, LiveShape
  <2>6. Said(s.out, Live!NoItem) = <<>> /\ Said(s.out, s.l.next) = <<>>
    BY UnsaidBefore
  <2> QED
    BY <1>3, <2>4, <2>5, <2>6 DEF SaysSame, t
<1> QED
  BY <1>2, <1>3

-----------------------------------------------------------------------------
(* What an event of the upstream says.                                      *)

LEMMA LiveFilter ==
    ASSUME NEW pending \in Seq(STRING), NEW text \in Seq(STRING)
    PROVE  LET d == Live!FilterPush(pending, text)
           IN  IsSeq(d.output) /\ d.pending \in Seq(STRING)
<1>1. Live!FilterPush(pending, text) = FilterPush(pending, text)
  BY Zenon DEF Live!FilterPush, FilterPush, Live!Drain, Drain, Live!MarkerAt, MarkerAt,
     Live!IsStartOfMarker, IsStartOfMarker, Live!IsPrefix, IsPrefix
<1>2. pending \o text \in Seq(STRING) /\ FALSE \in BOOLEAN
  OBVIOUS
<1>3. Drained(Drain(FALSE, pending \o text), FALSE, pending \o text)
  BY <1>2, DrainIsSound
<1> QED
  BY <1>1, <1>3 DEF FilterPush, Drained

LEMMA TextOnText ==
    ASSUME NEW s, NEW events, LiveSound(s, events), TextsSound(s), NEW event, event.text \in Seq(STRING)
    PROVE  TextsSound(Live!OnText(s, event))
<1> DEFINE drained == Live!FilterPush(s.l.filter, event.text)
           longer == [s EXCEPT !.l.filter = drained.pending, !.l.text = @ \o drained.output]
           ready == Live!EnsureText(longer)
           t == Live!Say(ready, ready.l.textIndex, drained.output)
<1>1. Live!OnText(s, event) = t
  BY DEF Live!OnText
<1>2. IsSeq(drained.output) /\ drained.pending \in Seq(STRING)
  BY LiveFilter DEF TextsSound
<1> HIDE DEF drained
<1> DEFINE first == [s EXCEPT !.l.filter = drained.pending]
           said == s.l.text \o drained.output
<1>3. /\ LiveShape(longer) /\ longer.out = s.out /\ SameItems(s.l, longer.l)
      /\ longer.l.text = said /\ longer.l.filter = drained.pending
      /\ longer.l.thinking = s.l.thinking /\ longer.l.tools = s.l.tools
      /\ longer.l.textIndex = s.l.textIndex /\ longer.l.reasoning = s.l.reasoning
  <2>1. /\ LiveShape(first) /\ first.out = s.out /\ SameFields(s.l, first.l)
        /\ first.l.filter = drained.pending /\ first.l.thinking = s.l.thinking
    BY DEF LiveSound, LiveShape, SameFields
  <2>2. longer = [first EXCEPT !.l.text = said]
    OBVIOUS
  <2> HIDE DEF first, longer, said
  <2>3. /\ LiveShape(longer) /\ longer.out = first.out /\ SameFields(first.l, longer.l)
        /\ longer.l.text = said /\ longer.l.filter = first.l.filter
        /\ longer.l.thinking = first.l.thinking
    BY <2>1, <2>2 DEF LiveShape, SameFields
  <2> QED
    BY <2>1, <2>3, FieldsAreItems DEF SameFields
<1> HIDE DEF longer
<1>4. LiveSound(longer, events)
  BY <1>3, OtherSound
<1>5. DeltasAre(s.out) /\ DeltasAre(longer.out)
  BY <1>3 DEF TextsSound
<1>6. LiveSound(ready, events) /\ AddedAs(ready.out, ready.l.textIndex, {"message"})
  BY <1>4, LiveEnsuresText
<1>7. /\ SaysSame(longer.out, ready.out)
      /\ Said(ready.out, ready.l.textIndex) = Said(longer.out, longer.l.textIndex)
      /\ ready.l.tools = longer.l.tools /\ ready.l.reasoning = longer.l.reasoning
      /\ ready.l.text = longer.l.text /\ ready.l.thinking = longer.l.thinking
      /\ ready.l.filter = longer.l.filter
  BY <1>4, <1>5, EnsuredText
<1>8. /\ SaysOn(ready.out, t.out, ready.l.textIndex, drained.output) /\ t.l = ready.l
  <2>1. LiveShape(ready) /\ DeltasAre(ready.out)
    BY <1>6, <1>7 DEF LiveSound, SaysSame
  <2> HIDE DEF ready
  <2> QED
    BY <1>2, <2>1, SaysText
<1>9. /\ ready.l.textIndex # Live!NoItem /\ ready.l.textIndex # ready.l.reasoning
      /\ \A i \in DOMAIN ready.l.tools : ready.l.tools[i].index # ready.l.textIndex
  <2>1. ready.l.textIndex # Live!NoItem
    <3>1. ready.l.textIndex \in Nat
      BY <1>6, ItemFacts
    <3> QED
      BY <3>1 DEF Live!NoItem
  <2> QED
    BY <1>6, <2>1, ItemsDiffer
<1> HIDE DEF ready, t
<1>10. IsSeq(t.l.text) /\ t.l.text = Said(t.out, t.l.textIndex)
  <2>1. s.l.text = Said(s.out, s.l.textIndex) /\ IsSeq(s.l.text)
    BY DEF TextsSound
  <2>2. t.l.text = said /\ Said(t.out, t.l.textIndex) = Said(longer.out, longer.l.textIndex) \o drained.output
    BY <1>3, <1>7, <1>8 DEF SaysOn
  <2>3. IsSeq(said)
    BY <1>2, <2>1, ConcatIsSeq
  <2> QED
    BY <1>3, <2>1, <2>2, <2>3
<1>11. IsSeq(t.l.thinking) /\ t.l.thinking = Said(t.out, t.l.reasoning)
  <2>1. s.l.thinking = Said(s.out, s.l.reasoning) /\ IsSeq(s.l.thinking)
    BY DEF TextsSound
  <2>2. Said(t.out, t.l.reasoning) = Said(ready.out, ready.l.reasoning)
    BY <1>8, <1>9 DEF SaysOn
  <2> QED
    BY <1>3, <1>7, <1>8, <2>1, <2>2 DEF SaysSame
<1>12. \A i \in DOMAIN t.l.tools : CallSaid(t.l.tools[i], t.out)
  <2> SUFFICES ASSUME NEW i \in DOMAIN s.l.tools
               PROVE  CallSaid(s.l.tools[i], t.out)
    BY <1>3, <1>7, <1>8
  <2>1. CallSaid(s.l.tools[i], s.out)
    BY DEF TextsSound
  <2>2. Said(t.out, s.l.tools[i].index) = Said(s.out, s.l.tools[i].index)
    BY <1>3, <1>7, <1>8, <1>9 DEF SaysOn, SaysSame
  <2> QED
    BY <2>1, <2>2 DEF CallSaid
<1>13. DeltasAre(t.out) /\ t.l.filter \in Seq(STRING)
  BY <1>2, <1>3, <1>7, <1>8 DEF SaysOn
<1>14. TextsSound(t)
  BY <1>10, <1>11, <1>12, <1>13 DEF TextsSound
<1> QED
  BY <1>1, <1>14

LEMMA TextOnThinking ==
    ASSUME NEW s, NEW events, LiveSound(s, events), TextsSound(s), NEW event, IsSeq(event.text)
    PROVE  TextsSound(Live!OnThinking(s, event))
<1> DEFINE said == s.l.thinking \o event.text
           longer == [s EXCEPT !.l.thinking = said]
           ready == Live!EnsureReasoning(longer)
           t == Live!Say(ready, ready.l.reasoning, event.text)
<1>1. Live!OnThinking(s, event) = t
  BY DEF Live!OnThinking
<1> HIDE DEF said
<1>2. /\ LiveShape(longer) /\ longer.out = s.out /\ SameFields(s.l, longer.l)
      /\ longer.l.text = s.l.text /\ longer.l.filter = s.l.filter /\ longer.l.thinking = said
  BY DEF LiveSound, LiveShape, SameFields
<1> HIDE DEF longer
<1>3. LiveSound(longer, events)
  BY <1>2, FieldsAreItems, OtherSound
<1>4. DeltasAre(s.out) /\ DeltasAre(longer.out)
  BY <1>2 DEF TextsSound
<1>5. LiveSound(ready, events) /\ AddedAs(ready.out, ready.l.reasoning, {"reasoning"})
  BY <1>3, LiveEnsuresReasoning
<1>6. /\ SaysSame(longer.out, ready.out)
      /\ Said(ready.out, ready.l.reasoning) = Said(longer.out, longer.l.reasoning)
      /\ ready.l.tools = longer.l.tools /\ ready.l.textIndex = longer.l.textIndex
      /\ ready.l.text = longer.l.text /\ ready.l.thinking = longer.l.thinking
      /\ ready.l.filter = longer.l.filter
  BY <1>3, <1>4, EnsuredReasoning
<1>7. /\ SaysOn(ready.out, t.out, ready.l.reasoning, event.text) /\ t.l = ready.l
  <2>1. LiveShape(ready) /\ DeltasAre(ready.out)
    BY <1>5, <1>6 DEF LiveSound, SaysSame
  <2> HIDE DEF ready
  <2> QED
    BY <2>1, SaysText
<1>8. /\ ready.l.reasoning # Live!NoItem /\ ready.l.textIndex # ready.l.reasoning
      /\ \A i \in DOMAIN ready.l.tools : ready.l.tools[i].index # ready.l.reasoning
  <2>1. ready.l.reasoning # Live!NoItem
    <3>1. ready.l.reasoning \in Nat
      BY <1>5, ItemFacts
    <3> QED
      BY <3>1 DEF Live!NoItem
  <2> QED
    BY <1>5, <2>1, ItemsDiffer
<1> HIDE DEF ready, t
<1>9. IsSeq(t.l.thinking) /\ t.l.thinking = Said(t.out, t.l.reasoning)
  <2>1. s.l.thinking = Said(s.out, s.l.reasoning) /\ IsSeq(s.l.thinking)
    BY DEF TextsSound
  <2>2. t.l.thinking = said /\ Said(t.out, t.l.reasoning) = Said(longer.out, longer.l.reasoning) \o event.text
    BY <1>2, <1>6, <1>7 DEF SaysOn
  <2>3. IsSeq(said)
    BY <2>1, ConcatIsSeq DEF said
  <2> QED
    BY <1>2, <2>1, <2>2, <2>3 DEF said, SameFields
<1>10. IsSeq(t.l.text) /\ t.l.text = Said(t.out, t.l.textIndex)
  <2>1. s.l.text = Said(s.out, s.l.textIndex) /\ IsSeq(s.l.text)
    BY DEF TextsSound
  <2>2. Said(t.out, t.l.textIndex) = Said(ready.out, ready.l.textIndex)
    BY <1>7, <1>8 DEF SaysOn
  <2> QED
    BY <1>2, <1>6, <1>7, <2>1, <2>2 DEF SaysSame, SameFields
<1>11. \A i \in DOMAIN t.l.tools : CallSaid(t.l.tools[i], t.out)
  <2> SUFFICES ASSUME NEW i \in DOMAIN s.l.tools
               PROVE  CallSaid(s.l.tools[i], t.out)
    BY <1>2, <1>6, <1>7 DEF SameFields
  <2>1. CallSaid(s.l.tools[i], s.out)
    BY DEF TextsSound
  <2>2. Said(t.out, s.l.tools[i].index) = Said(s.out, s.l.tools[i].index)
    BY <1>2, <1>6, <1>7, <1>8 DEF SaysOn, SaysSame, SameFields
  <2> QED
    BY <2>1, <2>2 DEF CallSaid
<1>12. DeltasAre(t.out) /\ t.l.filter \in Seq(STRING)
  BY <1>2, <1>6, <1>7 DEF SaysOn, TextsSound
<1>13. TextsSound(t)
  BY <1>9, <1>10, <1>11, <1>12 DEF TextsSound
<1> QED
  BY <1>1, <1>13

\* A call is known now, if it was not.
LEMMA EnsuredTool ==
    ASSUME NEW s, NEW events, LiveSound(s, events), TextsSound(s), NEW callId, NEW name
    PROVE  TextsSound(Live!EnsureTool(s, callId, name))
<1> DEFINE t == Live!EnsureTool(s, callId, name)
           i == Live!ToolAt(s.l, callId)
           tool == [callId |-> callId, name |-> name, arguments |-> <<>>, index |-> s.l.next,
                    ended |-> FALSE, custom |-> Live!IsCustom(name)]
           kind == IF tool.custom THEN "custom_tool_call" ELSE "function_call"
<1>0. /\ IsSeq(s.l.tools) /\ LiveShape(s) /\ DeltasAre(s.out)
      /\ \A j \in DOMAIN s.l.tools : ToolShape(s.l.tools[j]) /\ CallSaid(s.l.tools[j], s.out)
  BY DEF LiveSound, ItemsKnown, CallsAreOne, TextsSound
<1>2. CASE i # 0
  <2> DEFINE named == IF s.l.tools[i].name = "" THEN name ELSE s.l.tools[i].name
             custom == s.l.tools[i].custom \/ Live!IsCustom(name)
             old == s.l.tools[i]
             nowNamed == [old EXCEPT !.name = named]
             new == [nowNamed EXCEPT !.custom = custom]
  <2>1. t = [s EXCEPT !.l.tools[i].name = named, !.l.tools[i].custom = custom]
    BY <1>2 DEF Live!EnsureTool
  <2>2. i \in DOMAIN s.l.tools
    BY <1>0, <1>2, ToolAtFacts
  <2>3. custom \/ ~s.l.tools[i].custom
    OBVIOUS
  <2> HIDE DEF t, i, named, custom
  <2>4. t = WithCall(s, i, new)
    BY <1>0, <2>1, <2>2 DEF LiveShape, WithCall
  <2> HIDE DEF old
  <2>5. /\ ToolShape(nowNamed) /\ nowNamed.index = old.index /\ nowNamed.arguments = old.arguments
    BY <1>0, <2>2, ToolRecord DEF old
  <2> HIDE DEF nowNamed
  <2>6. new.index = old.index /\ new.arguments = old.arguments /\ new.custom = custom
    BY <2>5, ToolRecord
  <2> HIDE DEF new
  <2> DEFINE tools == [s.l.tools EXCEPT ![i] = new]
  <2>7. t = [s EXCEPT !.l.tools = tools]
    BY <2>4 DEF WithCall
  <2>8. /\ DOMAIN tools = DOMAIN s.l.tools /\ tools[i] = new
        /\ \A j \in DOMAIN s.l.tools : j # i => tools[j] = s.l.tools[j]
    BY <1>0, <2>2, UpdateIsSeq
  <2> HIDE DEF tools
  <2>9. /\ t.out = s.out /\ t.l.tools = tools /\ t.l.textIndex = s.l.textIndex
        /\ t.l.reasoning = s.l.reasoning /\ t.l.text = s.l.text /\ t.l.thinking = s.l.thinking
        /\ t.l.filter = s.l.filter
    BY <1>0, <2>7 DEF LiveShape
  <2>10. CallSaid(new, s.out)
    <3>1. CallSaid(old, s.out) /\ (custom \/ ~old.custom)
      BY <1>0, <2>2, <2>3 DEF old
    <3> QED
      BY <2>6, <3>1 DEF CallSaid
  <2>11. \A j \in DOMAIN t.l.tools : CallSaid(t.l.tools[j], t.out)
    BY <1>0, <2>8, <2>9, <2>10
  <2> QED
    BY <2>9, <2>11 DEF TextsSound, t
<1>3. CASE i = 0
  <2> DEFINE x == Live!Added(s.l.next, kind, tool.callId)
  <2>1. t = WithItem(s, Append(s.l.tools, tool), Append(s.out, x))
    BY <1>3 DEF Live!EnsureTool, WithItem
  <2>2. tool.arguments = <<>> /\ tool.index = s.l.next
    OBVIOUS
  <2>3. x.type # "delta"
    BY DEF Live!Added
  <2> HIDE DEF t, i, tool, x
  <2>4. SaysSame(s.out, Append(s.out, x))
    BY <1>0, <2>3, SaysNothing
  <2>5. Said(s.out, s.l.next) = <<>>
    BY <1>0, UnsaidBefore
  <2> DEFINE tools == Append(s.l.tools, tool)
             out == Append(s.out, x)
  <2>6. /\ \A j \in DOMAIN tools : j \in DOMAIN s.l.tools \/ j = Len(s.l.tools) + 1
        /\ tools[Len(s.l.tools) + 1] = tool /\ \A j \in DOMAIN s.l.tools : tools[j] = s.l.tools[j]
    BY <1>0, AppendFacts, SeqFacts
  <2>12. t = WithItem(s, tools, out)
    BY <2>1
  <2> HIDE DEF tools, out
  <2>7. /\ t.out = out /\ t.l.tools = tools
        /\ t.l.textIndex = s.l.textIndex /\ t.l.reasoning = s.l.reasoning
        /\ t.l.text = s.l.text /\ t.l.thinking = s.l.thinking /\ t.l.filter = s.l.filter
    BY <1>0, <2>12, ItemRecord
  <2>8. DeltasAre(out) /\ \A index : Said(out, index) = Said(s.out, index)
    BY <2>4 DEF SaysSame, out
  <2>9. CallSaid(tool, out)
    BY <2>2, <2>5, <2>8, EmptyIsSeq DEF CallSaid
  <2>10. \A j \in DOMAIN s.l.tools : CallSaid(s.l.tools[j], out)
    BY <1>0, <2>8 DEF CallSaid
  <2>11. \A j \in DOMAIN tools : CallSaid(tools[j], out)
    BY <2>6, <2>9, <2>10
  <2> QED
    BY <2>7, <2>8, <2>11 DEF TextsSound, t
<1> QED
  BY <1>2, <1>3

LEMMA TextOnToolStart ==
    ASSUME NEW s, NEW events, LiveSound(s, events), TextsSound(s), NEW event
    PROVE  TextsSound(Live!OnToolStart(s, event))
BY EnsuredTool DEF Live!OnToolStart

LEMMA TextOnToolDelta ==
    ASSUME NEW s, NEW events, LiveSound(s, events), TextsSound(s), NEW event, IsSeq(event.arguments)
    PROVE  TextsSound(Live!OnToolDelta(s, event))
<1> DEFINE key == IF event.id # "" THEN event.id ELSE Live!LastKey(s.l)
           ready == Live!EnsureTool(s, key, "")
           i == Live!ToolAt(ready.l, key)
           longer == [ready EXCEPT !.l.tools[i].arguments = @ \o event.arguments]
           after == Live!OnToolDelta(s, event)
<1>1. after = IF ready.l.tools[i].custom THEN longer
              ELSE Live!Say(longer, ready.l.tools[i].index, event.arguments)
  BY DEF Live!OnToolDelta
<1> HIDE DEF key, after
<1>2. TextsSound(ready) /\ LiveSound(ready, events) /\ i \in DOMAIN ready.l.tools
  <2>1. PICK none : ready = Live!EnsureTool(s, key, none)
    OBVIOUS
  <2> HIDE DEF ready
  <2> QED
    BY <2>1, EnsuredTool, LiveEnsuresTool
<1> DEFINE tool == ready.l.tools[i]
           said == tool.arguments \o event.arguments
           new == [tool EXCEPT !.arguments = said]
<1> HIDE DEF ready, i
<1>3. /\ LiveShape(ready) /\ DeltasAre(ready.out) /\ IsSeq(ready.l.tools)
      /\ \A j \in DOMAIN ready.l.tools : ToolShape(ready.l.tools[j]) /\ CallSaid(ready.l.tools[j], ready.out)
  BY <1>2 DEF LiveSound, ItemsKnown, CallsAreOne, TextsSound
<1>4. longer = WithCall(ready, i, new)
  BY <1>2, <1>3 DEF LiveShape, WithCall
<1> HIDE DEF longer, tool, said
<1>5. new.index = tool.index /\ new.arguments = said /\ new.custom = tool.custom
  BY <1>2, <1>3, ToolRecord DEF tool
<1> HIDE DEF new
<1> DEFINE tools == [ready.l.tools EXCEPT ![i] = new]
<1>6. longer = [ready EXCEPT !.l.tools = tools]
  BY <1>4 DEF WithCall
<1>7. /\ DOMAIN tools = DOMAIN ready.l.tools /\ tools[i] = new
      /\ \A j \in DOMAIN ready.l.tools : j # i => tools[j] = ready.l.tools[j]
  BY <1>2, <1>3, UpdateIsSeq
<1> HIDE DEF tools
<1>8. /\ longer.out = ready.out /\ longer.l.tools = tools /\ longer.l.textIndex = ready.l.textIndex
      /\ longer.l.reasoning = ready.l.reasoning /\ longer.l.text = ready.l.text
      /\ longer.l.thinking = ready.l.thinking /\ longer.l.filter = ready.l.filter
      /\ LiveShape(longer)
  BY <1>3, <1>6 DEF LiveShape
<1>9. CallSaid(tool, ready.out) /\ IsSeq(said)
  <2>1. CallSaid(tool, ready.out)
    BY <1>2, <1>3 DEF tool
  <2> QED
    BY <2>1, ConcatIsSeq DEF CallSaid, said
<1>10. CASE tool.custom
  <2>1. after = longer
    BY <1>1, <1>10 DEF tool
  <2>2. CallSaid(new, ready.out)
    BY <1>5, <1>9, <1>10 DEF CallSaid
  <2>3. \A j \in DOMAIN longer.l.tools : CallSaid(longer.l.tools[j], longer.out)
    BY <1>3, <1>7, <1>8, <2>2
  <2>4. TextsSound(longer)
    BY <1>2, <1>8, <2>3 DEF TextsSound
  <2> QED
    BY <2>1, <2>4 DEF after
<1>11. CASE ~tool.custom
  <2>1. after = Live!Say(longer, tool.index, event.arguments)
    BY <1>1, <1>11 DEF tool
  <2>2. SaysOn(longer.out, after.out, tool.index, event.arguments) /\ after.l = longer.l
    BY <1>3, <1>8, <2>1, SaysText
  <2>3. /\ tool.index # ready.l.textIndex /\ tool.index # ready.l.reasoning
        /\ \A j \in DOMAIN ready.l.tools : j # i => ready.l.tools[j].index # tool.index
    BY <1>2, ItemsDiffer DEF tool
  <2>4. CallSaid(new, after.out)
    BY <1>5, <1>8, <1>9, <1>11, <2>2 DEF CallSaid, SaysOn, said
  <2>5. ASSUME NEW j \in DOMAIN ready.l.tools, j # i
        PROVE  CallSaid(ready.l.tools[j], after.out)
    <3>1. CallSaid(ready.l.tools[j], ready.out) /\ ready.l.tools[j].index # tool.index
      BY <1>3, <2>3, <2>5
    <3> QED
      BY <1>8, <2>2, <3>1 DEF CallSaid, SaysOn
  <2>6. \A j \in DOMAIN after.l.tools : CallSaid(after.l.tools[j], after.out)
    BY <1>7, <1>8, <2>2, <2>4, <2>5
  <2>7. /\ Said(after.out, ready.l.textIndex) = Said(ready.out, ready.l.textIndex)
        /\ Said(after.out, ready.l.reasoning) = Said(ready.out, ready.l.reasoning)
        /\ DeltasAre(after.out)
    BY <1>8, <2>2, <2>3 DEF SaysOn
  <2>8. TextsSound(after)
    BY <1>2, <1>8, <2>2, <2>6, <2>7 DEF TextsSound
  <2> QED
    BY <2>8 DEF after
<1> QED
  BY <1>10, <1>11

LEMMA InputIsSeq ==
    ASSUME NEW arguments, IsSeq(arguments)
    PROVE  IsSeq(Live!CustomInput(arguments))
<1>1. CASE Live!AreComplete(arguments) /\ Len(arguments) > 2
  <2> PICK S : arguments \in Seq(S)
    BY DEF IsSeq
  <2>1. Live!CustomInput(arguments) = SubSeq(arguments, 2, Len(arguments) - 1)
    BY <1>1 DEF Live!CustomInput
  <2>2. SubSeq(arguments, 2, Len(arguments) - 1) \in Seq(S)
    BY <1>1
  <2> QED
    BY <2>1, <2>2 DEF IsSeq
<1>2. CASE ~(Live!AreComplete(arguments) /\ Len(arguments) > 2)
  BY <1>2 DEF Live!CustomInput
<1> QED
  BY <1>1, <1>2

\* The input of a custom call is said when it ends, and nothing of any other item.
LEMMA SaysInputs ==
    ASSUME NEW out, DeltasAre(out), NEW tool, NEW arguments, IsSeq(arguments)
    PROVE  LET t == out \o Live!Inputs(tool, arguments)
           IN  /\ DeltasAre(t)
               /\ \A k : k # tool.index => Said(t, k) = Said(out, k)
               /\ ~tool.custom => \A k : Said(t, k) = Said(out, k)
<1> DEFINE input == Live!CustomInput(arguments)
           delta == Live!DeltaOf(tool.index, input)
           whole == Live!TextDone(tool.index, IF tool.custom THEN input ELSE arguments)
           first == Live!Optional(tool.custom /\ input # <<>>, delta)
           t == out \o first
<1>1. whole.type # "delta"
  BY DEF Live!TextDone
<1>2. first = <<>> \/ (first = <<delta>> /\ tool.custom)
  BY DEF Live!Optional
<1>3. IsSeq(out) /\ IsSeq(first) /\ IsSeq(input)
  BY ShortSeqs, InputIsSeq DEF DeltasAre
<1>4. Live!Inputs(tool, arguments) = first \o <<whole>> /\ IsSeq(<<whole>>)
  <2>1. tool.custom => Live!Inputs(tool, arguments) = first \o <<whole>>
    BY DEF Live!Inputs, Live!Optional
  <2>2. ~tool.custom => Live!Inputs(tool, arguments) = <<whole>> /\ first = <<>>
    BY DEF Live!Inputs, Live!Optional
  <2>3. <<>> \o <<whole>> = <<whole>>
    BY EmptyIsSeq, ConcatFacts, AppendFacts
  <2> QED
    BY <2>1, <2>2, <2>3, ShortSeqs
<1>5. SaysOn(out, Append(out, delta), tool.index, input)
  <2> HIDE DEF input
  <2> QED
    BY <1>3, SaysDelta
<1> HIDE DEF delta, whole, first, input
<1>6. t = out \/ (t = Append(out, delta) /\ tool.custom)
  BY <1>2, <1>3, ConcatFacts
<1>7. IsSeq(t) /\ t \o <<whole>> = out \o (first \o <<whole>>)
  <2>1. IsSeq(t)
    BY <1>3, ConcatIsSeq
  <2> DEFINE one == <<whole>>
  <2>2. IsSeq(one)
    BY <1>4
  <2> HIDE DEF one
  <2>3. t \o one = out \o (first \o one)
    BY <1>3, <2>2, ConcatAssoc
  <2> QED
    BY <2>1, <2>3 DEF one
<1> HIDE DEF t
<1>8. t \o <<whole>> = out \o Live!Inputs(tool, arguments) /\ t \o <<whole>> = Append(t, whole)
  BY <1>4, <1>7, ConcatFacts
<1>9. /\ DeltasAre(t)
      /\ \A k : k # tool.index => Said(t, k) = Said(out, k)
      /\ ~tool.custom => \A k : Said(t, k) = Said(out, k)
  BY <1>5, <1>6 DEF SaysOn
<1>10. SaysSame(t, Append(t, whole))
  BY <1>1, <1>9, SaysNothing
<1>11. \A all : all = Append(t, whole) =>
           /\ DeltasAre(all)
           /\ \A k : k # tool.index => Said(all, k) = Said(out, k)
           /\ ~tool.custom => \A k : Said(all, k) = Said(out, k)
  BY <1>9, <1>10 DEF SaysSame
<1> QED
  BY <1>8, <1>11

LEMMA TextOnToolEnd ==
    ASSUME NEW s, NEW events, LiveSound(s, events), TextsSound(s), NEW event
    PROVE  TextsSound(Live!OnToolEnd(s, event))
<1> DEFINE i == IF HasId(event) THEN Live!ToolAt(s.l, event.id) ELSE Len(s.l.tools)
           tool == s.l.tools[i]
           status == Live!ToolStatus(event.complete /\ Live!AreComplete(tool.arguments))
           item == Live!ToolItem(tool.index, tool.callId, tool.name, tool.arguments, status, tool.custom)
           last == Live!ItemDone(tool.index, item)
           inputs == Live!Inputs(tool, tool.arguments)
           out == s.out \o inputs
           more == [s.l.tools EXCEPT ![i].ended = TRUE]
           all == out \o <<last>>
           t == WithTools(s, more, all)
<1>1. Live!OnToolEnd(s, event) = IF i = 0 \/ tool.ended THEN s ELSE t
  BY Zenon DEF Live!OnToolEnd, HasId, WithTools
<1>2. /\ IsSeq(s.l.tools) /\ CallsAreOne(s.l.tools) /\ LiveShape(s) /\ DeltasAre(s.out)
      /\ \A j \in DOMAIN s.l.tools : CallSaid(s.l.tools[j], s.out)
  BY DEF LiveSound, ItemsKnown, CallsAreOne, TextsSound
<1>3. i # 0 => i \in DOMAIN s.l.tools
  <2>1. CASE HasId(event)
    BY <1>2, <2>1, ToolAtFacts
  <2>2. CASE ~HasId(event)
    BY <1>2, <2>2, SeqFacts
  <2> QED
    BY <2>1, <2>2
<1> HIDE DEF i, item
<1>4. SUFFICES ASSUME i # 0 PROVE TextsSound(t)
  BY <1>1
<1>5. HasEnded(s.l.tools, more, i)
  BY <1>2, <1>3, <1>4, CallEnds
<1>6. CallSaid(tool, s.out) /\ \A j \in DOMAIN s.l.tools : j # i => s.l.tools[j].index # tool.index
  BY <1>2, <1>3, <1>4 DEF CallsAreOne
<1>7. /\ tool.index # s.l.textIndex /\ tool.index # s.l.reasoning
  BY <1>3, <1>4, ItemsDiffer
<1>8. last.type # "delta"
  BY DEF Live!ItemDone
<1> HIDE DEF more, last
<1>9. /\ DeltasAre(out)
      /\ \A k : k # tool.index => Said(out, k) = Said(s.out, k)
      /\ ~tool.custom => \A k : Said(out, k) = Said(s.out, k)
  <2> HIDE DEF tool
  <2> QED
    BY <1>2, <1>6, SaysInputs DEF CallSaid
<1> HIDE DEF tool, out
<1>10. all = Append(out, last)
  BY <1>9, ConcatFacts DEF DeltasAre
<1>11. SaysSame(out, Append(out, last))
  BY <1>8, <1>9, SaysNothing
<1> HIDE DEF all
<1>12. /\ DeltasAre(all)
       /\ \A k : k # tool.index => Said(all, k) = Said(s.out, k)
       /\ ~tool.custom => \A k : Said(all, k) = Said(s.out, k)
  BY <1>9, <1>10, <1>11 DEF SaysSame
<1>13. /\ t.l.tools = more /\ t.out = all
       /\ t.l.textIndex = s.l.textIndex /\ t.l.reasoning = s.l.reasoning
       /\ t.l.text = s.l.text /\ t.l.thinking = s.l.thinking /\ t.l.filter = s.l.filter
  BY <1>2, ToolsRecord
<1> HIDE DEF t
<1>14. CallSaid(more[i], all)
  <2>1. /\ more[i].arguments = tool.arguments /\ more[i].index = tool.index
        /\ more[i].custom = tool.custom
    BY <1>5 DEF HasEnded, tool
  <2> QED
    BY <1>6, <1>12, <2>1 DEF CallSaid
<1>15. ASSUME NEW j \in DOMAIN s.l.tools, j # i
       PROVE  CallSaid(more[j], all)
  <2>1. more[j] = s.l.tools[j] /\ s.l.tools[j].index # tool.index /\ CallSaid(s.l.tools[j], s.out)
    BY <1>2, <1>5, <1>6, <1>15 DEF HasEnded
  <2> QED
    BY <1>12, <2>1 DEF CallSaid
<1>16. \A j \in DOMAIN t.l.tools : CallSaid(t.l.tools[j], t.out)
  BY <1>5, <1>13, <1>14, <1>15 DEF HasEnded
<1> QED
  BY <1>7, <1>12, <1>13, <1>16 DEF TextsSound

\* What an event that is taken has for a text.
EventText(event) ==
    /\ event.kind = "text" => event.text \in Seq(STRING)
    /\ event.kind = "thinking" => IsSeq(event.text)
    /\ event.kind = "delta" => IsSeq(event.arguments)

LEMMA TextOnEvent ==
    ASSUME NEW s, NEW events, LiveSound(s, events), TextsSound(s), NEW event,
           event.kind \in EventKinds, event.kind # "error", EventText(event)
    PROVE  TextsSound(Live!OnEvent(s, event))
<1>1. CASE event.kind = "text"
  BY <1>1, TextOnText DEF Live!OnEvent, EventText
<1>2. CASE event.kind = "thinking"
  BY <1>2, TextOnThinking DEF Live!OnEvent, EventText
<1>3. CASE event.kind = "start"
  BY <1>3, TextOnToolStart DEF Live!OnEvent
<1>4. CASE event.kind = "delta"
  BY <1>4, TextOnToolDelta DEF Live!OnEvent, EventText
<1>5. CASE event.kind = "end"
  BY <1>5, TextOnToolEnd DEF Live!OnEvent
<1>6. CASE event.kind = "stop"
  <2> DEFINE t == [s EXCEPT !.l.stop = event.reason]
  <2>1. Live!OnEvent(s, event) = t
    BY <1>6 DEF Live!OnEvent
  <2>2. /\ t.out = s.out /\ t.l.textIndex = s.l.textIndex /\ t.l.reasoning = s.l.reasoning
        /\ t.l.text = s.l.text /\ t.l.thinking = s.l.thinking /\ t.l.filter = s.l.filter
        /\ t.l.tools = s.l.tools
    BY DEF LiveSound, LiveShape
  <2> HIDE DEF t
  <2> QED
    BY <2>1, <2>2 DEF TextsSound
<1>7. CASE event.kind = "usage"
  BY <1>7 DEF Live!OnEvent
<1> QED
  BY <1>1, <1>2, <1>3, <1>4, <1>5, <1>6, <1>7 DEF EventKinds

-----------------------------------------------------------------------------
(* The snapshot.                                                            *)

\* Pieces of one element each put together are their elements.
IsSingle(piece) == piece = <<piece[1]>>
JoinsTo(joined, pieces, k) ==
    IsSeq(joined) /\ Len(joined) = k /\ \A j \in 1..k : joined[j] = pieces[j][1]

LEMMA FlatSingles ==
    ASSUME NEW pieces, NEW n \in Nat, n > 0, Len(pieces) = n, \A k \in 1..n : IsSingle(pieces[k])
    PROVE  JoinsTo(Live!FlattenSeq(pieces), pieces, n)
<1> DEFINE f == CHOOSE f : FlatLoop(pieces, Len(pieces), f)
<1>1. FlatLoop(pieces, n, f)
  BY FlatLoopExists
<1>2. Len(pieces) # 0
  OBVIOUS
<1>3. Live!FlattenSeq(pieces) = f[Len(pieces)]
  BY <1>2, Zenon DEF Live!FlattenSeq, FlatLoop
<1> HIDE DEF f
<1> DEFINE Bad == {k \in 1..n : ~JoinsTo(f[k], pieces, k)}
<1>4. SUFFICES ASSUME Bad # {} PROVE FALSE
  BY <1>3
<1>5. PICK k \in Bad : \A j \in Bad : k <= j
  <2>1. Bad \in SUBSET Nat
    OBVIOUS
  <2> HIDE DEF Bad
  <2> QED
    BY <1>4, <2>1, NatMin
<1>6. k \in 1..n /\ ~JoinsTo(f[k], pieces, k) /\ k \in Nat
  OBVIOUS
<1>7. f[k] = IF k = 1 THEN pieces[k] ELSE f[k - 1] \o pieces[k]
  BY <1>1, <1>6 DEF FlatLoop
<1> DEFINE x == pieces[k][1]
<1>8. pieces[k] = <<x>>
  BY <1>6 DEF IsSingle
<1>9. CASE k = 1
  <2>1. f[k] = <<x>> /\ IsSeq(<<x>>)
    BY <1>7, <1>8, <1>9, ShortSeqs
  <2>2. Len(<<x>>) = 1 /\ <<x>>[1] = x
    OBVIOUS
  <2>3. \A j \in 1..1 : j = 1
    OBVIOUS
  <2> QED
    BY <1>6, <1>9, <2>1, <2>2, <2>3 DEF JoinsTo
<1>10. CASE k # 1
  <2>1. k - 1 \in 1..n /\ k - 1 \notin Bad
    BY <1>5, <1>6, <1>10
  <2>2. JoinsTo(f[k - 1], pieces, k - 1)
    BY <2>1
  <2> DEFINE s == f[k - 1]
  <2>3. IsSeq(s) /\ Len(s) = k - 1 /\ \A j \in 1..(k - 1) : s[j] = pieces[j][1]
    BY <2>2 DEF JoinsTo
  <2>4. f[k] = s \o <<x>>
    BY <1>7, <1>8, <1>10
  <2> HIDE DEF s, x
  <2>5. f[k] = Append(s, x)
    BY <2>3, <2>4, ConcatFacts
  <2>6. /\ IsSeq(Append(s, x)) /\ Len(Append(s, x)) = Len(s) + 1
        /\ Append(s, x)[Len(s) + 1] = x /\ \A j \in 1..Len(s) : Append(s, x)[j] = s[j]
    BY <2>3, AppendFacts
  <2>7. IsSeq(f[k]) /\ Len(f[k]) = k /\ f[k][k] = x /\ \A j \in 1..(k - 1) : f[k][j] = s[j]
    BY <1>6, <2>3, <2>5, <2>6
  <2>8. \A j \in 1..k : j = k \/ j \in 1..(k - 1)
    BY <1>6
  <2>9. JoinsTo(f[k], pieces, k)
    BY <2>3, <2>7, <2>8 DEF JoinsTo, x
  <2> QED
    BY <1>6, <2>9
<1> QED
  BY <1>9, <1>10

\* The answer so far: the text, and the calls one by one.
CallSoFar(tool) ==
    [id |-> tool.callId, name |-> tool.name, arguments |-> tool.arguments,
     complete |-> tool.ended /\ Live!AreComplete(tool.arguments)]

LEMMA ResultSoFarIs ==
    ASSUME NEW l
    PROVE  /\ Live!ResultSoFar(l).text = l.text
           /\ DOMAIN Live!ResultSoFar(l).calls = DOMAIN l.tools
           /\ \A i \in DOMAIN l.tools :
                  /\ Live!ResultSoFar(l).calls[i].id = l.tools[i].callId
                  /\ Live!ResultSoFar(l).calls[i].arguments = l.tools[i].arguments
<1> DEFINE calls == [i \in DOMAIN l.tools |-> CallSoFar(l.tools[i])]
<1>1. PICK none : Live!ResultSoFar(l) =
          [text |-> l.text, thinking |-> l.thinking, reason |-> l.stop, incomplete |-> none, calls |-> calls]
  BY Zenon DEF Live!ResultSoFar, CallSoFar
<1>2. \A tool : CallSoFar(tool).id = tool.callId /\ CallSoFar(tool).arguments = tool.arguments
  BY DEF CallSoFar
<1>3. DOMAIN calls = DOMAIN l.tools /\ \A i \in DOMAIN l.tools : calls[i] = CallSoFar(l.tools[i])
  OBVIOUS
<1> HIDE DEF calls
<1>4. Live!ResultSoFar(l).text = l.text /\ Live!ResultSoFar(l).calls = calls
  BY <1>1
<1> QED
  BY <1>2, <1>3, <1>4

\* An item of the snapshot says what the client was sent of it.
ItemSaid(item, out) == item.kind # "custom_tool_call" => item.text = Said(out, item.index)

LEMMA ItemSoFar ==
    ASSUME NEW s, NEW events, LiveSound(s, events), TextsSound(s), NEW status,
           NEW k \in Nat, k < s.l.next
    PROVE  LET items == Live!ItemsAt(s.l, Live!ResultSoFar(s.l), status, k)
           IN  IsSingle(items) /\ ItemSaid(items[1], s.out)
<1> DEFINE result == Live!ResultSoFar(s.l)
           items == Live!ItemsAt(s.l, result, status, k)
<1>0. SUFFICES \E item : items = <<item>> /\ ItemSaid(item, s.out)
  <2> HIDE DEF items
  <2> PICK item : items = <<item>> /\ ItemSaid(item, s.out)
    OBVIOUS
  <2>1. items[1] = item
    OBVIOUS
  <2> QED
    BY <2>1 DEF IsSingle, items
<1>1. /\ result.text = s.l.text
      /\ DOMAIN result.calls = DOMAIN s.l.tools
      /\ \A i \in DOMAIN s.l.tools : /\ result.calls[i].id = s.l.tools[i].callId
                                     /\ result.calls[i].arguments = s.l.tools[i].arguments
  BY ResultSoFarIs
<1> HIDE DEF result
<1>2. CASE k = s.l.textIndex
  <2> DEFINE item == Live!MessageItem(k, status, result.text)
  <2>1. items = <<item>>
    BY <1>2 DEF Live!ItemsAt
  <2>2. item.text = s.l.text /\ item.index = k
    BY <1>1 DEF Live!MessageItem
  <2> HIDE DEF item, items
  <2>3. s.l.text = Said(s.out, s.l.textIndex)
    BY DEF TextsSound
  <2> QED
    BY <1>2, <2>1, <2>2, <2>3 DEF ItemSaid
<1>3. CASE k # s.l.textIndex /\ k = s.l.reasoning
  <2> DEFINE item == Live!ReasoningItem(k, status, s.l.thinking)
  <2>1. items = <<item>>
    BY <1>3 DEF Live!ItemsAt
  <2>2. item.text = s.l.thinking /\ item.index = k
    BY DEF Live!ReasoningItem
  <2> HIDE DEF item, items
  <2>3. s.l.thinking = Said(s.out, s.l.reasoning)
    BY DEF TextsSound
  <2> QED
    BY <1>3, <2>1, <2>2, <2>3 DEF ItemSaid
<1>4. CASE k # s.l.textIndex /\ k # s.l.reasoning
  <2>1. /\ CallsAreOne(s.l.tools) /\ DOMAIN s.l.tools = 1..Len(s.l.tools) /\ Len(s.l.tools) \in Nat
        /\ \E i \in DOMAIN s.l.tools : s.l.tools[i].index = k
    BY <1>4, SeqFacts DEF LiveSound, ItemsKnown, CallsAreOne
  <2> DEFINE its == {i \in DOMAIN s.l.tools : s.l.tools[i].index = k}
             i == Live!ToolIndexed(s.l, k)
             tool == s.l.tools[i]
             same == {j \in DOMAIN result.calls : result.calls[j].id = tool.callId}
             c == Live!CallOf(result, tool.callId)
             call == result.calls[c]
             item == Live!ToolItem(k, tool.callId, call.name, call.arguments,
                                   Live!ToolStatus(call.complete), tool.custom \/ Live!IsCustom(call.name))
  <2>2. i \in its
    <3>1. its \in SUBSET Nat /\ its # {}
      BY <2>1
    <3>2. i = Live!FirstOf(its)
      BY DEF Live!ToolIndexed
    <3> HIDE DEF its, i
    <3> QED
      BY <3>1, <3>2, FirstIsOne
  <2>3. i \in DOMAIN s.l.tools /\ tool.index = k
    BY <2>2
  <2> HIDE DEF its, i
  <2>4. c \in same
    <3>1. same \in SUBSET Nat /\ i \in same
      BY <1>1, <2>1, <2>3
    <3>2. c = Live!FirstOf(same)
      BY DEF Live!CallOf
    <3> HIDE DEF same, c
    <3> QED
      BY <3>1, <3>2, FirstIsOne
  <2>5. c = i /\ c # 0
    <3>1. c \in DOMAIN s.l.tools /\ s.l.tools[c].callId = tool.callId
      BY <1>1, <2>4
    <3> HIDE DEF c
    <3> QED
      BY <2>1, <2>3, <3>1 DEF CallsAreOne
  <2> HIDE DEF c
  <2>6. items = <<item>>
    <3>1. items = IF c = 0 THEN <<>> ELSE <<item>>
      BY <1>4, Zenon DEF Live!ItemsAt, c, i
    <3> HIDE DEF items, item
    <3> QED
      BY <2>5, <3>1
  <2>7. /\ item.index = k /\ item.kind # "custom_tool_call" => ~tool.custom
        /\ item.kind # "custom_tool_call" => item.text = call.arguments
    BY DEF Live!ToolItem
  <2>8. CallSaid(tool, s.out) /\ call.arguments = tool.arguments
    BY <1>1, <2>3, <2>5 DEF TextsSound
  <2> HIDE DEF item, items, tool, call
  <2>9. item.index = k /\ (item.kind # "custom_tool_call" => ~tool.custom /\ item.text = call.arguments)
    BY <2>7 DEF item, Live!ToolItem
  <2> QED
    BY <2>3, <2>6, <2>8, <2>9 DEF ItemSaid, CallSaid
<1> QED
  BY <1>2, <1>3, <1>4

SnapshotFits(s, output) ==
    /\ Len(output) = s.l.next /\ IsSeq(output)
    /\ \A k \in DOMAIN output : ItemSaid(output[k], s.out)

LEMMA SnapshotOfState ==
    ASSUME NEW s, NEW events, LiveSound(s, events), TextsSound(s), s.l.next > 0
    PROVE  SnapshotFits(s, Live!RefreshSnapshot(s.l).output)
<1> DEFINE result == Live!ResultSoFar(s.l)
           n == s.l.next
           status == IF Live!ResponsesIncompleteReason(result) = "" THEN "completed" ELSE "incomplete"
           pieces == [k \in 1..n |-> Live!ItemsAt(s.l, result, status, k - 1)]
           items == Live!FlattenSeq(pieces)
           none == Live!MessageItem(0, status, <<>>)
<1>1. n \in Nat /\ n > 0
  BY ItemFacts
<1>2. Live!RefreshSnapshot(s.l) = [status |-> status, output |-> IF items = <<>> THEN <<none>> ELSE items]
  BY Zenon DEF Live!RefreshSnapshot, Live!Response
<1> HIDE DEF status, none
<1>3. \A k \in 1..n : IsSingle(pieces[k]) /\ ItemSaid(pieces[k][1], s.out)
  <2> SUFFICES ASSUME NEW k \in 1..n
               PROVE  IsSingle(pieces[k]) /\ ItemSaid(pieces[k][1], s.out)
    OBVIOUS
  <2> DEFINE piece == Live!ItemsAt(s.l, result, status, k - 1)
  <2>1. k - 1 \in Nat /\ k - 1 < s.l.next
    BY <1>1
  <2>2. IsSingle(piece) /\ ItemSaid(piece[1], s.out)
    BY <2>1, ItemSoFar
  <2>3. pieces[k] = piece
    OBVIOUS
  <2> HIDE DEF piece, pieces
  <2> QED
    BY <2>2, <2>3
<1>4. pieces = [k \in 1..n |-> pieces[k]]
  OBVIOUS
<1> HIDE DEF pieces, n
<1>5. Len(pieces) = n
  BY <1>1, <1>4, FunctionIsSeq
<1>6. JoinsTo(items, pieces, n)
  BY <1>1, <1>3, <1>5, FlatSingles
<1> HIDE DEF items
<1>7. items # <<>> /\ DOMAIN items = 1..n /\ IsSeq(items) /\ Len(items) = n
  BY <1>1, <1>6, SeqFacts DEF JoinsTo
<1>8. Live!RefreshSnapshot(s.l).output = items
  BY <1>2, <1>7
<1>9. SnapshotFits(s, items)
  BY <1>3, <1>6, <1>7 DEF SnapshotFits, JoinsTo, n
<1> QED
  BY <1>8, <1>9

-----------------------------------------------------------------------------
(* The events that wait have texts.                                         *)

TextQueue(q) == \E S : q \in Seq(S) /\ \A e \in S : EventText(e)

LEMMA NoTexts == TextQueue(<<>>)
<1> DEFINE S == {}
<1>1. <<>> \in Seq(S) /\ \A e \in S : EventText(e)
  OBVIOUS
<1> HIDE DEF S
<1> QED
  BY <1>1 DEF TextQueue

LEMMA OneText ==
    ASSUME NEW e, EventText(e)
    PROVE  TextQueue(<<e>>)
<1> DEFINE S == {e}
<1>1. <<e>> \in Seq(S) /\ \A x \in S : EventText(x)
  OBVIOUS
<1> HIDE DEF S
<1> QED
  BY <1>1 DEF TextQueue

LEMMA MoreTexts ==
    ASSUME NEW q, TextQueue(q), NEW r, TextQueue(r)
    PROVE  TextQueue(q \o r)
<1>1. PICK S : q \in Seq(S) /\ \A e \in S : EventText(e)
  BY DEF TextQueue
<1>2. PICK T : r \in Seq(T) /\ \A e \in T : EventText(e)
  BY DEF TextQueue
<1> DEFINE U == S \cup T
<1>3. q \in Seq(U) /\ r \in Seq(U) /\ \A e \in U : EventText(e)
  BY <1>1, <1>2
<1> HIDE DEF U
<1>4. q \o r \in Seq(U)
  BY <1>3
<1> QED
  BY <1>3, <1>4 DEF TextQueue

LEMMA TextsTaken ==
    ASSUME NEW q, TextQueue(q), q # <<>>
    PROVE  TextQueue(Tail(q)) /\ EventText(Head(q))
<1>1. PICK S : q \in Seq(S) /\ \A e \in S : EventText(e)
  BY DEF TextQueue
<1>2. Tail(q) \in Seq(S) /\ Head(q) \in S
  BY <1>1
<1> QED
  BY <1>1, <1>2 DEF TextQueue

LEMMA OptionalText ==
    ASSUME NEW p, NEW e, EventText(e)
    PROVE  TextQueue(Anthropic!Optional(p, e))
BY NoTexts, OneText DEF Anthropic!Optional

LEMMA TextsOfEvents ==
    /\ \A text \in Seq(STRING) : EventText(Anthropic!TextDelta(text))
    /\ \A text : IsSeq(text) => EventText(Anthropic!ThinkingDelta(text))
    /\ \A id, name : EventText(Anthropic!ToolCallStart(id, name))
    /\ \A id, arguments : IsSeq(arguments) => EventText(Anthropic!ToolCallDelta(id, arguments))
    /\ \A id, complete : EventText(Anthropic!ToolCallEnd(id, complete))
    /\ \A reason : EventText(Anthropic!Stop(reason))
    /\ EventText(Anthropic!Usage) /\ EventText(Anthropic!Error)
BY DEF Anthropic!TextDelta, Anthropic!ThinkingDelta, Anthropic!ToolCallStart,
       Anthropic!ToolCallDelta, Anthropic!ToolCallEnd, Anthropic!Stop, Anthropic!Usage,
       Anthropic!Error, EventText

\* What the messages say is text.
LEMMA TextsOfMessages ==
    ASSUME NEW m \in Messages
    PROVE  /\ m.type \in {"assistant", "reasoning"} => m.text \in Seq(STRING)
           /\ m.type = "tool" /\ m.input # <<>> => m.input[1] \in Seq(STRING)
<1>1. CASE m \in [type : {"assistant", "reasoning"}, text : Text]
  BY <1>1 DEF Text
<1>2. CASE m \in [type : {"tool"}, id : STRING, name : STRING,
                  input : [1..0 -> Text] \cup [1..1 -> Text], stop : BOOLEAN]
  <2>1. m.type = "tool" /\ m.input \in [1..0 -> Text] \cup [1..1 -> Text]
    BY <1>2
  <2>2. CASE m.input \in [1..0 -> Text]
    <3>1. m.input \in Seq(Text) /\ Len(m.input) = 0
      BY <2>2
    <3>2. m.input = <<>>
      BY <3>1
    <3> QED
      BY <2>1, <3>2
  <2>3. CASE m.input \in [1..1 -> Text]
    <3>1. m.input[1] \in Text
      BY <2>3
    <3> QED
      BY <2>1, <3>1 DEF Text
  <2> QED
    BY <2>1, <2>2, <2>3
<1>3. CASE m \in [type : {"metadata"}, usage : BOOLEAN, reason : STRING]
  BY <1>3
<1>4. CASE m \in {ErrorEvent, Other, Exception, Malformed}
  BY <1>4 DEF ErrorEvent, Other, Exception, Malformed
<1> QED
  BY <1>1, <1>2, <1>3, <1>4 DEF Messages

LEMMA DecodesTexts ==
    ASSUME NEW m \in Messages
    PROVE  TextQueue(Anthropic!DecodeGenerationEvents(m))
<1> DEFINE Fragments == IF m.input = <<>> THEN <<>> ELSE <<Anthropic!ToolCallDelta(m.id, m.input[1])>>
<1>0. /\ m.type \in {"assistant", "reasoning"} => m.text \in Seq(STRING) /\ IsSeq(m.text)
      /\ m.type = "tool" /\ m.input # <<>> => IsSeq(m.input[1])
  BY TextsOfMessages DEF IsSeq
<1>1. m.type = "tool" => TextQueue(Fragments)
  BY <1>0, NoTexts, OneText, TextsOfEvents
<1>2. m.type = "tool" => TextQueue(Anthropic!DecodeToolUse(m))
  <2>1. PICK named :
            Anthropic!DecodeToolUse(m)
              = Anthropic!Optional(named, Anthropic!ToolCallStart(m.id, m.name)) \o Fragments
                \o Anthropic!Optional(m.stop, Anthropic!ToolCallEnd(m.id, TRUE))
    BY Zenon DEF Anthropic!DecodeToolUse
  <2>2. /\ TextQueue(Anthropic!Optional(named, Anthropic!ToolCallStart(m.id, m.name)))
        /\ TextQueue(Anthropic!Optional(m.stop, Anthropic!ToolCallEnd(m.id, TRUE)))
    BY OptionalText, TextsOfEvents
  <2> HIDE DEF Fragments
  <2>3. m.type = "tool" =>
            TextQueue(Anthropic!Optional(named, Anthropic!ToolCallStart(m.id, m.name)) \o Fragments)
    BY <1>1, <2>2, MoreTexts
  <2>4. m.type = "tool" =>
            TextQueue((Anthropic!Optional(named, Anthropic!ToolCallStart(m.id, m.name)) \o Fragments)
                       \o Anthropic!Optional(m.stop, Anthropic!ToolCallEnd(m.id, TRUE)))
    BY <2>2, <2>3, MoreTexts
  <2> QED
    BY <2>1, <2>4
<1>3. PICK given :
          Anthropic!DecodeGenerationEvents(m)
            = CASE m.type = "assistant" -> <<Anthropic!TextDelta(m.text)>>
                [] m.type = "reasoning" -> <<Anthropic!ThinkingDelta(m.text)>>
                [] m.type = "tool"      -> Anthropic!DecodeToolUse(m)
                [] m.type = "metadata"  -> Anthropic!Optional(m.usage, Anthropic!Usage)
                                             \o Anthropic!Optional(given, Anthropic!Stop(m.reason))
                [] m.type = "error"     -> <<Anthropic!Error>>
                [] OTHER                -> <<>>
  BY Zenon DEF Anthropic!DecodeGenerationEvents
<1>4. /\ m.type = "assistant" => TextQueue(<<Anthropic!TextDelta(m.text)>>)
      /\ m.type = "reasoning" => TextQueue(<<Anthropic!ThinkingDelta(m.text)>>)
      /\ TextQueue(<<Anthropic!Error>>)
  <2>1. /\ m.type = "assistant" => EventText(Anthropic!TextDelta(m.text))
        /\ m.type = "reasoning" => EventText(Anthropic!ThinkingDelta(m.text))
        /\ EventText(Anthropic!Error)
    BY <1>0, TextsOfEvents
  <2> QED
    BY <2>1, OneText
<1>5. TextQueue(Anthropic!Optional(m.usage, Anthropic!Usage)
                 \o Anthropic!Optional(given, Anthropic!Stop(m.reason)))
  BY OptionalText, TextsOfEvents, MoreTexts
<1> QED
  BY <1>2, <1>3, <1>4, <1>5, NoTexts

LEMMA AnswersAreTexts == \A events \in JsonAnswers : TextQueue(events)
<1>1. \A e \in Events : EventText(e)
  <2> SUFFICES ASSUME NEW e \in Events PROVE EventText(e)
    OBVIOUS
  <2>1. /\ e.kind = "text" => e.text \in Seq(STRING)
        /\ e.kind = "thinking" => e.text \in Seq(STRING)
        /\ e.kind = "delta" => e.arguments \in Seq(STRING)
    BY DEF Events, Text
  <2> QED
    BY <2>1 DEF EventText, IsSeq
<1>2. JsonAnswers \subseteq Seq(Events)
  BY InterfaceAssumption DEF InterfaceAssumption
<1> QED
  BY <1>1, <1>2 DEF TextQueue

LEMMA TextQueueSteps ==
    ASSUME TextQueue(queue), Live!StreamStep
    PROVE  TextQueue(queue')
<1>1. CASE Live!MessageArrives
  <2>1. PICK m \in ResponsesFrames : queue' = Live!DecodeGenerationEvents(m)
    BY <1>1 DEF Live!MessageArrives
  <2>2. ResponsesFrames \subseteq Messages
    BY InterfaceAssumption DEF InterfaceAssumption
  <2>3. m \in Messages
    BY <2>2
  <2>4. queue' = Anthropic!DecodeGenerationEvents(m)
    BY <2>1, LiveDecodes
  <2> QED
    BY <2>3, <2>4, DecodesTexts
<1>2. CASE Live!JsonArrives
  BY <1>2, AnswersAreTexts DEF Live!JsonArrives
<1>3. CASE Live!UpstreamEnds
  <2>1. PICK p, stop : queue' = Anthropic!Optional(p, Anthropic!Stop(stop))
    BY <1>3, Zenon DEF Live!UpstreamEnds, Live!Optional, Anthropic!Optional, Live!Stop, Anthropic!Stop
  <2> QED
    BY <2>1, OptionalText, TextsOfEvents
<1>4. CASE Live!UpstreamFails
  BY <1>4 DEF Live!UpstreamFails
<1> QED
  BY <1>1, <1>2, <1>3, <1>4 DEF Live!StreamStep

-----------------------------------------------------------------------------
(* While the stream goes on, the snapshot is of the state, and the state    *)
(* remembers what was sent.                                                 *)

SnapshotOfLive == live.next > 0 => snapshot = Live!RefreshSnapshot(live)

TextsInv ==
    /\ TextQueue(queue)
    /\ ~Live!Ended => TextsSound([l |-> live, out |-> sent]) /\ SnapshotOfLive

LEMMA TextsStarted ==
    ASSUME Live!Init
    PROVE  TextsInv
<1> DEFINE s == [l |-> live, out |-> sent]
           a == Live!Plain("created")
           b == Live!Plain("in_progress")
<1>1. queue = <<>> /\ live = Live!NewLive /\ sent = <<a, b>>
  BY DEF Live!Init, Live!StreamInit
<1>2. a.type = "created" /\ b.type = "in_progress"
  BY DEF Live!Plain
<1> HIDE DEF a, b
<1>3. IsSeq(sent) /\ DOMAIN sent = {1, 2} /\ sent[1] = a /\ sent[2] = b
  BY <1>1, ShortSeqs
<1>4. DeltasAre(sent) /\ \A i \in DOMAIN sent : \A index : ~IsDelta(sent[i], index)
  BY <1>2, <1>3 DEF DeltasAre, IsDelta
<1>5. \A index : Said(sent, index) = <<>>
  BY <1>4, NothingSaid
<1>6. live.tools = <<>> /\ live.next = 0 /\ live.text = <<>> /\ live.thinking = <<>> /\ live.filter = <<>>
  <2>1. PICK none : live = [textIndex |-> Live!NoItem, reasoning |-> Live!NoItem, tools |-> <<>>,
                            next |-> 0, text |-> <<>>, thinking |-> <<>>, stop |-> none, filter |-> <<>>]
    BY <1>1, Zenon DEF Live!NewLive
  <2> QED
    BY <2>1
<1>7. DOMAIN live.tools = {} /\ live.filter \in Seq(STRING)
  BY <1>6
<1>8. s.l = live /\ s.out = sent
  OBVIOUS
<1> HIDE DEF s
<1>9. TextsSound(s)
  BY <1>4, <1>5, <1>6, <1>7, <1>8, EmptyIsSeq DEF TextsSound
<1>10. SnapshotOfLive
  BY <1>6 DEF SnapshotOfLive
<1> QED
  BY <1>1, <1>9, <1>10, NoTexts DEF TextsInv, s

LEMMA TextsReceived ==
    ASSUME LiveInv, TextsInv, Live!Receive
    PROVE  TextsInv'
<1> DEFINE s == [l |-> live, out |-> sent]
<1>1. PICK event : /\ ~Live!Ended /\ event.kind # "error" /\ Live!Takes(event)
                   /\ live' = Live!OnEvent(s, event).l
                   /\ sent' = Live!OnEvent(s, event).out
                   /\ snapshot' = Live!RefreshSnapshot(Live!OnEvent(s, event).l)
  BY DEF Live!Receive
<1> DEFINE t == Live!OnEvent(s, event)
<1>2. LiveSound(t, seen') /\ live' = t.l /\ sent' = t.out /\ snapshot' = Live!RefreshSnapshot(t.l)
  BY <1>1, LiveAfter
<1>3. LiveSound(s, seen) /\ TextsSound(s)
  BY <1>1, LiveUntilEnded DEF LiveGoesOn, TextsInv
<1>4. EventText(event) /\ TextQueue(queue') /\ event.kind \in EventKinds
  <2>1. queue # <<>> /\ event = Head(queue) /\ queue' = Tail(queue)
    BY <1>1 DEF Live!Takes
  <2> QED
    BY <1>1, <2>1, TextsTaken, LiveTakes DEF TextsInv
<1> HIDE DEF s
<1>5. TextsSound(t)
  BY <1>1, <1>3, <1>4, TextOnEvent
<1> HIDE DEF t
<1>6. t = [l |-> t.l, out |-> t.out]
  BY <1>2 DEF LiveSound, LiveShape
<1>7. TextsSound([l |-> live', out |-> sent'])
  BY <1>2, <1>5, <1>6
<1>8. SnapshotOfLive'
  BY <1>2 DEF SnapshotOfLive
<1> QED
  BY <1>4, <1>7, <1>8 DEF TextsInv

\* Nothing is to be shown of a stream that has ended.
LEMMA TextsEnded ==
    ASSUME TextQueue(queue'), NEW base, IsSeq(base), NEW last, last.type = "terminal",
           sent' = Append(base, last)
    PROVE  TextsInv'
<1>1. /\ IsSeq(sent') /\ Len(sent') = Len(base) + 1 /\ sent'[Len(base) + 1] = last /\ Len(base) \in Nat
  BY AppendFacts, SeqFacts
<1>2. sent' # <<>> /\ sent'[Len(sent')].type = "terminal"
  BY <1>1, SeqFacts
<1>3. Live!Ended'
  BY <1>2 DEF Live!Ended
<1> QED
  BY <1>3 DEF TextsInv

LEMMA TextsLeft ==
    ASSUME TextsInv, \E event : Live!Takes(event) \/ UNCHANGED Live!streamVars
    PROVE  TextQueue(queue')
<1>1. CASE \E event : Live!Takes(event)
  <2>1. queue # <<>> /\ queue' = Tail(queue)
    BY <1>1 DEF Live!Takes
  <2> QED
    BY <2>1, TextsTaken DEF TextsInv
<1>2. CASE UNCHANGED Live!streamVars
  BY <1>2 DEF Live!streamVars, TextsInv
<1> QED
  BY <1>1, <1>2

LEMMA TextsStopAfter ==
    ASSUME TextQueue(queue'), NEW steps, IsSeq(steps), IsSeq(sent), NEW last \in Int, last <= Len(steps),
           Live!StopAfter(steps, last)
    PROVE  TextsInv'
<1>1. PICK n \in Len(sent)..last : sent' = Append(SubSeq(steps, 1, n), Live!StorageError)
  BY DEF Live!StopAfter
<1>2. Len(sent) \in Nat /\ Len(steps) \in Nat
  BY SeqFacts
<1>3. n \in 0..Len(steps)
  BY <1>1, <1>2
<1>4. IsSeq(SubSeq(steps, 1, n))
  <2> PICK S : steps \in Seq(S)
    BY DEF IsSeq
  <2>1. SubSeq(steps, 1, n) \in Seq(S)
    BY <1>3
  <2> QED
    BY <2>1 DEF IsSeq
<1>5. Live!StorageError.type = "terminal"
  BY DEF Live!StorageError, Live!Terminal
<1> QED
  BY <1>1, <1>4, <1>5, TextsEnded

LEMMA TextsSteps ==
    ASSUME LiveInv, TextsInv, Live!Next
    PROVE  TextsInv'
<1>1. CASE ~Live!Ended /\ Live!StreamStep /\ UNCHANGED <<acc, live, snapshot, sent>>
  <2>1. TextQueue(queue')
    BY <1>1, TextQueueSteps DEF TextsInv
  <2> QED
    BY <1>1, <2>1 DEF TextsInv, SnapshotOfLive, Live!Ended
<1>2. CASE Live!Fail
  <2>1. /\ ~Live!Ended /\ (Live!Takes(Live!Error) \/ UNCHANGED Live!streamVars)
        /\ sent' = Append(sent, Live!Failed)
    BY <1>2 DEF Live!Fail
  <2>2. Live!Failed.type = "terminal" /\ IsSeq(sent)
    BY <2>1, LiveUntilEnded DEF Live!Failed, Live!Terminal
  <2> QED
    BY <2>1, <2>2, TextsLeft, TextsEnded
<1>3. CASE Live!Finish
  <2> DEFINE closing == Live!Closing
             last == Live!Terminal(closing.response.status, closing.response.output)
  <2>1. ~Live!Ended /\ UNCHANGED Live!streamVars /\ sent' = Append(closing.out, last)
    BY <1>3 DEF Live!Finish
  <2>2. EventsSound(closing.out, seen)
    BY <2>1, LiveClosing
  <2> HIDE DEF closing
  <2>3. last.type = "terminal" /\ IsSeq(closing.out)
    BY <2>2 DEF Live!Terminal, EventsSound
  <2> HIDE DEF last
  <2> QED
    BY <2>1, <2>3, TextsLeft, TextsEnded
<1>4. CASE Live!StoreFails
  <2> DEFINE s == [l |-> live, out |-> sent]
  <2>1. PICK event : /\ ~Live!Ended /\ event.kind # "error" /\ Live!Takes(event)
                     /\ Live!StopAfter(Live!OnEvent(s, event).out, Len(Live!OnEvent(s, event).out) - 1)
    BY <1>4 DEF Live!StoreFails
  <2> DEFINE t == Live!OnEvent(s, event)
  <2>2. LiveSound(t, seen')
    BY <2>1, LiveAfter
  <2>3. IsSeq(sent) /\ TextQueue(queue')
    BY <2>1, LiveUntilEnded, TextsLeft
  <2>4. Live!StopAfter(t.out, Len(t.out) - 1)
    BY <2>1
  <2> HIDE DEF s, t
  <2>5. IsSeq(t.out)
    BY <2>2 DEF LiveSound, ItemsSound, EventsSound
  <2>6. Len(t.out) \in Nat
    BY <2>5, SeqFacts
  <2>7. Len(t.out) - 1 \in Int /\ Len(t.out) - 1 <= Len(t.out)
    BY <2>6
  <2> QED
    BY <2>3, <2>4, <2>5, <2>7, TextsStopAfter
<1>5. CASE Live!StoreFailsAtEnd
  <2>1. ~Live!Ended
    BY <1>5 DEF Live!StoreFailsAtEnd
  <2>2. IsSeq(sent)
    BY <2>1, LiveUntilEnded
  <2>3. CASE /\ Live!Takes(Live!Error) \/ UNCHANGED Live!streamVars
             /\ Live!StopAfter(sent, Len(sent))
    <3>1. Len(sent) \in Nat /\ TextQueue(queue')
      BY <2>2, <2>3, TextsLeft, SeqFacts
    <3>2. Len(sent) \in Int /\ Len(sent) <= Len(sent)
      BY <3>1
    <3> QED
      BY <2>2, <2>3, <3>1, <3>2, TextsStopAfter
  <2>4. CASE UNCHANGED Live!streamVars /\ Live!StopAfter(Live!Closing.out, Len(Live!Closing.out))
    <3> DEFINE out == Live!Closing.out
    <3>1. IsSeq(out)
      BY <2>1, LiveClosing DEF EventsSound
    <3>2. Live!StopAfter(out, Len(out)) /\ TextQueue(queue')
      BY <2>4, TextsLeft
    <3> HIDE DEF out
    <3>3. Len(out) \in Nat
      BY <3>1, SeqFacts
    <3>4. Len(out) \in Int /\ Len(out) <= Len(out)
      BY <3>3
    <3> QED
      BY <2>2, <3>1, <3>2, <3>4, TextsStopAfter
  <2> QED
    BY <1>5, <2>3, <2>4 DEF Live!StoreFailsAtEnd
<1>6. CASE Live!Done
  BY <1>6 DEF Live!Done, Live!vars, Live!streamVars, TextsInv, SnapshotOfLive, Live!Ended
<1> QED
  BY <1>1, <1>2, <1>3, <1>4, <1>5, <1>6, TextsReceived DEF Live!Next

LEMMA SnapshotFitsSent ==
    ASSUME LiveInv, TextsInv
    PROVE  Live!SnapshotIsCurrent
<1> SUFFICES ASSUME ~Live!Ended, live.next > 0
             PROVE  /\ Len(snapshot.output) = live.next
                    /\ \A k \in DOMAIN snapshot.output :
                           LET item == snapshot.output[k]
                           IN  item.kind # "custom_tool_call" => item.text = Live!Deltas(item.index)
  BY DEF Live!SnapshotIsCurrent
<1> DEFINE s == [l |-> live, out |-> sent]
<1>1. LiveSound(s, seen) /\ TextsSound(s) /\ snapshot = Live!RefreshSnapshot(s.l)
  BY LiveUntilEnded DEF LiveGoesOn, TextsInv, SnapshotOfLive
<1>2. s.l = live /\ s.out = sent
  OBVIOUS
<1> HIDE DEF s
<1>3. SnapshotFits(s, snapshot.output)
  BY <1>1, <1>2, SnapshotOfState
<1> QED
  BY <1>2, <1>3, DeltasAreSaid DEF SnapshotFits, ItemSaid

ResponsesTextsInv == interface = "responses" => LiveInv /\ TextsInv

LEMMA ResponsesTextsSteps == ResponsesTextsInv /\ [InterfaceNext]_allVars => ResponsesTextsInv'
<1> SUFFICES ASSUME ResponsesTextsInv, [InterfaceNext]_allVars PROVE ResponsesTextsInv'
  OBVIOUS
<1>1. CASE InterfaceNext
  BY <1>1, LiveSteps, TextsSteps DEF InterfaceNext, ResponsesTextsInv
<1>2. CASE UNCHANGED allVars
  BY <1>2, LiveUnchanged
  DEF allVars, streamed, ResponsesTextsInv, TextsInv, SnapshotOfLive, Live!Ended
<1> QED
  BY <1>1, <1>2

\* Whenever a client of Responses leaves between two events, what is stored has one item for
\* each that was added, and of each text, thinking and call with a schema exactly the pieces
\* that the client was sent (live.rs:513-532).
THEOREM SnapshotIsCurrentHolds == InterfaceSpec => []SnapshotIsCurrent
<1>1. InterfaceInit => ResponsesTextsInv
  BY LiveStarted, TextsStarted DEF InterfaceInit, ResponsesTextsInv
<1>2. ResponsesTextsInv => SnapshotIsCurrent
  BY SnapshotFitsSent DEF ResponsesTextsInv, SnapshotIsCurrent
<1> QED
  BY <1>1, <1>2, ResponsesTextsSteps, PTL DEF InterfaceSpec
================================================================================
