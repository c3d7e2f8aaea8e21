-------------------------- MODULE InterfaceTheorems --------------------------
(***************************************************************************)
(* What three of the interfaces promise, for every stream of the upstream, *)
(* every set of markers and every bound: the inductive invariant of each   *)
(* handler and the properties of MCInterfaces that follow from it.         *)
(*                                                                         *)
(* Texts and events stay untyped, IsSeq: nothing depends on what the       *)
(* elements of a sequence are. Loops that the code bounds by what is left  *)
(* to do (close_rest, drain) are recursive functions here, and a least     *)
(* counterexample, NatMin, takes the place of induction.                   *)
(***************************************************************************)
EXTENDS MCInterfaces, FilterTheorems

-----------------------------------------------------------------------------
(* Chat Completions: the indexes of the tool calls.                         *)

OfCall(chunk) == chunk.type \in {"call", "arguments"}
CallsIn(chunks) == {i \in DOMAIN chunks : OfCall(chunks[i])}
IndexesIn(chunks) == {chunks[i].index : i \in CallsIn(chunks)}

\* tool_indices maps the ids one to one to the numbers below its size.
OneToOne(table) ==
    /\ table = [id \in DOMAIN table |-> table[id]]
    /\ IsFiniteSet(DOMAIN table)
    /\ \A id \in DOMAIN table :
           table[id] \in Nat /\ table[id] < Cardinality(DOMAIN table)
    /\ \A a, b \in DOMAIN table : table[a] = table[b] => a = b

\* Exactly these indexes have been sent, and every start with the index of its id.
SentWith(chunks, table) ==
    /\ IndexesIn(chunks) = {k \in Nat : k < Cardinality(DOMAIN table)}
    /\ \A i \in DOMAIN chunks : chunks[i].type = "call" =>
           chunks[i].id \in DOMAIN table /\ chunks[i].index = table[chunks[i].id]

\* What IndexesAreStable says of the chunk at i.
StableAt(chunks, i) ==
    chunks[i].type \in {"call", "arguments"} =>
        LET before == {chunks[j].index : j \in {j \in 1..(i - 1) : chunks[j].type \in {"call", "arguments"}}}
        IN  /\ chunks[i].index \in before \cup {Cardinality(before)}
            /\ chunks[i].type = "call" =>
                   \A j \in 1..(i - 1) : chunks[j].type = "call" =>
                       (chunks[j].id = chunks[i].id) = (chunks[j].index = chunks[i].index)

CallsAreSound(chunks, table) ==
    /\ IsSeq(chunks)
    /\ OneToOne(table)
    /\ SentWith(chunks, table)
    /\ \A i \in DOMAIN chunks : StableAt(chunks, i)

\* The numbers below n are n.
LEMMA NumbersBelow ==
    ASSUME NEW n \in Nat
    PROVE  /\ IsFiniteSet({k \in Nat : k < n})
           /\ Cardinality({k \in Nat : k < n}) = n
<1> DEFINE below == {k \in Nat : k < n}
<1>1. CASE n = 0
  <2>1. below = {}
    BY <1>1
  <2> HIDE DEF below
  <2> QED
    BY <1>1, <2>1, FS_EmptySet
<1>2. CASE n > 0
  <2>1. below = 0..(n - 1)
    BY <1>2
  <2>2. IsFiniteSet(0..(n - 1)) /\ Cardinality(0..(n - 1)) = n
    BY <1>2, FS_Interval
  <2> HIDE DEF below
  <2>3. IsFiniteSet(below) /\ Cardinality(below) = n
    BY <2>1, <2>2
  <2> QED
    BY <2>3, Zenon DEF below
<1> QED
  BY <1>1, <1>2

\* A chunk that is no part of a tool call leaves everything as it is.
LEMMA OtherChunk ==
    ASSUME NEW s, IsSeq(s), NEW chunk, ~OfCall(chunk)
    PROVE  /\ CallsIn(Append(s, chunk)) = CallsIn(s)
           /\ IndexesIn(Append(s, chunk)) = IndexesIn(s)
<1>1. CallsIn(Append(s, chunk)) = CallsIn(s)
  BY AppendFacts, SeqFacts DEF CallsIn
<1>2. \A i \in CallsIn(s) : Append(s, chunk)[i] = s[i]
  BY AppendFacts, SeqFacts DEF CallsIn
<1> QED
  BY <1>1, <1>2 DEF IndexesIn

LEMMA CallChunk ==
    ASSUME NEW s, IsSeq(s), NEW chunk, OfCall(chunk)
    PROVE  /\ CallsIn(Append(s, chunk)) = CallsIn(s) \cup {Len(s) + 1}
           /\ IndexesIn(Append(s, chunk)) = IndexesIn(s) \cup {chunk.index}
<1>1. CallsIn(Append(s, chunk)) = CallsIn(s) \cup {Len(s) + 1}
  BY AppendFacts, SeqFacts DEF CallsIn
<1>2. \A i \in CallsIn(s) : Append(s, chunk)[i] = s[i]
  BY AppendFacts, SeqFacts DEF CallsIn
<1>3. Append(s, chunk)[Len(s) + 1] = chunk
  BY AppendFacts
<1>4. IndexesIn(Append(s, chunk)) = IndexesIn(s) \cup {chunk.index}
  BY <1>1, <1>2, <1>3 DEF IndexesIn
<1> QED
  BY <1>1, <1>4

\* The handler's Cardinality is the one of FiniteSets.
LEMMA ChatCardinality == \A S : OpenAi!Cardinality(S) = Cardinality(S)
BY DEF OpenAi!Cardinality, Cardinality

LEMMA StableIsStableAt == OpenAi!IndexesAreStable <=> \A i \in DOMAIN sent : StableAt(sent, i)
BY ChatCardinality DEF OpenAi!IndexesAreStable, StableAt

\* An earlier chunk stays as stable as it was.
LEMMA StableBefore ==
    ASSUME NEW s, IsSeq(s), NEW chunk, NEW i \in 1..Len(s), StableAt(s, i)
    PROVE  StableAt(Append(s, chunk), i)
<1> DEFINE t == Append(s, chunk)
<1>1. t[i] = s[i] /\ \A j \in 1..(i - 1) : t[j] = s[j] /\ j \in 1..Len(s)
  BY AppendFacts, SeqFacts
<1>2. {j \in 1..(i - 1) : OfCall(t[j])} = {j \in 1..(i - 1) : OfCall(s[j])}
  BY <1>1
<1>3. {t[j].index : j \in {j \in 1..(i - 1) : OfCall(t[j])}}
        = {s[j].index : j \in {j \in 1..(i - 1) : OfCall(s[j])}}
  BY <1>1, <1>2
<1> HIDE DEF t
<1> QED
  BY <1>1, <1>3 DEF StableAt, OfCall, t

LEMMA StableLast ==
    ASSUME NEW s, IsSeq(s), NEW chunk,
           OfCall(chunk) =>
               /\ chunk.index \in IndexesIn(s) \cup {Cardinality(IndexesIn(s))}
               /\ chunk.type = "call" =>
                      \A j \in DOMAIN s : s[j].type = "call" =>
                          (s[j].id = chunk.id) = (s[j].index = chunk.index)
    PROVE  StableAt(Append(s, chunk), Len(s) + 1)
<1> DEFINE t == Append(s, chunk)
           i == Len(s) + 1
<1>1. t[i] = chunk /\ DOMAIN s = 1..(i - 1) /\ \A j \in 1..(i - 1) : t[j] = s[j]
  BY AppendFacts, SeqFacts
<1>2. {j \in 1..(i - 1) : OfCall(t[j])} = CallsIn(s)
  BY <1>1 DEF CallsIn
<1>3. {t[j].index : j \in {j \in 1..(i - 1) : OfCall(t[j])}} = IndexesIn(s)
  <2>1. \A j \in CallsIn(s) : t[j] = s[j]
    BY <1>1 DEF CallsIn
  <2> QED
    BY <1>2, <2>1 DEF IndexesIn
<1> HIDE DEF t, i
<1> QED
  BY <1>1, <1>3 DEF StableAt, OfCall, t, i

\* A chunk that belongs to no tool call changes nothing.
LEMMA OtherIsSound ==
    ASSUME NEW s, NEW table, CallsAreSound(s, table), NEW chunk, ~OfCall(chunk)
    PROVE  CallsAreSound(Append(s, chunk), table)
<1> DEFINE t == Append(s, chunk)
<1>1. IsSeq(s) /\ DOMAIN s = 1..Len(s) /\ Len(s) \in Nat
  BY SeqFacts DEF CallsAreSound
<1>2. /\ IsSeq(t) /\ DOMAIN t = 1..(Len(s) + 1)
      /\ t[Len(s) + 1] = chunk /\ \A i \in 1..Len(s) : t[i] = s[i]
  BY <1>1, AppendFacts
<1>3. \A i \in DOMAIN t : i \in 1..Len(s) \/ i = Len(s) + 1
  BY <1>1, <1>2
<1>4. chunk.type # "call"
  BY DEF OfCall
<1>5. SentWith(t, table)
  <2>1. IndexesIn(t) = IndexesIn(s)
    BY <1>1, OtherChunk
  <2> HIDE DEF t
  <2> QED
    BY <2>1, <1>1, <1>2, <1>3, <1>4 DEF CallsAreSound, SentWith
<1>6. StableAt(t, Len(s) + 1)
  BY <1>1, StableLast
<1>7. \A i \in 1..Len(s) : StableAt(t, i)
  BY <1>1, StableBefore DEF CallsAreSound
<1>8. \A i \in DOMAIN t : StableAt(t, i)
  BY <1>3, <1>6, <1>7
<1> QED
  BY <1>2, <1>5, <1>8 DEF CallsAreSound

-----------------------------------------------------------------------------
IndexIn(table, id) == IF id \in DOMAIN table THEN table[id] ELSE Cardinality(DOMAIN table)
WithIndex(table, id) ==
    [k \in DOMAIN table \cup {id} |-> IF k = id THEN IndexIn(table, id) ELSE table[k]]

LEMMA ChatIndex ==
    ASSUME NEW id
    PROVE  /\ OpenAi!IndexOf(id) = IndexIn(indices, id)
           /\ OpenAi!Indexed(id) = WithIndex(indices, id)
BY ChatCardinality DEF OpenAi!IndexOf, OpenAi!Indexed, IndexIn, WithIndex

\* The table stays one to one; a new id gets the next index and changes no other.
LEMMA WithIndexFacts ==
    ASSUME NEW table, OneToOne(table), NEW id
    PROVE  LET n == Cardinality(DOMAIN table)
               new == WithIndex(table, id)
           IN  /\ n \in Nat
               /\ OneToOne(new)
               /\ id \in DOMAIN new /\ new[id] = IndexIn(table, id)
               /\ \A k \in DOMAIN table : k \in DOMAIN new /\ new[k] = table[k]
               /\ id \in DOMAIN table => new = table
               /\ id \notin DOMAIN table => Cardinality(DOMAIN new) = n + 1
<1> DEFINE n == Cardinality(DOMAIN table)
           new == WithIndex(table, id)
<1>1. n \in Nat
  BY FS_CardinalityType DEF OneToOne
<1>2. /\ DOMAIN new = DOMAIN table \cup {id}
      /\ \A k \in DOMAIN new : new[k] = IF k = id THEN IndexIn(table, id) ELSE table[k]
      /\ new = [k \in DOMAIN new |-> new[k]]
  BY DEF WithIndex
<1>3. CASE id \in DOMAIN table
  <2>1. DOMAIN new = DOMAIN table
    BY <1>2, <1>3
  <2>2. \A k \in DOMAIN table : new[k] = table[k]
    BY <1>2, <1>3 DEF IndexIn
  <2>3. new = table
    BY <1>2, <2>1, <2>2 DEF OneToOne
  <2> HIDE DEF new
  <2> QED
    BY <1>1, <1>3, <2>3, <2>2 DEF IndexIn, new
<1>4. CASE id \notin DOMAIN table
  <2>1. IsFiniteSet(DOMAIN new) /\ Cardinality(DOMAIN new) = n + 1
    BY <1>2, <1>4, FS_AddElement DEF OneToOne
  <2>2. new[id] = n /\ \A k \in DOMAIN table : new[k] = table[k]
    BY <1>2, <1>4 DEF IndexIn
  <2>3. \A k \in DOMAIN table : table[k] \in Nat /\ table[k] < n
    BY DEF OneToOne
  <2> HIDE DEF n, new
  <2>4. \A k \in DOMAIN new : new[k] \in Nat /\ new[k] < n + 1
    BY <1>1, <1>2, <2>2, <2>3
  <2>5. \A a, b \in DOMAIN new : new[a] = new[b] => a = b
    BY <1>1, <1>2, <2>2, <2>3 DEF OneToOne
  <2>6. OneToOne(new)
    BY <1>2, <2>1, <2>4, <2>5 DEF OneToOne
  <2> QED
    BY <1>1, <1>2, <1>4, <2>1, <2>2, <2>6 DEF IndexIn, n, new
<1> QED
  BY <1>3, <1>4

\* A chunk of a tool call, sent with the index that the table gives its id.
LEMMA CallIsSound ==
    ASSUME NEW s, NEW table, CallsAreSound(s, table), NEW id, NEW chunk, OfCall(chunk),
           chunk.index = IndexIn(table, id),
           chunk.type = "call" => chunk.id = id
    PROVE  CallsAreSound(Append(s, chunk), WithIndex(table, id))
<1> DEFINE t == Append(s, chunk)
           n == Cardinality(DOMAIN table)
           new == WithIndex(table, id)
<1>1. IsSeq(s) /\ DOMAIN s = 1..Len(s) /\ Len(s) \in Nat
  BY SeqFacts DEF CallsAreSound
<1>2. /\ IsSeq(t) /\ DOMAIN t = 1..(Len(s) + 1)
      /\ t[Len(s) + 1] = chunk /\ \A i \in 1..Len(s) : t[i] = s[i]
  BY <1>1, AppendFacts
<1>3. \A i \in DOMAIN t : i \in 1..Len(s) \/ i = Len(s) + 1
  BY <1>1, <1>2
<1>4. OneToOne(table) /\ SentWith(s, table)
  BY DEF CallsAreSound
<1>5. /\ n \in Nat
      /\ OneToOne(new)
      /\ id \in DOMAIN new /\ new[id] = IndexIn(table, id)
      /\ \A k \in DOMAIN table : k \in DOMAIN new /\ new[k] = table[k]
      /\ id \in DOMAIN table => new = table
      /\ id \notin DOMAIN table => Cardinality(DOMAIN new) = n + 1
  BY <1>4, WithIndexFacts
<1>6. chunk.index = IF id \in DOMAIN table THEN table[id] ELSE n
  BY DEF IndexIn
<1>7. \A k \in DOMAIN table : table[k] \in Nat /\ table[k] < n
  BY <1>4 DEF OneToOne
<1>8. IndexesIn(t) = IndexesIn(s) \cup {chunk.index}
  BY <1>1, CallChunk
<1>9. IndexesIn(s) = {k \in Nat : k < n}
  BY <1>4 DEF SentWith
<1>10. Cardinality(IndexesIn(s)) = n
  BY <1>5, <1>9, NumbersBelow
<1> HIDE DEF t, new, n
<1>11. SentWith(t, new)
  <2>1. IndexesIn(t) = {k \in Nat : k < Cardinality(DOMAIN new)}
    <3>1. CASE id \in DOMAIN table
      BY <3>1, <1>5, <1>6, <1>7, <1>8, <1>9 DEF n
    <3>2. CASE id \notin DOMAIN table
      BY <3>2, <1>5, <1>6, <1>8, <1>9
    <3> QED
      BY <3>1, <3>2
  <2>2. ASSUME NEW i \in DOMAIN t, t[i].type = "call"
        PROVE  t[i].id \in DOMAIN new /\ t[i].index = new[t[i].id]
    <3>1. CASE i \in 1..Len(s)
      BY <3>1, <2>2, <1>1, <1>2, <1>4, <1>5 DEF SentWith
    <3>2. CASE i = Len(s) + 1
      BY <3>2, <2>2, <1>2, <1>5
    <3> QED
      BY <3>1, <3>2, <1>3
  <2> QED
    BY <2>1, <2>2 DEF SentWith
<1>12. StableAt(t, Len(s) + 1)
  <2>1. chunk.index \in IndexesIn(s) \cup {Cardinality(IndexesIn(s))}
    BY <1>6, <1>7, <1>9, <1>10
  <2>2. ASSUME chunk.type = "call", NEW j \in DOMAIN s, s[j].type = "call"
        PROVE  (s[j].id = chunk.id) = (s[j].index = chunk.index)
    <3>1. s[j].id \in DOMAIN table /\ s[j].index = table[s[j].id]
      BY <2>2, <1>4 DEF SentWith
    <3>2. s[j].id \in DOMAIN new /\ s[j].index = new[s[j].id]
      BY <3>1, <1>5
    <3>3. s[j].index = chunk.index => s[j].id = chunk.id
      BY <3>2, <2>2, <1>5 DEF OneToOne
    <3>4. s[j].id = chunk.id => s[j].index = chunk.index
      BY <3>2, <2>2, <1>5
    <3> QED
      BY <3>3, <3>4
  <2> QED
    BY <1>1, <2>1, <2>2, StableLast DEF t
<1>13. \A i \in 1..Len(s) : StableAt(t, i)
  BY <1>1, StableBefore DEF CallsAreSound, t
<1>14. \A i \in DOMAIN t : StableAt(t, i)
  BY <1>3, <1>12, <1>13
<1> QED
  BY <1>2, <1>5, <1>11, <1>14 DEF CallsAreSound, t, new

-----------------------------------------------------------------------------
(* Chat Completions: the accumulator keeps every call that it knows.        *)

ToolsSound(tools) ==
    /\ tools = [buffers |-> tools.buffers, order |-> tools.order, last |-> tools.last]
    /\ IsSeq(tools.order)
    /\ DOMAIN tools.buffers # {} => Len(tools.order) > 0

Keeps(before, after) == ToolsSound(after) /\ Len(after.order) >= Len(before.order)

LEMMA KeepsItself ==
    ASSUME NEW tools, ToolsSound(tools)
    PROVE  Keeps(tools, tools) /\ Len(tools.order) \in Nat
BY SeqFacts DEF Keeps, ToolsSound

LEMMA KeepsOnKeeping ==
    ASSUME NEW tools, ToolsSound(tools), NEW between, Keeps(tools, between),
           NEW after, Keeps(between, after)
    PROVE  Keeps(tools, after)
<1>1. /\ Len(tools.order) \in Nat /\ Len(between.order) \in Nat /\ Len(after.order) \in Nat
      /\ Len(between.order) >= Len(tools.order) /\ Len(after.order) >= Len(between.order)
  BY SeqFacts DEF Keeps, ToolsSound
<1>2. Len(after.order) >= Len(tools.order)
  BY <1>1
<1> QED
  BY <1>2 DEF Keeps

LEMMA KeepsCalls ==
    ASSUME NEW tools, ToolsSound(tools), Len(tools.order) > 0, NEW after, Keeps(tools, after)
    PROVE  Len(after.order) > 0
<1>1. Len(tools.order) \in Nat /\ Len(after.order) \in Nat /\ Len(after.order) >= Len(tools.order)
  BY SeqFacts DEF Keeps, ToolsSound
<1> QED
  BY <1>1

LEMMA KeepsLast ==
    ASSUME NEW tools, ToolsSound(tools), NEW key
    PROVE  Keeps(tools, [tools EXCEPT !.last = key])
<1> DEFINE new == [tools EXCEPT !.last = key]
<1>1. new = [buffers |-> tools.buffers, order |-> tools.order, last |-> key]
  BY DEF ToolsSound
<1> HIDE DEF new
<1>2. Keeps(tools, new)
  BY <1>1, KeepsItself DEF Keeps, ToolsSound
<1> QED
  BY <1>2 DEF new

LEMMA ChatInserts ==
    ASSUME NEW tools, ToolsSound(tools), NEW key, NEW name, NEW generated
    PROVE  /\ Keeps(tools, OpenAi!InsertBuffer(tools, key, name, generated))
           /\ Len(OpenAi!InsertBuffer(tools, key, name, generated).order) > 0
<1> DEFINE new == OpenAi!InsertBuffer(tools, key, name, generated)
<1>1. /\ new = [buffers |-> new.buffers, order |-> new.order, last |-> new.last]
      /\ new.order = Append(tools.order, key)
  BY DEF OpenAi!InsertBuffer
<1>2. /\ IsSeq(new.order) /\ Len(new.order) = Len(tools.order) + 1
      /\ Len(tools.order) \in Nat
  BY <1>1, AppendFacts, SeqFacts DEF ToolsSound
<1> HIDE DEF new
<1>3. Keeps(tools, new) /\ Len(new.order) > 0
  BY <1>1, <1>2 DEF Keeps, ToolsSound
<1> QED
  BY <1>3 DEF new

LEMMA ChatCompletes ==
    ASSUME NEW tools, ToolsSound(tools), NEW key, NEW complete
    PROVE  Keeps(tools, OpenAi!CompleteBuffer(tools, key, complete))
<1> DEFINE new == OpenAi!CompleteBuffer(tools, key, complete)
<1>1. CASE key \notin DOMAIN tools.buffers
  BY <1>1, KeepsItself DEF OpenAi!CompleteBuffer
<1>2. CASE key \in DOMAIN tools.buffers
  <2>1. /\ new = [buffers |-> new.buffers, order |-> tools.order, last |-> tools.last]
        /\ DOMAIN new.buffers = DOMAIN tools.buffers
    BY <1>2 DEF OpenAi!CompleteBuffer, ToolsSound
  <2> HIDE DEF new
  <2>2. Keeps(tools, new)
    BY <2>1, KeepsItself DEF Keeps, ToolsSound
  <2> QED
    BY <2>2 DEF new
<1> QED
  BY <1>1, <1>2

LEMMA ChatRebinds ==
    ASSUME NEW tools, ToolsSound(tools), NEW id, NEW name, OpenAi!CanRebind(tools, name)
    PROVE  /\ Keeps(tools, OpenAi!RebindGenerated(tools, id))
           /\ Len(OpenAi!RebindGenerated(tools, id).order) > 0
<1> DEFINE new == OpenAi!RebindGenerated(tools, id)
           last == OpenAi!LastOpenTool(tools)
           order == [i \in DOMAIN tools.order |-> IF tools.order[i] = last THEN id ELSE tools.order[i]]
<1>1. last \in DOMAIN tools.buffers
  BY DEF OpenAi!CanRebind, OpenAi!LastOpenTool, OpenAi!IsOpen
<1>2. Len(tools.order) \in Nat /\ Len(tools.order) > 0
  BY <1>1, SeqFacts DEF ToolsSound
<1>3. IsSeq(order) /\ Len(order) = Len(tools.order)
  <2>1. PICK S : tools.order \in Seq(S)
    BY DEF ToolsSound, IsSeq
  <2>2. order \in Seq(S \cup {id}) /\ Len(order) = Len(tools.order)
    BY <2>1
  <2> HIDE DEF order
  <2> QED
    BY <2>2 DEF IsSeq
<1>4. /\ new = [buffers |-> new.buffers, order |-> new.order, last |-> new.last]
      /\ new.order = order
  BY DEF OpenAi!RebindGenerated
<1> HIDE DEF new, order
<1>5. Keeps(tools, new) /\ Len(new.order) > 0
  BY <1>2, <1>3, <1>4 DEF Keeps, ToolsSound
<1> QED
  BY <1>5 DEF new

LEMMA ChatStarts ==
    ASSUME NEW tools, ToolsSound(tools), NEW id, NEW name
    PROVE  /\ Keeps(tools, OpenAi!StartCall(tools, id, name))
           /\ id # "" /\ name # "" => Len(OpenAi!StartCall(tools, id, name).order) > 0
<1>1. CASE id = ""
  <2> DEFINE last == OpenAi!LastOpenTool(tools)
             ended == OpenAi!CompleteBuffer(tools, last, TRUE)
             fresh == OpenAi!GeneratedId(Len(tools.order) + 1)
  <2>1. Keeps(tools, ended) /\ ToolsSound(ended)
    BY ChatCompletes DEF Keeps
  <2> HIDE DEF ended
  <2> DEFINE new == OpenAi!InsertBuffer(ended, fresh, name, TRUE)
  <2>2. Keeps(ended, new)
    BY <2>1, ChatInserts
  <2> HIDE DEF new
  <2>3. Keeps(tools, new)
    BY <2>1, <2>2, KeepsOnKeeping
  <2>4. \/ OpenAi!StartCall(tools, id, name) = tools
        \/ OpenAi!StartCall(tools, id, name) = new
    BY <1>1 DEF OpenAi!StartCall, OpenAi!StartWithoutId, ended, new
  <2> QED
    BY <1>1, <2>3, <2>4, KeepsItself
<1>2. CASE id # "" /\ id \in DOMAIN tools.buffers
  <2>1. OpenAi!StartCall(tools, id, name) = [tools EXCEPT !.last = id]
    BY <1>2 DEF OpenAi!StartCall, OpenAi!StartWithId
  <2>2. Keeps(tools, [tools EXCEPT !.last = id])
    BY KeepsLast
  <2>3. Len(tools.order) \in Nat /\ Len(tools.order) > 0
    BY <1>2, SeqFacts DEF ToolsSound
  <2>4. [tools EXCEPT !.last = id].order = tools.order
    BY DEF ToolsSound
  <2> QED
    BY <2>1, <2>2, <2>3, <2>4
<1>3. CASE id # "" /\ id \notin DOMAIN tools.buffers /\ OpenAi!CanRebind(tools, name)
  BY <1>3, ChatRebinds DEF OpenAi!StartCall, OpenAi!StartWithId
<1>4. CASE id # "" /\ id \notin DOMAIN tools.buffers /\ ~OpenAi!CanRebind(tools, name)
  <2>1. OpenAi!StartCall(tools, id, name)
          = IF name = "" THEN tools ELSE OpenAi!InsertBuffer(tools, id, name, FALSE)
    BY <1>4 DEF OpenAi!StartCall, OpenAi!StartWithId
  <2> QED
    BY <2>1, ChatInserts, KeepsItself
<1> QED
  BY <1>1, <1>2, <1>3, <1>4

LEMMA ChatAppends ==
    ASSUME NEW tools, ToolsSound(tools), NEW id, NEW fragment
    PROVE  Keeps(tools, OpenAi!AppendFragment(tools, id, fragment))
<1> DEFINE new == OpenAi!AppendFragment(tools, id, fragment)
           key == IF id # "" THEN id ELSE OpenAi!LastOpenTool(tools)
<1>1. CASE ~OpenAi!IsOpen(tools, key)
  BY <1>1, KeepsItself DEF OpenAi!AppendFragment
<1>2. CASE OpenAi!IsOpen(tools, key)
  <2>1. /\ new = [buffers |-> new.buffers, order |-> tools.order, last |-> new.last]
        /\ DOMAIN new.buffers = DOMAIN tools.buffers
    BY <1>2 DEF OpenAi!AppendFragment, ToolsSound
  <2> HIDE DEF new
  <2>2. Keeps(tools, new)
    BY <2>1, KeepsItself DEF Keeps, ToolsSound
  <2> QED
    BY <2>2 DEF new
<1> QED
  BY <1>1, <1>2

LEMMA ChatFinishes ==
    ASSUME NEW tools, ToolsSound(tools), NEW id, NEW complete
    PROVE  Keeps(tools, OpenAi!FinishWithState(tools, id, complete))
<1> DEFINE key == IF id # "" THEN id ELSE tools.last
           ended == OpenAi!CompleteBuffer(tools, key, complete)
           new == OpenAi!FinishWithState(tools, id, complete)
           kept == IF ended.last = key THEN "" ELSE ended.last
<1>1. ToolsSound(ended)
  BY ChatCompletes DEF Keeps
<1>2. new = [ended EXCEPT !.last = kept]
  BY DEF OpenAi!FinishWithState
<1> HIDE DEF ended, kept
<1>3. Keeps(ended, new)
  BY <1>1, <1>2, KeepsLast
<1>4. Keeps(tools, ended)
  BY ChatCompletes DEF ended
<1> QED
  BY <1>3, <1>4, KeepsOnKeeping

-----------------------------------------------------------------------------
(* Chat Completions: what was sent, and what the accumulator has.           *)

ToolKinds == {"start", "delta", "end"}
HasToolEvent(events) == \E i \in DOMAIN events : events[i].kind \in ToolKinds

AccumulatorSound(a) ==
    /\ a = [text |-> a.text, thinking |-> a.thinking, filter |-> a.filter,
            tools |-> a.tools, reason |-> a.reason, usage |-> a.usage]
    /\ ToolsSound(a.tools)

\* An event that starts a call by its id and its name.
Names(event) == event.kind = "start" /\ event.id # "" /\ event.name # ""

\* A stream whose events name their calls did so from its first events on, and its first
\* event of a tool call starts one.
LEMMA IdsBefore ==
    ASSUME NEW events, IsSeq(events), NEW event, OpenAi!HasIds(Append(events, event))
    PROVE  /\ OpenAi!HasIds(events)
           /\ event.kind \in ToolKinds /\ ~HasToolEvent(events) => Names(event)
<1> DEFINE longer == Append(events, event)
           toolIn(s) == {i \in DOMAIN s : s[i].kind \in {"start", "delta", "end"}}
           earlier(s, i) == {j \in toolIn(s) : j < i /\ s[j].id = s[i].id}
           named(s, i) ==
               /\ s[i].id # ""
               /\ earlier(s, i) = {} => s[i].kind = "start" /\ s[i].name # ""
               /\ \A j \in earlier(s, i) :
                      /\ s[j].kind # "end"
                      /\ s[i].kind = "start" /\ s[j].kind = "start" =>
                             \/ "" \in {s[i].name, s[j].name}
                             \/ s[i].name = s[j].name
<1>1. /\ Len(events) \in Nat /\ DOMAIN events = 1..Len(events)
      /\ DOMAIN longer = 1..(Len(events) + 1)
      /\ longer[Len(events) + 1] = event
      /\ \A i \in 1..Len(events) : longer[i] = events[i]
  BY SeqFacts, AppendFacts
<1>2. \A s : OpenAi!HasIds(s) <=> \A i \in toolIn(s) : named(s, i)
  BY Zenon DEF OpenAi!HasIds
<1> HIDE DEF longer
<1>3. \A i \in toolIn(longer) : named(longer, i)
  BY <1>2 DEF longer
<1>4. ASSUME NEW i \in toolIn(events)
      PROVE  named(events, i)
  <2>1. i \in toolIn(longer) /\ longer[i] = events[i]
    BY <1>1
  <2>2. named(longer, i)
    BY <1>3, <2>1
  <2>3. earlier(longer, i) = earlier(events, i)
    BY <1>1, <2>1
  <2>4. \A j \in earlier(events, i) : longer[j] = events[j]
    BY <1>1
  <2> HIDE DEF earlier
  <2> QED
    BY <2>1, <2>2, <2>3, <2>4
<1>5. ASSUME event.kind \in ToolKinds, ~HasToolEvent(events)
      PROVE  Names(event)
  <2> DEFINE i == Len(events) + 1
  <2>1. i \in toolIn(longer)
    BY <1>1, <1>5 DEF ToolKinds
  <2>2. named(longer, i)
    BY <1>3, <2>1
  <2>3. earlier(longer, i) = {}
    BY <1>1, <1>5 DEF HasToolEvent, ToolKinds
  <2> HIDE DEF earlier
  <2> QED
    BY <1>1, <2>2, <2>3 DEF Names
<1>6. OpenAi!HasIds(events)
  BY <1>2, <1>4
<1> QED
  BY <1>5, <1>6

LEMMA ToolEventTaken ==
    ASSUME NEW events, IsSeq(events), NEW event
    PROVE  HasToolEvent(Append(events, event)) <=> HasToolEvent(events) \/ event.kind \in ToolKinds
<1> DEFINE longer == Append(events, event)
<1>1. /\ Len(events) \in Nat /\ DOMAIN events = 1..Len(events)
      /\ DOMAIN longer = 1..(Len(events) + 1)
      /\ longer[Len(events) + 1] = event
      /\ \A i \in 1..Len(events) : longer[i] = events[i]
  BY SeqFacts, AppendFacts
<1> HIDE DEF longer
<1>2. \A i \in DOMAIN longer : i \in DOMAIN events \/ i = Len(events) + 1
  BY <1>1
<1>3. Len(events) + 1 \in DOMAIN longer /\ \A i \in DOMAIN events : i \in DOMAIN longer
  BY <1>1
<1>4. HasToolEvent(longer) <=> HasToolEvent(events) \/ event.kind \in ToolKinds
  BY <1>1, <1>2, <1>3 DEF HasToolEvent
<1> QED
  BY <1>4 DEF longer

\* An event that the accumulator takes.
ForAccumulator(event) ==
    event.kind \in {"text", "thinking", "start", "delta", "end", "usage", "stop"}

\* Every event leaves the accumulator one, and a call that starts with its id is known.
LEMMA ChatApplies ==
    ASSUME NEW a, AccumulatorSound(a), NEW event, ForAccumulator(event)
    PROVE  /\ AccumulatorSound(OpenAi!ApplyEvent(a, event))
           /\ Keeps(a.tools, OpenAi!ApplyEvent(a, event).tools)
           /\ Names(event) => Len(OpenAi!ApplyEvent(a, event).tools.order) > 0
<1> DEFINE after == OpenAi!ApplyEvent(a, event)
<1>1. /\ after = [text |-> after.text, thinking |-> after.thinking, filter |-> after.filter,
                  tools |-> after.tools, reason |-> after.reason, usage |-> after.usage]
      /\ after.tools = CASE event.kind = "start" -> OpenAi!StartCall(a.tools, event.id, event.name)
                         [] event.kind = "delta" -> OpenAi!AppendFragment(a.tools, event.id, event.arguments)
                         [] event.kind = "end"   -> OpenAi!FinishWithState(a.tools, event.id, event.complete)
                         [] OTHER                -> a.tools
  <2>1. CASE event.kind = "text"
    BY <2>1 DEF OpenAi!ApplyEvent, AccumulatorSound
  <2>2. CASE event.kind = "thinking"
    BY <2>2 DEF OpenAi!ApplyEvent, AccumulatorSound
  <2>3. CASE event.kind = "start"
    BY <2>3 DEF OpenAi!ApplyEvent, AccumulatorSound
  <2>4. CASE event.kind = "delta"
    BY <2>4 DEF OpenAi!ApplyEvent, AccumulatorSound
  <2>5. CASE event.kind = "end"
    BY <2>5 DEF OpenAi!ApplyEvent, AccumulatorSound
  <2>6. CASE event.kind = "usage"
    BY <2>6 DEF OpenAi!ApplyEvent, AccumulatorSound
  <2>7. CASE event.kind = "stop"
    BY <2>7 DEF OpenAi!ApplyEvent, AccumulatorSound
  <2> QED
    BY <2>1, <2>2, <2>3, <2>4, <2>5, <2>6, <2>7 DEF ForAccumulator
<1> HIDE DEF after
<1>2. ToolsSound(a.tools)
  BY DEF AccumulatorSound
<1>3. Keeps(a.tools, after.tools)
  <2>1. CASE event.kind = "start"
    BY <2>1, <1>1, <1>2, ChatStarts
  <2>2. CASE event.kind = "delta"
    BY <2>2, <1>1, <1>2, ChatAppends
  <2>3. CASE event.kind = "end"
    BY <2>3, <1>1, <1>2, ChatFinishes
  <2>4. CASE event.kind \in {"text", "thinking", "usage", "stop"}
    BY <2>4, <1>1, <1>2, KeepsItself
  <2> QED
    BY <2>1, <2>2, <2>3, <2>4 DEF ForAccumulator
<1>4. Names(event) => Len(after.tools.order) > 0
  BY <1>1, <1>2, ChatStarts DEF Names
<1>5. AccumulatorSound(after)
  BY <1>1, <1>3 DEF Keeps, AccumulatorSound
<1> QED
  BY <1>3, <1>4, <1>5 DEF after

\* An answer with a call does not just stop.
LEMMA CallsHaveAReason ==
    ASSUME NEW a, Len(a.tools.order) > 0, IsSeq(a.tools.order)
    PROVE  OpenAi!ChatFinishReason(OpenAi!Finished(a)) # "stop"
<1> DEFINE calls == OpenAi!FinishAll(a.tools)
           result == OpenAi!Finished(a)
<1>1. DOMAIN calls = 1..Len(a.tools.order) /\ Len(a.tools.order) \in Nat
  BY SeqFacts DEF OpenAi!FinishAll
<1>2. calls # <<>>
  BY <1>1
<1>3. result.calls = calls /\ result.incomplete \in BOOLEAN
  BY DEF OpenAi!Finished
<1> HIDE DEF result, calls
<1>4. OpenAi!ChatFinishReason(result) # "stop"
  BY <1>2, <1>3 DEF OpenAi!ChatFinishReason
<1> QED
  BY <1>4 DEF result

-----------------------------------------------------------------------------
(* Chat Completions: the stream as a whole.                                 *)

EndTypes == {"error", "finish", "[DONE]"}
HasCall(chunks) == \E i \in DOMAIN chunks : chunks[i].type = "call"

GoesOn(chunks) == \A i \in DOMAIN chunks : chunks[i].type \notin EndTypes
IsOver(chunks) ==
    /\ Len(chunks) > 1 /\ chunks[Len(chunks)] = OpenAi!DoneSent
    /\ chunks[Len(chunks) - 1].type \in {"error", "finish"}
    /\ \A i \in 1..(Len(chunks) - 2) : chunks[i].type \notin EndTypes

\* What the accumulator has while calls are sent, and what the end says of it.
AnswerSound ==
    /\ IsSeq(seen) /\ AccumulatorSound(acc)
    /\ OpenAi!HasIds(seen) /\ HasToolEvent(seen) => Len(acc.tools.order) > 0
    /\ HasCall(sent) => HasToolEvent(seen)

ChatInv ==
    /\ CallsAreSound(sent, indices) /\ Len(sent) > 0
    /\ AnswerSound
    /\ GoesOn(sent) \/ IsOver(sent)
    /\ IsOver(sent) /\ sent[Len(sent) - 1].type = "finish" =>
           sent[Len(sent) - 1].reason = OpenAi!ChatFinishReason(OpenAi!Finished(acc))

LEMMA ChatStarted ==
    ASSUME OpenAi!Init
    PROVE  ChatInv
<1>1. /\ sent = <<OpenAi!Role>> /\ seen = <<>> /\ indices = <<>>
      /\ acc = OpenAi!NewAccumulator
  BY DEF OpenAi!Init, OpenAi!StreamInit
<1>2. sent = Append(<<>>, OpenAi!Role) /\ IsSeq(<<>>)
  BY <1>1, EmptyIsSeq
<1>3. OneToOne(<<>>)
  <2>1. DOMAIN <<>> = {}
    OBVIOUS
  <2> QED
    BY <2>1, FS_EmptySet DEF OneToOne
<1>4. CallsAreSound(<<>>, <<>>)
  <2>1. CallsIn(<<>>) = {} /\ IndexesIn(<<>>) = {}
    BY DEF CallsIn, IndexesIn
  <2>2. Cardinality(DOMAIN <<>>) = 0
    <3>1. DOMAIN <<>> = {}
      OBVIOUS
    <3> QED
      BY <3>1, FS_EmptySet
  <2>3. {k \in Nat : k < Cardinality(DOMAIN <<>>)} = {}
    BY <2>2
  <2>4. SentWith(<<>>, <<>>)
    BY <2>1, <2>3 DEF SentWith
  <2> QED
    BY <1>2, <1>3, <2>4 DEF CallsAreSound
<1>5. ~OfCall(OpenAi!Role)
  BY DEF OfCall, OpenAi!Role
<1>6. CallsAreSound(sent, indices)
  BY <1>1, <1>2, <1>4, <1>5, OtherIsSound
<1>7. /\ Len(sent) = 1 /\ DOMAIN sent = {1} /\ sent[1].type = "role"
  BY <1>1 DEF OpenAi!Role
<1>8. AccumulatorSound(acc)
  <2>1. ToolsSound(OpenAi!NoTools)
    BY EmptyIsSeq DEF ToolsSound, OpenAi!NoTools
  <2>2. /\ acc = [text |-> acc.text, thinking |-> acc.thinking, filter |-> acc.filter,
                  tools |-> acc.tools, reason |-> acc.reason, usage |-> acc.usage]
        /\ acc.tools = OpenAi!NoTools
    BY <1>1 DEF OpenAi!NewAccumulator
  <2> QED
    BY <2>1, <2>2 DEF AccumulatorSound
<1>9. AnswerSound
  BY <1>1, <1>7, <1>8, EmptyIsSeq DEF AnswerSound, HasToolEvent, HasCall
<1>10. GoesOn(sent) /\ ~IsOver(sent)
  BY <1>7 DEF GoesOn, EndTypes, IsOver
<1> QED
  BY <1>6, <1>7, <1>9, <1>10 DEF ChatInv

\* While the answer is not over, a chunk that does not end it can be sent.
LEMMA ChunkSent ==
    ASSUME NEW s, IsSeq(s), GoesOn(s), NEW chunk, chunk.type \notin EndTypes
    PROVE  /\ GoesOn(Append(s, chunk)) /\ ~IsOver(Append(s, chunk))
           /\ HasCall(Append(s, chunk)) => HasCall(s) \/ chunk.type = "call"
<1> DEFINE t == Append(s, chunk)
<1>1. /\ Len(s) \in Nat /\ DOMAIN s = 1..Len(s) /\ Len(t) = Len(s) + 1
      /\ DOMAIN t = 1..(Len(s) + 1) /\ t[Len(s) + 1] = chunk
      /\ \A i \in 1..Len(s) : t[i] = s[i]
  BY SeqFacts, AppendFacts
<1> HIDE DEF t
<1>2. \A i \in DOMAIN t : i \in DOMAIN s \/ i = Len(s) + 1
  BY <1>1
<1>3. GoesOn(t)
  BY <1>1, <1>2 DEF GoesOn
<1>4. ~IsOver(t)
  BY <1>1 DEF IsOver, EndTypes, OpenAi!DoneSent
<1>5. HasCall(t) => HasCall(s) \/ chunk.type = "call"
  BY <1>1, <1>2 DEF HasCall
<1> QED
  BY <1>3, <1>4, <1>5 DEF t

LEMMA EndSent ==
    ASSUME NEW s, IsSeq(s), GoesOn(s), NEW last, last.type \in {"error", "finish"}
    PROVE  LET t == Append(Append(s, last), OpenAi!DoneSent)
           IN  /\ IsOver(t) /\ ~GoesOn(t) /\ t[Len(t) - 1] = last /\ Len(t) > 0
               /\ HasCall(t) => HasCall(s)
<1> DEFINE u == Append(s, last)
           t == Append(u, OpenAi!DoneSent)
<1>1. /\ Len(s) \in Nat /\ DOMAIN s = 1..Len(s) /\ Len(u) = Len(s) + 1
      /\ IsSeq(u) /\ u[Len(s) + 1] = last
      /\ \A i \in 1..Len(s) : u[i] = s[i]
  BY SeqFacts, AppendFacts
<1>2. /\ Len(t) = Len(s) + 2 /\ DOMAIN t = 1..(Len(s) + 2)
      /\ t[Len(s) + 2] = OpenAi!DoneSent /\ t[Len(s) + 1] = last
      /\ \A i \in 1..Len(s) : t[i] = s[i]
  BY <1>1, AppendFacts
<1> HIDE DEF u, t
<1>3. IsOver(t)
  BY <1>1, <1>2 DEF IsOver, GoesOn
<1>4. ~GoesOn(t)
  BY <1>1, <1>2 DEF GoesOn, OpenAi!DoneSent, EndTypes
<1>5. HasCall(t) => HasCall(s)
  <2>1. \A i \in DOMAIN t : i \in DOMAIN s \/ i = Len(s) + 1 \/ i = Len(s) + 2
    BY <1>1, <1>2
  <2> QED
    BY <1>1, <1>2, <2>1 DEF HasCall, OpenAi!DoneSent
<1> QED
  BY <1>1, <1>2, <1>3, <1>4, <1>5 DEF t, u

\* An answer that goes on is one that has not ended.
LEMMA ChatGoesOn ==
    ASSUME ChatInv, ~OpenAi!Ended
    PROVE  GoesOn(sent) /\ ~IsOver(sent) /\ IsSeq(sent)
BY DEF ChatInv, OpenAi!Ended, IsOver, CallsAreSound

\* An event of the upstream.
LEMMA ChatReceives ==
    ASSUME ChatInv, OpenAi!Receive
    PROVE  ChatInv'
<1>1. PICK event : /\ OpenAi!Accept(event)
                   /\ \/ OpenAi!SendText(event) \/ OpenAi!SendThinking(event)
                      \/ OpenAi!SendCallStart(event) \/ OpenAi!SendArguments(event)
                      \/ OpenAi!SendNothing(event)
  BY DEF OpenAi!Receive
<1>2. /\ ~OpenAi!Ended /\ acc' = OpenAi!ApplyEvent(acc, event)
      /\ seen' = Append(seen, event)
  BY <1>1 DEF OpenAi!Accept, OpenAi!Takes
<1>3. GoesOn(sent) /\ ~IsOver(sent) /\ IsSeq(sent)
  BY <1>2, ChatGoesOn
<1>4. ForAccumulator(event)
  BY <1>1 DEF OpenAi!SendText, OpenAi!SendThinking, OpenAi!SendCallStart,
              OpenAi!SendArguments, OpenAi!SendNothing, ForAccumulator
<1>5. \/ sent' = sent /\ indices' = indices
      \/ \E chunk : /\ sent' = Append(sent, chunk) /\ indices' = indices
                    /\ chunk.type \in {"content", "reasoning_content"}
      \/ \E chunk : /\ sent' = Append(sent, chunk) /\ indices' = WithIndex(indices, event.id)
                    /\ chunk.type \in {"call", "arguments"}
                    /\ chunk.index = IndexIn(indices, event.id)
                    /\ chunk.type = "call" => chunk.id = event.id
                    /\ event.kind \in {"start", "delta"}
  <2>1. CASE OpenAi!SendText(event)
    <3> DEFINE drained == OpenAi!FilterPush(filter, event.text)
    <3>1. /\ indices' = indices
          /\ sent' = sent \/ sent' = Append(sent, OpenAi!Content(drained.output))
      BY <2>1, <1>3, ConcatFacts DEF OpenAi!SendText, OpenAi!Send, OpenAi!Optional
    <3>2. OpenAi!Content(drained.output).type = "content"
      BY DEF OpenAi!Content
    <3> QED
      BY <3>1, <3>2
  <2>2. CASE OpenAi!SendThinking(event)
    <3>1. /\ indices' = indices
          /\ sent' = sent \/ sent' = Append(sent, OpenAi!ReasoningContent(event.text))
      BY <2>2, <1>3, ConcatFacts DEF OpenAi!SendThinking, OpenAi!Send, OpenAi!Optional
    <3>2. OpenAi!ReasoningContent(event.text).type = "reasoning_content"
      BY DEF OpenAi!ReasoningContent
    <3> QED
      BY <3>1, <3>2
  <2>3. CASE OpenAi!SendCallStart(event)
    <3> DEFINE chunk == OpenAi!CallStart(IndexIn(indices, event.id), event.id, event.name)
    <3>1. /\ indices' = WithIndex(indices, event.id) /\ event.kind = "start"
          /\ sent' = Append(sent, chunk)
      BY <2>3, <1>3, ConcatFacts, ChatIndex DEF OpenAi!SendCallStart, OpenAi!Send
    <3>2. /\ chunk.type = "call" /\ chunk.id = event.id
          /\ chunk.index = IndexIn(indices, event.id)
      BY DEF OpenAi!CallStart
    <3> QED
      BY <3>1, <3>2
  <2>4. CASE OpenAi!SendArguments(event)
    <3> DEFINE chunk == OpenAi!CallArguments(IndexIn(indices, event.id), event.arguments)
    <3>1. /\ indices' = WithIndex(indices, event.id) /\ event.kind = "delta"
          /\ sent' = Append(sent, chunk)
      BY <2>4, <1>3, ConcatFacts, ChatIndex DEF OpenAi!SendArguments, OpenAi!Send
    <3>2. chunk.type = "arguments" /\ chunk.index = IndexIn(indices, event.id)
      BY DEF OpenAi!CallArguments
    <3> QED
      BY <3>1, <3>2
  <2>5. CASE OpenAi!SendNothing(event)
    BY <2>5 DEF OpenAi!SendNothing
  <2> QED
    BY <1>1, <2>1, <2>2, <2>3, <2>4, <2>5
<1>6. /\ CallsAreSound(sent', indices') /\ Len(sent') > 0
      /\ GoesOn(sent') /\ ~IsOver(sent')
      /\ HasCall(sent') => HasCall(sent) \/ event.kind \in ToolKinds
  <2>1. CASE sent' = sent /\ indices' = indices
    BY <2>1, <1>3 DEF ChatInv
  <2>2. ASSUME NEW chunk, sent' = Append(sent, chunk), indices' = indices,
               chunk.type \in {"content", "reasoning_content"}
        PROVE  <1>6!:
    <3>1. chunk.type \notin EndTypes /\ chunk.type # "call" /\ ~OfCall(chunk)
      BY <2>2 DEF EndTypes, OfCall
    <3>2. Len(sent') = Len(sent) + 1 /\ Len(sent) \in Nat
      BY <2>2, <1>3, AppendFacts, SeqFacts
    <3> QED
      BY <2>2, <3>1, <3>2, <1>3, ChunkSent, OtherIsSound DEF ChatInv
  <2>3. ASSUME NEW chunk, sent' = Append(sent, chunk), indices' = WithIndex(indices, event.id),
               chunk.type \in {"call", "arguments"}, chunk.index = IndexIn(indices, event.id),
               chunk.type = "call" => chunk.id = event.id, event.kind \in {"start", "delta"}
        PROVE  <1>6!:
    <3>1. chunk.type \notin EndTypes /\ OfCall(chunk)
      BY <2>3 DEF EndTypes, OfCall
    <3>2. Len(sent') = Len(sent) + 1 /\ Len(sent) \in Nat
      BY <2>3, <1>3, AppendFacts, SeqFacts
    <3>3. CallsAreSound(sent', indices')
      BY <2>3, <3>1, CallIsSound DEF ChatInv
    <3>4. event.kind \in ToolKinds
      BY <2>3 DEF ToolKinds
    <3> QED
      BY <2>3, <3>1, <3>2, <3>3, <3>4, <1>3, ChunkSent
  <2> QED
    BY <1>5, <2>1, <2>2, <2>3
<1>7. AnswerSound'
  <2>1. /\ IsSeq(seen) /\ AccumulatorSound(acc) /\ IsSeq(seen')
    BY <1>2, AppendFacts DEF ChatInv, AnswerSound
  <2>2. /\ AccumulatorSound(acc') /\ Keeps(acc.tools, acc'.tools)
        /\ Names(event) => Len(acc'.tools.order) > 0
    BY <1>2, <1>4, <2>1, ChatApplies
  <2>3. HasToolEvent(seen') <=> HasToolEvent(seen) \/ event.kind \in ToolKinds
    BY <1>2, <2>1, ToolEventTaken
  <2>4. ASSUME OpenAi!HasIds(seen)', HasToolEvent(seen')
        PROVE  Len(acc'.tools.order) > 0
    <3>1. OpenAi!HasIds(Append(seen, event))
      BY <2>4, <1>2
    <3>2. /\ OpenAi!HasIds(seen)
          /\ event.kind \in ToolKinds /\ ~HasToolEvent(seen) => Names(event)
      BY <3>1, <2>1, IdsBefore
    <3>3. CASE HasToolEvent(seen)
      <4>1. Len(acc.tools.order) > 0
        BY <3>2, <3>3 DEF ChatInv, AnswerSound
      <4> QED
        BY <4>1, <2>1, <2>2, KeepsCalls DEF AccumulatorSound
    <3>4. CASE ~HasToolEvent(seen)
      BY <3>2, <3>4, <2>2, <2>3, <2>4
    <3> QED
      BY <3>3, <3>4
  <2>5. HasCall(sent') => HasToolEvent(seen')
    BY <1>6, <2>3 DEF ChatInv, AnswerSound
  <2> QED
    BY <2>1, <2>2, <2>4, <2>5 DEF AnswerSound
<1> QED
  BY <1>6, <1>7 DEF ChatInv

\* An error, or the end of the upstream: the answer is over.
LEMMA ChatEnds ==
    ASSUME ChatInv, NEW s, CallsAreSound(s, indices), GoesOn(s), HasCall(s) => HasCall(sent),
           NEW last, sent' = Append(Append(s, last), OpenAi!DoneSent),
           \/ last = OpenAi!ErrorSent
           \/ last = OpenAi!FinishChunk(OpenAi!ChatFinishReason(OpenAi!Finished(acc))),
           indices' = indices, acc' = acc,
           seen' = seen \/ \E event : seen' = Append(seen, event) /\ event.kind = "error"
    PROVE  ChatInv'
<1>1. last.type \in {"error", "finish"}
  BY DEF OpenAi!ErrorSent, OpenAi!FinishChunk
<1>2. ~OfCall(last) /\ ~OfCall(OpenAi!DoneSent)
  BY <1>1 DEF OfCall, OpenAi!DoneSent
<1>3. CallsAreSound(sent', indices')
  BY <1>2, OtherIsSound
<1>4. /\ IsOver(sent') /\ ~GoesOn(sent') /\ sent'[Len(sent') - 1] = last /\ Len(sent') > 0
      /\ HasCall(sent') => HasCall(s)
  BY <1>1, EndSent DEF CallsAreSound
<1>5. AnswerSound'
  <2>1. CASE seen' = seen
    BY <2>1, <1>4 DEF ChatInv, AnswerSound
  <2>2. ASSUME NEW event, seen' = Append(seen, event), event.kind = "error"
        PROVE  AnswerSound'
    <3>1. IsSeq(seen) /\ IsSeq(seen')
      BY <2>2, AppendFacts DEF ChatInv, AnswerSound
    <3>2. HasToolEvent(seen') <=> HasToolEvent(seen)
      BY <2>2, <3>1, ToolEventTaken DEF ToolKinds
    <3>3. OpenAi!HasIds(seen)' => OpenAi!HasIds(seen)
      <4>1. OpenAi!HasIds(seen)' => OpenAi!HasIds(Append(seen, event))
        BY <2>2
      <4> QED
        BY <4>1, <3>1, IdsBefore
    <3> QED
      BY <3>1, <3>2, <3>3, <1>4 DEF ChatInv, AnswerSound
  <2> QED
    BY <2>1, <2>2
<1>6. last.type = "finish" => last.reason = OpenAi!ChatFinishReason(OpenAi!Finished(acc))
  BY DEF OpenAi!ErrorSent, OpenAi!FinishChunk
<1>7. last.type = "finish" => last.reason = OpenAi!ChatFinishReason(OpenAi!Finished(acc))'
  BY <1>6
<1> QED
  BY <1>3, <1>4, <1>5, <1>7 DEF ChatInv

LEMMA ChatFails ==
    ASSUME ChatInv, OpenAi!Fail
    PROVE  ChatInv'
<1>1. GoesOn(sent) /\ IsSeq(sent)
  BY ChatGoesOn DEF OpenAi!Fail
<1>2. sent' = Append(Append(sent, OpenAi!ErrorSent), OpenAi!DoneSent)
  BY <1>1, ConcatFacts DEF OpenAi!Fail, OpenAi!Send
<1>3. indices' = indices /\ acc' = acc
  BY DEF OpenAi!Fail
<1>4. seen' = seen \/ \E event : seen' = Append(seen, event) /\ event.kind = "error"
  <2>1. CASE OpenAi!Takes(OpenAi!Error)
    BY <2>1 DEF OpenAi!Takes, OpenAi!Error
  <2>2. CASE UNCHANGED OpenAi!streamVars
    BY <2>2 DEF OpenAi!streamVars
  <2> QED
    BY <2>1, <2>2 DEF OpenAi!Fail
<1> QED
  BY <1>1, <1>2, <1>3, <1>4, ChatEnds DEF ChatInv

LEMMA ChatFinishesUp ==
    ASSUME ChatInv, OpenAi!Finish
    PROVE  ChatInv'
<1> DEFINE tail == OpenAi!FilterFinish(filter).output
           last == OpenAi!FinishChunk(OpenAi!ChatFinishReason(OpenAi!Finished(acc)))
           rest == OpenAi!Content(tail)
<1>1. GoesOn(sent) /\ IsSeq(sent)
  BY ChatGoesOn DEF OpenAi!Finish
<1>2. /\ indices' = indices /\ acc' = acc /\ seen' = seen
      /\ \/ sent' = sent \o (<<>> \o <<last, OpenAi!DoneSent>>)
         \/ sent' = sent \o (<<rest>> \o <<last, OpenAi!DoneSent>>)
  BY DEF OpenAi!Finish, OpenAi!Send, OpenAi!Optional, OpenAi!streamVars
<1>3. rest.type = "content"
  BY DEF OpenAi!Content
<1> HIDE DEF last, rest, tail
<1>4. CASE sent' = Append(Append(sent, last), OpenAi!DoneSent)
  BY <1>1, <1>2, <1>4, ChatEnds DEF ChatInv, last
<1>5. CASE sent' = Append(Append(Append(sent, rest), last), OpenAi!DoneSent)
  <2>1. ~OfCall(rest) /\ rest.type \notin EndTypes /\ rest.type # "call"
    BY <1>3 DEF OfCall, EndTypes
  <2>2. /\ CallsAreSound(Append(sent, rest), indices)
        /\ GoesOn(Append(sent, rest))
        /\ HasCall(Append(sent, rest)) => HasCall(sent)
    BY <2>1, <1>1, OtherIsSound, ChunkSent DEF ChatInv
  <2> QED
    BY <1>2, <1>5, <2>2, ChatEnds DEF last
<1>6. \/ sent' = Append(Append(sent, last), OpenAi!DoneSent)
      \/ sent' = Append(Append(Append(sent, rest), last), OpenAi!DoneSent)
  BY <1>1, <1>2, ConcatFacts
<1> QED
  BY <1>4, <1>5, <1>6

LEMMA ChatSteps ==
    ASSUME ChatInv, OpenAi!Next
    PROVE  ChatInv'
<1>1. CASE OpenAi!StreamStep /\ UNCHANGED <<acc, indices, filter, sent>>
  <2>1. seen' = seen
    BY <1>1 DEF OpenAi!StreamStep, OpenAi!MessageArrives, OpenAi!JsonArrives,
                OpenAi!UpstreamEnds, OpenAi!UpstreamFails
  <2> QED
    BY <1>1, <2>1 DEF ChatInv, AnswerSound
<1>2. CASE OpenAi!Done
  BY <1>2 DEF OpenAi!Done, OpenAi!vars, OpenAi!streamVars, ChatInv, AnswerSound
<1> QED
  BY <1>1, <1>2, ChatReceives, ChatFails, ChatFinishesUp DEF OpenAi!Next

LEMMA ChatUnchanged ==
    ASSUME ChatInv, UNCHANGED <<seen, acc, sent, indices>>
    PROVE  ChatInv'
BY DEF ChatInv, AnswerSound

LEMMA ChatPromises ==
    ASSUME ChatInv
    PROVE  OpenAi!IndexesAreStable /\ OpenAi!EndsOnce
<1>1. OpenAi!IndexesAreStable
  BY StableIsStableAt DEF ChatInv, CallsAreSound
<1>2. IsSeq(sent) /\ Len(sent) \in Nat /\ Len(sent) > 0 /\ DOMAIN sent = 1..Len(sent)
  BY SeqFacts DEF ChatInv, CallsAreSound
<1>3. CASE GoesOn(sent)
  <2>1. \A i \in DOMAIN sent : sent[i] # OpenAi!DoneSent /\ sent[i].type \notin {"error", "finish"}
    BY <1>3 DEF GoesOn, EndTypes, OpenAi!DoneSent
  <2>2. ~OpenAi!Ended
    BY <1>2, <2>1 DEF OpenAi!Ended
  <2> QED
    BY <1>1, <2>1, <2>2 DEF OpenAi!EndsOnce, OpenAi!HasEndedWell
<1>4. CASE IsOver(sent)
  <2>1. ASSUME NEW i \in DOMAIN sent
        PROVE  /\ sent[i] = OpenAi!DoneSent => i = Len(sent)
               /\ sent[i].type \in {"error", "finish"} => i = Len(sent) - 1
    <3>1. i \in 1..(Len(sent) - 2) \/ i = Len(sent) - 1 \/ i = Len(sent)
      BY <1>2
    <3> QED
      BY <3>1, <1>4 DEF IsOver, EndTypes, OpenAi!DoneSent
  <2>2. OpenAi!Ended
    BY <1>4 DEF IsOver, OpenAi!Ended
  <2>3. ASSUME OpenAi!HasEndedWell, OpenAi!HasIds(seen), HasCall(sent)
        PROVE  sent[Len(sent) - 1].reason # "stop"
    <3>1. Len(acc.tools.order) > 0 /\ IsSeq(acc.tools.order)
      BY <2>3 DEF ChatInv, AnswerSound, AccumulatorSound, ToolsSound
    <3>2. sent[Len(sent) - 1].reason = OpenAi!ChatFinishReason(OpenAi!Finished(acc))
      BY <2>3, <1>4 DEF ChatInv, OpenAi!HasEndedWell
    <3> QED
      BY <3>1, <3>2, CallsHaveAReason
  <2> QED
    BY <1>1, <2>1, <2>2, <2>3 DEF OpenAi!EndsOnce, HasCall
<1> QED
  BY <1>3, <1>4 DEF ChatInv

-----------------------------------------------------------------------------
(* Messages: what may be sent next, whatever was sent before.               *)

Starts(out) == {i \in DOMAIN out : out[i].type = "content_block_start"}
Stops(out) == {i \in DOMAIN out : out[i].type = "content_block_stop"}
Started(out, index, kind) == \E i \in Starts(out) : out[i].index = index /\ out[i].kind = kind

\* The blocks of text and thinking that are still open.
OpenContent(out, closed) ==
    {out[i].index : i \in {i \in Starts(out) : out[i].kind # "tool_use" /\ out[i].index \notin closed}}

\* BlocksAreCounted and ContentGoesToTheOpenBlock of the event at i.
CountedAt(out, i) ==
    /\ out[i].type = "content_block_start" =>
           out[i].index = Cardinality({j \in 1..(i - 1) : out[j].type = "content_block_start"})
    /\ out[i].type = "content_block_delta" =>
           \E j \in 1..(i - 1) : /\ out[j].type = "content_block_start"
                                 /\ out[j].index = out[i].index /\ out[j].kind = out[i].kind
    /\ out[i].type = "content_block_stop" =>
           /\ \E j \in 1..(i - 1) : out[j].type = "content_block_start" /\ out[j].index = out[i].index
           /\ \A j \in 1..(i - 1) : out[j].type = "content_block_stop" => out[j].index # out[i].index
OpenAt(out, i) ==
    out[i].type = "content_block_delta" /\ out[i].kind # "tool_use" =>
        \A j \in 1..(i - 1) :
            out[j].type = "content_block_start" /\ out[j].kind # "tool_use" =>
                (out[j].index = out[i].index) =
                    ~\E k \in (j + 1)..(i - 1) :
                         out[k].type = "content_block_stop" /\ out[k].index = out[j].index

FinalTypes == {"error", "message_delta", "message_stop"}

\* The blocks started are 0..next-1, in this order, and those of closed have stopped.
OutSound(out, next, closed) ==
    /\ IsSeq(out) /\ Len(out) > 0
    /\ next \in Nat /\ IsFiniteSet(Starts(out)) /\ Cardinality(Starts(out)) = next
    /\ \A i \in Starts(out) : out[i].index \in Nat /\ out[i].index < next
    /\ \A i, j \in Starts(out) : i < j => out[i].index < out[j].index
    /\ closed = {out[i].index : i \in Stops(out)}
    /\ \A i \in DOMAIN out : /\ CountedAt(out, i) /\ OpenAt(out, i)
                             /\ out[i].type \notin FinalTypes

\* What follows changes nothing of what was said of an earlier event.
LEMMA AtBefore ==
    ASSUME NEW s, IsSeq(s), NEW x, NEW i \in 1..Len(s)
    PROVE  /\ CountedAt(s, i) => CountedAt(Append(s, x), i)
           /\ OpenAt(s, i) => OpenAt(Append(s, x), i)
<1> DEFINE t == Append(s, x)
<1>1. t[i] = s[i] /\ \A j \in 1..(i - 1) : t[j] = s[j] /\ j \in 1..Len(s)
  BY AppendFacts, SeqFacts
<1>2. i \in Nat
  BY SeqFacts
<1> HIDE DEF t
<1>3. {j \in 1..(i - 1) : t[j].type = "content_block_start"}
        = {j \in 1..(i - 1) : s[j].type = "content_block_start"}
  BY <1>1
<1>4. CountedAt(s, i) => CountedAt(t, i)
  BY <1>1, <1>3 DEF CountedAt
<1>5. \A j \in 1..(i - 1) : \A k \in (j + 1)..(i - 1) : t[k] = s[k]
  BY <1>1, <1>2
<1>6. OpenAt(s, i) => OpenAt(t, i)
  BY <1>1, <1>5 DEF OpenAt
<1> QED
  BY <1>4, <1>6 DEF t

\* What is the same for every event that is sent.
LEMMA OneMore ==
    ASSUME NEW s, IsSeq(s), NEW x
    PROVE  /\ IsSeq(Append(s, x)) /\ Len(Append(s, x)) = Len(s) + 1 /\ Len(s) \in Nat
           /\ DOMAIN Append(s, x) = 1..(Len(s) + 1)
           /\ DOMAIN s = 1..Len(s)
           /\ Append(s, x)[Len(s) + 1] = x
           /\ \A i \in 1..Len(s) : Append(s, x)[i] = s[i]
           /\ \A i \in DOMAIN Append(s, x) : i \in 1..Len(s) \/ i = Len(s) + 1
           /\ x.type # "content_block_start" => Starts(Append(s, x)) = Starts(s)
           /\ x.type # "content_block_stop" => Stops(Append(s, x)) = Stops(s)
           /\ x.type = "content_block_start" => Starts(Append(s, x)) = Starts(s) \cup {Len(s) + 1}
           /\ x.type = "content_block_stop" => Stops(Append(s, x)) = Stops(s) \cup {Len(s) + 1}
<1> DEFINE t == Append(s, x)
<1>1. /\ IsSeq(t) /\ Len(t) = Len(s) + 1 /\ Len(s) \in Nat
      /\ DOMAIN t = 1..(Len(s) + 1) /\ DOMAIN s = 1..Len(s)
      /\ t[Len(s) + 1] = x /\ \A i \in 1..Len(s) : t[i] = s[i]
  BY AppendFacts, SeqFacts
<1> HIDE DEF t
<1>2. \A i \in DOMAIN t : i \in 1..Len(s) \/ i = Len(s) + 1
  BY <1>1
<1>3. /\ x.type # "content_block_start" => Starts(t) = Starts(s)
      /\ x.type # "content_block_stop" => Stops(t) = Stops(s)
  BY <1>1, <1>2 DEF Starts, Stops
<1>4. x.type = "content_block_start" => Starts(t) = Starts(s) \cup {Len(s) + 1}
  BY <1>1, <1>2 DEF Starts
<1>5. x.type = "content_block_stop" => Stops(t) = Stops(s) \cup {Len(s) + 1}
  BY <1>1, <1>2 DEF Stops
<1> QED
  BY <1>1, <1>2, <1>3, <1>4, <1>5 DEF t

\* A block starts: its index is the next one.
LEMMA SendsStart ==
    ASSUME NEW s, NEW next, NEW closed, OutSound(s, next, closed),
           NEW x, x.type = "content_block_start", x.index = next
    PROVE  /\ OutSound(Append(s, x), next + 1, closed)
           /\ \A index, kind : Started(s, index, kind) => Started(Append(s, x), index, kind)
           /\ Started(Append(s, x), next, x.kind)
           /\ OpenContent(Append(s, x), closed)
                = OpenContent(s, closed) \cup (IF x.kind = "tool_use" THEN {} ELSE {next})
<1> DEFINE t == Append(s, x)
           n == Len(s) + 1
<1>1. /\ IsSeq(t) /\ Len(t) = n /\ n \in Nat /\ n > 0 /\ DOMAIN t = 1..n /\ DOMAIN s = 1..(n - 1)
      /\ Len(s) = n - 1
      /\ t[n] = x /\ \A i \in 1..(n - 1) : t[i] = s[i]
      /\ \A i \in DOMAIN t : i \in 1..(n - 1) \/ i = n
      /\ Starts(t) = Starts(s) \cup {n} /\ Stops(t) = Stops(s)
  <2>1. IsSeq(s) /\ x.type # "content_block_stop"
    BY DEF OutSound
  <2>2. /\ IsSeq(t) /\ Len(t) = n /\ Len(s) \in Nat /\ DOMAIN t = 1..n /\ DOMAIN s = 1..Len(s)
        /\ t[n] = x /\ \A i \in 1..Len(s) : t[i] = s[i]
        /\ \A i \in DOMAIN t : i \in 1..Len(s) \/ i = n
        /\ Starts(t) = Starts(s) \cup {n} /\ Stops(t) = Stops(s)
    BY <2>1, OneMore
  <2>3. Len(s) = n - 1 /\ n \in Nat /\ n > 0
    BY <2>2
  <2> HIDE DEF t, n
  <2> QED
    BY <2>2, <2>3
<1>2. /\ next \in Nat /\ IsFiniteSet(Starts(s)) /\ Cardinality(Starts(s)) = next
      /\ \A i \in Starts(s) : s[i].index \in Nat /\ s[i].index < next /\ i \in 1..(n - 1)
      /\ \A i, j \in Starts(s) : i < j => s[i].index < s[j].index
      /\ closed = {s[i].index : i \in Stops(s)} /\ \A i \in Stops(s) : i \in 1..(n - 1)
      /\ \A i \in DOMAIN s : CountedAt(s, i) /\ OpenAt(s, i) /\ s[i].type \notin FinalTypes
  BY <1>1 DEF OutSound, Starts, Stops
<1>3. IsSeq(s)
  BY DEF OutSound
<1> HIDE DEF t, n
<1>4. IsFiniteSet(Starts(t)) /\ Cardinality(Starts(t)) = next + 1
  <2>1. n \notin Starts(s)
    BY <1>1, <1>2
  <2>2. IsFiniteSet(Starts(s) \cup {n}) /\ Cardinality(Starts(s) \cup {n}) = next + 1
    BY <1>2, <2>1, FS_AddElement
  <2> QED
    BY <1>1, <2>2
<1>5. \A i \in Starts(t) : t[i].index \in Nat /\ t[i].index < next + 1
  BY <1>1, <1>2
<1>6. \A i, j \in Starts(t) : i < j => t[i].index < t[j].index
  BY <1>1, <1>2
<1>7. closed = {t[i].index : i \in Stops(t)}
  BY <1>1, <1>2
<1>8. CountedAt(t, n) /\ OpenAt(t, n)
  <2>1. {j \in 1..(n - 1) : t[j].type = "content_block_start"} = Starts(s)
    BY <1>1 DEF Starts
  <2> QED
    BY <1>1, <1>2, <2>1 DEF CountedAt, OpenAt
<1>9. \A i \in DOMAIN t : CountedAt(t, i) /\ OpenAt(t, i) /\ t[i].type \notin FinalTypes
  <2>1. \A i \in 1..(n - 1) : CountedAt(t, i) /\ OpenAt(t, i)
    BY <1>1, <1>2, <1>3, AtBefore DEF t, n
  <2>2. x.type \notin FinalTypes
    BY DEF FinalTypes
  <2> QED
    BY <1>1, <1>2, <1>8, <2>1, <2>2
<1>10. OutSound(t, next + 1, closed)
  BY <1>1, <1>2, <1>4, <1>5, <1>6, <1>7, <1>9 DEF OutSound
<1>11. \A index, kind : Started(s, index, kind) => Started(t, index, kind)
  BY <1>1, <1>2 DEF Started
<1>12. Started(t, next, x.kind)
  BY <1>1 DEF Started
<1>13. OpenContent(t, closed)
         = OpenContent(s, closed) \cup (IF x.kind = "tool_use" THEN {} ELSE {next})
  <2>1. next \notin closed
    <3>1. \A i \in Stops(s) : \E j \in Starts(s) : s[j].index = s[i].index
      <4> TAKE i \in Stops(s)
      <4>1. i \in DOMAIN s /\ i \in 1..(n - 1) /\ s[i].type = "content_block_stop" /\ CountedAt(s, i)
        BY <1>1, <1>2 DEF Stops
      <4>2. PICK j \in 1..(i - 1) : s[j].type = "content_block_start" /\ s[j].index = s[i].index
        BY <4>1 DEF CountedAt
      <4>3. j \in Starts(s)
        BY <4>1, <4>2, <1>1 DEF Starts
      <4> QED
        BY <4>2, <4>3
    <3> QED
      BY <1>2, <3>1
  <2>2. \A i \in Starts(s) : t[i] = s[i]
    BY <1>1, <1>2
  <2> QED
    BY <1>1, <2>1, <2>2 DEF OpenContent
<1> QED
  BY <1>10, <1>11, <1>12, <1>13 DEF t

\* An index belongs to one block, and what has stopped has started before.
LEMMA OneStart ==
    ASSUME NEW s, NEW next, NEW closed, OutSound(s, next, closed)
    PROVE  /\ \A i, j \in Starts(s) : s[i].index = s[j].index => i = j
           /\ \A i \in Stops(s) : \E j \in Starts(s) : j < i /\ s[j].index = s[i].index
           /\ \A index, kind : Started(s, index, kind) => index \in Nat /\ index < next
<1>1. DOMAIN s = 1..Len(s) /\ Len(s) \in Nat
  BY SeqFacts DEF OutSound
<1>2. ASSUME NEW i \in Starts(s), NEW j \in Starts(s), s[i].index = s[j].index
      PROVE  i = j
  <2>1. i \in Nat /\ j \in Nat
    BY <1>1 DEF Starts
  <2>2. s[i].index \in Nat /\ s[j].index \in Nat
    BY DEF OutSound
  <2>3. i < j => s[i].index < s[j].index
    BY DEF OutSound
  <2>4. j < i => s[j].index < s[i].index
    BY DEF OutSound
  <2> QED
    BY <1>2, <2>1, <2>2, <2>3, <2>4
<1>3. ASSUME NEW i \in Stops(s)
      PROVE  \E j \in Starts(s) : j < i /\ s[j].index = s[i].index
  <2>1. i \in 1..Len(s) /\ s[i].type = "content_block_stop" /\ CountedAt(s, i)
    BY <1>1 DEF Stops, OutSound
  <2>2. PICK j \in 1..(i - 1) : s[j].type = "content_block_start" /\ s[j].index = s[i].index
    BY <2>1 DEF CountedAt
  <2>3. j \in DOMAIN s /\ j < i
    BY <1>1, <2>1, <2>2
  <2> QED
    BY <2>2, <2>3 DEF Starts
<1>4. \A index, kind : Started(s, index, kind) => index \in Nat /\ index < next
  BY DEF Started, OutSound
<1> QED
  BY <1>2, <1>3, <1>4

\* A piece of a block that has started; text or thinking only for the one that is open.
LEMMA SendsDelta ==
    ASSUME NEW s, NEW next, NEW closed, OutSound(s, next, closed),
           NEW x, x.type = "content_block_delta", Started(s, x.index, x.kind),
           x.kind # "tool_use" => OpenContent(s, closed) = {x.index}
    PROVE  /\ OutSound(Append(s, x), next, closed)
           /\ \A index, kind : Started(s, index, kind) => Started(Append(s, x), index, kind)
           /\ OpenContent(Append(s, x), closed) = OpenContent(s, closed)
<1> DEFINE t == Append(s, x)
           n == Len(s) + 1
<1>1. /\ IsSeq(s) /\ IsSeq(t) /\ Len(t) = n /\ n \in Nat /\ n > 0 /\ DOMAIN t = 1..n
      /\ DOMAIN s = 1..(n - 1) /\ Len(s) = n - 1
      /\ t[n] = x /\ \A i \in 1..(n - 1) : t[i] = s[i]
      /\ \A i \in DOMAIN t : i \in 1..(n - 1) \/ i = n
      /\ Starts(t) = Starts(s) /\ Stops(t) = Stops(s)
  <2>1. IsSeq(s) /\ x.type # "content_block_stop" /\ x.type # "content_block_start"
    BY DEF OutSound
  <2>2. /\ IsSeq(t) /\ Len(t) = n /\ Len(s) \in Nat /\ DOMAIN t = 1..n /\ DOMAIN s = 1..Len(s)
        /\ t[n] = x /\ \A i \in 1..Len(s) : t[i] = s[i]
    BY <2>1, AppendFacts, SeqFacts
  <2>3. Starts(t) = Starts(s) /\ Stops(t) = Stops(s)
    BY <2>1, OneMore
  <2>4. Len(s) = n - 1 /\ n \in Nat /\ n > 0
    BY <2>2
  <2>5. \A i \in 1..n : i \in 1..(n - 1) \/ i = n
    BY <2>4
  <2> HIDE DEF t, n
  <2> QED
    BY <2>1, <2>2, <2>3, <2>4, <2>5
<1>2. /\ next \in Nat /\ IsFiniteSet(Starts(s)) /\ Cardinality(Starts(s)) = next
      /\ \A i \in Starts(s) : s[i].index \in Nat /\ s[i].index < next /\ i \in 1..(n - 1)
      /\ \A i, j \in Starts(s) : i < j => s[i].index < s[j].index
      /\ closed = {s[i].index : i \in Stops(s)} /\ \A i \in Stops(s) : i \in 1..(n - 1)
      /\ \A i \in DOMAIN s : CountedAt(s, i) /\ OpenAt(s, i) /\ s[i].type \notin FinalTypes
  BY <1>1 DEF OutSound, Starts, Stops
<1> HIDE DEF t, n
<1>3. /\ \A i \in Starts(s) : t[i] = s[i] /\ i \in Nat
      /\ \A i \in Stops(s) : t[i] = s[i] /\ i \in Nat
  BY <1>1, <1>2
<1>4. CountedAt(t, n)
  <2>1. PICK i \in Starts(s) : s[i].index = x.index /\ s[i].kind = x.kind
    BY DEF Started
  <2>2. i \in 1..(n - 1) /\ t[i] = s[i] /\ s[i].type = "content_block_start"
    BY <1>2, <1>3, <2>1 DEF Starts
  <2> QED
    BY <1>1, <2>1, <2>2 DEF CountedAt
<1>5. OpenAt(t, n)
  <2> SUFFICES ASSUME t[n].kind # "tool_use", NEW j \in 1..(n - 1),
                      t[j].type = "content_block_start", t[j].kind # "tool_use"
               PROVE  (t[j].index = t[n].index) =
                          ~\E k \in (j + 1)..(n - 1) :
                               t[k].type = "content_block_stop" /\ t[k].index = t[j].index
    BY Zenon DEF OpenAt
  <2>0. t[n] = x /\ t[j] = s[j] /\ \A k \in (j + 1)..(n - 1) : t[k] = s[k]
    BY <1>1
  <2>1. j \in Starts(s) /\ s[j].kind # "tool_use" /\ x.kind # "tool_use"
    BY <1>1, <2>0 DEF Starts
  <2>2. (s[j].index = x.index) = (s[j].index \notin closed)
    <3>1. OpenContent(s, closed) = {x.index}
      BY <2>1
    <3>2. s[j].index \notin closed => s[j].index \in OpenContent(s, closed)
      BY <2>1 DEF OpenContent
    <3>3. \A index \in OpenContent(s, closed) : index \notin closed
      BY DEF OpenContent
    <3> QED
      BY <3>1, <3>2, <3>3
  <2>3. s[j].index \in closed <=>
            \E k \in (j + 1)..(n - 1) : s[k].type = "content_block_stop" /\ s[k].index = s[j].index
    <3>1. ASSUME NEW k \in (j + 1)..(n - 1), s[k].type = "content_block_stop", s[k].index = s[j].index
          PROVE  s[j].index \in closed
      <4>1. k \in Stops(s)
        BY <1>1, <3>1 DEF Stops
      <4> QED
        BY <1>2, <3>1, <4>1
    <3>2. ASSUME s[j].index \in closed
          PROVE  \E k \in (j + 1)..(n - 1) : s[k].type = "content_block_stop" /\ s[k].index = s[j].index
      <4>1. PICK k \in Stops(s) : s[k].index = s[j].index
        BY <1>2, <3>2
      <4>2. PICK i \in Starts(s) : i < k /\ s[i].index = s[k].index
        BY OneStart
      <4>3. i = j
        BY <2>1, <4>1, <4>2, OneStart
      <4>4. k \in (j + 1)..(n - 1) /\ s[k].type = "content_block_stop"
        BY <1>1, <1>2, <4>1, <4>2, <4>3 DEF Stops
      <4> QED
        BY <4>1, <4>4
    <3> QED
      BY <3>1, <3>2
  <2> QED
    BY <2>0, <2>2, <2>3
<1>6. \A i \in DOMAIN t : CountedAt(t, i) /\ OpenAt(t, i) /\ t[i].type \notin FinalTypes
  <2>1. \A i \in 1..(n - 1) : CountedAt(t, i) /\ OpenAt(t, i)
    BY <1>1, <1>2, AtBefore DEF t, n
  <2>2. x.type \notin FinalTypes
    BY DEF FinalTypes
  <2> QED
    BY <1>1, <1>2, <1>4, <1>5, <2>1, <2>2
<1>7. OutSound(t, next, closed)
  <2>1. closed = {t[i].index : i \in Stops(t)}
    BY <1>1, <1>2, <1>3
  <2>2. \A i, j \in Starts(t) : i < j => t[i].index < t[j].index
    BY <1>1, <1>2, <1>3
  <2> QED
    BY <1>1, <1>2, <1>3, <1>6, <2>1, <2>2 DEF OutSound
<1>8. \A index, kind : Started(s, index, kind) => Started(t, index, kind)
  BY <1>1, <1>3 DEF Started
<1>9. OpenContent(t, closed) = OpenContent(s, closed)
  BY <1>1, <1>3 DEF OpenContent
<1> QED
  BY <1>7, <1>8, <1>9 DEF t

\* A block stops, for the first time.
LEMMA SendsStop ==
    ASSUME NEW s, NEW next, NEW closed, OutSound(s, next, closed),
           NEW x, x.type = "content_block_stop", x.index \notin closed,
           NEW kind, Started(s, x.index, kind)
    PROVE  /\ OutSound(Append(s, x), next, closed \cup {x.index})
           /\ \A index, any : Started(s, index, any) => Started(Append(s, x), index, any)
           /\ OpenContent(Append(s, x), closed \cup {x.index}) = OpenContent(s, closed) \ {x.index}
<1> DEFINE t == Append(s, x)
           n == Len(s) + 1
<1>1. /\ IsSeq(s) /\ IsSeq(t) /\ Len(t) = n /\ n \in Nat /\ n > 0 /\ DOMAIN t = 1..n
      /\ DOMAIN s = 1..(n - 1) /\ Len(s) = n - 1
      /\ t[n] = x /\ \A i \in 1..(n - 1) : t[i] = s[i]
      /\ \A i \in DOMAIN t : i \in 1..(n - 1) \/ i = n
      /\ Starts(t) = Starts(s) /\ Stops(t) = Stops(s) \cup {n}
  <2>1. IsSeq(s) /\ x.type # "content_block_start"
    BY DEF OutSound
  <2>2. /\ IsSeq(t) /\ Len(t) = n /\ Len(s) \in Nat /\ DOMAIN t = 1..n /\ DOMAIN s = 1..Len(s)
        /\ t[n] = x /\ \A i \in 1..Len(s) : t[i] = s[i]
        /\ \A i \in DOMAIN t : i \in 1..Len(s) \/ i = n
        /\ Starts(t) = Starts(s) /\ Stops(t) = Stops(s) \cup {n}
    BY <2>1, OneMore
  <2>3. Len(s) = n - 1 /\ n \in Nat /\ n > 0
    BY <2>2
  <2> HIDE DEF t, n
  <2> QED
    BY <2>1, <2>2, <2>3
<1>2. /\ next \in Nat /\ IsFiniteSet(Starts(s)) /\ Cardinality(Starts(s)) = next
      /\ \A i \in Starts(s) : s[i].index \in Nat /\ s[i].index < next /\ i \in 1..(n - 1)
      /\ \A i, j \in Starts(s) : i < j => s[i].index < s[j].index
      /\ closed = {s[i].index : i \in Stops(s)} /\ \A i \in Stops(s) : i \in 1..(n - 1)
      /\ \A i \in DOMAIN s : CountedAt(s, i) /\ OpenAt(s, i) /\ s[i].type \notin FinalTypes
  BY <1>1 DEF OutSound, Starts, Stops
<1> HIDE DEF t, n
<1>3. /\ \A i \in Starts(s) : t[i] = s[i] /\ i \in Nat
      /\ \A i \in Stops(s) : t[i] = s[i] /\ i \in Nat
  BY <1>1, <1>2
<1>4. CountedAt(t, n) /\ OpenAt(t, n)
  <2>1. PICK i \in Starts(s) : s[i].index = x.index
    BY DEF Started
  <2>2. i \in 1..(n - 1) /\ t[i] = s[i] /\ s[i].type = "content_block_start"
    BY <1>2, <1>3, <2>1 DEF Starts
  <2>3. \A j \in 1..(n - 1) : s[j].type = "content_block_stop" => s[j].index # x.index
    <3>1. \A j \in 1..(n - 1) : s[j].type = "content_block_stop" => j \in Stops(s)
      BY <1>1 DEF Stops
    <3> QED
      BY <1>2, <3>1
  <2>4. CountedAt(t, n)
    BY <1>1, <2>1, <2>2, <2>3 DEF CountedAt
  <2> QED
    BY <1>1, <2>4 DEF OpenAt
<1>5. \A i \in DOMAIN t : CountedAt(t, i) /\ OpenAt(t, i) /\ t[i].type \notin FinalTypes
  <2>1. \A i \in 1..(n - 1) : CountedAt(t, i) /\ OpenAt(t, i)
    BY <1>1, <1>2, AtBefore DEF t, n
  <2>2. x.type \notin FinalTypes
    BY DEF FinalTypes
  <2> QED
    BY <1>1, <1>2, <1>4, <2>1, <2>2
<1>6. OutSound(t, next, closed \cup {x.index})
  <2>1. closed \cup {x.index} = {t[i].index : i \in Stops(t)}
    BY <1>1, <1>2, <1>3
  <2>2. \A i, j \in Starts(t) : i < j => t[i].index < t[j].index
    BY <1>1, <1>2, <1>3
  <2> QED
    BY <1>1, <1>2, <1>3, <1>5, <2>1, <2>2 DEF OutSound
<1>7. \A index, any : Started(s, index, any) => Started(t, index, any)
  BY <1>1, <1>3 DEF Started
<1>8. OpenContent(t, closed \cup {x.index}) = OpenContent(s, closed) \ {x.index}
  BY <1>1, <1>3 DEF OpenContent
<1> QED
  BY <1>6, <1>7, <1>8 DEF t

-----------------------------------------------------------------------------
(* Messages: the steps that the handler's arms share.                       *)

StateShape(s) ==
    /\ s = [h |-> s.h, out |-> s.out]
    /\ s.h = [text |-> s.h.text, thinking |-> s.h.thinking, tools |-> s.h.tools,
              active |-> s.h.active, closed |-> s.h.closed, next |-> s.h.next,
              filter |-> s.h.filter]

\* The blocks that the handler remembers have started.
BlocksKnown(s) ==
    /\ \A key \in DOMAIN s.h.tools : Started(s.out, s.h.tools[key], "tool_use")
    /\ s.h.text # Anthropic!NoBlock => Started(s.out, s.h.text, "text")
    /\ s.h.thinking # Anthropic!NoBlock => Started(s.out, s.h.thinking, "thinking")

BlocksSound(s) == StateShape(s) /\ OutSound(s.out, s.h.next, s.h.closed) /\ BlocksKnown(s)

OpenIn(s) == OpenContent(s.out, s.h.closed)

\* Between two events the open content is what the handler remembers of it.
ContentKnown(s) == OpenIn(s) = {s.h.text, s.h.thinking} \ {Anthropic!NoBlock}

LEMMA NoBlockIsNone == \A index \in Nat : index # Anthropic!NoBlock
BY DEF Anthropic!NoBlock

LEMMA OpenFacts ==
    ASSUME NEW s, BlocksSound(s)
    PROVE  /\ \A index \in OpenIn(s) : index \in Nat /\ index \notin s.h.closed
           /\ \A index, kind : Started(s.out, index, kind) => index \in Nat /\ index < s.h.next
           /\ \A index : ~(Started(s.out, index, "text") /\ Started(s.out, index, "thinking"))
<1>1. OutSound(s.out, s.h.next, s.h.closed)
  BY DEF BlocksSound
<1>2. \A index \in OpenIn(s) : index \in Nat /\ index \notin s.h.closed
  BY <1>1 DEF OpenIn, OpenContent, OutSound
<1>3. \A index, kind : Started(s.out, index, kind) => index \in Nat /\ index < s.h.next
  BY <1>1, OneStart
<1>4. ASSUME NEW index, Started(s.out, index, "text"), Started(s.out, index, "thinking")
      PROVE  FALSE
  <2>1. PICK i \in Starts(s.out) : s.out[i].index = index /\ s.out[i].kind = "text"
    BY <1>4 DEF Started
  <2>2. PICK j \in Starts(s.out) : s.out[j].index = index /\ s.out[j].kind = "thinking"
    BY <1>4 DEF Started
  <2>3. i = j
    BY <1>1, <2>1, <2>2, OneStart
  <2> QED
    BY <2>1, <2>2, <2>3
<1> QED
  BY <1>2, <1>3, <1>4

\* What else the handler remembers is nothing to the blocks.
LEMMA OtherFields ==
    ASSUME NEW s, BlocksSound(s), NEW t, StateShape(t), t.out = s.out,
           t.h.text = s.h.text, t.h.thinking = s.h.thinking, t.h.tools = s.h.tools,
           t.h.closed = s.h.closed, t.h.next = s.h.next
    PROVE  BlocksSound(t) /\ OpenIn(t) = OpenIn(s)
BY DEF BlocksSound, BlocksKnown, OpenIn

SameMemory(s, t) ==
    /\ t.h.text = s.h.text /\ t.h.thinking = s.h.thinking /\ t.h.tools = s.h.tools
    /\ t.h.filter = s.h.filter

LEMMA CloseSound ==
    ASSUME NEW s, BlocksSound(s), NEW index,
           index # Anthropic!NoBlock => \E kind : Started(s.out, index, kind)
    PROVE  LET t == Anthropic!Close(s, index)
           IN  /\ BlocksSound(t) /\ SameMemory(s, t) /\ t.h.next = s.h.next
               /\ OpenIn(t) = OpenIn(s) \ {index}
               /\ t.h.closed = s.h.closed \cup ({index} \ {Anthropic!NoBlock})
<1> DEFINE t == Anthropic!Close(s, index)
<1>1. CASE index = Anthropic!NoBlock \/ index \in s.h.closed
  <2>1. t = s
    BY <1>1 DEF Anthropic!Close
  <2>2. OpenIn(s) = OpenIn(s) \ {index}
    BY <1>1, OpenFacts, NoBlockIsNone
  <2>3. s.h.closed = s.h.closed \cup ({index} \ {Anthropic!NoBlock})
    BY <1>1
  <2> HIDE DEF t
  <2> QED
    BY <2>1, <2>2, <2>3 DEF SameMemory, t
<1>2. CASE index # Anthropic!NoBlock /\ index \notin s.h.closed
  <2> DEFINE x == Anthropic!BlockStop(index)
  <2>1. PICK kind : Started(s.out, index, kind)
    BY <1>2
  <2>2. x.type = "content_block_stop" /\ x.index = index
    BY DEF Anthropic!BlockStop
  <2>3. /\ StateShape(t) /\ SameMemory(s, t) /\ t.h.next = s.h.next
        /\ t.h.closed = s.h.closed \cup {index} /\ t.out = Append(s.out, x)
    BY <1>2 DEF Anthropic!Close, BlocksSound, StateShape, SameMemory
  <2> HIDE DEF t, x
  <2>4. /\ OutSound(t.out, t.h.next, t.h.closed)
        /\ \A i, any : Started(s.out, i, any) => Started(t.out, i, any)
        /\ OpenIn(t) = OpenIn(s) \ {index}
    <3>1. OutSound(s.out, s.h.next, s.h.closed) /\ x.index \notin s.h.closed /\ Started(s.out, x.index, kind)
      BY <1>2, <2>1, <2>2 DEF BlocksSound
    <3>2. /\ OutSound(Append(s.out, x), s.h.next, s.h.closed \cup {x.index})
          /\ \A i, any : Started(s.out, i, any) => Started(Append(s.out, x), i, any)
          /\ OpenContent(Append(s.out, x), s.h.closed \cup {x.index})
               = OpenContent(s.out, s.h.closed) \ {x.index}
      BY <2>2, <3>1, SendsStop
    <3>3. /\ t.out = Append(s.out, x) /\ t.h.closed = s.h.closed \cup {x.index}
          /\ t.h.next = s.h.next /\ x.index = index
      BY <2>2, <2>3
    <3>4. OpenIn(t) = OpenIn(s) \ {index}
      BY <3>2, <3>3 DEF OpenIn
    <3> QED
      BY <3>2, <3>3, <3>4
  <2>5. BlocksSound(t)
    BY <2>3, <2>4 DEF BlocksSound, BlocksKnown, SameMemory
  <2>6. t.h.closed = s.h.closed \cup ({index} \ {Anthropic!NoBlock})
    BY <1>2, <2>3
  <2> QED
    BY <2>3, <2>4, <2>5, <2>6 DEF t
<1> QED
  BY <1>1, <1>2

LEMMA CloseTextSound ==
    ASSUME NEW s, BlocksSound(s), ContentKnown(s)
    PROVE  LET t == Anthropic!CloseText(s)
           IN  /\ BlocksSound(t) /\ ContentKnown(t)
               /\ t.h.text = Anthropic!NoBlock /\ t.h.thinking = s.h.thinking
<1> DEFINE c == Anthropic!Close(s, s.h.text)
           t == Anthropic!CloseText(s)
<1>1. /\ BlocksSound(c) /\ SameMemory(s, c) /\ OpenIn(c) = OpenIn(s) \ {s.h.text}
  BY CloseSound DEF BlocksSound, BlocksKnown
<1>2. t = [c EXCEPT !.h.text = Anthropic!NoBlock]
  BY DEF Anthropic!CloseText
<1> HIDE DEF c, t
<1>3. /\ StateShape(t) /\ t.out = c.out /\ t.h.text = Anthropic!NoBlock
      /\ t.h.thinking = c.h.thinking /\ t.h.tools = c.h.tools
      /\ t.h.closed = c.h.closed /\ t.h.next = c.h.next
  BY <1>1, <1>2 DEF BlocksSound, StateShape
<1>4. BlocksSound(t) /\ OpenIn(t) = OpenIn(c)
  BY <1>1, <1>3 DEF BlocksSound, BlocksKnown, OpenIn
<1>5. s.h.text = s.h.thinking => s.h.text = Anthropic!NoBlock
  BY OpenFacts DEF BlocksSound, BlocksKnown
<1>6. ContentKnown(t)
  BY <1>1, <1>3, <1>4, <1>5 DEF ContentKnown, SameMemory
<1> QED
  BY <1>1, <1>3, <1>4, <1>6 DEF t, SameMemory

LEMMA CloseThinkingSound ==
    ASSUME NEW s, BlocksSound(s), ContentKnown(s)
    PROVE  LET t == Anthropic!CloseThinking(s)
           IN  /\ BlocksSound(t) /\ ContentKnown(t)
               /\ t.h.thinking = Anthropic!NoBlock /\ t.h.text = s.h.text
<1> DEFINE c == Anthropic!Close(s, s.h.thinking)
           t == Anthropic!CloseThinking(s)
<1>1. /\ BlocksSound(c) /\ SameMemory(s, c) /\ OpenIn(c) = OpenIn(s) \ {s.h.thinking}
  BY CloseSound DEF BlocksSound, BlocksKnown
<1>2. t = [c EXCEPT !.h.thinking = Anthropic!NoBlock]
  BY DEF Anthropic!CloseThinking
<1> HIDE DEF c, t
<1>3. /\ StateShape(t) /\ t.out = c.out /\ t.h.thinking = Anthropic!NoBlock
      /\ t.h.text = c.h.text /\ t.h.tools = c.h.tools
      /\ t.h.closed = c.h.closed /\ t.h.next = c.h.next
  BY <1>1, <1>2 DEF BlocksSound, StateShape
<1>4. BlocksSound(t) /\ OpenIn(t) = OpenIn(c)
  BY <1>1, <1>3 DEF BlocksSound, BlocksKnown, OpenIn
<1>5. s.h.text = s.h.thinking => s.h.text = Anthropic!NoBlock
  BY OpenFacts DEF BlocksSound, BlocksKnown
<1>6. ContentKnown(t)
  BY <1>1, <1>3, <1>4, <1>5 DEF ContentKnown, SameMemory
<1> QED
  BY <1>1, <1>3, <1>4, <1>6 DEF t, SameMemory

LEMMA OpenSound ==
    ASSUME NEW s, BlocksSound(s), NEW kind, NEW id, NEW name
    PROVE  LET t == Anthropic!Open(s, kind, id, name)
           IN  /\ BlocksSound(t) /\ SameMemory(s, t) /\ t.h.closed = s.h.closed
               /\ Started(t.out, s.h.next, kind) /\ s.h.next \in Nat
               /\ OpenIn(t) = OpenIn(s) \cup (IF kind = "tool_use" THEN {} ELSE {s.h.next})
<1> DEFINE x == Anthropic!BlockStart(s.h.next, kind, id, name)
           t == Anthropic!Open(s, kind, id, name)
<1>1. x.type = "content_block_start" /\ x.index = s.h.next /\ x.kind = kind
  BY DEF Anthropic!BlockStart
<1>2. /\ StateShape(t) /\ SameMemory(s, t) /\ t.h.next = s.h.next + 1
      /\ t.h.closed = s.h.closed /\ t.out = Append(s.out, x)
  BY DEF Anthropic!Open, BlocksSound, StateShape, SameMemory
<1> HIDE DEF x, t
<1>3. OutSound(s.out, s.h.next, s.h.closed) /\ s.h.next \in Nat
  BY DEF BlocksSound, OutSound
<1>4. /\ OutSound(Append(s.out, x), s.h.next + 1, s.h.closed)
      /\ \A i, any : Started(s.out, i, any) => Started(Append(s.out, x), i, any)
      /\ Started(Append(s.out, x), s.h.next, x.kind)
      /\ OpenContent(Append(s.out, x), s.h.closed)
           = OpenContent(s.out, s.h.closed) \cup (IF x.kind = "tool_use" THEN {} ELSE {s.h.next})
  BY <1>1, <1>3, SendsStart
<1>5. OutSound(t.out, t.h.next, t.h.closed) /\ Started(t.out, s.h.next, kind)
  BY <1>1, <1>2, <1>4
<1>6. OpenIn(t) = OpenIn(s) \cup (IF kind = "tool_use" THEN {} ELSE {s.h.next})
  BY <1>1, <1>2, <1>4 DEF OpenIn
<1>7. \A i, any : Started(s.out, i, any) => Started(t.out, i, any)
  BY <1>2, <1>4
<1>8. BlocksSound(t)
  BY <1>2, <1>5, <1>7 DEF BlocksSound, BlocksKnown, SameMemory
<1> QED
  BY <1>2, <1>3, <1>5, <1>6, <1>8 DEF t

\* A block for text: the one there is, or another one.
LEMMA EnsureTextSound ==
    ASSUME NEW s, BlocksSound(s), OpenIn(s) = {s.h.text} \ {Anthropic!NoBlock}
    PROVE  LET t == Anthropic!EnsureText(s)
           IN  /\ BlocksSound(t) /\ OpenIn(t) = {t.h.text} /\ Started(t.out, t.h.text, "text")
               /\ t.h.text # Anthropic!NoBlock /\ t.h.thinking = s.h.thinking
<1> DEFINE t == Anthropic!EnsureText(s)
<1>1. CASE s.h.text # Anthropic!NoBlock
  <2>1. t = s
    BY <1>1, Zenon DEF Anthropic!EnsureText
  <2>2. OpenIn(s) = {s.h.text} /\ Started(s.out, s.h.text, "text")
    BY <1>1 DEF BlocksSound, BlocksKnown
  <2> HIDE DEF t
  <2> QED
    BY <1>1, <2>1, <2>2 DEF t
<1>2. CASE s.h.text = Anthropic!NoBlock
  <2>1. \E id, name : t = [Anthropic!Open(s, "text", id, name) EXCEPT !.h.text = s.h.next]
    BY <1>2, Zenon DEF Anthropic!EnsureText
  <2> HIDE DEF t
  <2>2. PICK id, name : t = [Anthropic!Open(s, "text", id, name) EXCEPT !.h.text = s.h.next]
    BY <2>1
  <2> DEFINE o == Anthropic!Open(s, "text", id, name)
  <2>3. /\ BlocksSound(o) /\ SameMemory(s, o) /\ o.h.closed = s.h.closed
        /\ Started(o.out, s.h.next, "text") /\ s.h.next \in Nat
        /\ OpenIn(o) = OpenIn(s) \cup {s.h.next}
    BY OpenSound
  <2>4. t = [o EXCEPT !.h.text = s.h.next]
    BY <2>2
  <2> HIDE DEF o
  <2>5. /\ StateShape(t) /\ t.out = o.out /\ t.h.text = s.h.next /\ t.h.thinking = o.h.thinking
        /\ t.h.tools = o.h.tools /\ t.h.closed = o.h.closed /\ t.h.next = o.h.next
    BY <2>3, <2>4 DEF BlocksSound, StateShape
  <2>6. BlocksSound(t) /\ OpenIn(t) = OpenIn(o)
    BY <2>3, <2>5 DEF BlocksSound, BlocksKnown, OpenIn
  <2>7. OpenIn(t) = {t.h.text} /\ t.h.text # Anthropic!NoBlock
    BY <1>2, <2>3, <2>5, <2>6, NoBlockIsNone
  <2> QED
    BY <2>3, <2>5, <2>6, <2>7 DEF t, SameMemory
<1> QED
  BY <1>1, <1>2

LEMMA EnsureThinkingSound ==
    ASSUME NEW s, BlocksSound(s), OpenIn(s) = {s.h.thinking} \ {Anthropic!NoBlock}
    PROVE  LET t == Anthropic!EnsureThinking(s)
           IN  /\ BlocksSound(t) /\ OpenIn(t) = {t.h.thinking}
               /\ Started(t.out, t.h.thinking, "thinking")
               /\ t.h.thinking # Anthropic!NoBlock /\ t.h.text = s.h.text
<1> DEFINE t == Anthropic!EnsureThinking(s)
<1>1. CASE s.h.thinking # Anthropic!NoBlock
  <2>1. t = s
    BY <1>1, Zenon DEF Anthropic!EnsureThinking
  <2>2. OpenIn(s) = {s.h.thinking} /\ Started(s.out, s.h.thinking, "thinking")
    BY <1>1 DEF BlocksSound, BlocksKnown
  <2> HIDE DEF t
  <2> QED
    BY <1>1, <2>1, <2>2 DEF t
<1>2. CASE s.h.thinking = Anthropic!NoBlock
  <2>1. \E id, name : t = [Anthropic!Open(s, "thinking", id, name) EXCEPT !.h.thinking = s.h.next]
    BY <1>2, Zenon DEF Anthropic!EnsureThinking
  <2> HIDE DEF t
  <2>2. PICK id, name : t = [Anthropic!Open(s, "thinking", id, name) EXCEPT !.h.thinking = s.h.next]
    BY <2>1
  <2> DEFINE o == Anthropic!Open(s, "thinking", id, name)
  <2>3. /\ BlocksSound(o) /\ SameMemory(s, o) /\ o.h.closed = s.h.closed
        /\ Started(o.out, s.h.next, "thinking") /\ s.h.next \in Nat
        /\ OpenIn(o) = OpenIn(s) \cup {s.h.next}
    BY OpenSound
  <2>4. t = [o EXCEPT !.h.thinking = s.h.next]
    BY <2>2
  <2> HIDE DEF o
  <2>5. /\ StateShape(t) /\ t.out = o.out /\ t.h.thinking = s.h.next /\ t.h.text = o.h.text
        /\ t.h.tools = o.h.tools /\ t.h.closed = o.h.closed /\ t.h.next = o.h.next
    BY <2>3, <2>4 DEF BlocksSound, StateShape
  <2>6. BlocksSound(t) /\ OpenIn(t) = OpenIn(o)
    BY <2>3, <2>5 DEF BlocksSound, BlocksKnown, OpenIn
  <2>7. OpenIn(t) = {t.h.thinking} /\ t.h.thinking # Anthropic!NoBlock
    BY <1>2, <2>3, <2>5, <2>6, NoBlockIsNone
  <2> QED
    BY <2>3, <2>5, <2>6, <2>7 DEF t, SameMemory
<1> QED
  BY <1>1, <1>2

\* A block for a tool call leaves the open content alone.
LEMMA EnsureToolSound ==
    ASSUME NEW s, BlocksSound(s), NEW key, NEW name
    PROVE  LET t == Anthropic!EnsureTool(s, key, name)
           IN  /\ BlocksSound(t) /\ OpenIn(t) = OpenIn(s) /\ key \in DOMAIN t.h.tools
               /\ t.h.text = s.h.text /\ t.h.thinking = s.h.thinking
<1> DEFINE t == Anthropic!EnsureTool(s, key, name)
<1>1. CASE key \in DOMAIN s.h.tools
  <2>1. t = s
    BY <1>1 DEF Anthropic!EnsureTool
  <2> HIDE DEF t
  <2> QED
    BY <1>1, <2>1 DEF t
<1>2. CASE key \notin DOMAIN s.h.tools
  <2> DEFINE o == Anthropic!Open(s, "tool_use", key, name)
             tools == [k \in DOMAIN s.h.tools \cup {key} |->
                          IF k = key THEN s.h.next ELSE s.h.tools[k]]
  <2>1. /\ BlocksSound(o) /\ SameMemory(s, o)
        /\ Started(o.out, s.h.next, "tool_use")
        /\ OpenIn(o) = OpenIn(s)
    BY OpenSound
  <2>2. t = [o EXCEPT !.h.tools = tools]
    BY <1>2 DEF Anthropic!EnsureTool
  <2> HIDE DEF o, t, tools
  <2>3. /\ StateShape(t) /\ t.out = o.out /\ t.h.tools = tools /\ t.h.text = o.h.text
        /\ t.h.thinking = o.h.thinking /\ t.h.closed = o.h.closed /\ t.h.next = o.h.next
    BY <2>1, <2>2 DEF BlocksSound, StateShape
  <2>4. \A k \in DOMAIN tools : Started(o.out, tools[k], "tool_use")
    BY <2>1 DEF tools, BlocksSound, BlocksKnown, SameMemory
  <2>5. BlocksSound(t) /\ OpenIn(t) = OpenIn(o)
    BY <2>1, <2>3, <2>4 DEF BlocksSound, BlocksKnown, OpenIn
  <2>6. key \in DOMAIN t.h.tools
    BY <2>3 DEF tools
  <2> QED
    BY <2>1, <2>3, <2>5, <2>6 DEF t, SameMemory
<1> QED
  BY <1>1, <1>2

LEMMA DeltaSound ==
    ASSUME NEW s, BlocksSound(s), NEW index, NEW kind, NEW text, Started(s.out, index, kind),
           kind # "tool_use" => OpenIn(s) = {index}
    PROVE  LET t == Anthropic!Delta(s, index, kind, text)
           IN  BlocksSound(t) /\ OpenIn(t) = OpenIn(s) /\ t.h = s.h
<1> DEFINE t == Anthropic!Delta(s, index, kind, text)
           x == Anthropic!BlockDelta(index, kind, text)
<1>1. CASE text = <<>>
  <2>1. t = s
    BY <1>1 DEF Anthropic!Delta
  <2> HIDE DEF t
  <2> QED
    BY <2>1 DEF t
<1>2. CASE text # <<>>
  <2>1. x.type = "content_block_delta" /\ x.index = index /\ x.kind = kind
    BY DEF Anthropic!BlockDelta
  <2>2. StateShape(t) /\ t.h = s.h /\ t.out = Append(s.out, x)
    BY <1>2 DEF Anthropic!Delta, BlocksSound, StateShape
  <2> HIDE DEF t, x
  <2>3. /\ OutSound(s.out, s.h.next, s.h.closed) /\ Started(s.out, x.index, x.kind)
        /\ x.kind # "tool_use" => OpenContent(s.out, s.h.closed) = {x.index}
    BY <2>1 DEF BlocksSound, OpenIn
  <2>4. /\ OutSound(Append(s.out, x), s.h.next, s.h.closed)
        /\ \A i, any : Started(s.out, i, any) => Started(Append(s.out, x), i, any)
        /\ OpenContent(Append(s.out, x), s.h.closed) = OpenContent(s.out, s.h.closed)
    BY <2>1, <2>3, SendsDelta
  <2>5. OpenIn(t) = OpenIn(s)
    BY <2>2, <2>4 DEF OpenIn
  <2>6. BlocksSound(t)
    BY <2>2, <2>4 DEF BlocksSound, BlocksKnown
  <2> QED
    BY <2>2, <2>5, <2>6 DEF t
<1> QED
  BY <1>1, <1>2

-----------------------------------------------------------------------------
(* Messages: the arms.                                                      *)

Answering(s) == BlocksSound(s) /\ ContentKnown(s)

LEMMA ActivateSound ==
    ASSUME NEW s, Answering(s), NEW key
    PROVE  Answering(Anthropic!Activate(s, key)) /\ Anthropic!Activate(s, key).out = s.out
           /\ Anthropic!Activate(s, key).h.tools = s.h.tools
<1> DEFINE t == Anthropic!Activate(s, key)
<1>1. /\ StateShape(t) /\ t.out = s.out
      /\ t.h.text = s.h.text /\ t.h.thinking = s.h.thinking /\ t.h.tools = s.h.tools
      /\ t.h.closed = s.h.closed /\ t.h.next = s.h.next
  BY DEF Anthropic!Activate, Answering, BlocksSound, StateShape
<1> HIDE DEF t
<1>2. BlocksSound(t) /\ OpenIn(t) = OpenIn(s)
  BY <1>1, OtherFields DEF Answering
<1>3. Answering(t)
  BY <1>1, <1>2 DEF Answering, ContentKnown
<1> QED
  BY <1>1, <1>3 DEF t

LEMMA FilterSound ==
    ASSUME NEW s, BlocksSound(s), NEW pending
    PROVE  LET t == [s EXCEPT !.h.filter = pending]
           IN  /\ BlocksSound(t) /\ OpenIn(t) = OpenIn(s) /\ t.out = s.out
               /\ t.h.text = s.h.text /\ t.h.thinking = s.h.thinking
<1> DEFINE t == [s EXCEPT !.h.filter = pending]
<1>1. /\ StateShape(t) /\ t.out = s.out
      /\ t.h.text = s.h.text /\ t.h.thinking = s.h.thinking /\ t.h.tools = s.h.tools
      /\ t.h.closed = s.h.closed /\ t.h.next = s.h.next
  BY DEF BlocksSound, StateShape
<1> HIDE DEF t
<1>2. BlocksSound(t) /\ OpenIn(t) = OpenIn(s)
  BY <1>1, OtherFields
<1> QED
  BY <1>1, <1>2 DEF t

LEMMA CloseContentSound ==
    ASSUME NEW s, Answering(s)
    PROVE  Answering(Anthropic!CloseContent(s))
<1>1. Answering(Anthropic!CloseText(s))
  BY CloseTextSound DEF Answering
<1>2. Answering(Anthropic!CloseThinking(Anthropic!CloseText(s)))
  BY <1>1, CloseThinkingSound DEF Answering
<1> QED
  BY <1>2 DEF Anthropic!CloseContent

LEMMA OnTextSound ==
    ASSUME NEW s, Answering(s), NEW event
    PROVE  Answering(Anthropic!OnText(s, event))
<1> DEFINE c == Anthropic!CloseThinking(s)
           ready == Anthropic!EnsureText(c)
           drained == Anthropic!FilterPush(ready.h.filter, event.text)
           f == [ready EXCEPT !.h.filter = drained.pending]
           t == Anthropic!Delta(f, ready.h.text, "text", drained.output)
<1>1. Anthropic!OnText(s, event) = t
  BY DEF Anthropic!OnText
<1> HIDE DEF drained
<1>2. BlocksSound(c) /\ ContentKnown(c) /\ c.h.thinking = Anthropic!NoBlock
  BY CloseThinkingSound DEF Answering
<1> HIDE DEF c
<1>3. OpenIn(c) = {c.h.text} \ {Anthropic!NoBlock}
  BY <1>2 DEF ContentKnown
<1>4. /\ BlocksSound(ready) /\ OpenIn(ready) = {ready.h.text}
      /\ Started(ready.out, ready.h.text, "text")
      /\ ready.h.text # Anthropic!NoBlock /\ ready.h.thinking = Anthropic!NoBlock
  BY <1>2, <1>3, EnsureTextSound
<1> HIDE DEF ready
<1>5. /\ BlocksSound(f) /\ OpenIn(f) = {ready.h.text} /\ f.out = ready.out
      /\ f.h.text = ready.h.text /\ f.h.thinking = ready.h.thinking
  BY <1>4, FilterSound
<1> HIDE DEF f
<1>6. BlocksSound(t) /\ OpenIn(t) = {ready.h.text} /\ t.h = f.h
  BY <1>4, <1>5, DeltaSound
<1> HIDE DEF t
<1>7. ContentKnown(t)
  BY <1>4, <1>5, <1>6 DEF ContentKnown
<1> QED
  BY <1>1, <1>6, <1>7 DEF Answering

LEMMA OnThinkingSound ==
    ASSUME NEW s, Answering(s), NEW event
    PROVE  Answering(Anthropic!OnThinking(s, event))
<1> DEFINE c == Anthropic!CloseText(s)
           ready == Anthropic!EnsureThinking(c)
           t == Anthropic!Delta(ready, ready.h.thinking, "thinking", event.text)
<1>1. Anthropic!OnThinking(s, event) = t
  BY DEF Anthropic!OnThinking
<1>2. BlocksSound(c) /\ ContentKnown(c) /\ c.h.text = Anthropic!NoBlock
  BY CloseTextSound DEF Answering
<1> HIDE DEF c
<1>3. OpenIn(c) = {c.h.thinking} \ {Anthropic!NoBlock}
  BY <1>2 DEF ContentKnown
<1>4. /\ BlocksSound(ready) /\ OpenIn(ready) = {ready.h.thinking}
      /\ Started(ready.out, ready.h.thinking, "thinking")
      /\ ready.h.thinking # Anthropic!NoBlock /\ ready.h.text = Anthropic!NoBlock
  BY <1>2, <1>3, EnsureThinkingSound
<1> HIDE DEF ready
<1>5. BlocksSound(t) /\ OpenIn(t) = {ready.h.thinking} /\ t.h = ready.h
  BY <1>4, DeltaSound
<1> HIDE DEF t
<1>6. ContentKnown(t)
  BY <1>4, <1>5 DEF ContentKnown
<1> QED
  BY <1>1, <1>5, <1>6 DEF Answering

\* A tool call that starts or goes on closes the content before it gets its block.
LEMMA ToolReady ==
    ASSUME NEW s, Answering(s), NEW key, NEW name
    PROVE  LET t == Anthropic!Activate(Anthropic!EnsureTool(Anthropic!CloseContent(s), key, name), key)
           IN  Answering(t) /\ key \in DOMAIN t.h.tools
<1> DEFINE c == Anthropic!CloseContent(s)
           e == Anthropic!EnsureTool(c, key, name)
<1>1. Answering(c)
  BY CloseContentSound
<1> HIDE DEF c
<1>2. /\ BlocksSound(e) /\ OpenIn(e) = OpenIn(c) /\ key \in DOMAIN e.h.tools
      /\ e.h.text = c.h.text /\ e.h.thinking = c.h.thinking
  BY <1>1, EnsureToolSound DEF Answering
<1> HIDE DEF e
<1>3. Answering(e)
  BY <1>1, <1>2 DEF Answering, ContentKnown
<1>4. Answering(Anthropic!Activate(e, key)) /\ key \in DOMAIN Anthropic!Activate(e, key).h.tools
  BY <1>2, <1>3, ActivateSound
<1> QED
  BY <1>4 DEF c, e

LEMMA OnToolStartSound ==
    ASSUME NEW s, Answering(s), NEW event
    PROVE  Answering(Anthropic!OnToolStart(s, event))
BY ToolReady DEF Anthropic!OnToolStart

LEMMA OnToolDeltaSound ==
    ASSUME NEW s, Answering(s), NEW event
    PROVE  Answering(Anthropic!OnToolDelta(s, event))
<1>1. PICK key, name :
          LET ready == Anthropic!Activate(
                           Anthropic!EnsureTool(Anthropic!CloseContent(s), key, name), key)
          IN  Anthropic!OnToolDelta(s, event)
                = Anthropic!Delta(ready, ready.h.tools[key], "tool_use", event.arguments)
  BY Zenon DEF Anthropic!OnToolDelta
<1> DEFINE ready == Anthropic!Activate(
                        Anthropic!EnsureTool(Anthropic!CloseContent(s), key, name), key)
           t == Anthropic!Delta(ready, ready.h.tools[key], "tool_use", event.arguments)
<1>2. Anthropic!OnToolDelta(s, event) = t
  BY <1>1
<1>3. Answering(ready) /\ key \in DOMAIN ready.h.tools
  BY ToolReady
<1> HIDE DEF ready
<1>4. Started(ready.out, ready.h.tools[key], "tool_use")
  BY <1>3 DEF Answering, BlocksSound, BlocksKnown
<1>5. BlocksSound(t) /\ OpenIn(t) = OpenIn(ready) /\ t.h = ready.h
  BY <1>3, <1>4, DeltaSound DEF Answering
<1> HIDE DEF t
<1>6. Answering(t)
  BY <1>3, <1>5 DEF Answering, ContentKnown
<1> QED
  BY <1>2, <1>6

LEMMA OnToolEndSound ==
    ASSUME NEW s, Answering(s), NEW event
    PROVE  Answering(Anthropic!OnToolEnd(s, event))
<1>1. PICK key :
          LET closed == IF key \in DOMAIN s.h.tools THEN Anthropic!Close(s, s.h.tools[key]) ELSE s
          IN  Anthropic!OnToolEnd(s, event)
                = IF s.h.active = key THEN Anthropic!Activate(closed, Anthropic!NoTool) ELSE closed
  BY Zenon DEF Anthropic!OnToolEnd
<1> DEFINE closed == IF key \in DOMAIN s.h.tools THEN Anthropic!Close(s, s.h.tools[key]) ELSE s
<1>2. Answering(closed)
  <2>1. CASE key \notin DOMAIN s.h.tools
    BY <2>1
  <2>2. CASE key \in DOMAIN s.h.tools
    <3> DEFINE index == s.h.tools[key]
               t == Anthropic!Close(s, index)
    <3>1. Started(s.out, index, "tool_use")
      BY <2>2 DEF Answering, BlocksSound, BlocksKnown
    <3> HIDE DEF index
    <3>2. BlocksSound(t) /\ SameMemory(s, t) /\ OpenIn(t) = OpenIn(s) \ {index}
      BY <3>1, CloseSound DEF Answering
    <3>3. index \notin OpenIn(s)
      <4> SUFFICES ASSUME index \in OpenIn(s) PROVE FALSE
        OBVIOUS
      <4>1. PICK i \in Starts(s.out) : s.out[i].index = index /\ s.out[i].kind # "tool_use"
        BY DEF OpenIn, OpenContent
      <4>2. PICK j \in Starts(s.out) : s.out[j].index = index /\ s.out[j].kind = "tool_use"
        BY <3>1 DEF Started
      <4>3. i = j
        BY <4>1, <4>2, OneStart DEF Answering, BlocksSound
      <4> QED
        BY <4>1, <4>2, <4>3
    <3> HIDE DEF t
    <3>4. Answering(t)
      BY <3>2, <3>3 DEF Answering, ContentKnown, SameMemory
    <3> QED
      BY <2>2, <3>4 DEF t, index
  <2> QED
    BY <2>1, <2>2
<1> HIDE DEF closed
<1>3. Anthropic!OnToolEnd(s, event)
        = IF s.h.active = key THEN Anthropic!Activate(closed, Anthropic!NoTool) ELSE closed
  BY <1>1 DEF closed
<1> QED
  BY <1>2, <1>3, ActivateSound

EventKinds == {"text", "thinking", "start", "delta", "end", "usage", "stop", "error"}

LEMMA OnEventSound ==
    ASSUME NEW s, Answering(s), NEW event, event.kind \in EventKinds, event.kind # "error"
    PROVE  Answering(Anthropic!OnEvent(s, event))
<1>1. CASE event.kind = "text"
  BY <1>1, OnTextSound DEF Anthropic!OnEvent
<1>2. CASE event.kind = "thinking"
  BY <1>2, OnThinkingSound DEF Anthropic!OnEvent
<1>3. CASE event.kind = "start"
  BY <1>3, OnToolStartSound DEF Anthropic!OnEvent
<1>4. CASE event.kind = "delta"
  BY <1>4, OnToolDeltaSound DEF Anthropic!OnEvent
<1>5. CASE event.kind = "end"
  BY <1>5, OnToolEndSound DEF Anthropic!OnEvent
<1>6. CASE event.kind \in {"usage", "stop"}
  BY <1>6 DEF Anthropic!OnEvent
<1> QED
  BY <1>1, <1>2, <1>3, <1>4, <1>5, <1>6 DEF EventKinds

-----------------------------------------------------------------------------
(* Messages: the events that wait in the queue are of a kind that has an    *)
(* arm.                                                                     *)

EventSeq(q) == \E S : q \in Seq(S) /\ \A e \in S : e.kind \in EventKinds

LEMMA NoEvents == EventSeq(<<>>)
<1> DEFINE S == {}
<1>1. <<>> \in Seq(S) /\ \A e \in S : e.kind \in EventKinds
  OBVIOUS
<1> HIDE DEF S
<1> QED
  BY <1>1 DEF EventSeq

LEMMA OneEvent ==
    ASSUME NEW e, e.kind \in EventKinds
    PROVE  EventSeq(<<e>>)
<1> DEFINE S == {e}
<1>1. <<e>> \in Seq(S) /\ \A x \in S : x.kind \in EventKinds
  OBVIOUS
<1> HIDE DEF S
<1> QED
  BY <1>1 DEF EventSeq

LEMMA MoreEvents ==
    ASSUME NEW q, EventSeq(q), NEW r, EventSeq(r)
    PROVE  EventSeq(q \o r)
<1>1. PICK S : q \in Seq(S) /\ \A e \in S : e.kind \in EventKinds
  BY DEF EventSeq
<1>2. PICK T : r \in Seq(T) /\ \A e \in T : e.kind \in EventKinds
  BY DEF EventSeq
<1> DEFINE U == S \cup T
<1>3. q \in Seq(U) /\ r \in Seq(U) /\ \A e \in U : e.kind \in EventKinds
  BY <1>1, <1>2
<1> HIDE DEF U
<1>4. q \o r \in Seq(U)
  BY <1>3
<1> QED
  BY <1>3, <1>4 DEF EventSeq

LEMMA EventsTaken ==
    ASSUME NEW q, EventSeq(q), q # <<>>
    PROVE  EventSeq(Tail(q)) /\ Head(q).kind \in EventKinds
<1>1. PICK S : q \in Seq(S) /\ \A e \in S : e.kind \in EventKinds
  BY DEF EventSeq
<1>2. Tail(q) \in Seq(S) /\ Head(q) \in S
  BY <1>1
<1> QED
  BY <1>1, <1>2 DEF EventSeq

LEMMA OptionalEvent ==
    ASSUME NEW p, NEW e, e.kind \in EventKinds
    PROVE  EventSeq(Anthropic!Optional(p, e))
BY NoEvents, OneEvent DEF Anthropic!Optional

LEMMA KindsOfEvents ==
    /\ \A text : Anthropic!TextDelta(text).kind \in EventKinds
    /\ \A text : Anthropic!ThinkingDelta(text).kind \in EventKinds
    /\ \A id, name : Anthropic!ToolCallStart(id, name).kind \in EventKinds
    /\ \A id, arguments : Anthropic!ToolCallDelta(id, arguments).kind \in EventKinds
    /\ \A id, complete : Anthropic!ToolCallEnd(id, complete).kind \in EventKinds
    /\ \A reason : Anthropic!Stop(reason).kind \in EventKinds
    /\ Anthropic!Usage.kind \in EventKinds /\ Anthropic!Error.kind \in EventKinds
BY DEF Anthropic!TextDelta, Anthropic!ThinkingDelta, Anthropic!ToolCallStart,
       Anthropic!ToolCallDelta, Anthropic!ToolCallEnd, Anthropic!Stop, Anthropic!Usage,
       Anthropic!Error, EventKinds

\* Whatever the message is.
LEMMA DecodesEvents == \A m : EventSeq(Anthropic!DecodeGenerationEvents(m))
<1> TAKE m
<1> DEFINE Fragments == IF m.input = <<>> THEN <<>> ELSE <<Anthropic!ToolCallDelta(m.id, m.input[1])>>
<1>1. EventSeq(Fragments)
  BY NoEvents, OneEvent, KindsOfEvents
<1>2. EventSeq(Anthropic!DecodeToolUse(m))
  <2>1. PICK named :
            Anthropic!DecodeToolUse(m)
              = Anthropic!Optional(named, Anthropic!ToolCallStart(m.id, m.name)) \o Fragments
                \o Anthropic!Optional(m.stop, Anthropic!ToolCallEnd(m.id, TRUE))
    BY Zenon DEF Anthropic!DecodeToolUse
  <2>2. /\ EventSeq(Anthropic!Optional(named, Anthropic!ToolCallStart(m.id, m.name)))
        /\ EventSeq(Anthropic!Optional(m.stop, Anthropic!ToolCallEnd(m.id, TRUE)))
    BY OptionalEvent, KindsOfEvents
  <2> HIDE DEF Fragments
  <2>3. EventSeq(Anthropic!Optional(named, Anthropic!ToolCallStart(m.id, m.name)) \o Fragments)
    BY <1>1, <2>2, MoreEvents
  <2>4. EventSeq((Anthropic!Optional(named, Anthropic!ToolCallStart(m.id, m.name)) \o Fragments)
                   \o Anthropic!Optional(m.stop, Anthropic!ToolCallEnd(m.id, TRUE)))
    BY <2>2, <2>3, MoreEvents
  <2> QED
    BY <2>1, <2>4
<1>3. PICK given :
          Anthropic!DecodeGenerationEvents(m)
            = CASE m.type = "assistant" -> <<Anthropic!TextDelta(m.text)>>
                [] m.type = "reasoning" -> <<Anthropic!ThinkingDelta(m.text)>>
                [] m.type = "tool"      -> Anthropic!DecodeToolUse(m)
                [] m.type = "metadata"  -> Anthropic!Optional(m.usage, Anthropic!Usage)
                                             \o Anthropic!Optional(given, Anthropic!Stop(m.reason))
                [] m.type = "error"     -> <<Anthropic!Error>>
                [] OTHER                -> <<>>
  BY Zenon DEF Anthropic!DecodeGenerationEvents
<1>4. /\ EventSeq(<<Anthropic!TextDelta(m.text)>>) /\ EventSeq(<<Anthropic!ThinkingDelta(m.text)>>)
      /\ EventSeq(<<Anthropic!Error>>)
  BY OneEvent, KindsOfEvents
<1>5. EventSeq(Anthropic!Optional(m.usage, Anthropic!Usage)
                 \o Anthropic!Optional(given, Anthropic!Stop(m.reason)))
  BY OptionalEvent, KindsOfEvents, MoreEvents
<1> QED
  BY <1>2, <1>3, <1>4, <1>5, NoEvents

LEMMA AnswersAreEvents == \A events \in JsonAnswers : EventSeq(events)
<1>1. \A e \in Events : e.kind \in EventKinds
  BY DEF Events, EventKinds
<1>2. JsonAnswers \subseteq Seq(Events)
  BY InterfaceAssumption DEF InterfaceAssumption
<1> QED
  BY <1>1, <1>2 DEF EventSeq

LEMMA QueueSteps ==
    ASSUME EventSeq(queue), Anthropic!StreamStep
    PROVE  EventSeq(queue')
<1>1. CASE Anthropic!MessageArrives
  BY <1>1, DecodesEvents DEF Anthropic!MessageArrives
<1>2. CASE Anthropic!JsonArrives
  BY <1>2, AnswersAreEvents DEF Anthropic!JsonArrives
<1>3. CASE Anthropic!UpstreamEnds
  BY <1>3, OptionalEvent, KindsOfEvents DEF Anthropic!UpstreamEnds
<1>4. CASE Anthropic!UpstreamFails
  BY <1>4 DEF Anthropic!UpstreamFails
<1> QED
  BY <1>1, <1>2, <1>3, <1>4 DEF Anthropic!StreamStep

-----------------------------------------------------------------------------
(* Messages: the end.                                                       *)

\* Every index below the next one is that of a block.
LEMMA AllStarted ==
    ASSUME NEW s, NEW next, NEW closed, OutSound(s, next, closed), NEW k \in Nat, k < next
    PROVE  \E kind : Started(s, k, kind)
<1> DEFINE Below == {j \in Nat : j < next}
           index == [i \in Starts(s) |-> s[i].index]
<1>1. /\ next \in Nat /\ IsFiniteSet(Starts(s)) /\ Cardinality(Starts(s)) = next
      /\ \A i \in Starts(s) : s[i].index \in Below
      /\ \A i, j \in Starts(s) : s[i].index = s[j].index => i = j
  BY OneStart DEF OutSound
<1>2. IsFiniteSet(Below) /\ Cardinality(Below) = next
  BY <1>1, NumbersBelow
<1>3. k \in Below
  OBVIOUS
<1> HIDE DEF Below
<1>4. index \in Injection(Starts(s), Below)
  BY <1>1 DEF Injection, IsInjective
<1> HIDE DEF index
<1>5. index \in Surjection(Starts(s), Below)
  BY <1>1, <1>2, <1>4, FS_Injection
<1>6. PICK i \in Starts(s) : index[i] = k
  BY <1>3, <1>5 DEF Surjection
<1> QED
  BY <1>6 DEF Started, index

\* The loop that closes the blocks: after[n] has closed the first n.
Loop(s, n, after) ==
    after = [k \in 0..n |-> IF k = 0 THEN s ELSE Anthropic!Close(after[k - 1], k - 1)]

LEMMA LoopExists ==
    ASSUME NEW s, NEW n \in Nat
    PROVE  \E after : Loop(s, n, after)
<1> DEFINE Without == {m \in Nat : ~\E after : Loop(s, m, after)}
<1>1. SUFFICES ASSUME Without # {} PROVE FALSE
  OBVIOUS
<1>2. PICK m \in Without : \A j \in Without : m <= j
  <2>1. Without \in SUBSET Nat
    OBVIOUS
  <2> HIDE DEF Without
  <2> QED
    BY <1>1, <2>1, NatMin
<1>3. m \in Nat /\ ~\E after : Loop(s, m, after)
  OBVIOUS
<1>4. CASE m = 0
  <2> DEFINE after == [k \in 0..m |-> s]
  <2>1. Loop(s, m, after)
    BY <1>4 DEF Loop
  <2> QED
    BY <1>3, <2>1
<1>5. CASE m > 0
  <2>1. m - 1 \in Nat /\ m - 1 \notin Without
    BY <1>2, <1>3, <1>5
  <2>2. PICK before : Loop(s, m - 1, before)
    BY <2>1
  <2> DEFINE after == [k \in 0..m |-> IF k = m THEN Anthropic!Close(before[m - 1], m - 1) ELSE before[k]]
  <2>3. \A k \in 0..(m - 1) :
            before[k] = IF k = 0 THEN s ELSE Anthropic!Close(before[k - 1], k - 1)
    BY <2>2 DEF Loop
  <2>4. \A k \in 0..m : after[k] = IF k = 0 THEN s ELSE Anthropic!Close(after[k - 1], k - 1)
    BY <1>3, <1>5, <2>3
  <2>5. DOMAIN after = 0..m /\ after = [k \in 0..m |-> after[k]]
    OBVIOUS
  <2> HIDE DEF after
  <2>6. Loop(s, m, after)
    BY <2>4, <2>5 DEF Loop
  <2> QED
    BY <1>3, <2>6
<1> QED
  BY <1>3, <1>4, <1>5

LEMMA LoopCloses ==
    ASSUME NEW s, BlocksSound(s), NEW after, Loop(s, s.h.next, after),
           NEW n \in 0..s.h.next
    PROVE  /\ BlocksSound(after[n]) /\ after[n].h.next = s.h.next
           /\ \A k \in 0..(n - 1) : k \in after[n].h.closed
<1> DEFINE Good(m) == /\ BlocksSound(after[m]) /\ after[m].h.next = s.h.next
                      /\ \A k \in 0..(m - 1) : k \in after[m].h.closed
           Bad == {m \in 0..s.h.next : ~Good(m)}
<1>1. SUFFICES ASSUME Bad # {} PROVE FALSE
  OBVIOUS
<1>2. s.h.next \in Nat
  BY DEF BlocksSound, OutSound
<1>3. PICK m \in Bad : \A j \in Bad : m <= j
  <2>1. Bad \in SUBSET Nat
    BY <1>2
  <2> HIDE DEF Bad
  <2> QED
    BY <1>1, <2>1, NatMin
<1>4. m \in 0..s.h.next /\ ~Good(m)
  OBVIOUS
<1>5. after[m] = IF m = 0 THEN s ELSE Anthropic!Close(after[m - 1], m - 1)
  BY <1>4 DEF Loop
<1>6. CASE m = 0
  BY <1>4, <1>5, <1>6
<1>7. CASE m > 0
  <2>1. m - 1 \in 0..s.h.next /\ m - 1 \in Nat /\ m - 1 < s.h.next /\ m \in Nat
    BY <1>2, <1>4, <1>7
  <2>2. Good(m - 1)
    BY <1>2, <1>3, <2>1
  <2> DEFINE b == after[m - 1]
             i == m - 1
             t == Anthropic!Close(b, i)
  <2>3. BlocksSound(b) /\ b.h.next = s.h.next /\ \A k \in 0..(i - 1) : k \in b.h.closed
    BY <2>2
  <2>4. i \in Nat /\ i < s.h.next /\ i # Anthropic!NoBlock
    BY <2>1, NoBlockIsNone
  <2>5. after[m] = t
    BY <1>5, <1>7
  <2> HIDE DEF b, i, Bad, Good
  <2>6. \E kind : Started(b.out, i, kind)
    BY <2>3, <2>4, AllStarted DEF BlocksSound
  <2>7. /\ BlocksSound(t) /\ t.h.next = b.h.next
        /\ t.h.closed = b.h.closed \cup ({i} \ {Anthropic!NoBlock})
    BY <2>3, <2>6, CloseSound
  <2> HIDE DEF t
  <2>8. \A k \in 0..(m - 1) : k \in 0..(i - 1) \/ k = i
    BY <2>1 DEF i
  <2>9. Good(m)
    BY <2>3, <2>4, <2>5, <2>7, <2>8 DEF Good
  <2> QED
    BY <1>4, <2>9
<1> QED
  BY <1>2, <1>4, <1>6, <1>7

LEMMA CloseRestSound ==
    ASSUME NEW s, BlocksSound(s)
    PROVE  LET t == Anthropic!CloseRest(s)
           IN  BlocksSound(t) /\ \A k \in Nat : k < t.h.next => k \in t.h.closed
<1> DEFINE t == Anthropic!CloseRest(s)
<1>1. s.h.next \in Nat
  BY DEF BlocksSound, OutSound
<1>2. \E after : Loop(s, s.h.next, after)
  BY <1>1, LoopExists
<1>3. PICK after : Loop(s, s.h.next, after) /\ t = after[s.h.next]
  <2> DEFINE rest == CHOOSE after : Loop(s, s.h.next, after)
  <2>1. Loop(s, s.h.next, rest)
    BY <1>2
  <2>2. t = rest[s.h.next]
    BY Zenon DEF Anthropic!CloseRest, Loop
  <2> QED
    BY <2>1, <2>2
<1> HIDE DEF t
<1>4. /\ BlocksSound(t) /\ t.h.next = s.h.next
      /\ \A k \in 0..(s.h.next - 1) : k \in t.h.closed
  BY <1>1, <1>3, LoopCloses
<1> QED
  BY <1>1, <1>4 DEF t

\* What is left in the filter goes to the block for text, after thinking is closed.
LEMMA SendTailSound ==
    ASSUME NEW s, Answering(s)
    PROVE  BlocksSound(Anthropic!SendTail(s))
<1> DEFINE tail == Anthropic!FilterFinish(s.h.filter).output
           c == Anthropic!Close(s, s.h.thinking)
           ready == Anthropic!EnsureText(c)
           t == Anthropic!Delta(ready, ready.h.text, "text", tail)
<1>1. Anthropic!SendTail(s) = IF tail = <<>> THEN s ELSE t
  BY DEF Anthropic!SendTail
<1> HIDE DEF tail
<1>2. BlocksSound(c) /\ SameMemory(s, c) /\ OpenIn(c) = OpenIn(s) \ {s.h.thinking}
  BY CloseSound DEF Answering, BlocksSound, BlocksKnown
<1> HIDE DEF c
<1>3. s.h.text = s.h.thinking => s.h.text = Anthropic!NoBlock
  BY OpenFacts DEF Answering, BlocksSound, BlocksKnown
<1>4. OpenIn(c) = {c.h.text} \ {Anthropic!NoBlock}
  BY <1>2, <1>3 DEF Answering, ContentKnown, SameMemory
<1>5. /\ BlocksSound(ready) /\ OpenIn(ready) = {ready.h.text}
      /\ Started(ready.out, ready.h.text, "text")
  BY <1>2, <1>4, EnsureTextSound
<1> HIDE DEF ready
<1>6. BlocksSound(t)
  BY <1>5, DeltaSound
<1> QED
  BY <1>1, <1>6 DEF Answering

-----------------------------------------------------------------------------
(* Messages: the stream.                                                    *)

\* While it goes on, what was sent and what the handler remembers fit.
MessagesGoOn == Answering([h |-> handler, out |-> sent])

\* When it is over, two more events followed: a good end had stopped every block.
Over(out, base, last, next, closed) ==
    /\ OutSound(base, next, closed)
    /\ out = Append(Append(base, last), Anthropic!MessageStop)
    /\ \/ last = Anthropic!ErrorSent
       \/ /\ last.type = "message_delta"
          /\ \A i \in Starts(base) : base[i].index \in closed

MessagesInv ==
    /\ EventSeq(queue)
    /\ MessagesGoOn \/ \E base, last, next, closed : Over(sent, base, last, next, closed)

LEMMA MessagesStarted ==
    ASSUME Anthropic!Init
    PROVE  MessagesInv
<1> DEFINE s == [h |-> handler, out |-> sent]
<1>1. /\ queue = <<>> /\ handler = Anthropic!NewHandler /\ sent = <<Anthropic!MessageStart>>
  BY DEF Anthropic!Init, Anthropic!StreamInit
<1>2. /\ handler.text = Anthropic!NoBlock /\ handler.thinking = Anthropic!NoBlock
      /\ handler.tools = <<>> /\ handler.closed = {} /\ handler.next = 0 /\ StateShape(s)
  BY <1>1 DEF Anthropic!NewHandler, StateShape
<1>3. /\ IsSeq(sent) /\ Len(sent) = 1 /\ DOMAIN sent = {1} /\ sent[1].type = "message_start"
  <2>1. sent = Append(<<>>, Anthropic!MessageStart)
    BY <1>1
  <2>2. IsSeq(sent)
    BY <2>1, EmptyIsSeq, AppendFacts
  <2> QED
    BY <1>1, <2>2 DEF Anthropic!MessageStart
<1>4. Starts(sent) = {} /\ Stops(sent) = {}
  BY <1>3 DEF Starts, Stops
<1>5. OutSound(sent, 0, {})
  <2>1. IsFiniteSet({}) /\ Cardinality({}) = 0
    BY FS_EmptySet
  <2>2. CountedAt(sent, 1) /\ OpenAt(sent, 1) /\ sent[1].type \notin FinalTypes
    BY <1>3 DEF CountedAt, OpenAt, FinalTypes
  <2> QED
    BY <1>3, <1>4, <2>1, <2>2 DEF OutSound
<1>6. s.h = handler /\ s.out = sent /\ StateShape(s) /\ DOMAIN handler.tools = {}
  BY <1>2
<1> HIDE DEF s
<1>7. BlocksSound(s)
  BY <1>2, <1>5, <1>6 DEF BlocksSound, BlocksKnown
<1>8. OpenIn(s) = {}
  BY <1>4, <1>6 DEF OpenIn, OpenContent
<1>9. ContentKnown(s)
  BY <1>2, <1>6, <1>8 DEF ContentKnown
<1> QED
  BY <1>1, <1>7, <1>9, NoEvents DEF MessagesInv, MessagesGoOn, Answering, s

\* A stream that is over has ended, and one that goes on has not.
LEMMA OverIsEnded ==
    ASSUME NEW base, NEW last, NEW next, NEW closed, Over(sent, base, last, next, closed)
    PROVE  /\ IsSeq(base) /\ Len(base) \in Nat /\ Len(sent) = Len(base) + 2
           /\ DOMAIN base = 1..Len(base) /\ DOMAIN sent = 1..(Len(base) + 2)
           /\ \A i \in 1..Len(base) : sent[i] = base[i]
           /\ sent[Len(base) + 1] = last /\ sent[Len(base) + 2] = Anthropic!MessageStop
           /\ Anthropic!Ended
<1> DEFINE one == Append(base, last)
<1>1. IsSeq(base) /\ sent = Append(one, Anthropic!MessageStop)
  BY DEF Over, OutSound
<1>2. /\ Len(base) \in Nat /\ DOMAIN base = 1..Len(base) /\ IsSeq(one) /\ Len(one) = Len(base) + 1
      /\ one[Len(base) + 1] = last /\ \A i \in 1..Len(base) : one[i] = base[i]
  BY <1>1, SeqFacts, AppendFacts
<1> HIDE DEF one
<1>3. /\ Len(sent) = Len(one) + 1 /\ DOMAIN sent = 1..(Len(one) + 1)
      /\ sent[Len(one) + 1] = Anthropic!MessageStop /\ \A i \in 1..Len(one) : sent[i] = one[i]
  BY <1>1, <1>2, AppendFacts
<1> QED
  BY <1>1, <1>2, <1>3 DEF Anthropic!Ended

LEMMA GoesOnUntilEnded ==
    ASSUME MessagesInv, ~Anthropic!Ended
    PROVE  MessagesGoOn
BY OverIsEnded DEF MessagesInv

LEMMA MessagesReceive ==
    ASSUME MessagesInv, Anthropic!Receive
    PROVE  MessagesInv'
<1> DEFINE s == [h |-> handler, out |-> sent]
<1>1. PICK event : /\ ~Anthropic!Ended /\ event.kind # "error" /\ Anthropic!Takes(event)
                   /\ handler' = Anthropic!OnEvent(s, event).h
                   /\ sent' = Anthropic!OnEvent(s, event).out
  BY DEF Anthropic!Receive
<1>2. queue # <<>> /\ event = Head(queue) /\ queue' = Tail(queue)
  BY <1>1 DEF Anthropic!Takes
<1>3. event.kind \in EventKinds /\ EventSeq(queue')
  BY <1>2, EventsTaken DEF MessagesInv
<1>4. Answering(s)
  BY <1>1, GoesOnUntilEnded DEF MessagesGoOn
<1> HIDE DEF s
<1> DEFINE t == Anthropic!OnEvent(s, event)
<1>5. Answering(t)
  BY <1>1, <1>3, <1>4, OnEventSound
<1>6. handler' = t.h /\ sent' = t.out
  BY <1>1
<1> HIDE DEF t
<1>7. t = [h |-> t.h, out |-> t.out]
  BY <1>5 DEF Answering, BlocksSound, StateShape
<1>8. MessagesGoOn'
  BY <1>5, <1>6, <1>7 DEF MessagesGoOn
<1> QED
  BY <1>3, <1>8 DEF MessagesInv

LEMMA MessagesFail ==
    ASSUME MessagesInv, Anthropic!Fail
    PROVE  MessagesInv'
<1> DEFINE s == [h |-> handler, out |-> sent]
<1>1. OutSound(sent, handler.next, handler.closed)
  <2>1. Answering(s)
    BY GoesOnUntilEnded DEF MessagesGoOn, Anthropic!Fail
  <2>2. s.h = handler /\ s.out = sent
    OBVIOUS
  <2> QED
    BY <2>1, <2>2 DEF Answering, BlocksSound
<1>2. sent' = Append(Append(sent, Anthropic!ErrorSent), Anthropic!MessageStop)
  BY <1>1, ConcatFacts DEF OutSound, Anthropic!Fail
<1>3. EventSeq(queue')
  <2>1. CASE Anthropic!Takes(Anthropic!Error)
    BY <2>1, EventsTaken DEF Anthropic!Takes, MessagesInv
  <2>2. CASE UNCHANGED Anthropic!streamVars
    BY <2>2 DEF Anthropic!streamVars, MessagesInv
  <2> QED
    BY <2>1, <2>2 DEF Anthropic!Fail
<1>4. Over(sent', sent, Anthropic!ErrorSent, handler.next, handler.closed)
  BY <1>1, <1>2 DEF Over
<1> QED
  BY <1>3, <1>4 DEF MessagesInv

LEMMA MessagesFinish ==
    ASSUME MessagesInv, Anthropic!Finish
    PROVE  MessagesInv'
<1> DEFINE s == [h |-> handler, out |-> sent]
           tail == Anthropic!SendTail(s)
           t == Anthropic!CloseRest(tail)
           last == Anthropic!MessageDelta(Anthropic!AnthropicStopReason(Anthropic!Finished(acc)))
<1>1. sent' = t.out \o <<last, Anthropic!MessageStop>> /\ queue' = queue
  BY DEF Anthropic!Finish, Anthropic!streamVars
<1>2. last.type = "message_delta"
  BY DEF Anthropic!MessageDelta
<1> HIDE DEF last
<1>3. Answering(s)
  BY GoesOnUntilEnded DEF MessagesGoOn, Anthropic!Finish
<1> HIDE DEF s
<1>4. BlocksSound(tail)
  BY <1>3, SendTailSound
<1> HIDE DEF tail
<1>5. BlocksSound(t) /\ \A k \in Nat : k < t.h.next => k \in t.h.closed
  BY <1>4, CloseRestSound
<1> HIDE DEF t
<1>6. OutSound(t.out, t.h.next, t.h.closed) /\ IsSeq(t.out)
  BY <1>5 DEF BlocksSound, OutSound
<1>7. sent' = Append(Append(t.out, last), Anthropic!MessageStop)
  <2>1. \A x, y : t.out \o <<x, y>> = Append(Append(t.out, x), y)
    BY <1>6, ConcatFacts
  <2> QED
    BY <1>1, <2>1
<1>8. \A i \in Starts(t.out) : t.out[i].index \in t.h.closed
  BY <1>5, <1>6 DEF OutSound
<1>9. Over(sent', t.out, last, t.h.next, t.h.closed)
  BY <1>2, <1>6, <1>7, <1>8 DEF Over
<1> QED
  BY <1>1, <1>9 DEF MessagesInv

LEMMA MessagesSteps ==
    ASSUME MessagesInv, Anthropic!Next
    PROVE  MessagesInv'
<1>1. CASE Anthropic!StreamStep /\ UNCHANGED <<acc, handler, sent>>
  BY <1>1, QueueSteps DEF MessagesInv, MessagesGoOn
<1>2. CASE Anthropic!Done
  BY <1>2 DEF Anthropic!Done, Anthropic!vars, Anthropic!streamVars, MessagesInv, MessagesGoOn
<1> QED
  BY <1>1, <1>2, MessagesReceive, MessagesFail, MessagesFinish DEF Anthropic!Next

LEMMA MessagesUnchanged ==
    ASSUME MessagesInv, UNCHANGED <<queue, handler, sent>>
    PROVE  MessagesInv'
BY DEF MessagesInv, MessagesGoOn

LEMMA MessagesCardinality == \A S : Anthropic!Cardinality(S) = Cardinality(S)
BY DEF Anthropic!Cardinality, Cardinality

\* The two properties of the blocks, event by event.
LEMMA SoundEventByEvent ==
    ASSUME \A i \in DOMAIN sent : CountedAt(sent, i) /\ OpenAt(sent, i)
    PROVE  Anthropic!BlocksAreCounted /\ Anthropic!ContentGoesToTheOpenBlock
<1>1. Anthropic!BlocksAreCounted
  BY MessagesCardinality DEF CountedAt, Anthropic!BlocksAreCounted, Anthropic!IsStart,
     Anthropic!IsDelta, Anthropic!IsStop
<1>2. Anthropic!ContentGoesToTheOpenBlock
  BY DEF OpenAt, Anthropic!ContentGoesToTheOpenBlock, Anthropic!IsStart,
     Anthropic!IsDelta, Anthropic!IsStop
<1> QED
  BY <1>1, <1>2

LEMMA GoingOnPromises ==
    ASSUME MessagesGoOn
    PROVE  /\ Anthropic!BlocksAreCounted /\ Anthropic!ContentGoesToTheOpenBlock
           /\ Anthropic!EndsClean
<1> DEFINE s == [h |-> handler, out |-> sent]
<1>1. OutSound(sent, handler.next, handler.closed)
  <2>1. s.h = handler /\ s.out = sent
    OBVIOUS
  <2> QED
    BY <2>1 DEF MessagesGoOn, Answering, BlocksSound
<1>2. \A i \in DOMAIN sent : /\ CountedAt(sent, i) /\ OpenAt(sent, i)
                             /\ sent[i].type \notin FinalTypes
  BY <1>1 DEF OutSound
<1>3. \A i \in DOMAIN sent : sent[i] # Anthropic!MessageStop
  BY <1>2 DEF Anthropic!MessageStop, FinalTypes
<1>4. Len(sent) \in DOMAIN sent
  BY <1>1, SeqFacts DEF OutSound
<1>5. ~Anthropic!Ended
  BY <1>3, <1>4 DEF Anthropic!Ended
<1> QED
  BY <1>2, <1>3, <1>5, SoundEventByEvent DEF Anthropic!EndsClean, Anthropic!HasEndedWell

LEMMA OverPromises ==
    ASSUME NEW base, NEW last, NEW next, NEW closed, Over(sent, base, last, next, closed)
    PROVE  /\ Anthropic!BlocksAreCounted /\ Anthropic!ContentGoesToTheOpenBlock
           /\ Anthropic!EndsClean
<1> DEFINE n == Len(base)
           one == Append(base, last)
<1>1. /\ IsSeq(base) /\ n \in Nat /\ Len(sent) = n + 2
      /\ DOMAIN base = 1..n /\ DOMAIN sent = 1..(n + 2)
      /\ \A i \in 1..n : sent[i] = base[i]
      /\ sent[n + 1] = last /\ sent[n + 2] = Anthropic!MessageStop
  BY OverIsEnded
<1>2. IsSeq(one) /\ Len(one) = n + 1 /\ sent = Append(one, Anthropic!MessageStop)
  BY <1>1, AppendFacts DEF Over
<1>3. OutSound(base, next, closed)
  BY DEF Over
<1>4. last.type \in FinalTypes /\ last.type # "message_stop"
  BY DEF Over, FinalTypes, Anthropic!ErrorSent
<1>5. ASSUME NEW i \in 1..n
      PROVE  CountedAt(sent, i) /\ OpenAt(sent, i) /\ sent[i].type \notin FinalTypes
  <2>1. CountedAt(base, i) /\ OpenAt(base, i) /\ base[i].type \notin FinalTypes
    BY <1>1, <1>3 DEF OutSound
  <2>2. CountedAt(one, i) /\ OpenAt(one, i)
    BY <1>1, <2>1, AtBefore
  <2>3. i \in 1..Len(one)
    BY <1>1, <1>2
  <2> HIDE DEF one
  <2>4. CountedAt(Append(one, Anthropic!MessageStop), i) /\ OpenAt(Append(one, Anthropic!MessageStop), i)
    BY <1>2, <2>2, <2>3, AtBefore
  <2>5. CountedAt(sent, i) /\ OpenAt(sent, i)
    BY <1>2, <2>4
  <2> QED
    BY <1>1, <2>1, <2>5
<1> HIDE DEF one, n
<1>6. sent[n + 1].type \in FinalTypes /\ sent[n + 2].type \in FinalTypes
  BY <1>1, <1>4 DEF Anthropic!MessageStop, FinalTypes
<1>7. /\ CountedAt(sent, n + 1) /\ OpenAt(sent, n + 1)
      /\ CountedAt(sent, n + 2) /\ OpenAt(sent, n + 2)
  BY <1>6 DEF CountedAt, OpenAt, FinalTypes
<1>8. \A i \in DOMAIN sent : i \in 1..n \/ i = n + 1 \/ i = n + 2
  BY <1>1
<1>9. Anthropic!BlocksAreCounted /\ Anthropic!ContentGoesToTheOpenBlock
  BY <1>5, <1>7, <1>8, SoundEventByEvent
<1>10. \A i \in DOMAIN sent : sent[i] = Anthropic!MessageStop => i = Len(sent)
  <2>1. \A i \in 1..n : sent[i] # Anthropic!MessageStop
    BY <1>5 DEF FinalTypes, Anthropic!MessageStop
  <2>2. sent[n + 1] # Anthropic!MessageStop
    BY <1>1, <1>4 DEF Anthropic!MessageStop
  <2> QED
    BY <1>1, <1>8, <2>1, <2>2
<1>11. ASSUME Anthropic!HasEndedWell
       PROVE  /\ \A i \in DOMAIN sent : Anthropic!IsStart(i) =>
                     \E j \in (i + 1)..Len(sent) : Anthropic!IsStop(j) /\ sent[j].index = sent[i].index
              /\ sent[Len(sent) - 1].type = "message_delta"
  <2>1. Len(sent) - 1 = n + 1
    BY <1>1
  <2>2. last # Anthropic!ErrorSent
    BY <1>1, <1>11, <2>1 DEF Anthropic!HasEndedWell
  <2>3. last.type = "message_delta" /\ \A i \in Starts(base) : base[i].index \in closed
    BY <2>2 DEF Over
  <2>4. ASSUME NEW i \in DOMAIN sent, Anthropic!IsStart(i)
        PROVE  \E j \in (i + 1)..Len(sent) : Anthropic!IsStop(j) /\ sent[j].index = sent[i].index
    <3>1. i \in 1..n
      BY <1>6, <1>8, <2>4 DEF Anthropic!IsStart, FinalTypes
    <3>2. i \in Starts(base) /\ sent[i] = base[i]
      BY <1>1, <2>4, <3>1 DEF Anthropic!IsStart, Starts
    <3>3. PICK j \in Stops(base) : base[j].index = base[i].index
      BY <1>3, <2>3, <3>2 DEF OutSound
    <3>4. PICK k \in Starts(base) : k < j /\ base[k].index = base[j].index
      BY <1>3, OneStart
    <3>5. k = i
      BY <1>3, <3>2, <3>3, <3>4, OneStart
    <3>6. j \in 1..n /\ sent[j] = base[j] /\ base[j].type = "content_block_stop"
      BY <1>1 DEF Stops
    <3>7. j \in (i + 1)..Len(sent)
      BY <1>1, <3>1, <3>4, <3>5, <3>6
    <3> QED
      BY <3>2, <3>3, <3>6, <3>7 DEF Anthropic!IsStop
  <2> QED
    BY <1>1, <2>1, <2>3, <2>4
<1> QED
  BY <1>9, <1>10, <1>11 DEF Anthropic!EndsClean

LEMMA MessagesPromises ==
    ASSUME MessagesInv
    PROVE  /\ Anthropic!BlocksAreCounted /\ Anthropic!ContentGoesToTheOpenBlock
           /\ Anthropic!EndsClean
BY GoingOnPromises, OverPromises DEF MessagesInv

LEMMA NothingIsLeft == FilterFinish(<<>>).output = <<>>
<1>1. <<>> \in Seq(STRING)
  OBVIOUS
<1>2. PICK from : Drains(from, TRUE) /\ Drain(TRUE, <<>>) = from[<<>>]
  BY <1>1, DrainIsTheLoop
<1>3. from[<<>>] = DrainStep(from, TRUE, <<>>)
  BY <1>1, <1>2 DEF Drains
<1>4. DrainStep(from, TRUE, <<>>).output = <<>>
  BY DEF DrainStep
<1> QED
  BY <1>2, <1>3, <1>4 DEF FilterFinish

-----------------------------------------------------------------------------
(* Without streaming: the calls of the accumulator.                         *)

\* A call that passes for complete has complete arguments.
BufferFields == {"name", "arguments", "complete", "ended", "generated"}
BufferSound(buffer) ==
    /\ DOMAIN buffer = BufferFields
    /\ buffer.complete => Drive!AreComplete(buffer.arguments)

LEMMA BufferChanges ==
    ASSUME NEW b, BufferSound(b)
    PROVE  /\ \A whole : (whole => Drive!AreComplete(b.arguments)) =>
                  BufferSound([b EXCEPT !.complete = whole, !.ended = TRUE])
           /\ \A longer : BufferSound([b EXCEPT !.arguments = longer, !.complete = FALSE])
           /\ BufferSound([b EXCEPT !.generated = FALSE])
BY DEF BufferSound, BufferFields

\* Every call in the order has its buffer.
CallsKnown(tools) ==
    /\ tools = [buffers |-> tools.buffers, order |-> tools.order, last |-> tools.last]
    /\ IsSeq(tools.order)
    /\ tools.buffers = [k \in DOMAIN tools.buffers |-> tools.buffers[k]]
    /\ \A i \in DOMAIN tools.order : tools.order[i] \in DOMAIN tools.buffers
    /\ \A k \in DOMAIN tools.buffers : BufferSound(tools.buffers[k])

LEMMA DriveInserts ==
    ASSUME NEW tools, CallsKnown(tools), NEW key, NEW name, NEW generated
    PROVE  CallsKnown(Drive!InsertBuffer(tools, key, name, generated))
<1> DEFINE new == Drive!InsertBuffer(tools, key, name, generated)
           buffer == [name |-> name, arguments |-> <<>>, complete |-> FALSE,
                      ended |-> FALSE, generated |-> generated]
           buffers == [k \in DOMAIN tools.buffers \cup {key} |->
                           IF k = key THEN buffer ELSE tools.buffers[k]]
<1>1. new = [buffers |-> buffers, order |-> Append(tools.order, key), last |-> key]
  BY DEF Drive!InsertBuffer
<1>2. BufferSound(buffer)
  BY DEF BufferSound, BufferFields
<1> HIDE DEF new, buffer
<1>3. /\ DOMAIN buffers = DOMAIN tools.buffers \cup {key}
      /\ buffers = [k \in DOMAIN buffers |-> buffers[k]]
      /\ \A k \in DOMAIN buffers : BufferSound(buffers[k])
  BY <1>2 DEF CallsKnown
<1> HIDE DEF buffers
<1>4. /\ IsSeq(Append(tools.order, key)) /\ DOMAIN tools.order = 1..Len(tools.order)
      /\ DOMAIN Append(tools.order, key) = 1..(Len(tools.order) + 1) /\ Len(tools.order) \in Nat
      /\ Append(tools.order, key)[Len(tools.order) + 1] = key
      /\ \A i \in 1..Len(tools.order) : Append(tools.order, key)[i] = tools.order[i]
  BY AppendFacts, SeqFacts DEF CallsKnown
<1>5. \A i \in DOMAIN Append(tools.order, key) : Append(tools.order, key)[i] \in DOMAIN buffers
  BY <1>3, <1>4 DEF CallsKnown
<1>6. CallsKnown(new)
  BY <1>1, <1>3, <1>4, <1>5 DEF CallsKnown
<1> QED
  BY <1>6 DEF new

LEMMA DriveCompletes ==
    ASSUME NEW tools, CallsKnown(tools), NEW key, NEW complete
    PROVE  /\ CallsKnown(Drive!CompleteBuffer(tools, key, complete))
           /\ Drive!CompleteBuffer(tools, key, complete).order = tools.order
<1> DEFINE new == Drive!CompleteBuffer(tools, key, complete)
<1>1. CASE key \notin DOMAIN tools.buffers
  BY <1>1 DEF Drive!CompleteBuffer
<1>2. CASE key \in DOMAIN tools.buffers
  <2> DEFINE whole == complete /\ Drive!AreComplete(tools.buffers[key].arguments)
             buffers == [tools.buffers EXCEPT ![key].complete = whole, ![key].ended = TRUE]
  <2>1. new = [buffers |-> buffers, order |-> tools.order, last |-> tools.last]
    BY <1>2 DEF Drive!CompleteBuffer, CallsKnown
  <2>2. whole => Drive!AreComplete(tools.buffers[key].arguments)
    OBVIOUS
  <2> HIDE DEF new, whole
  <2>3. /\ DOMAIN buffers = DOMAIN tools.buffers
        /\ buffers = [k \in DOMAIN buffers |-> buffers[k]]
        /\ \A k \in DOMAIN buffers : k # key => buffers[k] = tools.buffers[k]
        /\ buffers[key] = [tools.buffers[key] EXCEPT !.complete = whole, !.ended = TRUE]
    BY <1>2 DEF CallsKnown
  <2>4. BufferSound(buffers[key])
    BY <1>2, <2>2, <2>3, BufferChanges DEF CallsKnown
  <2> HIDE DEF buffers
  <2>5. \A k \in DOMAIN buffers : BufferSound(buffers[k])
    BY <2>3, <2>4 DEF CallsKnown
  <2>6. CallsKnown(new)
    BY <2>1, <2>3, <2>5 DEF CallsKnown
  <2> QED
    BY <2>1, <2>6 DEF new
<1> QED
  BY <1>1, <1>2

LEMMA DriveRebinds ==
    ASSUME NEW tools, CallsKnown(tools), NEW id, NEW name, Drive!CanRebind(tools, name)
    PROVE  CallsKnown(Drive!RebindGenerated(tools, id))
<1> DEFINE new == Drive!RebindGenerated(tools, id)
           last == Drive!LastOpenTool(tools)
           order == [i \in DOMAIN tools.order |-> IF tools.order[i] = last THEN id ELSE tools.order[i]]
           buffers == [k \in (DOMAIN tools.buffers \ {last}) \cup {id} |->
                           IF k = id THEN [tools.buffers[last] EXCEPT !.generated = FALSE]
                                     ELSE tools.buffers[k]]
<1>1. last \in DOMAIN tools.buffers
  BY DEF Drive!CanRebind, Drive!LastOpenTool, Drive!IsOpen
<1>2. IsSeq(order) /\ DOMAIN order = DOMAIN tools.order
  <2>1. PICK S : tools.order \in Seq(S)
    BY DEF CallsKnown, IsSeq
  <2>2. order \in Seq(S \cup {id})
    BY <2>1
  <2>3. DOMAIN order = DOMAIN tools.order
    OBVIOUS
  <2> HIDE DEF order
  <2> QED
    BY <2>2, <2>3 DEF IsSeq
<1>3. new = [buffers |-> buffers, order |-> order, last |-> id]
  BY DEF Drive!RebindGenerated
<1> HIDE DEF new, last
<1>4. BufferSound([tools.buffers[last] EXCEPT !.generated = FALSE])
  BY <1>1, BufferChanges DEF CallsKnown
<1>5. /\ DOMAIN buffers = (DOMAIN tools.buffers \ {last}) \cup {id}
      /\ buffers = [k \in DOMAIN buffers |-> buffers[k]]
      /\ \A k \in DOMAIN buffers : BufferSound(buffers[k])
  BY <1>4 DEF CallsKnown
<1>6. \A i \in DOMAIN order : order[i] \in DOMAIN buffers
  BY <1>2, <1>5 DEF CallsKnown
<1> HIDE DEF order, buffers
<1>7. CallsKnown(new)
  BY <1>2, <1>3, <1>5, <1>6 DEF CallsKnown
<1> QED
  BY <1>7 DEF new

LEMMA DriveRemembers ==
    ASSUME NEW tools, CallsKnown(tools), NEW key
    PROVE  /\ CallsKnown([tools EXCEPT !.last = key])
           /\ [tools EXCEPT !.last = key].order = tools.order
<1> DEFINE new == [tools EXCEPT !.last = key]
<1>1. new = [buffers |-> tools.buffers, order |-> tools.order, last |-> key]
  BY DEF CallsKnown
<1> HIDE DEF new
<1>2. CallsKnown(new) /\ new.order = tools.order
  BY <1>1 DEF CallsKnown
<1> QED
  BY <1>2 DEF new

LEMMA DriveStarts ==
    ASSUME NEW tools, CallsKnown(tools), NEW id, NEW name
    PROVE  CallsKnown(Drive!StartCall(tools, id, name))
<1>1. CASE id = ""
  <2> DEFINE last == Drive!LastOpenTool(tools)
             ended == Drive!CompleteBuffer(tools, last, TRUE)
             fresh == Drive!GeneratedId(Len(tools.order) + 1)
             new == Drive!InsertBuffer(ended, fresh, name, TRUE)
  <2>1. CallsKnown(new)
    BY DriveCompletes, DriveInserts
  <2>2. \/ Drive!StartCall(tools, id, name) = tools
        \/ Drive!StartCall(tools, id, name) = new
    BY <1>1 DEF Drive!StartCall, Drive!StartWithoutId
  <2> QED
    BY <2>1, <2>2
<1>2. CASE id # "" /\ id \in DOMAIN tools.buffers
  <2>1. Drive!StartCall(tools, id, name) = [tools EXCEPT !.last = id]
    BY <1>2 DEF Drive!StartCall, Drive!StartWithId
  <2> QED
    BY <2>1, DriveRemembers
<1>3. CASE id # "" /\ id \notin DOMAIN tools.buffers /\ Drive!CanRebind(tools, name)
  BY <1>3, DriveRebinds DEF Drive!StartCall, Drive!StartWithId
<1>4. CASE id # "" /\ id \notin DOMAIN tools.buffers /\ ~Drive!CanRebind(tools, name)
  <2>1. Drive!StartCall(tools, id, name)
          = IF name = "" THEN tools ELSE Drive!InsertBuffer(tools, id, name, FALSE)
    BY <1>4 DEF Drive!StartCall, Drive!StartWithId
  <2> QED
    BY <2>1, DriveInserts
<1> QED
  BY <1>1, <1>2, <1>3, <1>4

\* A fragment opens the question again whether the arguments are complete.
LEMMA DriveAppends ==
    ASSUME NEW tools, CallsKnown(tools), NEW id, NEW fragment
    PROVE  /\ CallsKnown(Drive!AppendFragment(tools, id, fragment))
           /\ Drive!AppendFragment(tools, id, fragment).order = tools.order
<1> DEFINE new == Drive!AppendFragment(tools, id, fragment)
           key == IF id # "" THEN id ELSE Drive!LastOpenTool(tools)
<1>1. new = IF ~Drive!IsOpen(tools, key) THEN tools
            ELSE [tools EXCEPT !.buffers[key].arguments = @ \o fragment,
                               !.buffers[key].complete = FALSE, !.last = key]
  BY Zenon DEF Drive!AppendFragment
<1> HIDE DEF new, key
<1>2. CASE ~Drive!IsOpen(tools, key)
  BY <1>1, <1>2 DEF new
<1>3. CASE Drive!IsOpen(tools, key)
  <2> DEFINE longer == tools.buffers[key].arguments \o fragment
             buffers == [tools.buffers EXCEPT ![key].arguments = longer, ![key].complete = FALSE]
  <2>1. key \in DOMAIN tools.buffers
    BY <1>3 DEF Drive!IsOpen
  <2>2. new = [buffers |-> buffers, order |-> tools.order, last |-> key]
    BY <1>1, <1>3, <2>1 DEF CallsKnown
  <2> HIDE DEF longer
  <2>3. /\ DOMAIN buffers = DOMAIN tools.buffers
        /\ buffers = [k \in DOMAIN buffers |-> buffers[k]]
        /\ \A k \in DOMAIN buffers : k # key => buffers[k] = tools.buffers[k]
        /\ buffers[key] = [tools.buffers[key] EXCEPT !.arguments = longer, !.complete = FALSE]
    BY <2>1 DEF CallsKnown
  <2>4. BufferSound(buffers[key])
    BY <2>1, <2>3, BufferChanges DEF CallsKnown
  <2> HIDE DEF buffers
  <2>5. \A k \in DOMAIN buffers : BufferSound(buffers[k])
    BY <2>3, <2>4 DEF CallsKnown
  <2>6. CallsKnown(new)
    BY <2>2, <2>3, <2>5 DEF CallsKnown
  <2> QED
    BY <2>2, <2>6 DEF new
<1> QED
  BY <1>2, <1>3

LEMMA DriveFinishes ==
    ASSUME NEW tools, CallsKnown(tools), NEW id, NEW complete
    PROVE  /\ CallsKnown(Drive!FinishWithState(tools, id, complete))
           /\ Drive!FinishWithState(tools, id, complete).order = tools.order
<1>1. PICK key, kept :
          Drive!FinishWithState(tools, id, complete)
            = [Drive!CompleteBuffer(tools, key, complete) EXCEPT !.last = kept]
  BY Zenon DEF Drive!FinishWithState
<1> QED
  BY <1>1, DriveCompletes, DriveRemembers

\* A call of a result that passes for complete has complete arguments.
LEMMA CallsAreComplete ==
    ASSUME NEW tools, CallsKnown(tools)
    PROVE  \A i \in DOMAIN Drive!FinishAll(tools) :
               Drive!FinishAll(tools)[i].complete => Drive!AreComplete(Drive!FinishAll(tools)[i].arguments)
<1> TAKE i \in DOMAIN Drive!FinishAll(tools)
<1> DEFINE buffer == tools.buffers[tools.order[i]]
<1>1. i \in DOMAIN tools.order
  BY DEF Drive!FinishAll
<1>2. BufferSound(buffer)
  BY <1>1 DEF CallsKnown
<1>3. Drive!FinishAll(tools)[i]
        = [id |-> tools.order[i], name |-> buffer.name, arguments |-> buffer.arguments,
           complete |-> IF buffer.ended THEN buffer.complete ELSE Drive!AreComplete(buffer.arguments)]
  BY <1>1 DEF Drive!FinishAll
<1> HIDE DEF buffer
<1> QED
  BY <1>2, <1>3 DEF BufferSound

-----------------------------------------------------------------------------
(* Without streaming: what the accumulator has of the events it was given.  *)

NoReason == ""
QuietKinds == {"usage", "end", "delta"}
Quiet(events) == \A i \in DOMAIN events : events[i].kind \in QuietKinds

\* The reason of the last event that gave one.
LastReason(events, reason) ==
    \/ reason = NoReason /\ \A i \in DOMAIN events : events[i].kind # "stop"
    \/ \E i \in DOMAIN events :
           /\ events[i].kind = "stop" /\ events[i].reason = reason
           /\ \A j \in DOMAIN events : j > i => events[j].kind # "stop"

\* Events that say nothing leave nothing.
IsSilent(a) == a.text = <<>> /\ a.thinking = <<>> /\ a.filter = <<>> /\ a.tools.order = <<>>

ResultSound(a, events) ==
    /\ a = [text |-> a.text, thinking |-> a.thinking, filter |-> a.filter,
            tools |-> a.tools, reason |-> a.reason, usage |-> a.usage]
    /\ IsSeq(events)
    /\ CallsKnown(a.tools)
    /\ LastReason(events, a.reason)
    /\ Quiet(events) => IsSilent(a)

LEMMA ReasonTaken ==
    ASSUME NEW events, IsSeq(events), NEW reason, LastReason(events, reason), NEW event
    PROVE  /\ event.kind # "stop" => LastReason(Append(events, event), reason)
           /\ event.kind = "stop" => LastReason(Append(events, event), event.reason)
           /\ Quiet(Append(events, event)) => Quiet(events) /\ event.kind \in QuietKinds
<1> DEFINE longer == Append(events, event)
           last == Len(events) + 1
<1>1. /\ Len(events) \in Nat /\ DOMAIN events = 1..Len(events) /\ last \in Nat
      /\ DOMAIN longer = 1..last /\ longer[last] = event
      /\ \A i \in 1..Len(events) : longer[i] = events[i]
  BY SeqFacts, AppendFacts
<1>2. \A i \in DOMAIN events : i \in DOMAIN longer /\ longer[i] = events[i] /\ i \in Nat /\ i < last
  BY <1>1
<1>3. \A i \in DOMAIN longer : i \in Nat /\ ((i \in DOMAIN events /\ longer[i] = events[i]) \/ i = last)
  BY <1>1
<1>4. last \in DOMAIN longer /\ \A i \in DOMAIN longer : ~(i > last)
  BY <1>1
<1> HIDE DEF longer, last
<1>5. event.kind # "stop" => LastReason(longer, reason)
  BY <1>1, <1>2, <1>3, <1>4 DEF LastReason
<1>6. event.kind = "stop" => LastReason(longer, event.reason)
  BY <1>1, <1>4 DEF LastReason
<1>7. Quiet(longer) => Quiet(events) /\ event.kind \in QuietKinds
  BY <1>1, <1>2, <1>4 DEF Quiet
<1> QED
  BY <1>5, <1>6, <1>7 DEF longer

LEMMA DriveApplies ==
    ASSUME NEW a, NEW events, ResultSound(a, events),
           NEW event, event.kind \in EventKinds, event.kind # "error"
    PROVE  ResultSound(Drive!ApplyEvent(a, event), Append(events, event))
<1> DEFINE after == Drive!ApplyEvent(a, event)
<1>1. /\ after = [text |-> after.text, thinking |-> after.thinking, filter |-> after.filter,
                  tools |-> after.tools, reason |-> after.reason, usage |-> after.usage]
      /\ after.tools = CASE event.kind = "start" -> Drive!StartCall(a.tools, event.id, event.name)
                         [] event.kind = "delta" -> Drive!AppendFragment(a.tools, event.id, event.arguments)
                         [] event.kind = "end"   -> Drive!FinishWithState(a.tools, event.id, event.complete)
                         [] OTHER                -> a.tools
      /\ after.reason = IF event.kind = "stop" THEN event.reason ELSE a.reason
      /\ event.kind \in QuietKinds =>
             after.text = a.text /\ after.thinking = a.thinking /\ after.filter = a.filter
  <2>1. CASE event.kind = "text"
    BY <2>1 DEF Drive!ApplyEvent, ResultSound, QuietKinds
  <2>2. CASE event.kind = "thinking"
    BY <2>2 DEF Drive!ApplyEvent, ResultSound, QuietKinds
  <2>3. CASE event.kind = "start"
    BY <2>3 DEF Drive!ApplyEvent, ResultSound, QuietKinds
  <2>4. CASE event.kind = "delta"
    BY <2>4 DEF Drive!ApplyEvent, ResultSound, QuietKinds
  <2>5. CASE event.kind = "end"
    BY <2>5 DEF Drive!ApplyEvent, ResultSound, QuietKinds
  <2>6. CASE event.kind = "usage"
    BY <2>6 DEF Drive!ApplyEvent, ResultSound, QuietKinds
  <2>7. CASE event.kind = "stop"
    BY <2>7 DEF Drive!ApplyEvent, ResultSound, QuietKinds
  <2> QED
    BY <2>1, <2>2, <2>3, <2>4, <2>5, <2>6, <2>7 DEF EventKinds
<1> HIDE DEF after
<1>2. CallsKnown(a.tools) /\ IsSeq(events) /\ IsSeq(Append(events, event))
  BY AppendFacts DEF ResultSound
<1>3. CallsKnown(after.tools)
  <2>1. CASE event.kind = "start"
    BY <2>1, <1>1, <1>2, DriveStarts
  <2>2. CASE event.kind = "delta"
    BY <2>2, <1>1, <1>2, DriveAppends
  <2>3. CASE event.kind = "end"
    BY <2>3, <1>1, <1>2, DriveFinishes
  <2>4. CASE event.kind \in {"text", "thinking", "usage", "stop"}
    BY <2>4, <1>1, <1>2
  <2> QED
    BY <2>1, <2>2, <2>3, <2>4 DEF EventKinds
<1>4. event.kind \in QuietKinds => after.tools.order = a.tools.order
  <2>1. CASE event.kind = "delta"
    BY <2>1, <1>1, <1>2, DriveAppends
  <2>2. CASE event.kind = "end"
    BY <2>2, <1>1, <1>2, DriveFinishes
  <2>3. CASE event.kind = "usage"
    BY <2>3, <1>1
  <2> QED
    BY <2>1, <2>2, <2>3 DEF QuietKinds
<1>5. LastReason(Append(events, event), after.reason)
  BY <1>1, <1>2, ReasonTaken DEF ResultSound
<1>6. Quiet(Append(events, event)) => IsSilent(after)
  BY <1>1, <1>2, <1>4, ReasonTaken DEF ResultSound, IsSilent
<1> QED
  BY <1>1, <1>2, <1>3, <1>5, <1>6 DEF ResultSound, after

-----------------------------------------------------------------------------
(* Without streaming: the request.                                          *)

\* The four instances have the same operators of GenerationEvents and of the filter.
LEMMA DriveDecodes == \A m : Drive!DecodeGenerationEvents(m) = Anthropic!DecodeGenerationEvents(m)
BY Zenon DEF Drive!DecodeGenerationEvents, Anthropic!DecodeGenerationEvents,
   Drive!DecodeToolUse, Anthropic!DecodeToolUse, Drive!Optional, Anthropic!Optional,
   Drive!TextDelta, Anthropic!TextDelta, Drive!ThinkingDelta, Anthropic!ThinkingDelta,
   Drive!ToolCallStart, Anthropic!ToolCallStart, Drive!ToolCallDelta, Anthropic!ToolCallDelta,
   Drive!ToolCallEnd, Anthropic!ToolCallEnd, Drive!Stop, Anthropic!Stop,
   Drive!Usage, Anthropic!Usage, Drive!Error, Anthropic!Error

LEMMA DriveFilters == \A pending : Drive!FilterFinish(pending) = FilterFinish(pending)
BY Zenon DEF Drive!FilterFinish, FilterFinish, Drive!Drain, Drain, Drive!MarkerAt, MarkerAt,
   Drive!IsStartOfMarker, IsStartOfMarker, Drive!IsPrefix, IsPrefix

LastTypes == {"stop", "error"}

\* The upstream does not end without saying whether the answer is complete.
EndIsSaid ==
    upstream = "ended" =>
        \/ \E i \in DOMAIN seen : Drive!MarksCompletion(seen[i])
        \/ queue # <<>> /\ queue[Len(queue)].kind \in LastTypes
        \/ queue = <<>> /\ seen # <<>> /\ seen[Len(seen)].kind \in LastTypes

AnswerOf(a) == answer = Drive!Answered(Drive!Finished(a)) /\ ~Drive!IsEmptyAnswer(Drive!Finished(a))

CompletionInv ==
    /\ EventSeq(queue) /\ EndIsSaid /\ ResultSound(acc, seen)
    /\ answer.kind # "error" => \A i \in DOMAIN seen : seen[i].kind # "error"
    /\ \/ answer = Drive!Pending
       \/ answer = Drive!Refused
       \/ AnswerOf(acc) /\ upstream = "ended" /\ queue = <<>>

LEMMA CompletionStarted ==
    ASSUME Drive!Init
    PROVE  CompletionInv
<1>1. /\ seen = <<>> /\ queue = <<>> /\ upstream = "open" /\ answer = Drive!Pending
      /\ acc = Drive!NewAccumulator
  BY DEF Drive!Init, Drive!StreamInit
<1>2. EventSeq(queue) /\ EndIsSaid
  BY <1>1, NoEvents DEF EndIsSaid
<1>3. DOMAIN <<>> = {}
  OBVIOUS
<1>4. /\ acc = [text |-> acc.text, thinking |-> acc.thinking, filter |-> acc.filter,
                tools |-> acc.tools, reason |-> acc.reason, usage |-> acc.usage]
      /\ acc.text = <<>> /\ acc.thinking = <<>> /\ acc.filter = <<>> /\ acc.tools = Drive!NoTools
      /\ acc.reason = NoReason
  <2>1. acc = [text |-> <<>>, thinking |-> <<>>, filter |-> <<>>, tools |-> Drive!NoTools,
               reason |-> NoReason, usage |-> FALSE]
    BY <1>1, Zenon DEF Drive!NewAccumulator, NoReason
  <2> QED
    BY <2>1
<1>5. CallsKnown(Drive!NoTools) /\ Drive!NoTools.order = <<>>
  <2>1. PICK none : Drive!NoTools = [buffers |-> <<>>, order |-> <<>>, last |-> none]
    BY Zenon DEF Drive!NoTools
  <2> QED
    BY <2>1, <1>3, EmptyIsSeq DEF CallsKnown
<1>6. LastReason(seen, acc.reason)
  BY <1>1, <1>3, <1>4 DEF LastReason
<1>7. ResultSound(acc, seen)
  BY <1>1, <1>4, <1>5, <1>6, EmptyIsSeq DEF ResultSound, IsSilent
<1> QED
  BY <1>1, <1>2, <1>3, <1>7 DEF CompletionInv

LEMMA LastOfQueue ==
    ASSUME NEW q, EventSeq(q), q # <<>>
    PROVE  /\ Tail(q) = <<>> => q[Len(q)] = Head(q)
           /\ Tail(q) # <<>> => Tail(q)[Len(Tail(q))] = q[Len(q)]
<1> PICK S : q \in Seq(S)
  BY DEF EventSeq
<1>1. Len(q) \in Nat /\ Len(q) > 0 /\ Len(Tail(q)) = Len(q) - 1 /\ Head(q) = q[1]
  OBVIOUS
<1>2. Tail(q) = <<>> => Len(q) = 1
  <2>1. Len(<<>>) = 0
    OBVIOUS
  <2>2. Tail(q) = <<>> => Len(Tail(q)) = 0
    BY <2>1, Zenon
  <2> QED
    BY <1>1, <2>2
<1>3. Tail(q) # <<>> => Len(q) - 1 > 0
  <2>1. Tail(q) \in Seq(S)
    OBVIOUS
  <2> QED
    BY <1>1, <2>1
<1>4. \A i \in 1..(Len(q) - 1) : Tail(q)[i] = q[i + 1]
  OBVIOUS
<1>5. Tail(q) # <<>> => Tail(q)[Len(q) - 1] = q[Len(q)]
  BY <1>1, <1>3, <1>4
<1> QED
  BY <1>1, <1>2, <1>5

\* An event is taken: if it is the last, it says how the answer ends.
LEMMA EndStaysSaid ==
    ASSUME EventSeq(queue), IsSeq(seen), EndIsSaid, NEW event, Drive!Takes(event)
    PROVE  EndIsSaid' /\ EventSeq(queue') /\ event.kind \in EventKinds
<1>1. /\ queue # <<>> /\ event = Head(queue) /\ queue' = Tail(queue)
      /\ seen' = Append(seen, event) /\ upstream' = upstream
  BY DEF Drive!Takes
<1>2. EventSeq(queue') /\ event.kind \in EventKinds
  BY <1>1, EventsTaken
<1>3. /\ Len(seen) \in Nat /\ DOMAIN seen = 1..Len(seen) /\ IsSeq(seen')
      /\ Len(seen') = Len(seen) + 1 /\ DOMAIN seen' = 1..(Len(seen) + 1)
      /\ seen'[Len(seen) + 1] = event /\ \A i \in 1..Len(seen) : seen'[i] = seen[i]
  BY <1>1, SeqFacts, AppendFacts
<1>4. ASSUME NEW i \in DOMAIN seen, Drive!MarksCompletion(seen[i])
      PROVE  \E k \in DOMAIN seen' : Drive!MarksCompletion(seen'[k])
  <2>1. i \in DOMAIN seen' /\ seen'[i] = seen[i]
    BY <1>3
  <2> QED
    BY <1>4, <2>1
<1>5. seen' # <<>> /\ seen'[Len(seen')] = event
  BY <1>3, SeqFacts
<1>6. /\ queue' = <<>> => queue[Len(queue)] = event
      /\ queue' # <<>> => queue'[Len(queue')] = queue[Len(queue)]
  BY <1>1, LastOfQueue
<1>7. EndIsSaid'
  <2> SUFFICES ASSUME upstream = "ended"
               PROVE  \/ \E i \in DOMAIN seen' : Drive!MarksCompletion(seen'[i])
                      \/ queue' # <<>> /\ queue'[Len(queue')].kind \in LastTypes
                      \/ queue' = <<>> /\ seen' # <<>> /\ seen'[Len(seen')].kind \in LastTypes
    BY <1>1, <1>4 DEF EndIsSaid, Drive!MarksCompletion
  <2> QED
    BY <1>1, <1>4, <1>5, <1>6 DEF EndIsSaid
<1> QED
  BY <1>2, <1>7

\* What the upstream adds to the queue.
LEMMA CompletionQueue ==
    ASSUME CompletionInv, Drive!StreamStep, answer = Drive!Pending, UNCHANGED <<acc, answer>>
    PROVE  CompletionInv'
<1>1. seen' = seen
  BY DEF Drive!StreamStep, Drive!MessageArrives, Drive!JsonArrives, Drive!UpstreamEnds,
         Drive!UpstreamFails
<1>2. EventSeq(queue') /\ EndIsSaid'
  <2>1. CASE Drive!MessageArrives
    <3>1. EventSeq(queue')
      BY <2>1, DriveDecodes, DecodesEvents DEF Drive!MessageArrives
    <3>2. upstream' # "ended"
      BY <2>1 DEF Drive!MessageArrives
    <3> QED
      BY <3>1, <3>2 DEF EndIsSaid
  <2>2. CASE Drive!JsonArrives
    <3>1. queue' \in JsonAnswers
      BY <2>2 DEF Drive!JsonArrives
    <3>2. queue' # <<>> /\ queue'[Len(queue')].kind \in LastTypes
      BY <3>1, InterfaceAssumption DEF InterfaceAssumption, IsTerminal, LastTypes
    <3>3. EndIsSaid'
      BY <3>2 DEF EndIsSaid
    <3> QED
      BY <3>1, <3>3, AnswersAreEvents
  <2>3. CASE Drive!UpstreamEnds
    <3> DEFINE last == Drive!Stop("stream_incomplete")
    <3>1. last.kind = "stop" /\ last.kind \in EventKinds
      BY DEF Drive!Stop, EventKinds
    <3>2. queue' = Drive!Optional(\A i \in DOMAIN seen : ~Drive!MarksCompletion(seen[i]), last)
      BY <2>3 DEF Drive!UpstreamEnds
    <3> HIDE DEF last
    <3>3. CASE \A i \in DOMAIN seen : ~Drive!MarksCompletion(seen[i])
      <4>1. queue' = <<last>>
        BY <3>2, <3>3 DEF Drive!Optional
      <4>2. queue' # <<>> /\ Len(queue') = 1 /\ queue'[1] = last
        BY <4>1
      <4>3. EndIsSaid'
        BY <3>1, <4>2 DEF EndIsSaid, LastTypes
      <4> QED
        BY <3>1, <4>1, <4>3, OneEvent
    <3>4. CASE \E i \in DOMAIN seen : Drive!MarksCompletion(seen[i])
      <4>1. queue' = <<>>
        BY <3>2, <3>4 DEF Drive!Optional
      <4>2. EndIsSaid'
        BY <1>1, <3>4 DEF EndIsSaid, Drive!MarksCompletion
      <4> QED
        BY <4>1, <4>2, NoEvents
    <3> QED
      BY <3>3, <3>4
  <2>4. CASE Drive!UpstreamFails
    BY <2>4 DEF Drive!UpstreamFails, EndIsSaid, CompletionInv
  <2> QED
    BY <2>1, <2>2, <2>3, <2>4 DEF Drive!StreamStep
<1>3. ResultSound(acc, seen)'
  BY <1>1 DEF CompletionInv
<1>4. answer'.kind # "error" => \A i \in DOMAIN seen' : seen'[i].kind # "error"
  BY <1>1 DEF CompletionInv
<1>5. answer' = Drive!Pending'
  BY DEF Drive!Pending
<1> QED
  BY <1>2, <1>3, <1>4, <1>5 DEF CompletionInv

LEMMA CompletionPushes ==
    ASSUME CompletionInv, Drive!Push
    PROVE  CompletionInv'
<1>1. PICK event : /\ answer = Drive!Pending /\ event.kind # "error" /\ Drive!Takes(event)
                   /\ acc' = Drive!ApplyEvent(acc, event)
                   /\ answer' = answer
  BY DEF Drive!Push
<1>2. EventSeq(queue) /\ IsSeq(seen) /\ EndIsSaid /\ ResultSound(acc, seen)
  BY DEF CompletionInv, ResultSound
<1>3. EndIsSaid' /\ EventSeq(queue') /\ event.kind \in EventKinds
  BY <1>1, <1>2, EndStaysSaid
<1>4. seen' = Append(seen, event)
  BY <1>1 DEF Drive!Takes
<1>5. ResultSound(acc, seen)'
  BY <1>1, <1>2, <1>3, <1>4, DriveApplies
<1>6. \A i \in DOMAIN seen' : seen'[i].kind # "error"
  <2>1. \A i \in DOMAIN seen : seen[i].kind # "error"
    BY <1>1 DEF CompletionInv, Drive!Pending
  <2> QED
    BY <1>1, <1>2, <1>4, <2>1, SeqFacts, AppendFacts
<1>7. answer' = Drive!Pending'
  BY <1>1 DEF Drive!Pending
<1> QED
  BY <1>3, <1>5, <1>6, <1>7 DEF CompletionInv

\* What went wrong is no answer, before the end of the upstream or at it.
LEMMA CompletionRefuses ==
    ASSUME CompletionInv, Drive!ErrorComes \/ Drive!StreamFails
    PROVE  CompletionInv'
<1>1. answer' = Drive!Refused /\ acc' = acc
  BY DEF Drive!ErrorComes, Drive!StreamFails
<1>2. answer'.kind = "error" /\ answer' = Drive!Refused'
  BY <1>1 DEF Drive!Refused
<1>3. EventSeq(queue) /\ IsSeq(seen) /\ EndIsSaid /\ ResultSound(acc, seen)
  BY DEF CompletionInv, ResultSound
<1>4. EventSeq(queue') /\ EndIsSaid' /\ ResultSound(acc, seen)'
  <2>1. CASE Drive!ErrorComes
    <3> DEFINE event == Drive!Error
    <3>1. Drive!Takes(event) /\ event.kind = "error"
      BY <2>1 DEF Drive!ErrorComes, Drive!Error
    <3> HIDE DEF event
    <3>2. EndIsSaid' /\ EventSeq(queue')
      BY <1>3, <3>1, EndStaysSaid
    <3>3. seen' = Append(seen, event)
      BY <3>1 DEF Drive!Takes
    <3>4. LastReason(seen, acc.reason)
      BY <1>3 DEF ResultSound
    <3>5. LastReason(seen', acc.reason) /\ ~Quiet(seen')
      BY <1>3, <3>1, <3>3, <3>4, ReasonTaken DEF QuietKinds
    <3>6. IsSeq(seen')
      BY <1>3, <3>3, AppendFacts
    <3> QED
      BY <1>1, <1>3, <3>2, <3>5, <3>6 DEF ResultSound
  <2>2. CASE Drive!StreamFails
    BY <1>1, <1>3, <2>2 DEF Drive!StreamFails, Drive!streamVars, EndIsSaid, Drive!MarksCompletion
  <2> QED
    BY <2>1, <2>2
<1> QED
  BY <1>2, <1>4 DEF CompletionInv

LEMMA CompletionFinishes ==
    ASSUME CompletionInv, Drive!Finish
    PROVE  CompletionInv'
<1>1. /\ answer = Drive!Pending /\ upstream = "ended" /\ queue = <<>>
      /\ seen' = seen /\ queue' = queue /\ upstream' = upstream /\ acc' = acc
      /\ answer' = IF Drive!IsEmptyAnswer(Drive!Finished(acc)) THEN Drive!Refused
                   ELSE Drive!Answered(Drive!Finished(acc))
  BY DEF Drive!Finish, Drive!AtEnd, Drive!streamVars
<1>2. EventSeq(queue') /\ ResultSound(acc, seen)'
  BY <1>1 DEF CompletionInv
<1>3. EndIsSaid'
  BY <1>1 DEF CompletionInv, EndIsSaid, Drive!MarksCompletion
<1>4. \A i \in DOMAIN seen' : seen'[i].kind # "error"
  BY <1>1 DEF CompletionInv, Drive!Pending
<1>5. CASE Drive!IsEmptyAnswer(Drive!Finished(acc))
  <2>1. answer' = Drive!Refused'
    BY <1>1, <1>5 DEF Drive!Refused
  <2> QED
    BY <1>2, <1>3, <1>4, <2>1 DEF CompletionInv
<1>6. CASE ~Drive!IsEmptyAnswer(Drive!Finished(acc))
  <2>1. AnswerOf(acc)' /\ upstream' = "ended" /\ queue' = <<>>
    BY <1>1, <1>6 DEF AnswerOf
  <2> QED
    BY <1>2, <1>3, <1>4, <2>1 DEF CompletionInv
<1> QED
  BY <1>5, <1>6

LEMMA CompletionUnchanged ==
    ASSUME CompletionInv, UNCHANGED <<seen, queue, upstream, acc, answer>>
    PROVE  CompletionInv'
<1>1. EventSeq(queue)' /\ ResultSound(acc, seen)'
  BY DEF CompletionInv
<1>2. EndIsSaid'
  BY DEF CompletionInv, EndIsSaid, Drive!MarksCompletion
<1>3. answer'.kind # "error" => \A i \in DOMAIN seen' : seen'[i].kind # "error"
  BY DEF CompletionInv
<1>4. \/ answer' = Drive!Pending'
      \/ answer' = Drive!Refused'
      \/ AnswerOf(acc)' /\ upstream' = "ended" /\ queue' = <<>>
  BY DEF CompletionInv, AnswerOf, Drive!Pending, Drive!Refused
<1> QED
  BY <1>1, <1>2, <1>3, <1>4 DEF CompletionInv

LEMMA CompletionSteps ==
    ASSUME CompletionInv, Drive!Next
    PROVE  CompletionInv'
<1>1. CASE Drive!Done
  BY <1>1, CompletionUnchanged DEF Drive!Done, Drive!vars, Drive!streamVars
<1> QED
  BY <1>1, CompletionQueue, CompletionPushes, CompletionRefuses, CompletionFinishes
     DEF Drive!Next

-----------------------------------------------------------------------------
(* Without streaming: the promises.                                         *)

LEMMA FinishedFacts ==
    ASSUME NEW a
    PROVE  /\ Drive!Finished(a).calls = Drive!FinishAll(a.tools)
           /\ Drive!Finished(a).text = a.text \o Drive!FilterFinish(a.filter).output
           /\ Drive!Finished(a).thinking = a.thinking
           /\ Drive!Finished(a).reason = a.reason
           /\ ~Drive!Finished(a).incomplete =>
                  /\ \A i \in DOMAIN Drive!FinishAll(a.tools) : Drive!FinishAll(a.tools)[i].complete
                  /\ a.reason \notin Drive!CutOff
<1> DEFINE calls == Drive!FinishAll(a.tools)
           text == a.text \o Drive!FilterFinish(a.filter).output
           result == Drive!Finished(a)
<1>1. PICK truncated :
          result = [text |-> text, thinking |-> a.thinking, calls |-> calls, usage |-> a.usage,
                    reason |-> a.reason,
                    incomplete |-> \/ \E i \in DOMAIN calls : ~calls[i].complete
                                   \/ truncated
                                   \/ a.reason \in Drive!CutOff]
  BY Zenon DEF Drive!Finished
<1> HIDE DEF calls, text, result
<1>2. /\ result.calls = calls /\ result.text = text /\ result.thinking = a.thinking
      /\ result.reason = a.reason
  BY <1>1
<1>3. ~result.incomplete =>
          ~(\/ \E i \in DOMAIN calls : ~calls[i].complete
            \/ truncated
            \/ a.reason \in Drive!CutOff)
  BY <1>1
<1>4. ~result.incomplete =>
          /\ \A i \in DOMAIN calls : calls[i].complete
          /\ a.reason \notin Drive!CutOff
  BY <1>3
<1> QED
  BY <1>2, <1>4, Zenon DEF calls, text, result

\* A complete answer: its last reason cuts nothing off, so the upstream said that it was done.
LEMMA CompletionIsTrue ==
    ASSUME CompletionInv
    PROVE  Drive!CompleteIsTrue
<1> SUFFICES ASSUME answer.kind = "result", ~answer.result.incomplete
             PROVE  /\ \E i \in DOMAIN seen : Drive!MarksCompletion(seen[i])
                    /\ \A i \in DOMAIN answer.result.calls :
                           Drive!AreComplete(answer.result.calls[i].arguments)
                    /\ \A i \in DOMAIN seen :
                           \/ seen[i] # Drive!Stop("max_tokens")
                           \/ \E j \in (i + 1)..Len(seen) : seen[j].kind = "stop"
  BY DEF Drive!CompleteIsTrue, Drive!Result
<1>1. AnswerOf(acc) /\ upstream = "ended" /\ queue = <<>>
  BY DEF CompletionInv, Drive!Pending, Drive!Refused
<1>2. answer.result = Drive!Finished(acc)
  BY <1>1 DEF AnswerOf, Drive!Answered
<1>3. /\ answer.result.calls = Drive!FinishAll(acc.tools)
      /\ \A i \in DOMAIN Drive!FinishAll(acc.tools) : Drive!FinishAll(acc.tools)[i].complete
      /\ acc.reason \notin Drive!CutOff
  BY <1>2, FinishedFacts
<1>4. /\ ResultSound(acc, seen) /\ LastReason(seen, acc.reason) /\ CallsKnown(acc.tools)
      /\ IsSeq(seen)
  BY DEF CompletionInv, ResultSound
<1>5. Len(seen) \in Nat /\ DOMAIN seen = 1..Len(seen) /\ (seen = <<>> <=> Len(seen) = 0)
  BY <1>4, SeqFacts
<1>6. \E i \in DOMAIN seen : Drive!MarksCompletion(seen[i])
  <2> SUFFICES ASSUME seen # <<>>, seen[Len(seen)].kind \in LastTypes
               PROVE  Drive!MarksCompletion(seen[Len(seen)]) /\ Len(seen) \in DOMAIN seen
    BY <1>1 DEF CompletionInv, EndIsSaid
  <2> DEFINE n == Len(seen)
  <2>1. n \in DOMAIN seen /\ \A j \in DOMAIN seen : ~(j > n) /\ (j \in Nat) /\ (j = n \/ n > j)
    BY <1>5
  <2> HIDE DEF n
  <2>2. seen[n].kind = "stop"
    BY <1>1, <2>1 DEF n, CompletionInv, LastTypes, AnswerOf, Drive!Answered
  <2>3. acc.reason = seen[n].reason
    BY <1>4, <2>1, <2>2 DEF LastReason
  <2>4. ~Drive!IsIncomplete(seen[n].reason)
    BY <1>3, <2>3 DEF Drive!IsIncomplete, Drive!CutOff
  <2> QED
    BY <2>1, <2>2, <2>4 DEF Drive!MarksCompletion, n
<1>7. \A i \in DOMAIN answer.result.calls : Drive!AreComplete(answer.result.calls[i].arguments)
  BY <1>3, <1>4, CallsAreComplete
<1>8. ASSUME NEW i \in DOMAIN seen, seen[i] = Drive!Stop("max_tokens"),
             \A j \in (i + 1)..Len(seen) : seen[j].kind # "stop"
      PROVE  FALSE
  <2>1. seen[i].kind = "stop" /\ seen[i].reason = "max_tokens"
    BY <1>8 DEF Drive!Stop
  <2>2. PICK k \in DOMAIN seen : /\ seen[k].kind = "stop" /\ seen[k].reason = acc.reason
                                 /\ \A j \in DOMAIN seen : j > k => seen[j].kind # "stop"
    BY <1>4, <2>1 DEF LastReason
  <2>3. ~(i > k) /\ ~(k > i)
    BY <1>5, <1>8, <2>1, <2>2
  <2>4. k = i
    BY <1>5, <2>3
  <2> QED
    BY <1>3, <2>1, <2>2, <2>4 DEF Drive!CutOff
<1> QED
  BY <1>6, <1>7, <1>8

\* Events that say nothing make an empty answer, which is refused.
LEMMA SilenceIsEmpty ==
    ASSUME NEW a, NEW events, ResultSound(a, events), Quiet(events)
    PROVE  Drive!IsEmptyAnswer(Drive!Finished(a))
<1>1. a.text = <<>> /\ a.thinking = <<>> /\ a.filter = <<>> /\ a.tools.order = <<>>
  BY DEF ResultSound, IsSilent
<1>2. a.reason = NoReason
  BY DEF ResultSound, LastReason, Quiet, QuietKinds
<1>3. Drive!FilterFinish(a.filter).output = <<>>
  BY <1>1, DriveFilters, NothingIsLeft
<1>4. Drive!FinishAll(a.tools) = <<>>
  <2>1. DOMAIN a.tools.order = {}
    BY <1>1
  <2>2. DOMAIN Drive!FinishAll(a.tools) = {} /\ Drive!FinishAll(a.tools) \in Seq({})
    BY <2>1 DEF Drive!FinishAll
  <2> QED
    BY <2>2
<1>5. a.text \o Drive!FilterFinish(a.filter).output = <<>>
  BY <1>1, <1>3
<1> QED
  BY <1>1, <1>2, <1>4, <1>5, FinishedFacts, Zenon DEF Drive!IsEmptyAnswer, NoReason

LEMMA CompletionFailureIsNoAnswer ==
    ASSUME CompletionInv
    PROVE  Drive!FailureIsNoAnswer
<1> SUFFICES ASSUME answer.kind = "result"
             PROVE  /\ upstream = "ended"
                    /\ \A i \in DOMAIN seen : seen[i] # Drive!Error
                    /\ \E i \in DOMAIN seen : seen[i].kind \notin {"usage", "end", "delta"}
  BY DEF Drive!FailureIsNoAnswer
<1>1. AnswerOf(acc) /\ upstream = "ended"
  BY DEF CompletionInv, Drive!Pending, Drive!Refused
<1>2. \A i \in DOMAIN seen : seen[i] # Drive!Error
  BY DEF CompletionInv, Drive!Error
<1>3. ~Quiet(seen)
  BY <1>1, SilenceIsEmpty DEF AnswerOf, CompletionInv
<1> QED
  BY <1>1, <1>2, <1>3 DEF Quiet, QuietKinds
-----------------------------------------------------------------------------
(* The interfaces side by side.                                             *)

InterfaceInv ==
    /\ interface = "chat" => ChatInv
    /\ interface = "messages" => MessagesInv
    /\ interface = "completion" => CompletionInv

LEMMA InterfaceInitInv == InterfaceInit => InterfaceInv
BY ChatStarted, MessagesStarted, CompletionStarted DEF InterfaceInit, InterfaceInv

LEMMA InterfaceNextInv == InterfaceInv /\ [InterfaceNext]_allVars => InterfaceInv'
<1> SUFFICES ASSUME InterfaceInv, [InterfaceNext]_allVars PROVE InterfaceInv'
  OBVIOUS
<1>1. CASE InterfaceNext
  <2>1. interface' = interface
    BY <1>1 DEF InterfaceNext
  <2>2. /\ interface = "chat" => OpenAi!Next
        /\ interface = "messages" => Anthropic!Next
        /\ interface = "completion" => Drive!Next
    BY <1>1 DEF InterfaceNext
  <2> QED
    BY <2>1, <2>2, ChatSteps, MessagesSteps, CompletionSteps DEF InterfaceInv
<1>2. CASE UNCHANGED allVars
  BY <1>2, ChatUnchanged, MessagesUnchanged, CompletionUnchanged DEF allVars, streamed, InterfaceInv
<1> QED
  BY <1>1, <1>2

THEOREM InterfaceInvariant == InterfaceSpec => []InterfaceInv
BY InterfaceInitInv, InterfaceNextInv, PTL DEF InterfaceSpec

\* Chat Completions: whatever the upstream sends, a tool call keeps its index while others
\* come between, and the stream ends once, with a reason that fits the calls that were sent
\* (openai.rs:83-152).
THEOREM ChatIsSoundHolds == InterfaceSpec => []ChatIsSound
<1>1. InterfaceInv => ChatIsSound
  BY ChatPromises DEF InterfaceInv, ChatIsSound
<1> QED
  BY <1>1, InterfaceInvariant, PTL

\* Messages: whatever the upstream sends, blocks start, go on and stop in the order of the
\* protocol, content goes to the block that is open, and a good end leaves none open
\* (anthropic.rs:148-293).
THEOREM MessagesAreSoundHolds == InterfaceSpec => []MessagesAreSound
<1>1. InterfaceInv => MessagesAreSound
  BY MessagesPromises DEF InterfaceInv, MessagesAreSound
<1> QED
  BY <1>1, InterfaceInvariant, PTL

\* Without streaming: whatever the upstream sends, an answer passes for complete only if the
\* upstream said that it was done, with its last reason cutting nothing off and all arguments
\* whole; what went wrong, or what holds nothing, is no answer (accumulator.rs:91-111,
\* app_state.rs:44-50).
THEOREM CompleteIsTrueHolds == InterfaceSpec => []CompleteIsTrue
<1>1. InterfaceInv => CompleteIsTrue
  BY CompletionIsTrue, CompletionFailureIsNoAnswer DEF InterfaceInv, CompleteIsTrue
<1> QED
  BY <1>1, InterfaceInvariant, PTL
=============================================================================
