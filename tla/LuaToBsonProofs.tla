--------------------------- MODULE LuaToBsonProofs ---------------------------
(***************************************************************************)
(* Theorems about LuaToBson, for any finite set of tables and whatever     *)
(* they hold: its types, the depth of its recursion, its references in     *)
(* the registry, and what it puts into a document: a table is embedded     *)
(* once, a finished document embeds what can be reached, and nothing else  *)
(* is lost.  A conversion ends.                                            *)
(***************************************************************************)
EXTENDS LuaToBson, FiniteSetTheorems, TLAPS

(* The loops in progress. *)
Frames ==
  /\ ~Running => frames = << >>
  /\ Running => /\ Len(frames) >= 1
                /\ root \in Tables
                /\ frames[1].b = Result /\ frames[1].t = root /\ ~frames[1].array
                /\ Len(frames) <= Cardinality(visited) + 1
  /\ \A k \in 2 .. Len(frames) : /\ frames[k].b = frames[k].t
                                 /\ frames[k].t \in visited
                                 /\ frames[k].array = Dense(heap[frames[k].t])
  /\ \A k, l \in 2 .. Len(frames) : frames[k].t = frames[l].t => k = l

Refs ==
  /\ RefsReleased
  /\ status = "done" => root \in Tables

(* A loop that called another is past the entry that leads to it. *)
Pending ==
  \A k \in 1 .. Len(frames) - 1 :
    /\ frames[k].at >= 1
    /\ HasText(heap[frames[k].t][frames[k].at].key)
    /\ Item(frames[k], frames[k].at) = frames[k + 1].t

FInv == TypeOK /\ Frames /\ Pending /\ Refs

-----------------------------------------------------------------------------
(* The helpers.                                                             *)

(* An element of a sequence. *)
LEMMA ElementType ==
  ASSUME NEW S, NEW s \in Seq(S), NEW i \in 1 .. Len(s)
  PROVE  s[i] \in S
  OBVIOUS

(* The entry a loop is at is one of its table's. *)
LEMMA EntryType ==
  ASSUME TypeOK, NEW t \in Tables, NEW i \in 1 .. Len(heap[t])
  PROVE  /\ heap[t] \in Seq([key : Keys, val : Plain \cup Tables])
         /\ heap[t][i].key \in Keys
         /\ heap[t][i].val \in Plain \cup Tables
<1>1. heap[t] \in Contents
  BY DEF TypeOK
<1>2. heap[t] \in Seq([key : Keys, val : Plain \cup Tables])
  BY <1>1, ContentsAssumption
<1>3. heap[t][i] \in [key : Keys, val : Plain \cup Tables]
  BY <1>2, ElementType
<1> QED
  BY <1>2, <1>3

(* So is what it reads, unless there is nothing. *)
LEMMA ItemType ==
  ASSUME TypeOK, NEW f, f.t \in Tables, NEW i \in 1 .. Len(heap[f.t])
  PROVE  Item(f, i) \in Plain \cup Leaves \cup Tables
<1>1. heap[f.t][i].val \in Plain \cup Tables
  BY EntryType
<1>2. RawGet(heap[f.t], i) \in Plain \cup Leaves \cup Tables
  <2>1. CASE \E j \in DOMAIN heap[f.t] : heap[f.t][j].key = Num(i)
    <3> DEFINE j == CHOOSE x \in DOMAIN heap[f.t] : heap[f.t][x].key = Num(i)
    <3>1. j \in DOMAIN heap[f.t]
      BY <2>1
    <3> HIDE DEF j
    <3>2. j \in 1 .. Len(heap[f.t])
      BY <3>1, EntryType
    <3>3. heap[f.t][j].val \in Plain \cup Tables
      BY <3>2, EntryType
    <3> QED
      BY <2>1, <3>3 DEF RawGet, j
  <2>2. CASE ~ \E j \in DOMAIN heap[f.t] : heap[f.t][j].key = Num(i)
    BY <2>2 DEF RawGet, Leaves
  <2> QED
    BY <2>1, <2>2
<1> QED
  BY <1>1, <1>2 DEF Item

(* The innermost loop, when one is in progress. *)
LEMMA TopType ==
  ASSUME TypeOK, Frames, Running
  PROVE  /\ Len(frames) \in Nat \ {0}
         /\ Top = frames[Len(frames)] /\ Top \in FrameType
         /\ Top.t \in Tables /\ Top.b \in Builders /\ Top.at \in Nat
         /\ Top.at <= Len(heap[Top.t])
<1>1. Len(frames) \in Nat \ {0} /\ Len(frames) \in 1 .. Len(frames) /\ frames \in Seq(FrameType)
  BY DEF TypeOK, Frames
<1>2. Top = frames[Len(frames)] /\ Top \in FrameType
  BY <1>1 DEF Top
<1>3. Top.at <= Len(heap[Top.t])
  BY <1>1 DEF TypeOK, Top
<1> QED
  BY <1>1, <1>2, <1>3 DEF FrameType

(* What a loop has left is an entry of its table. *)
LEMMA LeftEntry ==
  ASSUME TypeOK, Frames, Running, Left(Top)
  PROVE  /\ Top.at + 1 \in 1 .. Len(heap[Top.t])
         /\ Key = heap[Top.t][Top.at + 1].key /\ Value = Item(Top, Top.at + 1)
         /\ Key \in Keys
         /\ Value \in Plain \cup Leaves \cup Tables
<1>1. Top.at \in Nat /\ Top.t \in Tables /\ heap[Top.t] \in Seq([key : Keys, val : Plain \cup Tables])
  BY TopType, ContentsAssumption DEF TypeOK
<1>2. Top.at + 1 \in 1 .. Len(heap[Top.t])
  BY <1>1 DEF Left
<1> QED
  BY <1>1, <1>2, EntryType, ItemType DEF Key, Value

(* One step of the innermost loop. *)
LEMMA PastFrames ==
  ASSUME TypeOK, Frames, Running
  PROVE  /\ Past(frames) \in Seq(FrameType) /\ Len(Past(frames)) = Len(frames)
         /\ \A k \in 1 .. Len(frames) - 1 : Past(frames)[k] = frames[k]
         /\ Past(frames)[Len(frames)].b = Top.b
         /\ Past(frames)[Len(frames)].t = Top.t
         /\ Past(frames)[Len(frames)].array = Top.array
         /\ Past(frames)[Len(frames)].at = Top.at + 1
<1> DEFINE n == Len(frames)
           fs == Past(frames)
<1>1. n \in Nat \ {0} /\ Top = frames[n] /\ Top \in FrameType /\ frames \in Seq(FrameType)
  BY TopType DEF TypeOK
<1>2. PICK b \in Builders, t \in Tables, a \in BOOLEAN, i \in Nat :
        frames[n] = [b |-> b, t |-> t, array |-> a, at |-> i]
  BY <1>1 DEF FrameType
<1>3. [frames[n] EXCEPT !.at = @ + 1] = [b |-> b, t |-> t, array |-> a, at |-> i + 1]
  BY <1>2
<1>4. DOMAIN fs = 1 .. n /\ n \in 1 .. n /\ \A k \in 1 .. n - 1 : k \in 1 .. n /\ k # n
  BY <1>1 DEF Past
<1>5. \A k \in 1 .. n : fs[k] = IF k = n THEN [b |-> b, t |-> t, array |-> a, at |-> i + 1]
                                         ELSE frames[k]
  BY <1>1, <1>3 DEF Past
<1>6. [b |-> b, t |-> t, array |-> a, at |-> i + 1] \in FrameType
  BY DEF FrameType
<1>7. \A k \in 1 .. n : fs[k] \in FrameType
  BY <1>1, <1>5, <1>6
<1>8. fs \in Seq(FrameType)
  <2>1. fs = [k \in 1 .. n |-> fs[k]]
    BY <1>4 DEF Past
  <2> QED
    BY <1>1, <1>7, <2>1
<1>9. Len(fs) = n
  BY <1>1, <1>4, <1>8
<1>10. fs[n] = [b |-> b, t |-> t, array |-> a, at |-> i + 1]
  BY <1>1, <1>5
<1>11. \A k \in 1 .. n - 1 : fs[k] = frames[k]
  BY <1>4, <1>5
<1> HIDE DEF fs, n
<1>12. /\ fs[n].b = Top.b /\ fs[n].t = Top.t /\ fs[n].array = Top.array
       /\ fs[n].at = Top.at + 1
  BY <1>1, <1>2, <1>10
<1> QED
  BY <1>8, <1>9, <1>11, <1>12 DEF fs, n

(* The field name of an entry with a text is one. *)
LEMMA TextType ==
  ASSUME NEW f \in FrameType, NEW i \in Nat \ {0}, HasText(heap[f.t][i].key)
  PROVE  Text(f, i) \in TextKeys
<1>1. 2 * (i - 1) \in Int
  OBVIOUS
<1>2. Num(i - 1) \in TextKeys
  BY <1>1 DEF TextKeys, Num
<1> QED
  BY <1>2 DEF Text, HasText

(* A builder that is given an entry. *)
LEMMA AddType ==
  ASSUME TypeOK, NEW b \in Builders, NEW key \in TextKeys,
         NEW val \in Leaves \cup Tables, Add(b, key, val)
  PROVE  image' \in [Builders -> ImageType]
<1>1. image[b] \in ImageType /\ [key |-> key, val |-> val] \in [key : TextKeys, val : Leaves \cup Tables]
  BY DEF TypeOK
<1>2. Append(image[b], [key |-> key, val |-> val]) \in ImageType
  BY <1>1 DEF ImageType
<1> QED
  BY <1>2 DEF Add, TypeOK

-----------------------------------------------------------------------------
(* Every step keeps the loops as they should be.                            *)

(* A loop that goes on by one entry. *)
LEMMA PastKeeps ==
  ASSUME FInv, Running, Left(Top), frames' = Past(frames),
         UNCHANGED <<heap, status, root, visited, registry, thrown, called>>,
         image' \in [Builders -> ImageType]
  PROVE  FInv'
<1>1. TypeOK /\ Frames /\ Pending /\ Refs
  BY DEF FInv
<1>2. /\ Len(frames) \in Nat \ {0} /\ Top = frames[Len(frames)]
      /\ Top.t \in Tables /\ Top.at \in Nat /\ Top.at + 1 \in 1 .. Len(heap[Top.t])
  BY <1>1, TopType, LeftEntry
<1> DEFINE n == Len(frames)
<1>3. /\ frames' \in Seq(FrameType) /\ Len(frames') = n
      /\ \A k \in 1 .. n - 1 : frames'[k] = frames[k]
      /\ frames'[n].b = frames[n].b /\ frames'[n].t = frames[n].t
      /\ frames'[n].array = frames[n].array /\ frames'[n].at = frames[n].at + 1
  BY <1>1, <1>2, PastFrames
<1>4. \A k \in 1 .. n : k = n \/ k \in 1 .. n - 1
  BY <1>2
<1>5. \A k \in 1 .. n : /\ frames'[k].b = frames[k].b /\ frames'[k].t = frames[k].t
                        /\ frames'[k].array = frames[k].array
  BY <1>3, <1>4
<1>6. TypeOK'
  <2>1. \A k \in DOMAIN frames' : frames'[k].at <= Len(heap[frames'[k].t])
    <3>1. DOMAIN frames' = 1 .. n /\ DOMAIN frames = 1 .. n
      BY <1>1, <1>3 DEF TypeOK
    <3>2. frames'[n].at <= Len(heap[frames'[n].t])
      BY <1>2, <1>3
    <3>3. \A k \in 1 .. n - 1 : k \in 1 .. n
      BY <1>2
    <3>4. \A k \in 1 .. n - 1 : frames'[k].at <= Len(heap[frames'[k].t])
      BY <1>1, <1>3, <3>1, <3>3 DEF TypeOK
    <3> QED
      BY <1>4, <3>1, <3>2, <3>4
  <2> QED
    BY <1>1, <1>3, <2>1 DEF TypeOK
<1>7. Frames'
  <2>1. \A k \in 2 .. n : k \in 1 .. n
    BY <1>2
  <2>2. Running' /\ 1 \in 1 .. n
    BY <1>2 DEF Running
  <2> QED
    <3>1. /\ frames'[1].b = Result /\ frames'[1].t = root' /\ ~frames'[1].array
          /\ root' \in Tables /\ Len(frames') >= 1
          /\ Len(frames') <= Cardinality(visited') + 1
      BY <1>1, <1>2, <1>3, <1>5, <2>2 DEF Frames
    <3>2. /\ \A k \in 2 .. n : /\ frames'[k].b = frames'[k].t
                               /\ frames'[k].t \in visited'
                               /\ frames'[k].array = Dense(heap[frames'[k].t])
          /\ \A k, l \in 2 .. n : frames'[k].t = frames'[l].t => k = l
      BY <1>1, <1>5, <2>1 DEF Frames
    <3>3. heap' = heap /\ Len(frames') = n
      BY <1>3
    <3> QED
      BY <2>2, <3>1, <3>2, <3>3 DEF Frames
<1>8. Pending'
  <2>1. \A k \in 1 .. n - 1 : k \in 1 .. n /\ k + 1 \in 1 .. n
    BY <1>2
  <2> QED
    BY <1>1, <1>2, <1>3, <1>5, <2>1 DEF Pending, HasText, Item
<1>9. Refs'
  BY <1>1 DEF Refs, RefsReleased, Running
<1> QED
  BY <1>6, <1>7, <1>8, <1>9 DEF FInv

LEMMA FInvAppendScalar == FInv /\ AppendScalar => FInv'
<1> SUFFICES ASSUME FInv, AppendScalar PROVE FInv'
  OBVIOUS
<1>1. TypeOK /\ Frames /\ Running /\ Left(Top) /\ HasText(Key)
      /\ Value \in Leaves /\ Add(Top.b, Text(Top, Top.at + 1), Value) /\ frames' = Past(frames)
      /\ UNCHANGED <<heap, status, root, visited, registry, thrown, called>>
  BY DEF FInv, AppendScalar
<1>2. /\ Top \in FrameType /\ Top.b \in Builders /\ Top.at + 1 \in Nat \ {0}
      /\ HasText(heap[Top.t][Top.at + 1].key)
  BY <1>1, TopType, LeftEntry
<1>3. Text(Top, Top.at + 1) \in TextKeys
  BY <1>2, TextType
<1>4. image' \in [Builders -> ImageType]
  BY <1>1, <1>2, <1>3, AddType
<1> QED
  BY <1>1, <1>4, PastKeeps

LEMMA FInvAppendNothing == FInv /\ AppendNothing => FInv'
<1> SUFFICES ASSUME FInv, AppendNothing PROVE FInv'
  OBVIOUS
<1>1. image' \in [Builders -> ImageType]
  BY DEF FInv, TypeOK, AppendNothing
<1> QED
  BY <1>1, PastKeeps DEF AppendNothing

LEMMA FInvSameTable == FInv /\ SameTable => FInv'
<1> SUFFICES ASSUME FInv, SameTable PROVE FInv'
  OBVIOUS
<1>1. image' \in [Builders -> ImageType]
  BY DEF FInv, TypeOK, SameTable
<1> QED
  BY <1>1, PastKeeps DEF SameTable

(* The loops after an embedded table was entered. *)
LEMMA EnterFrames ==
  ASSUME TypeOK, Frames, EnterTable
  PROVE  LET n == Len(frames)  t == Value IN
         /\ n \in Nat \ {0} /\ t \in Tables \ visited
         /\ visited' = visited \cup {t}
         /\ frames' \in Seq(FrameType) /\ Len(frames') = n + 1
         /\ \A k \in 1 .. n - 1 : frames'[k] = frames[k]
         /\ frames'[n].b = Top.b /\ frames'[n].t = Top.t
         /\ frames'[n].array = Top.array /\ frames'[n].at = Top.at + 1
         /\ frames'[n + 1] = Loop(t, t, Dense(heap[t]))
<1> DEFINE n == Len(frames)
           t == Value
           fs == Past(frames)
           new == Loop(t, t, Dense(heap[t]))
<1>1. /\ Running /\ Left(Top) /\ t \in Tables \ visited /\ visited' = visited \cup {t}
      /\ frames' = Append(fs, new)
  BY DEF EnterTable
<1>2. /\ fs \in Seq(FrameType) /\ Len(fs) = n /\ n \in Nat \ {0}
      /\ \A k \in 1 .. n - 1 : fs[k] = frames[k]
      /\ fs[n].b = Top.b /\ fs[n].t = Top.t
      /\ fs[n].array = Top.array /\ fs[n].at = Top.at + 1
  BY <1>1, PastFrames, TopType
<1>3. new \in FrameType
  BY <1>1 DEF Loop, FrameType, Builders, Dense
<1> HIDE DEF fs, new, n, t
<1>4. /\ Append(fs, new) \in Seq(FrameType) /\ Len(Append(fs, new)) = n + 1
      /\ \A k \in 1 .. n : Append(fs, new)[k] = fs[k]
      /\ Append(fs, new)[n + 1] = new
  BY <1>2, <1>3
<1>5. n \in 1 .. n /\ \A k \in 1 .. n - 1 : k \in 1 .. n
  BY <1>2
<1> QED
  BY <1>1, <1>2, <1>4, <1>5 DEF n, t, new

LEMMA FInvEnterTable == FInv /\ EnterTable => FInv'
<1> SUFFICES ASSUME FInv, EnterTable PROVE FInv'
  OBVIOUS
<1> DEFINE n == Len(frames)
           t == Value
<1>1. /\ TypeOK /\ Frames /\ Pending /\ Refs /\ Running /\ Left(Top) /\ HasText(Key)
      /\ UNCHANGED <<heap, status, root, image, registry, thrown, called>>
  BY DEF FInv, EnterTable
<1>2. /\ n \in Nat \ {0} /\ t \in Tables \ visited
      /\ visited' = visited \cup {t}
      /\ frames' \in Seq(FrameType) /\ Len(frames') = n + 1
      /\ \A k \in 1 .. n - 1 : frames'[k] = frames[k]
      /\ frames'[n].b = Top.b /\ frames'[n].t = Top.t
      /\ frames'[n].array = Top.array /\ frames'[n].at = Top.at + 1
      /\ frames'[n + 1] = Loop(t, t, Dense(heap[t]))
  BY <1>1, EnterFrames
<1>3. /\ Top = frames[n] /\ Top.t \in Tables /\ Top.at \in Nat
      /\ Top.at + 1 \in 1 .. Len(heap[Top.t])
      /\ Key = heap[Top.t][Top.at + 1].key /\ Value = Item(Top, Top.at + 1)
  BY <1>1, TopType, LeftEntry
<1>4. /\ frames'[n + 1].b = t /\ frames'[n + 1].t = t
      /\ frames'[n + 1].array = Dense(heap[t]) /\ frames'[n + 1].at = 0
  BY <1>2 DEF Loop
<1> HIDE DEF n, t
<1>5. /\ \A k \in 1 .. n + 1 : k = n + 1 \/ k = n \/ k \in 1 .. n - 1
      /\ \A k \in 1 .. n : k = n \/ k \in 1 .. n - 1
  BY <1>2
<1>6. \A k \in 1 .. n : /\ frames'[k].b = frames[k].b /\ frames'[k].t = frames[k].t
                        /\ frames'[k].array = frames[k].array
  BY <1>2, <1>3, <1>5
<1>7. TypeOK'
  <2>1. DOMAIN frames' = 1 .. n + 1 /\ DOMAIN frames = 1 .. n
    BY <1>1, <1>2 DEF TypeOK, n
  <2>2. frames'[n].at <= Len(heap[frames'[n].t])
    BY <1>2, <1>3
  <2>3. frames'[n + 1].at <= Len(heap[frames'[n + 1].t])
    <3>1. heap[t] \in Seq([key : Keys, val : Plain \cup Tables])
      BY <1>1, <1>2, ContentsAssumption DEF TypeOK
    <3> QED
      BY <1>4, <3>1
  <2>4. \A k \in 1 .. n - 1 : k \in 1 .. n
    BY <1>2
  <2>5. \A k \in 1 .. n - 1 : frames'[k].at <= Len(heap[frames'[k].t])
    BY <1>1, <1>2, <2>1, <2>4 DEF TypeOK
  <2>6. \A k \in DOMAIN frames' : frames'[k].at <= Len(heap[frames'[k].t])
    BY <1>5, <2>1, <2>2, <2>3, <2>5
  <2> QED
    BY <1>1, <1>2, <2>6 DEF TypeOK
<1>8. Frames'
  <2>1. \A k \in 2 .. n + 1 : k = n + 1 \/ (k \in 1 .. n /\ k \in 2 .. n)
    BY <1>2
  <2>2. Running' /\ 1 \in 1 .. n /\ frames'[1].b = Result /\ frames'[1].t = root' /\ ~frames'[1].array
        /\ root' \in Tables /\ Len(frames') >= 1
    BY <1>1, <1>2, <1>6 DEF Running, Frames
  <2>3. \A k \in 2 .. n : frames[k].t \in visited
    BY <1>1 DEF Frames, n
  <2>4. Len(frames') <= Cardinality(visited') + 1
    <3>1. IsFiniteSet(visited)
      BY <1>1, FinitelyManyTables, FS_Subset DEF TypeOK
    <3>2. Cardinality(visited') = Cardinality(visited) + 1
      BY <1>2, <3>1, FS_AddElement
    <3>3. Cardinality(visited) \in Nat
      BY <3>1, FS_CardinalityType
    <3> QED
      BY <1>1, <1>2, <3>2, <3>3 DEF Frames, n
  <2>5. \A k \in 2 .. n + 1 : /\ frames'[k].b = frames'[k].t
                              /\ frames'[k].t \in visited'
                              /\ frames'[k].array = Dense(heap[frames'[k].t])
    BY <1>1, <1>2, <1>4, <1>6, <2>1 DEF Frames, n
  <2>6. \A k, l \in 2 .. n + 1 : frames'[k].t = frames'[l].t => k = l
    BY <1>1, <1>2, <1>4, <1>6, <2>1, <2>3 DEF Frames, n
  <2>7. heap' = heap
    BY <1>1
  <2> QED
    BY <1>2, <2>2, <2>4, <2>5, <2>6, <2>7 DEF Frames
<1>9. Pending'
  <2>1. \A k \in 1 .. n : k = n \/ (k \in 1 .. n - 1 /\ k + 1 \in 1 .. n)
    BY <1>2
  <2>2. /\ frames'[n].at >= 1
        /\ HasText(heap[frames'[n].t][frames'[n].at].key)
        /\ Item(frames'[n], frames'[n].at) = frames'[n + 1].t
    <3>1. /\ frames'[n].at = Top.at + 1 /\ frames'[n].t = Top.t
          /\ frames'[n].array = Top.array /\ frames'[n + 1].t = t
      BY <1>2, <1>4
    <3>2. Top.at + 1 >= 1
      BY <1>3
    <3>3. Item(frames'[n], frames'[n].at) = t
      BY <1>3, <3>1 DEF t, Item
    <3> QED
      BY <1>1, <1>3, <3>1, <3>2, <3>3
  <2>3. ASSUME NEW k \in 1 .. n - 1, k + 1 \in 1 .. n
        PROVE  /\ frames'[k].at >= 1
               /\ HasText(heap[frames'[k].t][frames'[k].at].key)
               /\ Item(frames'[k], frames'[k].at) = frames'[k + 1].t
    BY <1>1, <1>2, <1>6, <2>3 DEF Pending, Item, n
  <2>4. Len(frames') - 1 = n
    BY <1>2
  <2> QED
    BY <1>1, <2>1, <2>2, <2>3, <2>4 DEF Pending, HasText, Item
<1>10. Refs'
  BY <1>1 DEF Refs, RefsReleased, Running
<1> QED
  BY <1>7, <1>8, <1>9, <1>10 DEF FInv

LEMMA FInvInvalidObjectId == FInv /\ InvalidObjectId => FInv'
<1> SUFFICES ASSUME FInv, InvalidObjectId PROVE FInv'
  OBVIOUS
<1>1. /\ TypeOK /\ Refs /\ status = "running" /\ status' = "thrown" /\ thrown' = thrown + 1
      /\ frames' = << >>
      /\ UNCHANGED <<heap, root, visited, image, registry, called>>
  BY DEF FInv, InvalidObjectId, Running
<1> QED
  BY <1>1 DEF FInv, TypeOK, Frames, Pending, Refs, RefsReleased, Running

LEMMA FInvReturn == FInv /\ Return => FInv'
<1> SUFFICES ASSUME FInv, Return PROVE FInv'
  OBVIOUS
<1>1. /\ TypeOK /\ Refs /\ status = "running" /\ status' = "done" /\ registry' = registry - 1
      /\ frames' = << >> /\ root \in Tables
      /\ UNCHANGED <<heap, root, visited, image, thrown, called>>
  BY DEF FInv, Return, Running, Frames
<1>2. registry = thrown + 1 /\ thrown \in Nat
  BY <1>1 DEF Refs, RefsReleased, Running, TypeOK
<1> QED
  BY <1>1, <1>2 DEF FInv, TypeOK, Frames, Pending, Refs, RefsReleased, Running

(* The loops after the innermost of several is over. *)
LEMMA PopFrames ==
  ASSUME TypeOK, Frames, Pending, Embedded
  PROVE  LET n == Len(frames) IN
         /\ n \in Nat \ {0, 1} /\ Top = frames[n] /\ Outer = frames[n - 1]
         /\ Top.t \in visited /\ Top.t \in Tables
         /\ Outer \in FrameType /\ Outer.b \in Builders
         /\ Outer.at \in 1 .. Len(heap[Outer.t])
         /\ HasText(heap[Outer.t][Outer.at].key)
         /\ Item(Outer, Outer.at) = Top.t
         /\ Text(Outer, Outer.at) \in TextKeys
         /\ frames' \in Seq(FrameType) /\ Len(frames') = n - 1
         /\ \A k \in 1 .. n - 1 : frames'[k] = frames[k]
<1> DEFINE n == Len(frames)
<1>1. /\ n \in Nat \ {0, 1} /\ frames \in Seq(FrameType) /\ Running
      /\ frames' = SubSeq(frames, 1, n - 1) /\ n > 1
  BY DEF Embedded, TypeOK
<1>2. /\ frames' \in Seq(FrameType) /\ Len(frames') = n - 1
      /\ \A k \in 1 .. n - 1 : frames'[k] = frames[k]
  <2>1. n - 1 \in Nat /\ n - 1 <= n /\ \A k \in 1 .. n - 1 : k \in 1 .. n
    BY <1>1
  <2> QED
    BY <1>1, <2>1
<1>3. Top = frames[n] /\ Outer = frames[n - 1]
  BY DEF Top, Outer
<1>4. n \in 2 .. n /\ n - 1 \in 1 .. n /\ n - 1 \in 1 .. n - 1 /\ n - 1 + 1 = n
  BY <1>1
<1>5. Top.t \in visited /\ Top.t \in Tables
  BY <1>3, <1>4 DEF Frames, TypeOK
<1>6. Outer \in FrameType /\ Outer.at <= Len(heap[Outer.t])
  BY <1>1, <1>3, <1>4, ElementType DEF TypeOK
<1>7. /\ Outer.at >= 1 /\ HasText(heap[Outer.t][Outer.at].key)
      /\ Item(Outer, Outer.at) = Top.t
  BY <1>3, <1>4 DEF Pending, Item
<1>8. Outer.b \in Builders /\ Outer.at \in Nat /\ Outer.t \in Tables
  BY <1>6 DEF FrameType
<1>9. heap[Outer.t] \in Seq([key : Keys, val : Plain \cup Tables])
  BY <1>8, ContentsAssumption DEF TypeOK
<1>10. Outer.at \in 1 .. Len(heap[Outer.t])
  BY <1>6, <1>7, <1>8, <1>9
<1>11. Text(Outer, Outer.at) \in TextKeys
  <2>1. Outer.at \in Nat \ {0}
    BY <1>7, <1>8
  <2> QED
    BY <1>6, <1>7, <2>1, TextType
<1> QED
  BY <1>1, <1>2, <1>3, <1>5, <1>6, <1>7, <1>8, <1>10, <1>11

LEMMA FInvEmbedded == FInv /\ Embedded => FInv'
<1> SUFFICES ASSUME FInv, Embedded PROVE FInv'
  OBVIOUS
<1> DEFINE n == Len(frames)
<1>1. /\ TypeOK /\ Frames /\ Pending /\ Refs /\ Running
      /\ Add(Outer.b, Text(Outer, Outer.at), Top.t)
      /\ UNCHANGED <<heap, status, root, visited, registry, thrown, called>>
  BY DEF FInv, Embedded
<1>2. /\ n \in Nat \ {0, 1} /\ Outer.b \in Builders /\ Top.t \in Tables
      /\ Text(Outer, Outer.at) \in TextKeys
      /\ frames' \in Seq(FrameType) /\ Len(frames') = n - 1
      /\ \A k \in 1 .. n - 1 : frames'[k] = frames[k]
  BY <1>1, PopFrames
<1>3. image' \in [Builders -> ImageType]
  BY <1>1, <1>2, AddType
<1>4. /\ n \in Nat /\ n - 1 >= 1
      /\ \A k \in 1 .. n - 1 : k \in 1 .. n
      /\ \A k \in 2 .. n - 1 : k \in 2 .. n /\ k \in 1 .. n - 1
      /\ \A k \in 1 .. n - 1 - 1 : k \in 1 .. n - 1 /\ k + 1 \in 1 .. n - 1
  BY <1>2
<1>5. TypeOK'
  <2>1. DOMAIN frames' = 1 .. n - 1 /\ DOMAIN frames = 1 .. n
    BY <1>1, <1>2 DEF TypeOK
  <2>2. \A k \in DOMAIN frames' : frames'[k].at <= Len(heap[frames'[k].t])
    BY <1>1, <1>2, <1>4, <2>1 DEF TypeOK
  <2> QED
    BY <1>1, <1>2, <1>3, <2>2 DEF TypeOK
<1>6. Frames'
  <2>1. /\ frames'[1].b = Result /\ frames'[1].t = root' /\ ~frames'[1].array
        /\ root' \in Tables /\ Len(frames') >= 1
    <3>1. 1 \in 1 .. n - 1
      BY <1>2
    <3> QED
      BY <1>1, <1>2, <3>1 DEF Frames
  <2>2. Len(frames') <= Cardinality(visited') + 1
    <3>1. IsFiniteSet(visited)
      BY <1>1, FinitelyManyTables, FS_Subset DEF TypeOK
    <3>2. Cardinality(visited) \in Nat
      BY <3>1, FS_CardinalityType
    <3> QED
      BY <1>1, <1>2, <3>2 DEF Frames
  <2>3. /\ \A k \in 2 .. n - 1 : /\ frames'[k].b = frames'[k].t
                                 /\ frames'[k].t \in visited'
                                 /\ frames'[k].array = Dense(heap[frames'[k].t])
        /\ \A k, l \in 2 .. n - 1 : frames'[k].t = frames'[l].t => k = l
    <3>1. visited' = visited /\ \A k \in 2 .. n - 1 : frames'[k] = frames[k]
      BY <1>1, <1>2, <1>4
    <3>2. \A k \in 2 .. n : /\ frames[k].b = frames[k].t /\ frames[k].t \in visited
                            /\ frames[k].array = Dense(heap[frames[k].t])
      BY <1>1 DEF Frames
    <3>3. \A k, l \in 2 .. n : frames[k].t = frames[l].t => k = l
      BY <1>1 DEF Frames
    <3> QED
      BY <1>4, <3>1, <3>2, <3>3
  <2>4. heap' = heap /\ Running'
    BY <1>1 DEF Running
  <2> QED
    BY <1>2, <2>1, <2>2, <2>3, <2>4 DEF Frames
<1>7. Pending'
  <2>1. ASSUME NEW k \in 1 .. n - 1 - 1
        PROVE  /\ frames'[k].at >= 1
               /\ HasText(heap[frames'[k].t][frames'[k].at].key)
               /\ Item(frames'[k], frames'[k].at) = frames'[k + 1].t
    <3>1. k \in 1 .. n - 1 /\ k + 1 \in 1 .. n - 1
      BY <1>4
    <3> QED
      BY <1>1, <1>2, <3>1 DEF Pending, Item
  <2> QED
    BY <1>1, <1>2, <2>1 DEF Pending, Item
<1>8. Refs'
  BY <1>1 DEF Refs, RefsReleased, Running
<1> QED
  BY <1>5, <1>6, <1>7, <1>8 DEF FInv

LEMMA FInvLuaToBson == ASSUME FInv, NEW t \in Tables, LuaToBson(t) PROVE FInv'
<1>1. /\ TypeOK /\ Refs /\ ~Running /\ status' = "running" /\ root' = t /\ visited' = {}
      /\ registry' = registry + 1 /\ called' = called + 1 /\ called < MaxCalls
      /\ frames' = <<Loop(Result, t, FALSE)>>
      /\ image' = [b \in Builders |-> << >>]
      /\ UNCHANGED <<heap, thrown>>
  BY DEF FInv, LuaToBson
<1>2. Loop(Result, t, FALSE) \in FrameType
  BY DEF Loop, FrameType, Builders
<1>3. /\ frames' \in Seq(FrameType) /\ Len(frames') = 1 /\ frames'[1] = Loop(Result, t, FALSE)
  <2>1. ASSUME NEW x \in FrameType
        PROVE  <<x>> \in Seq(FrameType) /\ Len(<<x>>) = 1 /\ <<x>>[1] = x
    OBVIOUS
  <2> QED
    BY <1>1, <1>2, <2>1
<1>4. /\ frames'[1].b = Result /\ frames'[1].t = t /\ ~frames'[1].array /\ frames'[1].at = 0
  BY <1>3 DEF Loop
<1>5. heap[t] \in Seq([key : Keys, val : Plain \cup Tables])
  BY <1>1, ContentsAssumption DEF TypeOK
<1>6. image' \in [Builders -> ImageType]
  <2>1. << >> \in ImageType
    BY DEF ImageType
  <2> QED
    BY <1>1, <2>1
<1>7. TypeOK'
  <2>1. \A k \in DOMAIN frames' : frames'[k].at <= Len(heap[frames'[k].t])
    <3>1. DOMAIN frames' = {1}
      BY <1>3
    <3>2. frames'[1].at <= Len(heap[frames'[1].t])
      BY <1>4, <1>5
    <3> QED
      BY <3>1, <3>2
  <2>2. called' \in 0 .. MaxCalls
    BY <1>1, MaxCallsAssumption DEF TypeOK
  <2>3. /\ heap' \in [Tables -> Contents] /\ root' \in Builders /\ visited' \in SUBSET Tables
        /\ registry' \in Nat /\ thrown' \in Nat
    BY <1>1 DEF TypeOK, Builders
  <2>4. status' \in {"idle", "running", "done", "thrown"}
    BY <1>1
  <2>5. heap' = heap
    BY <1>1
  <2>6. frames' \in Seq(FrameType)
    BY <1>3
  <2>7. \A k \in DOMAIN frames' : frames'[k].at <= Len(heap'[frames'[k].t])
    BY <2>1, <2>5
  <2> QED
    BY <1>6, <2>2, <2>3, <2>4, <2>6, <2>7 DEF TypeOK
<1>8. Frames'
  <2>1. Cardinality(visited') = 0
    BY <1>1, FS_EmptySet
  <2>2. Running' /\ root' \in Tables /\ root' = t
    BY <1>1 DEF Running
  <2>3. \A k \in 2 .. Len(frames') : FALSE
    BY <1>3
  <2>4. Len(frames') >= 1 /\ Len(frames') <= Cardinality(visited') + 1
    BY <1>3, <2>1
  <2>5. frames'[1].b = Result /\ frames'[1].t = root' /\ ~frames'[1].array
    BY <1>4, <2>2
  <2> QED
    BY <2>2, <2>3, <2>4, <2>5 DEF Frames
<1>9. Pending'
  BY <1>3 DEF Pending
<1>10. Refs'
  BY <1>1 DEF Refs, RefsReleased, Running, TypeOK
<1> QED
  BY <1>7, <1>8, <1>9, <1>10 DEF FInv

LEMMA FInvInit == Init => FInv
<1> SUFFICES ASSUME Init PROVE FInv
  OBVIOUS
<1>1. << >> \in ImageType
  BY DEF ImageType
<1>2. TypeOK
  BY <1>1, MaxCallsAssumption DEF Init, TypeOK, Builders
<1> QED
  BY <1>2 DEF Init, FInv, Frames, Pending, Refs, RefsReleased, Running

LEMMA FInvStep == FInv /\ [Next]_vars => FInv'
<1> SUFFICES ASSUME FInv, [Next]_vars PROVE FInv'
  OBVIOUS
<1>1. CASE Next
  BY <1>1, FInvLuaToBson, FInvAppendScalar, FInvAppendNothing, FInvSameTable,
     FInvEnterTable, FInvInvalidObjectId, FInvEmbedded, FInvReturn DEF Next
<1>2. CASE UNCHANGED vars
  <2>1. TypeOK'
    BY <1>2 DEF vars, FInv, TypeOK
  <2>2. Frames'
    BY <1>2 DEF vars, FInv, Frames, Running, Dense
  <2>3. Pending'
    BY <1>2 DEF vars, FInv, Pending, HasText, Item
  <2>4. Refs'
    BY <1>2 DEF vars, FInv, Refs, RefsReleased, Running
  <2> QED
    BY <2>1, <2>2, <2>3, <2>4 DEF FInv
<1> QED
  BY <1>1, <1>2

LEMMA FInvariant == Spec => []FInv
  BY FInvInit, FInvStep, PTL DEF Spec

(* Every variable keeps its type, whatever the tables hold. *)
THEOREM TypeCorrect == Spec => []TypeOK
<1>1. FInv => TypeOK
  BY DEF FInv
<1> QED
  BY <1>1, FInvariant, PTL

(* lua_append_bson never calls itself deeper than there are tables, although
   tables may lead back to themselves. *)
THEOREM RecursionIsBounded == Spec => []DepthBounded
<1>1. FInv => DepthBounded
  <2> SUFFICES ASSUME FInv PROVE DepthBounded
    OBVIOUS
  <2>1. /\ IsFiniteSet(visited) /\ Cardinality(visited) \in Nat
        /\ Cardinality(Tables) \in Nat /\ Cardinality(visited) <= Cardinality(Tables)
    BY FinitelyManyTables, FS_Subset, FS_CardinalityType DEF FInv, TypeOK
  <2>2. Len(frames) <= Cardinality(visited) + 1
    <3>1. CASE Running
      BY <3>1 DEF FInv, Frames
    <3>2. CASE ~Running
      BY <2>1, <3>2 DEF FInv, Frames
    <3> QED
      BY <3>1, <3>2
  <2>3. Len(frames) \in Nat
    BY DEF FInv, TypeOK
  <2> QED
    BY <2>1, <2>2, <2>3 DEF DepthBounded
<1> QED
  BY <1>1, FInvariant, PTL

(* lua_to_bson leaves a reference in the registry only when an exception takes
   it away. *)
THEOREM ReferencesAreReleased == Spec => []RefsReleased
<1>1. FInv => RefsReleased
  BY DEF FInv, Refs
<1> QED
  BY <1>1, FInvariant, PTL

-----------------------------------------------------------------------------
(* The content of the document.                                             *)

(* The tables whose loop is in progress; they are marked and not embedded yet. *)
Open == {frames[k].t : k \in 2 .. Len(frames)}

-----------------------------------------------------------------------------
(* What a step does to the open tables and to the builders.                 *)

LEMMA OpenPast ==
  ASSUME FInv, Running, frames' = Past(frames)
  PROVE  /\ Open' = Open
         /\ Len(frames') = Len(frames)
         /\ \A k \in 1 .. Len(frames) : frames'[k].t = frames[k].t /\ frames'[k].b = frames[k].b
                                        /\ frames'[k].array = frames[k].array
         /\ \A k \in 1 .. Len(frames) - 1 : frames'[k].at = frames[k].at
         /\ frames'[Len(frames)].at = Top.at + 1
<1> DEFINE n == Len(frames)
<1>1. /\ n \in Nat \ {0} /\ Top = frames[n]
      /\ Len(frames') = n /\ \A k \in 1 .. n - 1 : frames'[k] = frames[k]
      /\ frames'[n].b = Top.b /\ frames'[n].t = Top.t /\ frames'[n].array = Top.array
      /\ frames'[n].at = Top.at + 1
  BY TopType, PastFrames DEF FInv
<1>2. \A k \in 1 .. n : k = n \/ k \in 1 .. n - 1
  BY <1>1
<1>3. \A k \in 1 .. n : frames'[k].t = frames[k].t /\ frames'[k].b = frames[k].b
                        /\ frames'[k].array = frames[k].array
  BY <1>1, <1>2
<1>4. Open' = {frames'[k].t : k \in 2 .. n}
  BY <1>1 DEF Open
<1>5. \A k \in 2 .. n : k \in 1 .. n
  BY <1>1
<1> QED
  BY <1>1, <1>3, <1>4, <1>5 DEF Open

LEMMA OpenEnter ==
  ASSUME FInv, EnterTable
  PROVE  /\ Value \in Tables \ visited
         /\ visited' = visited \cup {Value}
         /\ Open' = Open \cup {Value}
<1> DEFINE n == Len(frames)
           t == Value
<1>1. /\ n \in Nat \ {0} /\ t \in Tables \ visited /\ visited' = visited \cup {t}
      /\ Len(frames') = n + 1 /\ \A k \in 1 .. n - 1 : frames'[k] = frames[k]
      /\ frames'[n].t = Top.t /\ frames'[n + 1] = Loop(t, t, Dense(heap[t]))
      /\ Top = frames[n]
  BY EnterFrames DEF FInv, Top
<1> HIDE DEF n, t
<1>2. frames'[n + 1].t = t
  BY <1>1 DEF Loop
<1>3. Open' = {frames'[k].t : k \in 2 .. n + 1} /\ Open = {frames[k].t : k \in 2 .. n}
  BY <1>1 DEF Open, n
<1>4. \A k \in 2 .. n : frames'[k].t = frames[k].t
  <2>1. \A k \in 2 .. n : k = n \/ k \in 1 .. n - 1
    BY <1>1
  <2> QED
    BY <1>1, <2>1
<1>5. 2 .. n + 1 = (2 .. n) \cup {n + 1}
  BY <1>1
<1>6. Open' = {frames'[k].t : k \in 2 .. n} \cup {frames'[n + 1].t}
  BY <1>3, <1>5
<1>7. {frames'[k].t : k \in 2 .. n} = {frames[k].t : k \in 2 .. n}
  BY <1>4
<1> QED
  BY <1>1, <1>2, <1>3, <1>6, <1>7 DEF t

LEMMA OpenPop ==
  ASSUME FInv, Embedded
  PROVE  /\ Top.t \in Open /\ Top.t \in visited /\ Top.t \in Tables
         /\ Open' = Open \ {Top.t}
<1> DEFINE n == Len(frames)
<1>1. /\ n \in Nat \ {0, 1} /\ Top = frames[n] /\ Top.t \in visited /\ Top.t \in Tables
      /\ Len(frames') = n - 1 /\ \A k \in 1 .. n - 1 : frames'[k] = frames[k]
  BY PopFrames DEF FInv
<1>2. \A k, l \in 2 .. n : frames[k].t = frames[l].t => k = l
  BY DEF FInv, Frames
<1> HIDE DEF n
<1>3. Open' = {frames'[k].t : k \in 2 .. n - 1} /\ Open = {frames[k].t : k \in 2 .. n}
  BY <1>1 DEF Open, n
<1>4. n \in 2 .. n /\ \A k \in 2 .. n - 1 : k \in 1 .. n - 1 /\ k \in 2 .. n /\ k # n
  BY <1>1
<1>5. \A k \in 2 .. n : k # n => k \in 2 .. n - 1
  BY <1>1
<1>6. {frames'[k].t : k \in 2 .. n - 1} = {frames[k].t : k \in 2 .. n - 1}
  BY <1>1, <1>4
<1>7. {frames[k].t : k \in 2 .. n - 1} = {frames[k].t : k \in 2 .. n} \ {frames[n].t}
  BY <1>2, <1>4, <1>5
<1>8. Top.t \in Open
  BY <1>1, <1>3, <1>4
<1> QED
  BY <1>1, <1>3, <1>6, <1>7, <1>8

LEMMA NoneOpen ==
  ASSUME FInv, Len(frames) < 2
  PROVE  Open = {}
<1>1. Len(frames) \in Nat
  BY DEF FInv, TypeOK
<1>2. 2 .. Len(frames) = {}
  BY <1>1
<1> QED
  BY <1>2 DEF Open

LEMMA OpenMarked ==
  ASSUME FInv
  PROVE  Open \subseteq visited
  BY DEF FInv, Frames, Open

(* One builder is given an entry, and all it had before stays. *)
LEMMA AddEntry ==
  ASSUME TypeOK, NEW b \in Builders, NEW key \in TextKeys,
         NEW val \in Leaves \cup Tables, Add(b, key, val)
  PROVE  LET e == [key |-> key, val |-> val]
             m == Len(image[b]) + 1 IN
         /\ \A c \in Builders : \A i \in DOMAIN image[c] :
              i \in DOMAIN image'[c] /\ image'[c][i] = image[c][i]
         /\ m \in DOMAIN image'[b] /\ image'[b][m] = e
         /\ \A c \in Builders : \A i \in DOMAIN image'[c] :
              i \in DOMAIN image[c] \/ (c = b /\ i = m)
<1> DEFINE e == [key |-> key, val |-> val]
           m == Len(image[b]) + 1
           s == image[b]
           T == [key : TextKeys, val : Leaves \cup Tables]
<1>1. s \in Seq(T) /\ e \in T /\ image' = [image EXCEPT ![b] = Append(s, e)]
      /\ image \in [Builders -> ImageType]
  BY DEF TypeOK, ImageType, Add
<1>2. \A c \in Builders : image'[c] = IF c = b THEN Append(s, e) ELSE image[c]
  BY <1>1
<1>3. /\ DOMAIN s = 1 .. Len(s) /\ Len(s) \in Nat
      /\ DOMAIN Append(s, e) = 1 .. Len(s) + 1
      /\ \A i \in 1 .. Len(s) : Append(s, e)[i] = s[i]
      /\ Append(s, e)[Len(s) + 1] = e
  <2> HIDE DEF s, e, T
  <2> QED
    BY <1>1
<1> HIDE DEF s, e, T
<1>4. /\ \A i \in DOMAIN s : i \in DOMAIN Append(s, e) /\ Append(s, e)[i] = s[i]
      /\ Len(s) + 1 \in DOMAIN Append(s, e)
      /\ \A i \in DOMAIN Append(s, e) : i \in DOMAIN s \/ i = Len(s) + 1
  BY <1>3
<1> QED
  BY <1>2, <1>3, <1>4 DEF s, e

(* What AppendScalar and Embedded add. *)
LEMMA ScalarAdded ==
  ASSUME FInv, AppendScalar
  PROVE  /\ Top.b \in Builders /\ Text(Top, Top.at + 1) \in TextKeys
         /\ Value \in Leaves /\ Add(Top.b, Text(Top, Top.at + 1), Value)
<1>1. TypeOK /\ Frames /\ Running /\ Left(Top) /\ HasText(Key)
      /\ Value \in Leaves /\ Add(Top.b, Text(Top, Top.at + 1), Value)
  BY DEF FInv, AppendScalar
<1>2. /\ Top \in FrameType /\ Top.b \in Builders /\ Top.at + 1 \in Nat \ {0}
      /\ HasText(heap[Top.t][Top.at + 1].key)
  BY <1>1, TopType, LeftEntry
<1> QED
  BY <1>1, <1>2, TextType

LEMMA TableAdded ==
  ASSUME FInv, Embedded
  PROVE  /\ Outer.b \in Builders /\ Text(Outer, Outer.at) \in TextKeys
         /\ Top.t \in Tables /\ Add(Outer.b, Text(Outer, Outer.at), Top.t)
  BY PopFrames DEF FInv, Embedded

-----------------------------------------------------------------------------
(* A table is embedded once: only when its loop, the only one for it, ends.  *)

EmbeddedAreFinished ==
  \A b \in Builders : \A i \in DOMAIN image[b] :
    image[b][i].val \in Tables => image[b][i].val \in visited \ Open

OInv == EmbeddedAreFinished /\ EmbeddedOnce

LEMMA NoTables == Leaves \cap Tables = {}
  BY TablesAssumption

(* A step that adds no table and lets none go. *)
LEMMA OnceKept ==
  ASSUME OInv, visited \subseteq visited', Open' \cap visited \subseteq Open, image' = image
  PROVE  OInv'
  BY DEF OInv, EmbeddedAreFinished, EmbeddedOnce

LEMMA OnceAppendScalar ==
  ASSUME FInv, OInv, AppendScalar
  PROVE  OInv'
<1> DEFINE b == Top.b
           m == Len(image[b]) + 1
<1>1. /\ \A c \in Builders : \A i \in DOMAIN image[c] :
           i \in DOMAIN image'[c] /\ image'[c][i] = image[c][i]
      /\ image'[b][m].val \in Leaves
      /\ \A c \in Builders : \A i \in DOMAIN image'[c] :
           i \in DOMAIN image[c] \/ (c = b /\ i = m)
  <2> DEFINE key == Text(Top, Top.at + 1)
             val == Value
             e == [key |-> key, val |-> val]
  <2>1. /\ TypeOK /\ b \in Builders /\ key \in TextKeys /\ val \in Leaves
        /\ Add(b, key, val)
    BY ScalarAdded DEF FInv
  <2>2. e.val \in Leaves
    BY <2>1
  <2>3. /\ \A c \in Builders : \A i \in DOMAIN image[c] :
               i \in DOMAIN image'[c] /\ image'[c][i] = image[c][i]
        /\ m \in DOMAIN image'[b] /\ image'[b][m] = e
        /\ \A c \in Builders : \A i \in DOMAIN image'[c] :
             i \in DOMAIN image[c] \/ (c = b /\ i = m)
    <3> HIDE DEF b, key, val
    <3> QED
      BY <2>1, AddEntry
  <2> QED
    BY <2>2, <2>3
<1>2. Open' = Open /\ visited' = visited
  BY OpenPast DEF AppendScalar
<1> HIDE DEF b, m
<1>3. \A c \in Builders : \A i \in DOMAIN image'[c] :
        image'[c][i].val \in Tables => i \in DOMAIN image[c] /\ image'[c][i] = image[c][i]
  BY <1>1, NoTables
<1> QED
  BY <1>2, <1>3 DEF OInv, EmbeddedAreFinished, EmbeddedOnce

LEMMA OnceEmbedded ==
  ASSUME FInv, OInv, Embedded
  PROVE  OInv'
<1> DEFINE b == Outer.b
           m == Len(image[b]) + 1
           t == Top.t
<1>1. /\ \A c \in Builders : \A i \in DOMAIN image[c] :
           i \in DOMAIN image'[c] /\ image'[c][i] = image[c][i]
      /\ image'[b][m].val = t
      /\ \A c \in Builders : \A i \in DOMAIN image'[c] :
           i \in DOMAIN image[c] \/ (c = b /\ i = m)
  <2> DEFINE key == Text(Outer, Outer.at)
             e == [key |-> key, val |-> t]
  <2>1. /\ TypeOK /\ b \in Builders /\ key \in TextKeys /\ t \in Tables
        /\ Add(b, key, t)
    BY TableAdded DEF FInv
  <2>2. e.val = t
    OBVIOUS
  <2>3. /\ \A c \in Builders : \A i \in DOMAIN image[c] :
               i \in DOMAIN image'[c] /\ image'[c][i] = image[c][i]
        /\ m \in DOMAIN image'[b] /\ image'[b][m] = e
        /\ \A c \in Builders : \A i \in DOMAIN image'[c] :
             i \in DOMAIN image[c] \/ (c = b /\ i = m)
    <3> HIDE DEF b, key, t
    <3> QED
      BY <2>1, AddEntry
  <2> QED
    BY <2>2, <2>3
<1>2. /\ t \in Open /\ t \in visited /\ Open' = Open \ {t} /\ visited' = visited
  BY OpenPop DEF Embedded
<1> HIDE DEF b, m, t
<1>3. \A c \in Builders : \A i \in DOMAIN image[c] :
        image[c][i].val \in Tables => image[c][i].val \in visited \ Open /\ image[c][i].val # t
  BY <1>2 DEF OInv, EmbeddedAreFinished
<1>4. EmbeddedAreFinished'
  BY <1>1, <1>2, <1>3 DEF EmbeddedAreFinished
<1>5. EmbeddedOnce'
  <2> SUFFICES ASSUME NEW b1 \in Builders, NEW b2 \in Builders,
                      NEW i \in DOMAIN image'[b1], NEW j \in DOMAIN image'[b2],
                      image'[b1][i].val \in Tables, image'[b1][i].val = image'[b2][j].val
               PROVE  b1 = b2 /\ i = j
    BY DEF EmbeddedOnce
  <2>1. CASE i \in DOMAIN image[b1] /\ j \in DOMAIN image[b2]
    BY <1>1, <2>1 DEF OInv, EmbeddedOnce
  <2>2. CASE i \in DOMAIN image[b1] /\ b2 = b /\ j = m
    BY <1>1, <1>3, <2>2
  <2>3. CASE j \in DOMAIN image[b2] /\ b1 = b /\ i = m
    BY <1>1, <1>3, <2>3
  <2>4. CASE b1 = b /\ i = m /\ b2 = b /\ j = m
    BY <2>4
  <2> QED
    BY <1>1, <2>1, <2>2, <2>3, <2>4
<1> QED
  BY <1>4, <1>5 DEF OInv

LEMMA OnceStep == FInv /\ FInv' /\ OInv /\ [Next]_vars => OInv'
<1> SUFFICES ASSUME FInv, FInv', OInv, [Next]_vars PROVE OInv'
  OBVIOUS
<1>1. ASSUME NEW t \in Tables, LuaToBson(t) PROVE OInv'
  <2>1. \A b \in Builders : image'[b] = << >>
    BY <1>1 DEF LuaToBson
  <2>2. \A b \in Builders : DOMAIN image'[b] = {}
    BY <2>1
  <2> QED
    BY <2>2 DEF OInv, EmbeddedAreFinished, EmbeddedOnce
<1>2. CASE AppendScalar
  BY <1>2, OnceAppendScalar
<1>3. CASE AppendNothing
  BY <1>3, OpenPast, OnceKept DEF AppendNothing
<1>4. CASE SameTable
  BY <1>4, OpenPast, OnceKept DEF SameTable
<1>5. CASE EnterTable
  <2>1. image' = image
    BY <1>5 DEF EnterTable
  <2> QED
    BY <1>5, <2>1, OpenEnter, OnceKept
<1>6. CASE InvalidObjectId \/ Return
  <2>1. Len(frames') < 2 /\ visited' = visited /\ image' = image
    BY <1>6 DEF InvalidObjectId, Return
  <2>2. Open' = {}
    <3>1. 2 .. Len(frames') = {}
      <4>1. Len(frames') = 0
        BY <1>6 DEF InvalidObjectId, Return
      <4> QED
        BY <4>1
    <3> QED
      BY <3>1 DEF Open
  <2> QED
    BY <2>1, <2>2, OnceKept
<1>7. CASE Embedded
  BY <1>7, OnceEmbedded
<1>8. CASE UNCHANGED vars
  <2>1. Open' = Open
    BY <1>8 DEF vars, Open
  <2> QED
    BY <1>8, <2>1, OnceKept DEF vars
<1> QED
  BY <1>1, <1>2, <1>3, <1>4, <1>5, <1>6, <1>7, <1>8 DEF Next

LEMMA OnceInit == Init => OInv
<1> SUFFICES ASSUME Init PROVE OInv
  OBVIOUS
<1>1. \A b \in Builders : DOMAIN image[b] = {}
  BY DEF Init
<1> QED
  BY <1>1 DEF OInv, EmbeddedAreFinished, EmbeddedOnce

LEMMA OnceInvariant == Spec => []OInv
  BY FInvariant, OnceInit, OnceStep, PTL DEF Spec

(* A table is embedded in one place at most, whatever graph the tables form. *)
THEOREM TablesAreEmbeddedOnce == Spec => []EmbeddedOnce
<1>1. OInv => EmbeddedOnce
  BY DEF OInv
<1> QED
  BY <1>1, OnceInvariant, PTL

-----------------------------------------------------------------------------
(* The marks of a call are the tables that can be reached, as far as the     *)
(* loops have come.                                                          *)

(* What a loop is past, is marked. *)
Dealt ==
  \A k \in 1 .. Len(frames) : \A j \in 1 .. frames[k].at :
    (HasText(heap[frames[k].t][j].key) /\ Item(frames[k], j) \in Tables)
      => Item(frames[k], j) \in visited

(* A table whose loop is over is embedded, and what it leads to is marked. *)
FinishedEmbedded ==
  status # "thrown" =>
    \A t \in visited \ Open : \E b \in Builders : \E i \in DOMAIN image[b] : image[b][i].val = t

FinishedClosed == status # "thrown" => \A t \in visited \ Open : Succ(t) \subseteq visited

RootClosed == status = "done" => Succ(Result) \subseteq visited

(* Only what the passed table leads to is marked. *)
OnlyReachable ==
  \A S \in SUBSET Tables : Succ(Result) \subseteq S /\ Closed(S) => visited \subseteq S

VInv == Dealt /\ FinishedEmbedded /\ FinishedClosed /\ RootClosed /\ OnlyReachable

ImagesStay ==
  \A c \in Builders : \A i \in DOMAIN image[c] :
    i \in DOMAIN image'[c] /\ image'[c][i] = image[c][i]

LEMMA SameSucc ==
  ASSUME heap' = heap, root' = root
  PROVE  /\ \A b : Succ(b)' = Succ(b)
         /\ \A S : Closed(S)' = Closed(S)
<1>1. \A b : Kept(b)' = Kept(b) /\ Source(b)' = Source(b)
  BY DEF Kept, Lost, IsArray, Source
<1>2. \A b : Succ(b)' = Succ(b)
  BY <1>1 DEF Succ
<1> QED
  BY <1>2 DEF Closed

(* When a number counts as i. *)
LEMMA Halves ==
  ASSUME NEW x \in Int, NEW i \in Nat \ {0}
  PROVE  ToInteger(x) = i <=> x = 2 * i \/ x = 2 * i + 1
<1>1. CASE x < 0
  <2>1. -((-x) \div 2) <= 0
    BY <1>1
  <2> QED
    BY <1>1, <2>1 DEF ToInteger
<1>2. CASE x >= 0
  BY <1>2 DEF ToInteger
<1> QED
  BY <1>1, <1>2

LEMMA KeyText ==
  ASSUME NEW key \in Keys
  PROVE  /\ HasText(key) <=> key[1] \in {"number", "string"}
         /\ key[1] = "number" => key[2] \in Int /\ key = <<"number", key[2]>>
  BY DEF Keys, TextKeys, HasText

(* An array's keys are whole or have a fraction of one half. *)
LEMMA DenseKeys ==
  ASSUME NEW c \in Seq([key : Keys, val : Plain \cup Tables])
  PROVE  Dense(c) <=> \A i \in DOMAIN c : c[i].key \in {<<"number", 2 * i>>, <<"number", 2 * i + 1>>}
<1>1. DOMAIN c = 1 .. Len(c) /\ \A i \in DOMAIN c : c[i].key \in Keys
  <2>1. \A i \in 1 .. Len(c) : c[i] \in [key : Keys, val : Plain \cup Tables]
    BY ElementType
  <2>2. DOMAIN c = 1 .. Len(c)
    OBVIOUS
  <2> QED
    BY <2>1, <2>2
<1>2. ASSUME NEW i \in DOMAIN c
      PROVE  (c[i].key[1] = "number" /\ ToInteger(c[i].key[2]) = i)
               <=> c[i].key \in {<<"number", 2 * i>>, <<"number", 2 * i + 1>>}
  <2> DEFINE key == c[i].key
  <2>1. i \in Nat \ {0} /\ key \in Keys
    BY <1>1
  <2>2. CASE key[1] = "number"
    <3>1. key[2] \in Int /\ key = <<"number", key[2]>>
      BY <2>1, <2>2, KeyText
    <3>2. ToInteger(key[2]) = i <=> key[2] = 2 * i \/ key[2] = 2 * i + 1
      BY <2>1, <3>1, Halves
    <3> HIDE DEF key
    <3>3. key \in {<<"number", 2 * i>>, <<"number", 2 * i + 1>>}
            <=> key[2] = 2 * i \/ key[2] = 2 * i + 1
      BY <2>1, <3>1
    <3> QED
      BY <2>2, <3>2, <3>3 DEF key
  <2>3. CASE key[1] # "number"
    <3>1. <<"number", 2 * i>>[1] = "number" /\ <<"number", 2 * i + 1>>[1] = "number"
      OBVIOUS
    <3> QED
      BY <2>3, <3>1
  <2> QED
    BY <2>2, <2>3
<1> QED
  BY <1>2 DEF Dense

(* What lua_rawgeti finds in an array: the entry at its place, or nothing. *)
LEMMA ArrayItem ==
  ASSUME NEW c \in Seq([key : Keys, val : Plain \cup Tables]), NEW i \in DOMAIN c,
         \A j \in DOMAIN c : c[j].key \in {<<"number", 2 * j>>, <<"number", 2 * j + 1>>}
  PROVE  RawGet(c, i) = IF c[i].key = <<"number", 2 * i>> THEN c[i].val ELSE "nil"
<1>1. DOMAIN c = 1 .. Len(c)
  OBVIOUS
<1>2. ASSUME NEW j \in DOMAIN c, c[j].key = Num(i)
      PROVE  j = i
  <2>1. c[j].key[2] \in {2 * j, 2 * j + 1} /\ c[j].key[2] = 2 * i
    <3>1. <<"number", 2 * j>>[2] = 2 * j /\ <<"number", 2 * j + 1>>[2] = 2 * j + 1
          /\ <<"number", 2 * i>>[2] = 2 * i
      OBVIOUS
    <3> QED
      BY <1>2, <3>1 DEF Num
  <2>2. i \in Int /\ j \in Int
    BY <1>1
  <2> QED
    BY <2>1, <2>2
<1>3. CASE c[i].key = <<"number", 2 * i>>
  <2> DEFINE x == CHOOSE j \in DOMAIN c : c[j].key = Num(i)
  <2>1. x \in DOMAIN c /\ c[x].key = Num(i)
    BY <1>3 DEF Num
  <2>2. x = i
    <3> HIDE DEF x
    <3> QED
      BY <1>2, <2>1
  <2> QED
    BY <1>3, <2>1, <2>2 DEF RawGet
<1>4. CASE c[i].key # <<"number", 2 * i>>
  <2>1. ~ \E j \in DOMAIN c : c[j].key = Num(i)
    BY <1>2, <1>4 DEF Num
  <2> QED
    BY <1>4, <2>1 DEF RawGet
<1> QED
  BY <1>3, <1>4

(* A loop, as its builder sees it. *)
LEMMA LoopOfBuilder ==
  ASSUME FInv, NEW k \in 1 .. Len(frames)
  PROVE  LET f == frames[k]  c == heap[f.t] IN
         /\ f.b \in Builders /\ f.t \in Tables /\ f.t = Source(f.b)
         /\ f.array <=> IsArray(f.b)
         /\ c \in Seq([key : Keys, val : Plain \cup Tables])
         /\ \A j \in DOMAIN c : /\ Text(f, j) = Name(f.b, j)
                                /\ HasText(c[j].key) <=> c[j].key[1] \in {"number", "string"}
                                /\ j \in Lost(f.b) => c[j].key[1] = "number"
                                /\ Item(f, j) = IF j \in Lost(f.b) THEN "nil" ELSE c[j].val
<1> DEFINE f == frames[k]
           c == heap[f.t]
<1>1. f \in FrameType /\ f.t \in Tables /\ f.b \in Builders
  <2>1. frames \in Seq(FrameType)
    BY DEF FInv, TypeOK
  <2>2. frames[k] \in FrameType
    BY <2>1, ElementType
  <2> QED
    BY <2>2 DEF FrameType
<1>2. c \in Seq([key : Keys, val : Plain \cup Tables])
  BY <1>1, ContentsAssumption DEF FInv, TypeOK
<1>3. Running /\ Len(frames) \in Nat
  BY DEF FInv, Frames, TypeOK
<1>4. f.t = Source(f.b) /\ (f.array <=> IsArray(f.b))
  <2>1. CASE k = 1
    BY <1>3, <2>1 DEF FInv, Frames, Source, IsArray
  <2>2. CASE k # 1
    <3>1. k \in 2 .. Len(frames)
      BY <1>3, <2>2
    <3>2. f.b = f.t /\ f.array = Dense(c)
      BY <3>1 DEF FInv, Frames
    <3>3. f.b # Result
      BY <1>1, <3>2, TablesAssumption
    <3>4. Source(f.b) = f.t
      BY <3>2, <3>3 DEF Source
    <3> HIDE DEF f, c
    <3>5. Dense(c) <=> \A i \in DOMAIN c : c[i].key \in {<<"number", 2 * i>>, <<"number", 2 * i + 1>>}
      BY <1>2, DenseKeys
    <3>6. IsArray(f.b) <=> \A i \in DOMAIN c : c[i].key \in {<<"number", 2 * i>>, <<"number", 2 * i + 1>>}
      BY <3>2, <3>3 DEF IsArray, c
    <3> QED
      BY <3>2, <3>4, <3>5, <3>6
  <2> QED
    BY <2>1, <2>2
<1>5. \A j \in DOMAIN c : c[j].key \in Keys
  <2>1. DOMAIN c = 1 .. Len(c)
    BY <1>2
  <2> QED
    BY <1>1, <2>1, EntryType DEF FInv
<1>6. \A j \in DOMAIN c : HasText(c[j].key) <=> c[j].key[1] \in {"number", "string"}
  BY <1>5, KeyText
<1>7. \A j : Text(f, j) = Name(f.b, j)
  BY <1>4 DEF Text, Name, Num
<1>8. ASSUME NEW j \in DOMAIN c
      PROVE  /\ j \in Lost(f.b) => c[j].key[1] = "number"
             /\ Item(f, j) = IF j \in Lost(f.b) THEN "nil" ELSE c[j].val
  <2>1. j \in Lost(f.b) <=> f.array /\ c[j].key # <<"number", 2 * j>>
    BY <1>4 DEF Lost
  <2>2. CASE f.array
    <3>1. \A i \in DOMAIN c : c[i].key \in {<<"number", 2 * i>>, <<"number", 2 * i + 1>>}
      <4>1. f.b # Result /\ Source(f.b) = f.b
        BY <1>4, <2>2 DEF IsArray, Source
      <4> QED
        BY <1>4, <2>2, <4>1 DEF IsArray
    <3>2. RawGet(c, j) = IF c[j].key = <<"number", 2 * j>> THEN c[j].val ELSE "nil"
      <4> HIDE DEF c
      <4> QED
        BY <1>2, <3>1, ArrayItem
    <3>3. Item(f, j) = RawGet(c, j)
      BY <2>2 DEF Item
    <3>4. c[j].key[1] = "number"
      <4>1. <<"number", 2 * j>>[1] = "number" /\ <<"number", 2 * j + 1>>[1] = "number"
        OBVIOUS
      <4> HIDE DEF c
      <4> QED
        BY <3>1, <4>1
    <3> HIDE DEF c, f
    <3> QED
      BY <2>1, <2>2, <3>2, <3>3, <3>4
  <2>3. CASE ~f.array
    BY <2>1, <2>3 DEF Item
  <2> QED
    BY <2>2, <2>3
<1> QED
  BY <1>1, <1>2, <1>4, <1>6, <1>7, <1>8

(* What a builder's table leads to, in the order of its loop. *)
LEMMA SuccByLoop ==
  ASSUME FInv, NEW k \in 1 .. Len(frames)
  PROVE  LET f == frames[k]  c == heap[f.t] IN
         \A t : t \in Succ(f.b) <=>
                  t \in Tables /\ \E j \in DOMAIN c : HasText(c[j].key) /\ Item(f, j) = t
<1> DEFINE f == frames[k]
           c == heap[f.t]
           L == Lost(f.b)
<1>1. /\ f.t = Source(f.b)
      /\ \A j \in DOMAIN c : /\ HasText(c[j].key) <=> c[j].key[1] \in {"number", "string"}
                             /\ Item(f, j) = IF j \in L THEN "nil" ELSE c[j].val
  BY LoopOfBuilder
<1>2. Kept(f.b) = {j \in DOMAIN c \ L : c[j].key[1] \in {"number", "string"}}
  BY <1>1 DEF Kept
<1>3. Succ(f.b) = {c[j].val : j \in Kept(f.b)} \cap Tables
  BY <1>1 DEF Succ
<1>4. "nil" \notin Tables
  BY TablesAssumption DEF Leaves
<1> HIDE DEF f, c, L
<1>5. \A t : t \in Succ(f.b) <=>
               t \in Tables /\ \E j \in DOMAIN c : HasText(c[j].key) /\ Item(f, j) = t
  BY <1>1, <1>2, <1>3, <1>4
<1> QED
  BY <1>5 DEF f, c

(* A loop that is over has marked what its table leads to. *)
LEMMA LoopClosed ==
  ASSUME FInv, Dealt, NEW k \in 1 .. Len(frames), ~Left(frames[k])
  PROVE  Succ(frames[k].b) \subseteq visited
<1> DEFINE f == frames[k]
<1>1. /\ f \in FrameType /\ f.at <= Len(heap[f.t]) /\ f.at \in Nat /\ f.t \in Tables
  <2>1. frames \in Seq(FrameType) /\ k \in DOMAIN frames
    BY DEF FInv, TypeOK
  <2>2. f \in FrameType /\ f.at <= Len(heap[f.t])
    BY <2>1, ElementType DEF FInv, TypeOK
  <2> QED
    BY <2>2 DEF FrameType
<1>2. heap[f.t] \in Seq([key : Keys, val : Plain \cup Tables])
  BY <1>1, ContentsAssumption DEF FInv, TypeOK
<1>3. DOMAIN heap[f.t] = 1 .. f.at
  BY <1>1, <1>2 DEF Left
<1>4. \A t : t \in Succ(f.b) <=>
               t \in Tables /\ \E j \in DOMAIN heap[f.t] : HasText(heap[f.t][j].key) /\ Item(f, j) = t
  BY SuccByLoop
<1> QED
  BY <1>3, <1>4 DEF Dealt

(* A step that marks nothing and ends no loop. *)
LEMMA SameMarks ==
  ASSUME VInv, Dealt', Open' = Open, ImagesStay,
         UNCHANGED <<heap, status, root, visited>>
  PROVE  VInv'
<1>1. FinishedEmbedded'
  BY DEF VInv, FinishedEmbedded, ImagesStay
<1>2. FinishedClosed' /\ RootClosed' /\ OnlyReachable'
  BY SameSucc DEF VInv, FinishedClosed, RootClosed, OnlyReachable
<1> QED
  BY <1>1, <1>2 DEF VInv

(* A loop that goes on by an entry that leads nowhere new. *)
LEMMA PastMarks ==
  ASSUME FInv, VInv, Running, Left(Top), frames' = Past(frames), ImagesStay,
         UNCHANGED <<heap, status, root, visited>>,
         HasText(Key) /\ Value \in Tables => Value \in visited
  PROVE  VInv'
<1> DEFINE n == Len(frames)
<1>1. /\ n \in Nat \ {0} /\ Top = frames[n] /\ Top.at \in Nat
      /\ Key = heap[Top.t][Top.at + 1].key /\ Value = Item(Top, Top.at + 1)
  BY TopType, LeftEntry DEF FInv
<1>2. /\ Open' = Open /\ Len(frames') = n
      /\ \A k \in 1 .. n : frames'[k].t = frames[k].t /\ frames'[k].array = frames[k].array
      /\ \A k \in 1 .. n - 1 : frames'[k].at = frames[k].at
      /\ frames'[n].at = Top.at + 1
  BY OpenPast
<1>3. ASSUME NEW k \in 1 .. n, NEW j \in 1 .. frames'[k].at,
             HasText(heap[frames[k].t][j].key), Item(frames[k], j) \in Tables
      PROVE  Item(frames[k], j) \in visited
  <2>1. CASE j \in 1 .. frames[k].at
    BY <1>3, <2>1 DEF VInv, Dealt
  <2>2. CASE j \notin 1 .. frames[k].at
    <3>1. k = n
      BY <1>1, <1>2, <2>2
    <3>2. j = Top.at + 1
      BY <1>1, <1>2, <2>2, <3>1
    <3> QED
      BY <1>1, <1>3, <3>1, <3>2
  <2> QED
    BY <2>1, <2>2
<1>4. Dealt'
  BY <1>2, <1>3 DEF Dealt, Item
<1> QED
  BY <1>2, <1>4, SameMarks

LEMMA MarksAppendScalar == ASSUME FInv, VInv, AppendScalar PROVE VInv'
<1>1. ImagesStay
  <2>1. TypeOK
    BY DEF FInv
  <2> QED
    BY <2>1, ScalarAdded, AddEntry DEF ImagesStay
<1>2. Value \notin Tables
  BY NoTables DEF AppendScalar
<1> QED
  BY <1>1, <1>2, PastMarks DEF AppendScalar

LEMMA MarksAppendNothing == ASSUME FInv, VInv, AppendNothing PROVE VInv'
<1>1. ImagesStay
  BY DEF AppendNothing, ImagesStay
<1>2. ~(HasText(Key) /\ Value \in Tables)
  BY TablesAssumption DEF AppendNothing, Plain
<1> QED
  BY <1>1, <1>2, PastMarks DEF AppendNothing

LEMMA MarksSameTable == ASSUME FInv, VInv, SameTable PROVE VInv'
<1>1. ImagesStay
  BY DEF SameTable, ImagesStay
<1> QED
  BY <1>1, PastMarks DEF SameTable

LEMMA MarksEnterTable == ASSUME FInv, VInv, EnterTable PROVE VInv'
<1> DEFINE n == Len(frames)
           t == Value
<1>1. /\ n \in Nat \ {0} /\ t \in Tables \ visited
      /\ Len(frames') = n + 1
      /\ \A k \in 1 .. n - 1 : frames'[k] = frames[k]
      /\ frames'[n].t = Top.t /\ frames'[n].at = Top.at + 1 /\ frames'[n].array = Top.array
      /\ frames'[n + 1].at = 0
  <2>1. Loop(t, t, Dense(heap[t])).at = 0
    BY DEF Loop
  <2> QED
    BY <2>1, EnterFrames DEF FInv
<1>2. visited' = visited \cup {t} /\ Open' = Open \cup {t}
  BY OpenEnter
<1>3. /\ Running /\ Left(Top) /\ HasText(Key)
      /\ UNCHANGED <<heap, status, root, image>>
  BY DEF EnterTable
<1>4. /\ Top = frames[n] /\ Top.at \in Nat /\ Top.t \in Tables
      /\ Top.at + 1 \in 1 .. Len(heap[Top.t])
      /\ Key = heap[Top.t][Top.at + 1].key /\ Value = Item(Top, Top.at + 1)
      /\ heap[Top.t] \in Seq([key : Keys, val : Plain \cup Tables])
  BY <1>3, TopType, LeftEntry, EntryType DEF FInv
<1>5. t \in Succ(Top.b)
  <2>1. Top.at + 1 \in DOMAIN heap[Top.t]
    BY <1>4
  <2>2. HasText(heap[Top.t][Top.at + 1].key) /\ Item(Top, Top.at + 1) = t
    BY <1>3, <1>4
  <2>3. t \in Tables
    BY <1>1
  <2>4. n \in 1 .. n
    BY <1>1
  <2> HIDE DEF t
  <2> QED
    BY <1>4, <2>1, <2>2, <2>3, <2>4, SuccByLoop
<1>6. Top.b = Result \/ Top.b \in visited
  <2>1. n \in Nat \ {0}
    BY <1>1
  <2>2. n = 1 \/ n \in 2 .. n
    <3> HIDE DEF n, t
    <3> QED
      BY <2>1
  <2> QED
    BY <1>3, <1>4, <2>2 DEF FInv, Frames
<1> HIDE DEF n, t
<1>7. ASSUME NEW k \in 1 .. n + 1, NEW j \in 1 .. frames'[k].at,
             HasText(heap[frames'[k].t][j].key), Item(frames'[k], j) \in Tables
      PROVE  Item(frames'[k], j) \in visited \cup {t}
  <2>1. CASE k = n + 1
    BY <1>1, <1>7, <2>1
  <2>2. CASE k = n /\ j = Top.at + 1
    BY <1>1, <1>4, <2>2 DEF t, Item
  <2>3. CASE k = n /\ j # Top.at + 1
    <3>1. j \in 1 .. frames[n].at /\ frames'[n].t = frames[n].t /\ n \in 1 .. n
      BY <1>1, <1>4, <2>3
    <3> QED
      BY <1>1, <1>4, <1>7, <2>3, <3>1 DEF VInv, Dealt, Item, n
  <2>4. CASE k # n /\ k # n + 1
    <3>1. k \in 1 .. n /\ k \in 1 .. n - 1
      BY <1>1, <2>4
    <3>2. frames'[k] = frames[k]
      BY <1>1, <3>1
    <3> QED
      BY <1>7, <3>1, <3>2 DEF VInv, Dealt, n
  <2> QED
    BY <2>1, <2>2, <2>3, <2>4
<1>8. Dealt'
  BY <1>1, <1>2, <1>3, <1>7 DEF Dealt, Item
<1>9. FinishedEmbedded'
  BY <1>2, <1>3 DEF VInv, FinishedEmbedded
<1>10. FinishedClosed' /\ RootClosed'
  BY <1>2, <1>3, SameSucc DEF VInv, FinishedClosed, RootClosed, Running
<1>11. OnlyReachable'
  <2> SUFFICES ASSUME NEW S \in SUBSET Tables, Succ(Result) \subseteq S, Closed(S)
               PROVE  visited' \subseteq S
    BY <1>3, SameSucc DEF OnlyReachable
  <2>1. visited \subseteq S
    BY DEF VInv, OnlyReachable
  <2>2. Succ(Top.b) \subseteq S
    BY <1>6, <2>1 DEF Closed
  <2> QED
    BY <1>2, <1>5, <2>1, <2>2
<1> QED
  BY <1>8, <1>9, <1>10, <1>11 DEF VInv

LEMMA MarksEmbedded == ASSUME FInv, VInv, Embedded PROVE VInv'
<1> DEFINE n == Len(frames)
           t == Top.t
           b == Outer.b
           m == Len(image[b]) + 1
<1>1. /\ n \in Nat \ {0, 1} /\ Top = frames[n]
      /\ Len(frames') = n - 1 /\ \A k \in 1 .. n - 1 : frames'[k] = frames[k]
  BY PopFrames DEF FInv
<1>2. t \in visited /\ Open' = Open \ {t}
  BY OpenPop
<1>3. /\ Running /\ ~Left(Top) /\ UNCHANGED <<heap, status, root, visited>>
  BY DEF Embedded
<1>4. /\ ImagesStay /\ b \in Builders /\ m \in DOMAIN image'[b] /\ image'[b][m].val = t
  <2> DEFINE key == Text(Outer, Outer.at)
             e == [key |-> key, val |-> t]
  <2>1. /\ TypeOK /\ b \in Builders /\ key \in TextKeys /\ t \in Tables
        /\ Add(b, key, t)
    BY TableAdded DEF FInv
  <2>2. e.val = t
    OBVIOUS
  <2>3. ImagesStay /\ m \in DOMAIN image'[b] /\ image'[b][m] = e
    <3> HIDE DEF b, key, t
    <3> QED
      BY <2>1, AddEntry DEF ImagesStay
  <2> QED
    BY <2>1, <2>2, <2>3
<1>5. Succ(t) \subseteq visited
  <2>1. n \in 1 .. n /\ n \in 2 .. n
    BY <1>1
  <2>2. Top.b = t
    BY <1>1, <2>1 DEF FInv, Frames
  <2> QED
    BY <1>1, <1>3, <2>1, <2>2, LoopClosed DEF VInv
<1> HIDE DEF n, t, b, m
<1>6. Dealt'
  <2>1. \A k \in 1 .. n - 1 : k \in 1 .. n
    BY <1>1
  <2> QED
    BY <1>1, <1>3, <2>1 DEF VInv, Dealt, Item, n
<1>7. FinishedEmbedded'
  <2> SUFFICES ASSUME NEW x \in visited \ Open'
               PROVE  \E c \in Builders : \E i \in DOMAIN image'[c] : image'[c][i].val = x
    BY <1>3 DEF FinishedEmbedded
  <2>1. CASE x = t
    BY <1>4, <2>1
  <2>2. CASE x # t
    BY <1>2, <1>3, <1>4, <2>2 DEF VInv, FinishedEmbedded, ImagesStay, Running
  <2> QED
    BY <2>1, <2>2
<1>8. FinishedClosed'
  BY <1>2, <1>3, <1>5, SameSucc DEF VInv, FinishedClosed, Running
<1>9. RootClosed' /\ OnlyReachable'
  BY <1>3, SameSucc DEF VInv, RootClosed, OnlyReachable
<1> QED
  BY <1>6, <1>7, <1>8, <1>9 DEF VInv

LEMMA MarksReturn == ASSUME FInv, VInv, Return PROVE VInv'
<1>1. /\ Running /\ Len(frames) = 1 /\ ~Left(Top) /\ status' = "done" /\ frames' = << >>
      /\ UNCHANGED <<heap, root, visited, image>>
  BY DEF Return
<1>2. Open = {} /\ Open' = {}
  <2>1. 2 .. Len(frames) = {} /\ 2 .. Len(frames') = {}
    <3>1. Len(frames') = 0
      BY <1>1
    <3> QED
      BY <1>1, <3>1
  <2> QED
    BY <2>1 DEF Open
<1>3. Succ(Result) \subseteq visited
  <2>1. 1 \in 1 .. Len(frames) /\ Top = frames[1] /\ frames[1].b = Result
    BY <1>1 DEF Top, FInv, Frames
  <2>2. Dealt
    BY DEF VInv
  <2> QED
    BY <1>1, <2>1, <2>2, LoopClosed
<1>4. Dealt'
  <2>1. 1 .. Len(frames') = {}
    <3>1. Len(frames') = 0
      BY <1>1
    <3> QED
      BY <3>1
  <2> QED
    BY <2>1 DEF Dealt
<1>5. FinishedEmbedded'
  BY <1>1, <1>2 DEF VInv, FinishedEmbedded, Running
<1>6. FinishedClosed' /\ RootClosed' /\ OnlyReachable'
  BY <1>1, <1>2, <1>3, SameSucc DEF VInv, FinishedClosed, RootClosed, OnlyReachable, Running
<1> QED
  BY <1>4, <1>5, <1>6 DEF VInv

LEMMA MarksInvalidObjectId == ASSUME VInv, InvalidObjectId PROVE VInv'
<1>1. /\ status' = "thrown" /\ frames' = << >> /\ UNCHANGED <<heap, root, visited>>
  BY DEF InvalidObjectId
<1>2. 1 .. Len(frames') = {}
  <2>1. Len(frames') = 0
    BY <1>1
  <2> QED
    BY <2>1
<1>3. OnlyReachable'
  BY <1>1, SameSucc DEF VInv, OnlyReachable
<1> QED
  BY <1>1, <1>2, <1>3 DEF VInv, Dealt, FinishedEmbedded, FinishedClosed, RootClosed

LEMMA MarksLuaToBson == ASSUME NEW t \in Tables, LuaToBson(t) PROVE VInv'
<1>1. /\ status' = "running" /\ visited' = {} /\ frames' = <<Loop(Result, t, FALSE)>>
  BY DEF LuaToBson
<1>2. Len(frames') = 1 /\ frames'[1].at = 0
  BY <1>1 DEF Loop
<1>3. \A k \in 1 .. Len(frames') : 1 .. frames'[k].at = {}
  BY <1>2
<1> QED
  BY <1>1, <1>3
  DEF VInv, Dealt, FinishedEmbedded, FinishedClosed, RootClosed, OnlyReachable

LEMMA MarksInit == Init => VInv
<1> SUFFICES ASSUME Init PROVE VInv
  OBVIOUS
<1>1. 1 .. Len(frames) = {} /\ visited = {} /\ status = "idle"
  BY DEF Init
<1> QED
  BY <1>1 DEF VInv, Dealt, FinishedEmbedded, FinishedClosed, RootClosed, OnlyReachable

LEMMA MarksStep == FInv /\ VInv /\ [Next]_vars => VInv'
<1> SUFFICES ASSUME FInv, VInv, [Next]_vars PROVE VInv'
  OBVIOUS
<1>1. CASE Next
  BY <1>1, MarksLuaToBson, MarksAppendScalar, MarksAppendNothing, MarksSameTable,
     MarksEnterTable, MarksInvalidObjectId, MarksEmbedded, MarksReturn DEF Next
<1>2. CASE UNCHANGED vars
  <2>1. Open' = Open /\ ImagesStay /\ UNCHANGED <<heap, status, root, visited, frames>>
    BY <1>2 DEF vars, Open, ImagesStay
  <2>2. Dealt'
    BY <2>1 DEF VInv, Dealt, Item
  <2> QED
    BY <2>1, <2>2, SameMarks
<1> QED
  BY <1>1, <1>2

LEMMA MarksInvariant == Spec => []VInv
  BY FInvariant, MarksInit, MarksStep, PTL DEF Spec

(* When the document is finished the embedded tables are the marked ones. *)
LEMMA FinishedDocument ==
  ASSUME FInv, OInv, VInv, status = "done"
  PROVE  Embeds = visited /\ Open = {}
<1> DEFINE embedded == Embeds
<1>1. Open = {}
  <2>1. Len(frames) < 2
    BY DEF FInv, Frames, Running
  <2> QED
    BY <2>1, NoneOpen
<1>2. visited \subseteq Tables
  BY DEF FInv, TypeOK
<1>3. ASSUME NEW t \in embedded PROVE t \in visited
  BY <1>1, <1>3 DEF OInv, EmbeddedAreFinished, EmbeddedIn, Embeds
<1>4. ASSUME NEW t \in visited PROVE t \in embedded
  BY <1>1, <1>2, <1>4 DEF VInv, FinishedEmbedded, EmbeddedIn, Embeds
<1> QED
  BY <1>1, <1>3, <1>4

(* A finished document embeds exactly the tables that can be reached from the
   one that was passed by entries that are not under a fraction in an array,
   whatever calls came before. *)
THEOREM DocumentsReachAll == Spec => []ReachableEmbedded
<1>1. FInv /\ OInv /\ VInv => ReachableEmbedded
  <2> SUFFICES ASSUME FInv, OInv, VInv, status = "done" PROVE ReachableEmbedded
    BY DEF ReachableEmbedded
  <2>1. Embeds = visited /\ Open = {}
    BY FinishedDocument
  <2>2. Succ(Result) \subseteq visited /\ Closed(visited)
    BY <2>1 DEF VInv, RootClosed, FinishedClosed, Closed
  <2>3. \A S \in SUBSET Tables : Succ(Result) \subseteq S /\ Closed(S) => visited \subseteq S
    BY DEF VInv, OnlyReachable
  <2> QED
    BY <2>1, <2>2, <2>3 DEF ReachableEmbedded
<1> QED
  BY <1>1, FInvariant, OnceInvariant, MarksInvariant, PTL

-----------------------------------------------------------------------------
(* A builder is given what its loop is past, under the right names.          *)

Fields(b) == Wanted(b) \cup Nulls(b)

Faithful == \A b \in Builders : \A i \in DOMAIN image[b] : image[b][i] \in Fields(b)

Leaf(f, j) == [key |-> Text(f, j), val |-> Item(f, j)]

LeavesGiven ==
  \A k \in 1 .. Len(frames) : \A j \in 1 .. frames[k].at :
    (HasText(heap[frames[k].t][j].key) /\ Item(frames[k], j) \in Leaves)
      => Leaf(frames[k], j) \in Given(frames[k].b)

AllGiven(b) == \A e \in Fields(b) : e.val \in Leaves => e \in Given(b)

FinishedGiven == status # "thrown" => \A b \in visited \ Open : AllGiven(b)

RootGiven == status = "done" => AllGiven(Result)

GInv == Faithful /\ LeavesGiven /\ FinishedGiven /\ RootGiven

LEMMA SameFields ==
  ASSUME heap' = heap, root' = root
  PROVE  \A b : Fields(b)' = Fields(b)
<1>1. \A b : /\ Kept(b)' = Kept(b) /\ Lost(b)' = Lost(b)
             /\ Source(b)' = Source(b)
             /\ \A i : Name(b, i)' = Name(b, i)
  BY DEF Kept, Lost, IsArray, Source, Name
<1>2. \A b : Wanted(b)' = Wanted(b) /\ Nulls(b)' = Nulls(b)
  BY <1>1 DEF Wanted, Nulls
<1> QED
  BY <1>2 DEF Fields

LEMMA MoreGiven ==
  ASSUME ImagesStay
  PROVE  \A b \in Builders : Given(b) \subseteq Given(b)'
  BY DEF ImagesStay, Given

(* What a loop reads depends on its table and its form alone. *)
LEMMA SameItem ==
  ASSUME NEW f, NEW g, f.t = g.t, f.array = g.array
  PROVE  \A j : Item(f, j) = Item(g, j)
  BY DEF Item

(* What a builder should be given, as its loop numbers, names and reads it. *)
LEMMA FieldsByLoop ==
  ASSUME FInv, NEW k \in 1 .. Len(frames)
  PROVE  LET c == heap[frames[k].t] IN
         /\ \A j \in DOMAIN c :
              HasText(c[j].key) /\ Item(frames[k], j) \in Leaves \cup Tables =>
                Leaf(frames[k], j) \in Fields(frames[k].b)
         /\ \A e \in Fields(frames[k].b) : \E j \in DOMAIN c :
              HasText(c[j].key) /\ e = Leaf(frames[k], j)
<1> DEFINE f == frames[k]
           b == f.b
           c == heap[f.t]
           L == Lost(b)
           K == Kept(b)
           T(j) == Text(f, j)
           I(j) == Item(f, j)
<1>1. /\ f.t = Source(b)
      /\ c \in Seq([key : Keys, val : Plain \cup Tables])
      /\ \A j \in DOMAIN c : /\ T(j) = Name(b, j)
                             /\ HasText(c[j].key) <=> c[j].key[1] \in {"number", "string"}
                             /\ j \in L => c[j].key[1] = "number"
                             /\ I(j) = IF j \in L THEN "nil" ELSE c[j].val
  BY LoopOfBuilder
<1>2. \A j \in DOMAIN c : c[j].val # "nil" /\ c[j].val \in Plain \cup Tables
  <2>1. DOMAIN c = 1 .. Len(c) /\ \A j \in 1 .. Len(c) : c[j] \in [key : Keys, val : Plain \cup Tables]
    <3>1. c \in Seq([key : Keys, val : Plain \cup Tables])
      BY <1>1
    <3> HIDE DEF c
    <3>2. \A j \in 1 .. Len(c) : c[j] \in [key : Keys, val : Plain \cup Tables]
      BY <3>1, ElementType
    <3> QED
      BY <3>1, <3>2
  <2>2. "nil" \notin Plain \cup Tables
    BY TablesAssumption DEF Plain, Leaves
  <2> HIDE DEF c
  <2> QED
    BY <2>1, <2>2
<1>3. L \subseteq DOMAIN c
  BY <1>1 DEF Lost
<1>4. K = {j \in DOMAIN c \ L : c[j].key[1] \in {"number", "string"}}
  BY <1>1 DEF Kept
<1>5. \A e : e \in Wanted(b) <=>
               \E j \in K : c[j].val \in {"scalar"} \cup Tables /\ e = [key |-> Name(b, j), val |-> c[j].val]
  BY <1>1 DEF Wanted
<1>6. \A e : e \in Nulls(b) <=> \E j \in L : e = [key |-> Name(b, j), val |-> "nil"]
  BY DEF Nulls
<1>7. "scalar" \in Leaves /\ "nil" \in Leaves /\ \A x \in Leaves : x = "scalar" \/ x = "nil"
  BY DEF Leaves
<1>8. \A j : Leaf(f, j) = [key |-> T(j), val |-> I(j)]
  BY DEF Leaf
<1> HIDE DEF f, b, c, L, K, T, I
<1>9. ASSUME NEW j \in DOMAIN c, HasText(c[j].key), I(j) \in Leaves \cup Tables
      PROVE  Leaf(f, j) \in Fields(b)
  <2>1. CASE j \in L
    BY <1>1, <1>6, <1>8, <2>1 DEF Fields
  <2>2. CASE j \notin L
    <3>1. j \in K /\ I(j) = c[j].val /\ c[j].val \in {"scalar"} \cup Tables
      BY <1>1, <1>2, <1>4, <1>7, <1>9, <2>2
    <3> QED
      BY <1>1, <1>5, <1>8, <3>1 DEF Fields
  <2> QED
    BY <2>1, <2>2
<1>10. ASSUME NEW e \in Fields(b)
       PROVE  \E j \in DOMAIN c : HasText(c[j].key) /\ e = Leaf(f, j)
  <2>1. CASE e \in Wanted(b)
    <3>1. PICK j \in K : e = [key |-> Name(b, j), val |-> c[j].val]
      BY <1>5, <2>1
    <3>2. j \in DOMAIN c /\ j \notin L /\ c[j].key[1] \in {"number", "string"}
      BY <1>4
    <3> QED
      BY <1>1, <1>8, <3>1, <3>2
  <2>2. CASE e \in Nulls(b)
    <3>1. PICK j \in L : e = [key |-> Name(b, j), val |-> "nil"]
      BY <1>6, <2>2
    <3>2. j \in DOMAIN c /\ HasText(c[j].key)
      BY <1>1, <1>3
    <3> QED
      BY <1>1, <1>8, <3>1, <3>2
  <2> QED
    BY <2>1, <2>2 DEF Fields
<1> QED
  BY <1>9, <1>10 DEF f, b, c, I

(* A loop that is over has given its builder all leaves. *)
LEMMA LoopGave ==
  ASSUME FInv, LeavesGiven, NEW k \in 1 .. Len(frames), ~Left(frames[k])
  PROVE  AllGiven(frames[k].b)
<1> DEFINE f == frames[k]
           c == heap[f.t]
<1>1. DOMAIN c = 1 .. f.at
  <2>1. frames \in Seq(FrameType) /\ k \in DOMAIN frames
    BY DEF FInv, TypeOK
  <2>2. f \in FrameType /\ f.at <= Len(c)
    <3>1. frames[k] \in FrameType
      BY <2>1, ElementType
    <3> QED
      BY <2>1, <3>1 DEF FInv, TypeOK
  <2>3. f.at \in Nat /\ f.t \in Tables
    BY <2>2 DEF FrameType
  <2>4. c \in Seq([key : Keys, val : Plain \cup Tables])
    BY <2>3, ContentsAssumption DEF FInv, TypeOK
  <2> QED
    BY <2>2, <2>3, <2>4 DEF Left
<1>2. ASSUME NEW e \in Fields(f.b), e.val \in Leaves
      PROVE  e \in Given(f.b)
  <2>1. PICK j \in DOMAIN c : HasText(c[j].key) /\ e = Leaf(f, j)
    BY FieldsByLoop
  <2>2. Item(f, j) \in Leaves
    BY <1>2, <2>1 DEF Leaf
  <2> QED
    BY <1>1, <2>1, <2>2 DEF LeavesGiven
<1> QED
  BY <1>2 DEF AllGiven

(* A step that marks nothing, ends no loop and takes nothing back. *)
LEMMA SameGiven ==
  ASSUME FInv, GInv, Faithful', LeavesGiven', Open' = Open, ImagesStay,
         UNCHANGED <<heap, status, root, visited>>
  PROVE  GInv'
<1>1. \A b \in Builders : AllGiven(b) => AllGiven(b)'
  BY SameFields, MoreGiven DEF AllGiven
<1>2. visited \subseteq Builders /\ Result \in Builders
  BY DEF FInv, TypeOK, Builders
<1>3. FinishedGiven' /\ RootGiven'
  BY <1>1, <1>2 DEF GInv, FinishedGiven, RootGiven
<1> QED
  BY <1>3 DEF GInv

LEMMA FrameBuilders ==
  ASSUME FInv
  PROVE  \A k \in 1 .. Len(frames) : frames[k].b \in Builders
<1>1. frames \in Seq(FrameType)
  BY DEF FInv, TypeOK
<1>2. \A k \in 1 .. Len(frames) : frames[k] \in FrameType
  BY <1>1, ElementType
<1> QED
  BY <1>2 DEF FrameType

(* What a loop has seen to stays seen to. *)
LEMMA StillGiven ==
  ASSUME FInv, GInv, ImagesStay,
         NEW k \in 1 .. Len(frames), NEW j \in 1 .. frames[k].at,
         HasText(heap[frames[k].t][j].key), Item(frames[k], j) \in Leaves,
         NEW c \in Builders, c = frames[k].b
  PROVE  Leaf(frames[k], j) \in Given(c)'
<1>1. Leaf(frames[k], j) \in Given(c)
  BY DEF GInv, LeavesGiven
<1> QED
  BY <1>1, MoreGiven

LEMMA PastGiven ==
  ASSUME FInv, GInv, Running, Left(Top), frames' = Past(frames), ImagesStay, Faithful',
         UNCHANGED <<heap, status, root, visited>>,
         \A c \in Builders : (c = Top.b /\ HasText(Key) /\ Value \in Leaves)
           => Leaf(Top, Top.at + 1) \in Given(c)'
  PROVE  GInv'
<1> DEFINE n == Len(frames)
<1>1. /\ n \in Nat \ {0} /\ Top = frames[n] /\ Top.at \in Nat
      /\ Key = heap[Top.t][Top.at + 1].key /\ Value = Item(Top, Top.at + 1)
  BY TopType, LeftEntry DEF FInv
<1>2. /\ Open' = Open /\ Len(frames') = n
      /\ \A k \in 1 .. n : frames'[k].t = frames[k].t /\ frames'[k].b = frames[k].b
                           /\ frames'[k].array = frames[k].array
      /\ \A k \in 1 .. n - 1 : frames'[k].at = frames[k].at
      /\ frames'[n].at = Top.at + 1
  BY OpenPast
<1>3. ASSUME NEW k \in 1 .. n, NEW j \in 1 .. frames'[k].at,
             HasText(heap[frames[k].t][j].key), Item(frames[k], j) \in Leaves,
             NEW c \in Builders, c = frames[k].b
      PROVE  Leaf(frames[k], j) \in Given(c)'
  <2>1. CASE j \in 1 .. frames[k].at
    BY <1>3, <2>1, StillGiven
  <2>2. CASE j \notin 1 .. frames[k].at
    <3>1. k = n
      BY <1>1, <1>2, <2>2
    <3>2. j = Top.at + 1
      BY <1>1, <1>2, <2>2, <3>1
    <3> QED
      BY <1>1, <1>3, <3>1, <3>2
  <2> QED
    BY <2>1, <2>2
<1>4. \A k \in 1 .. n : frames[k].b \in Builders
  BY FrameBuilders
<1>5. LeavesGiven'
  <2> SUFFICES ASSUME NEW k \in 1 .. n, NEW j \in 1 .. frames'[k].at,
                      HasText(heap[frames[k].t][j].key), Item(frames[k], j) \in Leaves
               PROVE  Leaf(frames[k], j)' \in Given(frames[k].b)'
    BY <1>2 DEF LeavesGiven, Item
  <2>1. \A c \in Builders : c = frames[k].b => Leaf(frames[k], j) \in Given(c)'
    BY <1>3
  <2>2. frames[k].b \in Builders /\ frames'[k].b = frames[k].b
    BY <1>2, <1>4
  <2>3. Leaf(frames[k], j)' = Leaf(frames[k], j)
    BY <1>2 DEF Leaf, Text, Item
  <2> QED
    BY <2>1, <2>2, <2>3 DEF Given
<1> QED
  BY <1>2, <1>5, SameGiven DEF GInv

LEMMA GivenAppendScalar ==
  ASSUME FInv, GInv, AppendScalar
  PROVE  GInv'
<1> DEFINE b == Top.b
           j == Top.at + 1
           m == Len(image[b]) + 1
           n == Len(frames)
<1>1. /\ ImagesStay
      /\ m \in DOMAIN image'[b] /\ image'[b][m] = Leaf(Top, j)
      /\ \A c \in Builders : \A i \in DOMAIN image'[c] :
           i \in DOMAIN image[c] \/ (c = b /\ i = m)
  <2> DEFINE key == Text(Top, j)
             val == Value
             e == [key |-> key, val |-> val]
  <2>1. /\ TypeOK /\ b \in Builders /\ key \in TextKeys /\ val \in Leaves
        /\ Add(b, key, val)
    BY ScalarAdded DEF FInv
  <2>2. e = Leaf(Top, j)
    BY LeftEntry DEF Leaf, AppendScalar, FInv
  <2>3. /\ \A c \in Builders : \A i \in DOMAIN image[c] :
               i \in DOMAIN image'[c] /\ image'[c][i] = image[c][i]
        /\ m \in DOMAIN image'[b] /\ image'[b][m] = e
        /\ \A c \in Builders : \A i \in DOMAIN image'[c] :
             i \in DOMAIN image[c] \/ (c = b /\ i = m)
    <3> HIDE DEF b, key, val
    <3> QED
      BY <2>1, AddEntry
  <2> QED
    BY <2>2, <2>3 DEF ImagesStay
<1>2. /\ Running /\ Left(Top) /\ frames' = Past(frames)
      /\ HasText(Key) /\ Value \in Leaves
      /\ UNCHANGED <<heap, status, root, visited>>
  BY DEF AppendScalar
<1>3. n \in Nat \ {0} /\ Top = frames[n] /\ Top.t \in Tables
      /\ Key = heap[Top.t][j].key /\ Value = Item(Top, j)
      /\ j \in 1 .. Len(heap[Top.t])
  BY <1>2, TopType, LeftEntry DEF FInv
<1>4. Leaf(Top, j) \in Fields(b)
  <2> DEFINE c == heap[frames[n].t]
  <2>1. n \in 1 .. Len(frames)
    BY <1>3
  <2>2. j \in DOMAIN c
    BY <1>3, EntryType DEF FInv
  <2>3. HasText(c[j].key) /\ Item(frames[n], j) \in Leaves \cup Tables
    BY <1>2, <1>3
  <2>4. \A i \in DOMAIN c : HasText(c[i].key) /\ Item(frames[n], i) \in Leaves \cup Tables =>
           Leaf(frames[n], i) \in Fields(frames[n].b)
    <3> HIDE DEF n
    <3> QED
      BY <2>1, FieldsByLoop
  <2>5. Leaf(frames[n], j) \in Fields(frames[n].b)
    <3> HIDE DEF n, j, c
    <3> QED
      BY <2>2, <2>3, <2>4
  <2> QED
    BY <1>3, <2>5
<1> HIDE DEF b, m, j
<1>5. Faithful'
  <2>1. \A c \in Builders : \A i \in DOMAIN image'[c] : image'[c][i] \in Fields(c)
    BY <1>1, <1>4 DEF GInv, Faithful, ImagesStay
  <2> QED
    BY <1>2, <2>1, SameFields DEF Faithful
<1>6. \A c \in Builders : c = b => Leaf(Top, j) \in Given(c)'
  BY <1>1 DEF Given
<1>7. \A c \in Builders : (c = Top.b /\ HasText(Key) /\ Value \in Leaves)
           => Leaf(Top, Top.at + 1) \in Given(c)'
  BY <1>6 DEF b, j
<1> QED
  BY <1>1, <1>2, <1>5, <1>7, PastGiven

(* A step that gives no builder anything. *)
LEMMA NothingGiven ==
  ASSUME FInv, GInv, Running, Left(Top), frames' = Past(frames),
         UNCHANGED <<heap, status, root, visited, image>>,
         ~(HasText(Key) /\ Value \in Leaves)
  PROVE  GInv'
<1>1. ImagesStay
  BY DEF ImagesStay
<1>2. Faithful'
  BY SameFields DEF GInv, Faithful
<1> QED
  BY <1>1, <1>2, PastGiven

LEMMA GivenAppendNothing == ASSUME FInv, GInv, AppendNothing PROVE GInv'
<1>1. ~(HasText(Key) /\ Value \in Leaves)
  BY DEF AppendNothing, Leaves
<1> QED
  BY <1>1, NothingGiven DEF AppendNothing

LEMMA GivenSameTable == ASSUME FInv, GInv, SameTable PROVE GInv'
<1>1. Value \notin Leaves
  BY NoTables DEF SameTable, FInv, TypeOK
<1> QED
  BY <1>1, NothingGiven DEF SameTable

LEMMA GivenEnterTable == ASSUME FInv, GInv, EnterTable PROVE GInv'
<1> DEFINE n == Len(frames)
           t == Value
           at1 == Top.at + 1
<1>1. /\ n \in Nat \ {0} /\ Top = frames[n] /\ Top.at \in Nat
      /\ Value = Item(Top, at1)
  BY TopType, LeftEntry DEF FInv, EnterTable
<1>2. /\ Len(frames') = n + 1 /\ \A k \in 1 .. n - 1 : frames'[k] = frames[k]
      /\ frames'[n].b = Top.b /\ frames'[n].t = Top.t
      /\ frames'[n].array = Top.array /\ frames'[n].at = at1
      /\ frames'[n + 1].at = 0
  BY EnterFrames DEF FInv, Loop
<1>3. t \notin Leaves
  BY NoTables DEF EnterTable
<1>4. ImagesStay /\ UNCHANGED <<heap, status, root, image>>
  BY DEF EnterTable, ImagesStay
<1>5. Faithful'
  BY <1>4, SameFields DEF GInv, Faithful
<1>6. visited' \ Open' = visited \ Open
  BY OpenEnter, OpenMarked
<1>7. LeavesGiven'
  <2> SUFFICES ASSUME NEW k \in 1 .. n + 1, NEW j \in 1 .. frames'[k].at,
                      HasText(heap[frames'[k].t][j].key), Item(frames'[k], j) \in Leaves
               PROVE  Leaf(frames[k], j)' \in Given(frames[k].b)'
    BY <1>2, <1>4 DEF LeavesGiven, Item
  <2> HIDE DEF n, t, at1
  <2>1. k \in 1 .. n /\ j \in 1 .. frames[k].at
    <3>1. k # n + 1
      BY <1>2
    <3>2. k \in 1 .. n
      BY <1>1, <3>1
    <3>3. CASE k = n
      <4>1. Item(frames'[n], at1) = t
        BY <1>1, <1>2, SameItem DEF t
      <4>2. j \in 1 .. at1 /\ j # at1
        BY <1>2, <1>3, <3>3, <4>1
      <4> QED
        BY <1>1, <3>2, <3>3, <4>2 DEF at1
    <3>4. CASE k # n
      BY <1>1, <1>2, <3>2, <3>4
    <3> QED
      BY <3>3, <3>4
  <2>2. frames'[k].t = frames[k].t /\ frames'[k].b = frames[k].b
        /\ frames'[k].array = frames[k].array
    BY <1>1, <1>2, <2>1
  <2>3. Leaf(frames[k], j)' = Leaf(frames[k], j)
    BY <1>4, <2>2 DEF Leaf, Text, Item
  <2>4. Item(frames[k], j) \in Leaves
    BY <2>2, SameItem
  <2>5. Leaf(frames[k], j) \in Given(frames[k].b)
    BY <2>1, <2>2, <2>4 DEF n, GInv, LeavesGiven
  <2> QED
    BY <1>4, <2>2, <2>3, <2>5 DEF Given
<1>8. \A b \in Builders : AllGiven(b) => AllGiven(b)'
  BY <1>4, SameFields, MoreGiven DEF AllGiven
<1>9. visited \subseteq Builders /\ Result \in Builders
  BY DEF FInv, TypeOK, Builders
<1>10. FinishedGiven' /\ RootGiven'
  BY <1>4, <1>6, <1>8, <1>9 DEF GInv, FinishedGiven, RootGiven
<1> QED
  BY <1>5, <1>7, <1>10 DEF GInv

LEMMA GivenEmbedded == ASSUME FInv, GInv, Embedded PROVE GInv'
<1> DEFINE n == Len(frames)
           b == Outer.b
           t == Top.t
           j == Outer.at
           m == Len(image[b]) + 1
           e == [key |-> Text(Outer, j), val |-> t]
<1>1. /\ n \in Nat \ {0, 1} /\ Top = frames[n] /\ Outer = frames[n - 1]
      /\ j \in 1 .. Len(heap[Outer.t]) /\ HasText(heap[Outer.t][j].key)
      /\ Item(Outer, j) = t /\ t \in Tables /\ b \in Builders
      /\ Outer \in FrameType
      /\ Len(frames') = n - 1 /\ \A k \in 1 .. n - 1 : frames'[k] = frames[k]
  BY PopFrames DEF FInv
<1>2. /\ ImagesStay
      /\ m \in DOMAIN image'[b] /\ image'[b][m] = e
      /\ \A c \in Builders : \A i \in DOMAIN image'[c] :
           i \in DOMAIN image[c] \/ (c = b /\ i = m)
  <2> DEFINE key == Text(Outer, j)
  <2>1. TypeOK /\ b \in Builders /\ key \in TextKeys /\ t \in Tables /\ Add(b, key, t)
    BY TableAdded DEF FInv
  <2>2. /\ \A c \in Builders : \A i \in DOMAIN image[c] :
               i \in DOMAIN image'[c] /\ image'[c][i] = image[c][i]
        /\ m \in DOMAIN image'[b] /\ image'[b][m] = [key |-> key, val |-> t]
        /\ \A c \in Builders : \A i \in DOMAIN image'[c] :
             i \in DOMAIN image[c] \/ (c = b /\ i = m)
    <3> HIDE DEF b, key, t
    <3> QED
      BY <2>1, AddEntry
  <2> QED
    BY <2>2 DEF ImagesStay
<1>3. status = "running" /\ ~Left(Top) /\ UNCHANGED <<heap, status, root, visited>>
  BY DEF Embedded, Running
<1>4. e \in Fields(b)
  <2> DEFINE k == n - 1
             c == heap[frames[k].t]
  <2>1. k \in 1 .. Len(frames)
    BY <1>1
  <2>2. j \in DOMAIN c /\ HasText(c[j].key) /\ Item(frames[k], j) = t
    <3>1. Outer.t \in Tables
      BY <1>1 DEF FrameType
    <3>2. heap[Outer.t] \in Seq([key : Keys, val : Plain \cup Tables])
      BY <3>1, ContentsAssumption DEF FInv, TypeOK
    <3>3. DOMAIN heap[Outer.t] = 1 .. Len(heap[Outer.t])
      BY <3>2
    <3>4. c = heap[Outer.t]
      BY <1>1
    <3> HIDE DEF c, j
    <3> QED
      BY <1>1, <3>3, <3>4
  <2>3. \A i \in DOMAIN c : HasText(c[i].key) /\ Item(frames[k], i) \in Leaves \cup Tables =>
           Leaf(frames[k], i) \in Fields(frames[k].b)
    <3> HIDE DEF k
    <3> QED
      BY <2>1, FieldsByLoop
  <2>4. Leaf(frames[k], j) \in Fields(frames[k].b)
    <3>1. t \in Leaves \cup Tables
      BY <1>1
    <3> HIDE DEF k, j, c, t
    <3> QED
      BY <2>2, <2>3, <3>1
  <2>5. Leaf(frames[k], j) = e
    BY <1>1, <2>2 DEF Leaf
  <2> QED
    BY <1>1, <2>4, <2>5
<1>5. AllGiven(t)
  <2>1. n \in 1 .. Len(frames) /\ n \in 2 .. Len(frames)
    BY <1>1
  <2>2. frames[n].b = t
    BY <1>1, <2>1 DEF FInv, Frames
  <2>3. LeavesGiven /\ ~Left(frames[n])
    BY <1>1, <1>3 DEF GInv
  <2> HIDE DEF n, t
  <2>4. AllGiven(frames[n].b)
    BY <2>1, <2>3, LoopGave
  <2> QED
    BY <2>2, <2>4
<1>6. visited' \ Open' \subseteq (visited \ Open) \cup {t}
  BY <1>3, OpenPop
<1> HIDE DEF b, m, j, e, t
<1>7. Faithful'
  <2>1. \A c \in Builders : \A i \in DOMAIN image'[c] : image'[c][i] \in Fields(c)
    BY <1>2, <1>4 DEF GInv, Faithful, ImagesStay
  <2> QED
    BY <1>3, <2>1, SameFields DEF Faithful
<1>8. LeavesGiven'
  <2> SUFFICES ASSUME NEW k \in 1 .. n - 1, NEW i \in 1 .. frames'[k].at,
                      HasText(heap[frames'[k].t][i].key), Item(frames'[k], i) \in Leaves
               PROVE  Leaf(frames[k], i)' \in Given(frames[k].b)'
    BY <1>1, <1>3 DEF LeavesGiven, Item
  <2>1. frames'[k] = frames[k] /\ k \in 1 .. n
    BY <1>1
  <2>2. Leaf(frames[k], i)' = Leaf(frames[k], i)
    BY <1>3, <2>1 DEF Leaf, Text, Item
  <2>3. frames[k].b \in Builders
    BY <2>1, FrameBuilders
  <2>4. \A c \in Builders : c = frames[k].b => Leaf(frames[k], i) \in Given(c)'
    BY <1>2, <2>1, StillGiven, SameItem
  <2> QED
    BY <2>1, <2>2, <2>3, <2>4 DEF Given
<1>9. \A c \in Builders : AllGiven(c) => AllGiven(c)'
  BY <1>2, <1>3, SameFields, MoreGiven DEF AllGiven
<1>10. visited \subseteq Builders /\ t \in Builders
  BY <1>1 DEF FInv, TypeOK, Builders
<1>11. FinishedGiven'
  BY <1>3, <1>5, <1>6, <1>9, <1>10 DEF GInv, FinishedGiven
<1>12. RootGiven'
  BY <1>3 DEF RootGiven
<1> QED
  BY <1>7, <1>8, <1>11, <1>12 DEF GInv

LEMMA GivenReturn == ASSUME FInv, GInv, Return PROVE GInv'
<1>1. /\ status = "running" /\ status' = "done" /\ frames' = << >> /\ Len(frames) = 1
      /\ UNCHANGED <<heap, root, visited, image>>
  BY DEF Return, Running
<1>2. AllGiven(Result)
  <2>1. 1 \in 1 .. Len(frames) /\ frames[1].b = Result /\ ~Left(frames[1])
    BY <1>1 DEF FInv, Frames, Return, Running, Top
  <2>2. AllGiven(frames[1].b)
    BY <2>1, LoopGave DEF GInv
  <2> QED
    BY <2>1, <2>2
<1>3. \A c \in Builders : AllGiven(c) => AllGiven(c)'
  BY <1>1, SameFields DEF AllGiven, Given
<1>4. visited \subseteq Builders /\ Result \in Builders
  BY DEF FInv, TypeOK, Builders
<1>5. Open = {} /\ Len(frames') = 0
  BY <1>1, NoneOpen
<1>6. FinishedGiven' /\ RootGiven'
  BY <1>1, <1>2, <1>3, <1>4, <1>5 DEF GInv, FinishedGiven, RootGiven
<1>7. Faithful'
  BY <1>1, SameFields DEF GInv, Faithful
<1>8. LeavesGiven'
  BY <1>5 DEF LeavesGiven
<1> QED
  BY <1>6, <1>7, <1>8 DEF GInv

LEMMA GivenInvalidObjectId == ASSUME GInv, InvalidObjectId PROVE GInv'
<1>1. status' = "thrown" /\ Len(frames') = 0 /\ UNCHANGED <<heap, root, image>>
  BY DEF InvalidObjectId
<1>2. Faithful'
  BY <1>1, SameFields DEF GInv, Faithful
<1>3. LeavesGiven'
  BY <1>1 DEF LeavesGiven
<1> QED
  BY <1>1, <1>2, <1>3 DEF GInv, FinishedGiven, RootGiven

LEMMA GivenLuaToBson == ASSUME NEW t \in Tables, LuaToBson(t) PROVE GInv'
<1>1. /\ status' = "running" /\ visited' = {} /\ frames' = <<Loop(Result, t, FALSE)>>
      /\ \A b \in Builders : image'[b] = << >>
  BY DEF LuaToBson
<1>2. Len(frames') = 1 /\ \A k \in 1 .. Len(frames') : 1 .. frames'[k].at = {}
  BY <1>1 DEF Loop
<1>3. \A b \in Builders : DOMAIN image'[b] = {}
  BY <1>1
<1> QED
  BY <1>1, <1>2, <1>3 DEF GInv, Faithful, LeavesGiven, FinishedGiven, RootGiven

LEMMA GivenInit == Init => GInv
<1> SUFFICES ASSUME Init PROVE GInv
  OBVIOUS
<1>1. 1 .. Len(frames) = {} /\ visited = {} /\ status = "idle"
      /\ \A b \in Builders : image[b] = << >>
  BY DEF Init
<1>2. \A b \in Builders : DOMAIN image[b] = {}
  BY <1>1
<1> QED
  BY <1>1, <1>2 DEF GInv, Faithful, LeavesGiven, FinishedGiven, RootGiven

LEMMA GivenStep == FInv /\ GInv /\ [Next]_vars => GInv'
<1> SUFFICES ASSUME FInv, GInv, [Next]_vars PROVE GInv'
  OBVIOUS
<1>1. CASE Next
  BY <1>1, GivenLuaToBson, GivenAppendScalar, GivenAppendNothing, GivenSameTable,
     GivenEnterTable, GivenInvalidObjectId, GivenEmbedded, GivenReturn DEF Next
<1>2. CASE UNCHANGED vars
  <2>1. Open' = Open /\ ImagesStay /\ UNCHANGED <<heap, status, root, visited, frames, image>>
    BY <1>2 DEF vars, Open, ImagesStay
  <2>2. Faithful'
    BY <2>1, SameFields DEF GInv, Faithful
  <2>3. LeavesGiven'
    BY <2>1 DEF GInv, LeavesGiven, Leaf, Text, Item, Given
  <2> QED
    BY <2>1, <2>2, <2>3, SameGiven
<1> QED
  BY <1>1, <1>2

LEMMA GivenInvariant == Spec => []GInv
  BY FInvariant, GivenInit, GivenStep, PTL DEF Spec

(* A finished document holds the entries of the tables it embeds under the
   names they should have, and lacks none but references to tables that it
   embeds elsewhere and what an array had under fractions. *)
THEOREM DocumentsLoseNothing == Spec => []OnlyFractionsLost
<1>1. FInv /\ OInv /\ VInv /\ GInv => OnlyFractionsLost
  <2> SUFFICES ASSUME FInv, OInv, VInv, GInv, status = "done",
                      NEW b \in {Result} \cup Embeds
               PROVE  /\ Nulls(b) \subseteq Given(b)
                      /\ Given(b) \subseteq Wanted(b) \cup Nulls(b)
                      /\ \A e \in Wanted(b) \ Given(b) : e.val \in Embeds
    BY DEF OnlyFractionsLost
  <2>1. Embeds = visited /\ Open = {}
    BY FinishedDocument
  <2>2. b \in Builders
    BY <2>1 DEF FInv, TypeOK, Builders
  <2>3. AllGiven(b)
    BY <2>1 DEF GInv, FinishedGiven, RootGiven
  <2>4. Succ(b) \subseteq visited
    BY <2>1 DEF VInv, RootClosed, FinishedClosed
  <2>5. Given(b) \subseteq Fields(b)
    BY <2>2 DEF GInv, Faithful, Given
  <2>6. Nulls(b) \subseteq Given(b)
    <3>1. \A e \in Nulls(b) : e.val \in Leaves
      BY DEF Nulls, Leaves
    <3> QED
      BY <2>3, <3>1 DEF AllGiven, Fields
  <2>7. ASSUME NEW e \in Wanted(b), e \notin Given(b)
        PROVE  e.val \in Embeds
    <3>1. e.val # "scalar"
      BY <2>3, <2>7 DEF AllGiven, Fields, Leaves
    <3>2. e.val \in Succ(b)
      BY <3>1 DEF Wanted, Succ
    <3> QED
      BY <2>1, <2>4, <3>2
  <2> QED
    BY <2>5, <2>6, <2>7 DEF Fields
<1> QED
  BY <1>1, FInvariant, OnceInvariant, MarksInvariant, GivenInvariant, PTL

-----------------------------------------------------------------------------
(* A conversion ends.                                                       *)

(* The entries that loops have still to deal with, by the builder they would be
   given to: of every table that is not marked, and of the loops in progress. *)
Ahead ==
  {e \in Builders \X Nat :
    \/ e[1] \in Tables \ visited /\ e[2] \in 1 .. Len(heap[e[1]])
    \/ \E k \in DOMAIN frames :
         frames[k].b = e[1] /\ e[2] \in frames[k].at + 1 .. Len(heap[frames[k].t])}

(* Each of them takes two steps at most, and each loop one to be left. *)
Budget == 2 * Cardinality(Ahead) + Len(frames)

LEMMA AheadFinite ==
  ASSUME FInv
  PROVE  IsFiniteSet(Ahead) /\ Cardinality(Ahead) \in Nat
<1> DEFINE P == Builders \X Tables
           part(p) == {p[1]} \X (1 .. Len(heap[p[2]]))
           f == [p \in P |-> part(p)]
           Parts == {part(p) : p \in P}
<1>1. IsFiniteSet(P)
  <2>1. IsFiniteSet(Builders)
    BY FinitelyManyTables, FS_AddElement DEF Builders
  <2> QED
    BY <2>1, FinitelyManyTables, FS_Product
<1>2. IsFiniteSet(Parts)
  <2>1. f \in Surjection(P, Parts)
    BY DEF Surjection
  <2> QED
    BY <1>1, <2>1, FS_Surjection
<1>3. \A S \in Parts : IsFiniteSet(S)
  <2> SUFFICES ASSUME NEW b \in Builders, NEW t \in Tables
               PROVE  IsFiniteSet({b} \X (1 .. Len(heap[t])))
    OBVIOUS
  <2>1. Len(heap[t]) \in Nat
    BY ContentsAssumption DEF FInv, TypeOK
  <2>2. IsFiniteSet({b})
    BY FS_Singleton
  <2>3. 1 \in Int /\ Len(heap[t]) \in Int
    BY <2>1
  <2>4. IsFiniteSet(1 .. Len(heap[t]))
    BY <2>3, FS_Interval
  <2> QED
    BY <2>2, <2>4, FS_Product
<1>4. Ahead \subseteq UNION Parts
  <2> SUFFICES ASSUME NEW e \in Ahead PROVE e \in UNION Parts
    OBVIOUS
  <2>1. e \in Builders \X Nat
    BY DEF Ahead
  <2>2. PICK t \in Tables : e[2] \in 1 .. Len(heap[t])
    <3>1. CASE e[1] \in Tables /\ e[2] \in 1 .. Len(heap[e[1]])
      BY <3>1
    <3>2. ASSUME NEW k \in DOMAIN frames, e[2] \in frames[k].at + 1 .. Len(heap[frames[k].t])
          PROVE  \E t \in Tables : e[2] \in 1 .. Len(heap[t])
      <4>1. frames[k].t \in Tables /\ frames[k].at \in Nat
        <5>1. frames \in Seq(FrameType)
          BY DEF FInv, TypeOK
        <5>2. frames[k] \in FrameType
          BY <5>1, ElementType
        <5> QED
          BY <5>2 DEF FrameType
      <4>2. Len(heap[frames[k].t]) \in Nat
        BY <4>1, ContentsAssumption DEF FInv, TypeOK
      <4> QED
        BY <3>2, <4>1, <4>2
    <3> QED
      BY <3>1, <3>2 DEF Ahead
  <2>3. e \in part(<<e[1], t>>) /\ <<e[1], t>> \in P
    BY <2>1, <2>2
  <2> QED
    BY <2>3
<1> HIDE DEF P, f, Parts
<1> QED
  BY <1>2, <1>3, <1>4, FS_UNION, FS_Subset, FS_CardinalityType

(* With one entry fewer ahead, the budget is lower by two, which is more than
   what a loop that was entered adds. *)
LEMMA OneFewerAhead ==
  ASSUME FInv, FInv', Ahead' \subseteq Ahead, NEW e \in Ahead, e \notin Ahead',
         Len(frames') <= Len(frames) + 1
  PROVE  Budget' < Budget
<1>1. /\ IsFiniteSet(Ahead) /\ Cardinality(Ahead) \in Nat /\ Cardinality(Ahead') \in Nat
      /\ Len(frames) \in Nat /\ Len(frames') \in Nat
  <2>1. (IsFiniteSet(Ahead) /\ Cardinality(Ahead) \in Nat)'
    BY AheadFinite, PTL
  <2> QED
    BY <2>1, AheadFinite DEF FInv, TypeOK
<1>2. IsFiniteSet(Ahead \ {e}) /\ Cardinality(Ahead \ {e}) = Cardinality(Ahead) - 1
  BY <1>1, FS_RemoveElement
<1>3. Cardinality(Ahead') <= Cardinality(Ahead \ {e})
  BY <1>2, FS_Subset
<1> QED
  BY <1>1, <1>2, <1>3 DEF Budget

(* Each builder belongs to one loop at most, and to none while its table is
   not marked. *)
LEMMA OneLoopPerBuilder ==
  ASSUME FInv, NEW k \in DOMAIN frames
  PROVE  /\ frames[k].b \notin Tables \ visited
         /\ \A l \in DOMAIN frames : frames[l].b = frames[k].b => l = k
<1>1. DOMAIN frames = 1 .. Len(frames) /\ Len(frames) \in Nat
  BY DEF FInv, TypeOK
<1>2. frames[1].b = Result /\ Result \notin Tables
  BY <1>1, TablesAssumption DEF FInv, Frames
<1>3. \A l \in DOMAIN frames : l = 1 \/ l \in 2 .. Len(frames)
  BY <1>1
<1>4. \A l \in 2 .. Len(frames) : /\ frames[l].b = frames[l].t /\ frames[l].t \in visited
                                 /\ frames[l].t \in Tables
  BY <1>1 DEF FInv, Frames, TypeOK
<1>5. \A l, m \in 2 .. Len(frames) : frames[l].t = frames[m].t => l = m
  BY DEF FInv, Frames
<1> QED
  BY <1>2, <1>3, <1>4, <1>5

(* The innermost loop goes on by one entry. *)
LEMMA PastAhead ==
  ASSUME FInv, Running, Left(Top), UNCHANGED <<heap, visited>>, frames' = Past(frames)
  PROVE  /\ Ahead' \subseteq Ahead
         /\ <<Top.b, Top.at + 1>> \in Ahead /\ <<Top.b, Top.at + 1>> \notin Ahead'
         /\ Len(frames') = Len(frames)
<1> DEFINE n == Len(frames)
<1>1. /\ n \in Nat \ {0} /\ Top = frames[n] /\ Top.b \in Builders /\ Top.at \in Nat
      /\ Top.at + 1 \in 1 .. Len(heap[Top.t]) /\ Len(heap[Top.t]) \in Nat
  <2>1. heap[Top.t] \in Seq([key : Keys, val : Plain \cup Tables])
    BY TopType, ContentsAssumption DEF FInv, TypeOK
  <2> QED
    BY <2>1, TopType, LeftEntry DEF FInv
<1>2. /\ frames' \in Seq(FrameType) /\ Len(frames') = n
      /\ \A k \in 1 .. n - 1 : frames'[k] = frames[k]
      /\ frames'[n].b = Top.b /\ frames'[n].t = Top.t /\ frames'[n].at = Top.at + 1
  BY PastFrames DEF FInv
<1>3. DOMAIN frames = 1 .. n /\ DOMAIN frames' = 1 .. n /\ n \in 1 .. n
  BY <1>1, <1>2 DEF FInv, TypeOK
<1>4. \A k \in 1 .. n : k = n \/ k \in 1 .. n - 1
  BY <1>1
<1>5. /\ Top.b \notin Tables \ visited
      /\ \A k \in 1 .. n : frames[k].b = Top.b => k = n
  BY <1>1, <1>3, OneLoopPerBuilder
<1> HIDE DEF n
<1>6. Ahead' = {e \in Builders \X Nat :
                 \/ e[1] \in Tables \ visited /\ e[2] \in 1 .. Len(heap[e[1]])
                 \/ \E k \in 1 .. n :
                      frames'[k].b = e[1] /\ e[2] \in frames'[k].at + 1 .. Len(heap[frames'[k].t])}
  BY <1>3 DEF Ahead
<1>7. Ahead' \subseteq Ahead
  <2> SUFFICES ASSUME NEW e \in Ahead' PROVE e \in Ahead
    OBVIOUS
  <2>1. ASSUME NEW k \in 1 .. n, frames'[k].b = e[1],
               e[2] \in frames'[k].at + 1 .. Len(heap[frames'[k].t])
        PROVE  frames[k].b = e[1] /\ e[2] \in frames[k].at + 1 .. Len(heap[frames[k].t])
    BY <1>1, <1>2, <1>4, <2>1
  <2> QED
    BY <1>3, <1>6, <2>1 DEF Ahead
<1>8. <<Top.b, Top.at + 1>> \in Ahead
  BY <1>1, <1>3 DEF Ahead
<1>9. <<Top.b, Top.at + 1>> \notin Ahead'
  <2>1. ASSUME NEW k \in 1 .. n, frames'[k].b = Top.b,
               Top.at + 1 \in frames'[k].at + 1 .. Len(heap[frames'[k].t])
        PROVE  FALSE
    <3>1. k = n
      BY <1>2, <1>4, <1>5, <2>1
    <3> QED
      BY <1>1, <1>2, <2>1, <3>1
  <2> QED
    BY <1>5, <1>6, <2>1
<1> QED
  BY <1>2, <1>7, <1>8, <1>9 DEF n

(* A table is entered. *)
LEMMA EnterAhead ==
  ASSUME FInv, EnterTable
  PROVE  /\ Ahead' \subseteq Ahead
         /\ <<Top.b, Top.at + 1>> \in Ahead /\ <<Top.b, Top.at + 1>> \notin Ahead'
         /\ Len(frames') = Len(frames) + 1
<1> DEFINE n == Len(frames)
           t == Value
<1>1. /\ Running /\ Left(Top) /\ heap' = heap
      /\ n \in Nat \ {0} /\ t \in Tables \ visited /\ visited' = visited \cup {t}
      /\ frames' \in Seq(FrameType) /\ Len(frames') = n + 1
      /\ \A k \in 1 .. n - 1 : frames'[k] = frames[k]
      /\ frames'[n].b = Top.b /\ frames'[n].t = Top.t /\ frames'[n].at = Top.at + 1
      /\ frames'[n + 1] = Loop(t, t, Dense(heap[t]))
  BY EnterFrames DEF FInv, EnterTable
<1>2. /\ Top = frames[n] /\ Top.b \in Builders /\ Top.at \in Nat
      /\ Top.at + 1 \in 1 .. Len(heap[Top.t]) /\ Len(heap[Top.t]) \in Nat
  <2>1. heap[Top.t] \in Seq([key : Keys, val : Plain \cup Tables])
    BY <1>1, TopType, ContentsAssumption DEF FInv, TypeOK
  <2> QED
    BY <1>1, <2>1, TopType, LeftEntry DEF FInv
<1>3. DOMAIN frames = 1 .. n /\ DOMAIN frames' = 1 .. n + 1 /\ n \in 1 .. n
  BY <1>1 DEF FInv, TypeOK
<1>4. \A k \in 1 .. n + 1 : k = n + 1 \/ k = n \/ k \in 1 .. n - 1
  BY <1>1
<1>5. /\ Top.b \notin Tables \ visited
      /\ \A k \in 1 .. n : frames[k].b = Top.b => k = n
  BY <1>2, <1>3, OneLoopPerBuilder
<1>6. frames'[n + 1].b = t /\ frames'[n + 1].t = t /\ frames'[n + 1].at = 0
  BY <1>1 DEF Loop
<1>7. Top.b # t
  BY <1>1, <1>5
<1> HIDE DEF n, t
<1>8. Ahead' = {e \in Builders \X Nat :
                 \/ e[1] \in Tables \ visited' /\ e[2] \in 1 .. Len(heap[e[1]])
                 \/ \E k \in 1 .. n + 1 :
                      frames'[k].b = e[1] /\ e[2] \in frames'[k].at + 1 .. Len(heap[frames'[k].t])}
  BY <1>1, <1>3 DEF Ahead
<1>9. Ahead' \subseteq Ahead
  <2> SUFFICES ASSUME NEW e \in Ahead' PROVE e \in Ahead
    OBVIOUS
  <2>1. ASSUME NEW k \in 1 .. n + 1, frames'[k].b = e[1],
               e[2] \in frames'[k].at + 1 .. Len(heap[frames'[k].t])
        PROVE  \/ e[1] \in Tables \ visited /\ e[2] \in 1 .. Len(heap[e[1]])
               \/ k \in 1 .. n /\ frames[k].b = e[1]
                  /\ e[2] \in frames[k].at + 1 .. Len(heap[frames[k].t])
    <3>1. CASE k = n + 1
      BY <1>1, <1>6, <2>1, <3>1
    <3>2. CASE k = n
      BY <1>1, <1>2, <1>3, <2>1, <3>2
    <3>3. CASE k \in 1 .. n - 1
      BY <1>1, <2>1, <3>3
    <3> QED
      BY <1>4, <3>1, <3>2, <3>3
  <2>2. CASE e[1] \in Tables \ visited' /\ e[2] \in 1 .. Len(heap[e[1]])
    BY <1>1, <1>8, <2>2 DEF Ahead
  <2>3. CASE \E k \in 1 .. n + 1 :
               frames'[k].b = e[1] /\ e[2] \in frames'[k].at + 1 .. Len(heap[frames'[k].t])
    BY <1>3, <1>8, <2>1, <2>3 DEF Ahead
  <2> QED
    BY <1>8, <2>2, <2>3
<1>10. <<Top.b, Top.at + 1>> \in Ahead
  BY <1>2, <1>3 DEF Ahead
<1>11. <<Top.b, Top.at + 1>> \notin Ahead'
  <2>1. ASSUME NEW k \in 1 .. n + 1, frames'[k].b = Top.b,
               Top.at + 1 \in frames'[k].at + 1 .. Len(heap[frames'[k].t])
        PROVE  FALSE
    <3>1. k = n
      BY <1>1, <1>3, <1>4, <1>5, <1>6, <1>7, <2>1
    <3> QED
      BY <1>1, <1>2, <2>1, <3>1
  <2> QED
    BY <1>1, <1>5, <1>8, <2>1
<1> QED
  BY <1>1, <1>9, <1>10, <1>11 DEF n

(* A loop that is over leaves nothing, and there is one loop fewer. *)
LEMMA EmbeddedAhead ==
  ASSUME FInv, Embedded
  PROVE  Ahead' = Ahead /\ Len(frames') = Len(frames) - 1
<1> DEFINE n == Len(frames)
<1>1. /\ Running /\ ~Left(Top) /\ heap' = heap /\ visited' = visited
      /\ n \in Nat \ {0, 1} /\ Top = frames[n]
      /\ frames' \in Seq(FrameType) /\ Len(frames') = n - 1
      /\ \A k \in 1 .. n - 1 : frames'[k] = frames[k]
  BY PopFrames DEF FInv, Embedded
<1>2. Top.at \in Nat /\ Len(heap[Top.t]) \in Nat
  <2>1. heap[Top.t] \in Seq([key : Keys, val : Plain \cup Tables])
    BY <1>1, TopType, ContentsAssumption DEF FInv, TypeOK
  <2> QED
    BY <1>1, <2>1, TopType DEF FInv
<1>3. Top.at + 1 .. Len(heap[Top.t]) = {}
  BY <1>1, <1>2 DEF Left
<1>4. DOMAIN frames = 1 .. n /\ DOMAIN frames' = 1 .. n - 1
  BY <1>1 DEF FInv, TypeOK
<1>5. \A k \in 1 .. n : k = n \/ k \in 1 .. n - 1
  BY <1>1
<1>6. \A k \in 1 .. n - 1 : k \in 1 .. n
  BY <1>1
<1> HIDE DEF n
<1>7. ASSUME NEW e
      PROVE  (\E k \in 1 .. n : frames[k].b = e[1] /\ e[2] \in frames[k].at + 1 .. Len(heap[frames[k].t]))
             <=> (\E k \in 1 .. n - 1 :
                    frames'[k].b = e[1] /\ e[2] \in frames'[k].at + 1 .. Len(heap[frames'[k].t]))
  BY <1>1, <1>3, <1>5, <1>6
<1>8. Ahead' = Ahead
  BY <1>1, <1>4, <1>7 DEF Ahead
<1> QED
  BY <1>1, <1>8 DEF n

(* Whatever the tables hold and however they lead to each other, also in
   circles, each step of a conversion brings its end nearer: lua_append_bson
   deals with each entry of a table once in a call of lua_to_bson. *)
THEOREM ConversionsEnd == Spec => [][Running => ~Running' \/ Budget' < Budget]_vars
<1>1. FInv /\ FInv' /\ Next => (Running => ~Running' \/ Budget' < Budget)
  <2> SUFFICES ASSUME FInv, FInv', Next, Running PROVE ~Running' \/ Budget' < Budget
    OBVIOUS
  <2>1. Len(frames) \in Nat
    BY DEF FInv, TypeOK
  <2>2. ASSUME Left(Top), UNCHANGED <<heap, visited>>, frames' = Past(frames)
        PROVE  Budget' < Budget
    BY <2>1, <2>2, PastAhead, OneFewerAhead
  <2>3. CASE AppendScalar
    BY <2>2, <2>3 DEF AppendScalar
  <2>4. CASE AppendNothing
    BY <2>2, <2>4 DEF AppendNothing
  <2>5. CASE SameTable
    BY <2>2, <2>5 DEF SameTable
  <2>6. CASE EnterTable
    BY <2>1, <2>6, EnterAhead, OneFewerAhead
  <2>7. CASE Embedded
    BY <2>1, <2>7, EmbeddedAhead, AheadFinite DEF Budget
  <2>8. CASE InvalidObjectId \/ Return
    BY <2>8 DEF InvalidObjectId, Return, Running
  <2>9. ASSUME NEW t \in Tables PROVE ~LuaToBson(t)
    BY DEF LuaToBson
  <2> QED
    BY <2>3, <2>4, <2>5, <2>6, <2>7, <2>8, <2>9 DEF Next
<1> QED
  BY <1>1, FInvariant, PTL DEF Spec
==============================================================================
