------------------------------ MODULE LuaToBson ------------------------------
(***************************************************************************)
(* How a Lua table becomes a BSON document (utils.cpp: lua_to_bson,        *)
(* lua_append_bson).                                                       *)
(*                                                                         *)
(* The tables a script passes may share tables and lead back to            *)
(* themselves.  Every call of lua_to_bson keeps in the registry a table of *)
(* the tables it has met, and skips what it meets again; the table that    *)
(* was passed is not put there.  A builder that is left by an exception    *)
(* leaves its registry reference behind.                                   *)
(*                                                                         *)
(* The Lua stack is left out: positions are absolute here, and every path  *)
(* pops what it pushed.  A table is the sequence of its entries in         *)
(* lua_next's order, which the script does not choose.                     *)
(***************************************************************************)
EXTENDS Integers, Sequences, FiniteSets

CONSTANTS
  Tables,      \* the script's tables
  Contents,    \* what a table may hold
  MaxCalls     \* bound: calls of lua_to_bson

(* Keys of a table: numbers and strings have a text, booleans and others none.
   Numbers are counted in halves: <<"number", 3>> is one and a half.  A key is
   its own field name here; that two may be written alike is in RoundTrips. *)
Num(i) == <<"number", 2 * i>>
TextKeys == ({"number"} \X Int) \cup ({"string"} \X STRING)
Keys == TextKeys \cup {<<"boolean", "true">>}

(* Values other than tables of the script.  "scalar" stands for all that has a
   BSON form, the typed tables of mongo.Date and the like among them;
   "invalid" is a mongo.ObjectId of a string that is none.  No entry is nil, but
   what is read may be, and is appended as null. *)
Plain == {"scalar", "unsupported", "invalid"}
Leaves == {"scalar", "nil"}
Result == "result"       \* the document of the table that was passed

ASSUME TablesAssumption == Tables \cap (Plain \cup Leaves \cup {Result}) = {}
ASSUME FinitelyManyTables == IsFiniteSet(Tables)
ASSUME ContentsAssumption ==
  \A c \in Contents : /\ c \in Seq([key : Keys, val : Plain \cup Tables])
                      /\ \A i, j \in DOMAIN c : i # j => c[i].key # c[j].key
ASSUME MaxCallsAssumption == MaxCalls \in Nat

Builders == Tables \cup {Result}

VARIABLES
  heap,       \* what each table holds
  status,     \* "idle", "running", "done" or "thrown"
  root,       \* the table that was passed; Result before the first call
  visited,    \* the tables marked in this call's registry table
  frames,     \* the loops in progress, outermost first
  image,      \* what each builder of this call has been given
  registry,   \* references that lua_to_bson holds in the registry
  thrown,     \* history: calls that were left by an exception
  called      \* calls so far

vars == <<heap, status, root, visited, frames, image, registry, thrown, called>>

Init ==
  /\ heap \in [Tables -> Contents]
  /\ status = "idle"
  /\ root = Result
  /\ visited = {}
  /\ frames = << >>
  /\ image = [b \in Builders |-> << >>]
  /\ registry = 0
  /\ thrown = 0
  /\ called = 0

-----------------------------------------------------------------------------
(* The loops.                                                               *)

(* lua_tointeger: the fraction is cut. *)
ToInteger(x) == IF x < 0 THEN -((-x) \div 2) ELSE x \div 2

(* The keys are 1, 2, ... in the order of lua_next, their fractions apart. *)
Dense(c) == \A i \in DOMAIN c : c[i].key[1] = "number" /\ ToInteger(c[i].key[2]) = i

(* lua_rawgeti. *)
RawGet(c, i) ==
  IF \E j \in DOMAIN c : c[j].key = Num(i)
  THEN c[CHOOSE j \in DOMAIN c : c[j].key = Num(i)].val
  ELSE "nil"

(* A loop over table t that feeds builder b; it has dealt with `at` entries. *)
Loop(b, t, array) == [b |-> b, t |-> t, array |-> array, at |-> 0]

Top == frames[Len(frames)]
Running == status = "running"
Left(f) == f.at < Len(heap[f.t])

(* The value of entry i of a loop: an array's are taken from 1, 2, ..., so that
   what stands under a fraction is not met, and there is nil in its place. *)
Item(f, i) == IF f.array THEN RawGet(heap[f.t], i) ELSE heap[f.t][i].val

Key == heap[Top.t][Top.at + 1].key
Value == Item(Top, Top.at + 1)

(* The loop is past one more entry. *)
Past(fs) == [fs EXCEPT ![Len(fs)].at = @ + 1]

(* Mutant: any key has a text. *)
HasTextAlways(key) == TRUE

HasText(key) == key \in TextKeys

(* Mutant: arrays are numbered as Lua numbers them. *)
TextFromOne(f, i) == heap[f.t][i].key

(* The field name for entry i of a loop: arrays are numbered from 0. *)
Text(f, i) == IF f.array THEN Num(i - 1) ELSE heap[f.t][i].key

Add(b, key, val) == image' = [image EXCEPT ![b] = Append(@, [key |-> key, val |-> val])]

-----------------------------------------------------------------------------
(* lua_append_bson.                                                         *)

AppendScalar ==
  /\ Running
  /\ Left(Top)
  /\ HasText(Key)
  /\ Value \in Leaves
  /\ Add(Top.b, Text(Top, Top.at + 1), Value)
  /\ frames' = Past(frames)
  /\ UNCHANGED <<heap, status, root, visited, registry, thrown, called>>

(* A key without a text, or a value for which there is no case: a function, a
   userdata, a typed table without its value. *)
AppendNothing ==
  /\ Running
  /\ Left(Top)
  /\ ~HasText(Key) \/ Value = "unsupported"
  /\ frames' = Past(frames)
  /\ UNCHANGED <<heap, status, root, visited, image, registry, thrown, called>>

(* A table met before: "do nothing if the same table encountered". *)
SameTable ==
  /\ Running
  /\ Left(Top)
  /\ HasText(Key)
  /\ Value \in visited
  /\ frames' = Past(frames)
  /\ UNCHANGED <<heap, status, root, visited, image, registry, thrown, called>>

(* Mutant: a table is not marked. *)
EnterTableUnmarked ==
  /\ Running
  /\ Left(Top)
  /\ HasText(Key)
  /\ LET t == Value
     IN /\ t \in Tables \ visited
        /\ frames' = Append(Past(frames), Loop(t, t, Dense(heap[t])))
  /\ UNCHANGED <<heap, status, root, visited, image, registry, thrown, called>>

(* A table not met before is marked, scanned for its form, and looped over. *)
EnterTable ==
  /\ Running
  /\ Left(Top)
  /\ HasText(Key)
  /\ LET t == Value
     IN /\ t \in Tables \ visited
        /\ visited' = visited \cup {t}
        /\ frames' = Append(Past(frames), Loop(t, t, Dense(heap[t])))
  /\ UNCHANGED <<heap, status, root, image, registry, thrown, called>>

(* OID::init throws: the caller of lua_to_bson catches it, or nobody does. *)
InvalidObjectId ==
  /\ Running
  /\ Left(Top)
  /\ HasText(Key)
  /\ Value = "invalid"
  /\ status' = "thrown"
  /\ thrown' = thrown + 1
  /\ frames' = << >>
  /\ UNCHANGED <<heap, root, visited, image, registry, called>>

Outer == frames[Len(frames) - 1]

(* Mutant: the mark goes when the loop is over. *)
EmbeddedUnmarks ==
  /\ Running
  /\ Len(frames) > 1
  /\ ~Left(Top)
  /\ Add(Outer.b, Text(Outer, Outer.at), Top.t)
  /\ visited' = visited \ {Top.t}
  /\ frames' = SubSeq(frames, 1, Len(frames) - 1)
  /\ UNCHANGED <<heap, status, root, registry, thrown, called>>

(* The loop over an embedded table is over: append or appendArray. *)
Embedded ==
  /\ Running
  /\ Len(frames) > 1
  /\ ~Left(Top)
  /\ Add(Outer.b, Text(Outer, Outer.at), Top.t)
  /\ frames' = SubSeq(frames, 1, Len(frames) - 1)
  /\ UNCHANGED <<heap, status, root, visited, registry, thrown, called>>

-----------------------------------------------------------------------------
(* lua_to_bson.                                                             *)

(* Mutant: the registry table of the call before is taken again. *)
LuaToBsonMarksKept(t) ==
  /\ ~Running
  /\ called < MaxCalls
  /\ called' = called + 1
  /\ status' = "running"
  /\ root' = t
  /\ registry' = registry + 1
  /\ frames' = <<Loop(Result, t, FALSE)>>
  /\ image' = [b \in Builders |-> << >>]
  /\ UNCHANGED <<heap, visited, thrown>>

(* The script passes table t. *)
LuaToBson(t) ==
  /\ ~Running
  /\ called < MaxCalls
  /\ called' = called + 1
  /\ status' = "running"
  /\ root' = t
  /\ visited' = {}
  /\ registry' = registry + 1
  /\ frames' = <<Loop(Result, t, FALSE)>>
  /\ image' = [b \in Builders |-> << >>]
  /\ UNCHANGED <<heap, thrown>>

(* Mutant: no luaL_unref. *)
ReturnHoldsRef ==
  /\ Running
  /\ Len(frames) = 1
  /\ ~Left(Top)
  /\ status' = "done"
  /\ frames' = << >>
  /\ UNCHANGED <<heap, root, visited, image, registry, thrown, called>>

Return ==
  /\ Running
  /\ Len(frames) = 1
  /\ ~Left(Top)
  /\ status' = "done"
  /\ registry' = registry - 1
  /\ frames' = << >>
  /\ UNCHANGED <<heap, root, visited, image, thrown, called>>

Next ==
  \/ \E t \in Tables : LuaToBson(t)
  \/ AppendScalar
  \/ AppendNothing
  \/ SameTable
  \/ EnterTable
  \/ InvalidObjectId
  \/ Embedded
  \/ Return

Spec == Init /\ [][Next]_vars

-----------------------------------------------------------------------------
(* Properties.                                                              *)

FrameType == [b : Builders, t : Tables, array : BOOLEAN, at : Nat]
ImageType == Seq([key : TextKeys, val : Leaves \cup Tables])

(* Every variable has its type; no loop is past its table, and whatever a
   builder is given has a field name. *)
TypeOK ==
  /\ heap \in [Tables -> Contents]
  /\ status \in {"idle", "running", "done", "thrown"}
  /\ root \in Builders
  /\ visited \in SUBSET Tables
  /\ frames \in Seq(FrameType)
  /\ \A k \in DOMAIN frames : frames[k].at <= Len(heap[frames[k].t])
  /\ image \in [Builders -> ImageType]
  /\ registry \in Nat
  /\ thrown \in Nat
  /\ called \in 0 .. MaxCalls

(* However the tables lead to each other, the recursion of lua_append_bson is
   no deeper than there are tables: the C stack is safe from cycles. *)
DepthBounded == Len(frames) <= Cardinality(Tables) + 1

(* A table is embedded in one place at most: sharing does not multiply. *)
EmbeddedOnce ==
  \A b1, b2 \in Builders : \A i \in DOMAIN image[b1], j \in DOMAIN image[b2] :
    (image[b1][i].val \in Tables /\ image[b1][i].val = image[b2][j].val)
      => b1 = b2 /\ i = j

(* The table that a builder was made for.  A nested one is an array if its keys
   count from one, which a key with a fraction does like the number before it. *)
Source(b) == IF b = Result THEN root ELSE b
IsArray(b) ==
  /\ b # Result
  /\ \A i \in DOMAIN heap[b] : heap[b][i].key \in {<<"number", 2 * i>>, <<"number", 2 * i + 1>>}

(* The entries that are lost: those of an array under a fraction.  They are the
   price of the test in lua_append_bson, and null is in their place. *)
Lost(b) ==
  {i \in DOMAIN heap[Source(b)] : IsArray(b) /\ heap[Source(b)][i].key # <<"number", 2 * i>>}

(* The others, if they have a field name. *)
Kept(b) ==
  {i \in DOMAIN heap[Source(b)] \ Lost(b) : heap[Source(b)][i].key[1] \in {"number", "string"}}

(* The tables that the table of builder b leads to. *)
Succ(b) == {heap[Source(b)][i].val : i \in Kept(b)} \cap Tables

Closed(S) == \A t \in S : Succ(t) \subseteq S

EmbeddedIn(b) == {image[b][i].val : i \in DOMAIN image[b]} \cap Tables
Embeds == UNION {EmbeddedIn(b) : b \in Builders}

(* A finished document embeds the tables that can be reached from the one that
   was passed by entries that are not lost, no more and no fewer, whatever the
   calls before it did. *)
ReachableEmbedded ==
  status = "done" =>
    /\ Succ(Result) \subseteq Embeds
    /\ Closed(Embeds)
    /\ \A S \in SUBSET Tables : Succ(Result) \subseteq S /\ Closed(S) => Embeds \subseteq S

(* The fields that a builder should be given: an array's are numbered from 0,
   and a table that was passed is no array. *)
Name(b, i) == IF IsArray(b) THEN <<"number", 2 * (i - 1)>> ELSE heap[Source(b)][i].key

Wanted(b) ==
  {[key |-> Name(b, i), val |-> heap[Source(b)][i].val] :
     i \in {j \in Kept(b) : heap[Source(b)][j].val \in {"scalar"} \cup Tables}}

Nulls(b) == {[key |-> Name(b, i), val |-> "nil"] : i \in Lost(b)}

Given(b) == {image[b][i] : i \in DOMAIN image[b]}

(* A finished document holds the entries of the tables it embeds under their
   names.  It lacks none but a reference to a table that it embeds elsewhere,
   and what a nested table with keys like 1.5 had under them: there it has null. *)
OnlyFractionsLost ==
  status = "done" =>
    \A b \in {Result} \cup Embeds :
      /\ Nulls(b) \subseteq Given(b)
      /\ Given(b) \subseteq Wanted(b) \cup Nulls(b)
      /\ \A e \in Wanted(b) \ Given(b) : e.val \in Embeds

(* The registry holds a reference for the call in progress, and one for every
   call that an exception left. *)
RefsReleased == registry = thrown + (IF Running THEN 1 ELSE 0)

==============================================================================
