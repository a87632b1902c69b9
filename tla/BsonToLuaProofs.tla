--------------------------- MODULE BsonToLuaProofs ---------------------------
(***************************************************************************)
(* Theorems about BsonToLua, for documents of any size and depth, any set  *)
(* of field names and any LUA_MINSTACK that has room for the arguments and *)
(* one field: its type invariant, that it keeps within the Lua stack, and  *)
(* that what it makes of a document of handled types is that document.     *)
(***************************************************************************)
EXTENDS BsonToLua, SequenceTheorems, TLAPS

-----------------------------------------------------------------------------
(* The helpers.                                                             *)

(* The three topmost values of a stack. *)
LEMMA AtTop ==
  ASSUME NEW s, NEW h \in Nat \ {0}, Len(s) = h + 2
  PROVE  At(s, 1) = s[h + 2] /\ At(s, 2) = s[h + 1] /\ At(s, 3) = s[h]
<1>1. /\ h + 2 - 1 + 1 = h + 2 /\ h + 2 - 2 + 1 = h + 1 /\ h + 2 - 3 + 1 = h
      /\ 1 <= h + 2 /\ 2 <= h + 2 /\ 3 <= h + 2
  OBVIOUS
<1> QED
  BY <1>1 DEF At

(* What is found on a stack of values is a value. *)
LEMMA AtType ==
  ASSUME NEW s \in Seq(Values), NEW i \in Nat \ {0}
  PROVE  At(s, i) \in Values
  BY DEF At, Values

(* What is a table lies above the bottom of the stack. *)
LEMMA AtTable ==
  ASSUME NEW s \in Seq(Values), NEW i \in Nat \ {0}, At(s, i) \in TableValues
  PROVE  i <= Len(s)
  BY DEF At, TableValues, Other

(* A key and a value make no more than pairs of values of a table. *)
LEMMA PutType ==
  ASSUME NEW K, NEW V, NEW f \in SUBSET (K \X V), NEW k \in K, NEW v \in V
  PROVE  Put(f, k, v) \in SUBSET (K \X V)
  BY DEF Put

(* What an element pushes, and what a faithful copy would hold, are values. *)
LEMMA LuaValueType ==
  ASSUME NEW type \in Types \ Containers
  PROVE  /\ type \notin Unhandled => LuaValue(type) \in Values
         /\ Image(type) \in Values \cup ({"typed"} \X BSONTypes)
<1>1. type \in BSONTypes
  BY TypesAssumption
<1>2. CASE type = "Undefined"
  BY <1>2 DEF LuaValue, Image, Values, Scalars
<1>3. CASE type \in Plain
  BY <1>3 DEF LuaValue, Image, Values, Scalars, Plain
<1>4. CASE type \in Typed
  <2>1. "Date" \in Typed \ {"Timestamp"}
    BY DEF Typed
  <2>2. type \notin Plain /\ type # "Undefined"
    BY <1>4 DEF Typed, Plain
  <2>3. LuaValue(type) \in {"typed"} \X (Typed \ {"Timestamp"})
    BY <1>4, <2>1, <2>2 DEF LuaValue
  <2>4. Image(type) \in {"typed"} \X BSONTypes
    BY <1>1, <2>2 DEF Image
  <2> QED
    BY <2>3, <2>4 DEF Values, Scalars
<1>5. CASE type \in Unhandled
  <2>1. type \notin Plain /\ type # "Undefined"
    BY <1>5 DEF Unhandled, Plain
  <2> QED
    BY <1>1, <1>5, <2>1 DEF Image
<1> QED
  BY <1>1, <1>2, <1>3, <1>4, <1>5 DEF BSONTypes

(* After lua_push_value the stack is at most one higher. *)
LEMMA PushValueType ==
  ASSUME NEW s \in Seq(Values), NEW type \in Types \ Containers
  PROVE  /\ PushValue(s, type) \in Seq(Values)
         /\ Len(PushValue(s, type)) \in {Len(s), Len(s) + 1}
  BY LuaValueType DEF PushValue

(* lua_checkstack gives what it was asked for and takes nothing back. *)
LEMMA CheckStackRoom ==
  ASSUME NEW h \in Nat, room \in Nat
  PROVE  CheckStack(h) \in Nat /\ CheckStack(h) >= h + 2 /\ CheckStack(h) >= room
  BY DEF CheckStack, Larger

-----------------------------------------------------------------------------
(* The stack has room: lua_push_value asks for two slots and uses four.     *)

Room ==
  /\ overrun <= 2
  /\ room >= MinStack
  /\ status = "start" => Len(stack) <= 2 /\ calls = << >>
  /\ status = "running" => Len(stack) + 1 <= room /\ calls # << >>

RInv == TypeOK /\ Room

(* Storing an element takes the key and the value, or leaves all as it is. *)
LEMMA StoreType ==
  ASSUME TypeOK, NEW t \in Values, NEW k \in Values, NEW v \in Values,
         NEW s \in Seq(Values), Store(t, k, v, s)
  PROVE  /\ tab' \in [Tables -> SUBSET (Values \X Values)]
         /\ stack' \in {s, stack}
         /\ status' \in {status, "undefined"}
<1>1. CASE t \in TableValues
  <2>1. t[2] \in Tables
    BY <1>1 DEF TableValues
  <2>2. tab[t[2]] \in SUBSET (Values \X Values)
    BY <2>1 DEF TypeOK
  <2>3. Put(tab[t[2]], k, v) \in SUBSET (Values \X Values)
    BY <2>2, PutType
  <2>4. tab' = [tab EXCEPT ![t[2]] = Put(tab[t[2]], k, v)] /\ stack' = s /\ status' = status
    BY <1>1 DEF Store
  <2> QED
    BY <2>1, <2>3, <2>4 DEF TypeOK
<1>2. CASE t \notin TableValues
  BY <1>2 DEF Store, TypeOK
<1> QED
  BY <1>1, <1>2

(* lua_rawset(L, -3): the key and the value are gone from the stack. *)
LEMMA RawSetType ==
  ASSUME TypeOK, NEW s \in Seq(Values), RawSet(s)
  PROVE  /\ tab' \in [Tables -> SUBSET (Values \X Values)]
         /\ stack' \in Seq(Values)
         /\ \/ status' = "undefined"
            \/ status' = status /\ Len(stack') = Len(s) - 2
<1>1. At(s, 3) \in Values /\ At(s, 2) \in Values /\ At(s, 1) \in Values
  BY AtType
<1>2. CASE At(s, 3) \in TableValues
  <2>1. Len(s) >= 3
    BY <1>2, AtTable
  <2>2. /\ SubSeq(s, 1, Len(s) - 2) \in Seq(Values)
        /\ Len(SubSeq(s, 1, Len(s) - 2)) = Len(s) - 2
    BY <2>1
  <2>3. Store(At(s, 3), At(s, 2), At(s, 1), SubSeq(s, 1, Len(s) - 2))
    BY DEF RawSet
  <2>4. stack' = SubSeq(s, 1, Len(s) - 2) /\ status' = status
    BY <1>2, <2>3 DEF Store
  <2> QED
    BY <1>1, <2>2, <2>3, <2>4, StoreType
<1>3. CASE At(s, 3) \notin TableValues
  BY <1>3 DEF RawSet, Store, TypeOK
<1> QED
  BY <1>2, <1>3

(* lua_rawseti(L, -2, n): the value is gone from the stack. *)
LEMMA RawSetIType ==
  ASSUME TypeOK, NEW s \in Seq(Values), NEW n \in Nat, RawSetI(s, n)
  PROVE  /\ tab' \in [Tables -> SUBSET (Values \X Values)]
         /\ stack' \in Seq(Values)
         /\ \/ status' = "undefined"
            \/ status' = status /\ Len(stack') = Len(s) - 1
<1>1. At(s, 2) \in Values /\ At(s, 1) \in Values
  BY AtType
<1>2. Index(n) \in Values
  BY DEF Index, Values, Keys
<1>3. CASE At(s, 2) \in TableValues
  <2>1. Len(s) >= 2
    BY <1>3, AtTable
  <2>2. /\ SubSeq(s, 1, Len(s) - 1) \in Seq(Values)
        /\ Len(SubSeq(s, 1, Len(s) - 1)) = Len(s) - 1
    BY <2>1
  <2>3. Store(At(s, 2), Index(n), At(s, 1), SubSeq(s, 1, Len(s) - 1))
    BY DEF RawSetI
  <2>4. stack' = SubSeq(s, 1, Len(s) - 1) /\ status' = status
    BY <1>3, <2>3 DEF Store
  <2> QED
    BY <1>1, <1>2, <2>2, <2>3, <2>4, StoreType
<1>4. CASE At(s, 2) \notin TableValues
  BY <1>4 DEF RawSetI, Store, TypeOK
<1> QED
  BY <1>3, <1>4

(* lua_push_value stays within four slots of the stack it was called on. *)
LEMMA UseRoom ==
  ASSUME RInv, NEW s \in Seq(Values), Len(s) <= room,
         NEW slots \in 1 .. 4, Use(s, slots)
  PROVE  /\ room' \in Nat /\ room' >= Len(s) + 2 /\ room' >= MinStack
         /\ overrun' \in Nat /\ overrun' <= 2
<1>1. room \in Nat /\ room >= MinStack /\ overrun \in Nat /\ overrun <= 2 /\ MinStack \in Nat
  BY MinStackAssumption DEF RInv, Room, TypeOK
<1>2. room' \in Nat /\ room' >= Len(s) + 2 /\ room' >= room
  BY <1>1, CheckStackRoom DEF Use
<1>3. Beyond(Len(s), room) = 0
  BY <1>1 DEF Beyond
<1>4. Beyond(Len(s) + slots, room') \in 0 .. 2
  BY <1>2 DEF Beyond
<1>5. overrun' = Larger(overrun, Larger(0, Beyond(Len(s) + slots, room')))
  BY <1>3 DEF Use
<1>6. overrun' \in 0 .. 2
  BY <1>1, <1>4, <1>5 DEF Larger
<1> QED
  BY <1>1, <1>2, <1>6

(* What the caller's document should hold stays well typed. *)
LEMMA ExpectType ==
  ASSUME TypeOK, NEW c \in CallType, NEW key \in Values,
         NEW v \in Values \cup ({"typed"} \X BSONTypes), Expect(c, key, v)
  PROVE  doc' \in [Tables -> SUBSET (Values \X (Values \cup ({"typed"} \X BSONTypes)))]
<1>1. c.id \in Tables
  BY BoundsAssumption DEF CallType, Tables
<1>2. Put(doc[c.id], key, v) \in SUBSET (Values \X (Values \cup ({"typed"} \X BSONTypes)))
  BY <1>1, PutType DEF TypeOK
<1> QED
  BY <1>1, <1>2 DEF Expect, TypeOK

(* The innermost call and its caller are calls. *)
LEMMA TopType ==
  ASSUME TypeOK, calls # << >>
  PROVE  /\ Len(calls) \in Nat \ {0}
         /\ Top \in CallType
         /\ Len(calls) > 1 => Caller \in CallType
  BY DEF TypeOK, Top, Caller

(* Changing the local variables of a call gives calls. *)
LEMMA CallsExcept ==
  ASSUME NEW cs \in Seq(CallType), NEW i \in 1 .. Len(cs),
         NEW key \in Keys \cup {Nil}
  PROVE  /\ [cs EXCEPT ![i].n = @ + 1] \in Seq(CallType)
         /\ [cs EXCEPT ![i].key = key] \in Seq(CallType)
<1>1. cs[i] \in CallType
  OBVIOUS
<1>2. /\ [cs[i] EXCEPT !.n = @ + 1] \in CallType
      /\ [cs[i] EXCEPT !.key = key] \in CallType
  <2> HIDE DEF Nil, Keys
  <2>1. PICK f \in {"bson_to_table", "bson_to_array"}, d \in 1 .. MaxTables,
             k \in Keys \cup {Nil}, m \in Nat, h \in Nat :
          cs[i] = [fn |-> f, id |-> d, key |-> k, n |-> m, at |-> h]
    BY <1>1 DEF CallType
  <2>2. [cs[i] EXCEPT !.n = @ + 1] = [fn |-> f, id |-> d, key |-> k, n |-> m + 1, at |-> h]
    BY <2>1
  <2>3. [cs[i] EXCEPT !.key = key] = [fn |-> f, id |-> d, key |-> key, n |-> m, at |-> h]
    BY <2>1
  <2>4. m + 1 \in Nat
    OBVIOUS
  <2> QED
    BY <2>2, <2>3, <2>4 DEF CallType
<1> QED
  BY <1>2

-----------------------------------------------------------------------------
(* Every step keeps the types and the room.                                 *)

LEMMA RInvInit == Init => RInv
<1> SUFFICES ASSUME Init PROVE RInv
  OBVIOUS
<1>1. Other \in Values /\ Table(0) \in Values
  BY BoundsAssumption DEF Other, Values, Table, TableValues, Tables
<1>2. stack \in Seq(Values) /\ Len(stack) <= 2
  <2>1. CASE stack = <<Other>>
    BY <1>1, <2>1
  <2>2. CASE stack = <<Other, Table(0)>>
    BY <1>1, <2>2
  <2> QED
    BY <2>1, <2>2 DEF Init
<1>3. TypeOK
  BY <1>2, MinStackAssumption, BoundsAssumption DEF Init, TypeOK, Tables
<1>4. Room
  BY <1>2, MinStackAssumption DEF Init, Room
<1> QED
  BY <1>3, <1>4 DEF RInv

LEMMA RInvTableScalar == RInv /\ TableScalar => RInv'
<1> SUFFICES ASSUME RInv, TableScalar PROVE RInv'
  OBVIOUS
<1> PICK name \in Names, type \in Types \ Containers :
       LET s == Append(stack, Name(name)) IN
       /\ Use(s, Slots(type))
       /\ RawSet(PushValue(s, type))
       /\ Expect(Top, Name(name), Image(type))
       /\ exact' = (exact /\ ~Loses(type))
  BY DEF TableScalar
<1> DEFINE s == Append(stack, Name(name))
<1>1. /\ TypeOK /\ Room /\ status = "running" /\ calls # << >>
      /\ Len(stack) + 1 <= room /\ stack \in Seq(Values)
      /\ calls' = calls /\ next' = next /\ elements' = elements + 1 /\ elements < MaxElements
  BY DEF RInv, Room, TypeOK, TableScalar, In, Read
<1>2. Name(name) \in Values
  BY DEF Name, Values, Keys
<1>3. s \in Seq(Values) /\ Len(s) = Len(stack) + 1
  BY <1>1, <1>2
<1>4. Slots(type) \in 1 .. 4
  BY DEF Slots
<1>5. /\ room' \in Nat /\ room' >= Len(s) + 2 /\ room' >= MinStack
      /\ overrun' \in Nat /\ overrun' <= 2
  <2>1. Use(s, Slots(type)) /\ Len(s) <= room
    BY <1>1, <1>3
  <2> QED
    BY <1>3, <1>4, <2>1, UseRoom
<1>6. PushValue(s, type) \in Seq(Values) /\ Len(PushValue(s, type)) \in {Len(s), Len(s) + 1}
  BY <1>3, PushValueType
<1>7. /\ tab' \in [Tables -> SUBSET (Values \X Values)]
      /\ stack' \in Seq(Values)
      /\ \/ status' = "undefined"
         \/ status' = "running" /\ Len(stack') = Len(PushValue(s, type)) - 2
  <2>1. RawSet(PushValue(s, type))
    OBVIOUS
  <2> QED
    BY <1>1, <1>6, <2>1, RawSetType
<1>8. doc' \in [Tables -> SUBSET (Values \X (Values \cup ({"typed"} \X BSONTypes)))]
  BY <1>1, <1>2, TopType, LuaValueType, ExpectType
<1>9. TypeOK'
  BY <1>1, <1>5, <1>7, <1>8, BoundsAssumption DEF TypeOK
<1>10. Room'
  BY <1>1, <1>3, <1>5, <1>6, <1>7 DEF Room
<1> QED
  BY <1>9, <1>10 DEF RInv

LEMMA RInvArrayScalar == RInv /\ ArrayScalar => RInv'
<1> SUFFICES ASSUME RInv, ArrayScalar PROVE RInv'
  OBVIOUS
<1> PICK type \in Types \ Containers :
       /\ Use(stack, Slots(type))
       /\ RawSetI(PushValue(stack, type), Top.n)
       /\ Expect(Top, Index(Top.n), Image(type))
       /\ exact' = (exact /\ ~Loses(type))
  BY DEF ArrayScalar
<1>1. /\ TypeOK /\ Room /\ status = "running" /\ calls # << >>
      /\ Len(stack) + 1 <= room /\ stack \in Seq(Values)
      /\ calls' = [calls EXCEPT ![Len(calls)].n = @ + 1]
      /\ next' = next /\ elements' = elements + 1 /\ elements < MaxElements
  BY DEF RInv, Room, TypeOK, ArrayScalar, In, Read
<1>2. Top \in CallType /\ Top.n \in Nat
  BY <1>1, TopType DEF CallType
<1>3. Index(Top.n) \in Values
  BY <1>2 DEF Index, Values, Keys
<1>4. Slots(type) \in 1 .. 4
  BY DEF Slots
<1>5. /\ room' \in Nat /\ room' >= Len(stack) + 2 /\ room' >= MinStack
      /\ overrun' \in Nat /\ overrun' <= 2
  <2>1. Len(stack) <= room
    BY <1>1 DEF TypeOK
  <2> QED
    BY <1>1, <1>4, <2>1, UseRoom
<1>6. /\ PushValue(stack, type) \in Seq(Values)
      /\ Len(PushValue(stack, type)) \in {Len(stack), Len(stack) + 1}
  BY <1>1, PushValueType
<1>7. /\ tab' \in [Tables -> SUBSET (Values \X Values)]
      /\ stack' \in Seq(Values)
      /\ \/ status' = "undefined"
         \/ status' = "running" /\ Len(stack') = Len(PushValue(stack, type)) - 1
  BY <1>1, <1>2, <1>6, RawSetIType
<1>8. doc' \in [Tables -> SUBSET (Values \X (Values \cup ({"typed"} \X BSONTypes)))]
  BY <1>1, <1>2, <1>3, LuaValueType, ExpectType
<1>9. calls' \in Seq(CallType) /\ calls' # << >>
  <2>1. calls \in Seq(CallType) /\ Len(calls) \in 1 .. Len(calls)
    BY <1>1, TopType DEF TypeOK
  <2>2. calls' \in Seq(CallType)
    BY <1>1, <2>1, CallsExcept
  <2>3. Len(calls') = Len(calls)
    BY <1>1, <2>1
  <2> QED
    BY <2>1, <2>2, <2>3
<1>10. TypeOK'
  <2>1. /\ next' \in Tables /\ exact' \in BOOLEAN
        /\ elements' \in 0 .. MaxElements
    BY <1>1, BoundsAssumption DEF TypeOK
  <2>2. status' \in {"start", "running", "done", "empty", "undefined"}
    BY <1>7
  <2> QED
    BY <1>5, <1>7, <1>8, <1>9, <2>1, <2>2 DEF TypeOK
<1>11. Room'
  BY <1>1, <1>5, <1>6, <1>7, <1>9 DEF Room
<1> QED
  BY <1>10, <1>11 DEF RInv

(* An embedded object, on a stack that holds its key already. *)
LEMMA RInvDescend ==
  ASSUME RInv, status = "running", NEW s \in Seq(Values), Len(s) <= room,
         NEW key \in Keys, Descend(s, key)
  PROVE  RInv'
<1>1. /\ TypeOK /\ Room /\ calls # << >> /\ calls \in Seq(CallType)
      /\ next \in 0 .. MaxTables /\ next < MaxTables /\ next' = next + 1
      /\ stack' = Append(s, Table(next + 1)) /\ Use(s, 1)
      /\ elements' = elements + 1 /\ elements < MaxElements
      /\ UNCHANGED <<status, tab, doc, exact>>
  BY DEF RInv, Room, TypeOK, Descend, Read, Tables
<1>2. next + 1 \in 1 .. MaxTables /\ next + 1 \in Tables
  BY <1>1, BoundsAssumption DEF Tables
<1>3. stack' \in Seq(Values) /\ Len(stack') = Len(s) + 1
  <2>1. Table(next + 1) \in Values
    BY <1>2 DEF Table, Values, TableValues
  <2> QED
    BY <1>1, <2>1
<1>4. /\ room' \in Nat /\ room' >= Len(s) + 2 /\ room' >= MinStack
      /\ overrun' \in Nat /\ overrun' <= 2
  BY <1>1, UseRoom
<1>5. calls' \in Seq(CallType) /\ calls' # << >>
  <2>1. PICK fn \in {"bson_to_table", "bson_to_array"} :
          calls' = Append([calls EXCEPT ![Len(calls)].key = key],
                          Call(fn, next + 1, Len(s) + 1))
    BY DEF Descend
  <2>2. Call(fn, next + 1, Len(s) + 1) \in CallType
    BY <1>2 DEF Call, CallType
  <2>3. [calls EXCEPT ![Len(calls)].key = key] \in Seq(CallType)
    <3>1. Len(calls) \in 1 .. Len(calls)
      BY <1>1
    <3> QED
      BY <1>1, <3>1, CallsExcept
  <2> QED
    BY <2>1, <2>2, <2>3
<1>6. TypeOK'
  BY <1>1, <1>2, <1>3, <1>4, <1>5, BoundsAssumption DEF TypeOK
<1>7. Room'
  BY <1>1, <1>3, <1>4, <1>5 DEF Room
<1> QED
  BY <1>6, <1>7 DEF RInv

LEMMA RInvTableEmbedded == RInv /\ TableEmbedded => RInv'
<1> SUFFICES ASSUME RInv, TableEmbedded PROVE RInv'
  OBVIOUS
<1>1. PICK name \in Names : Descend(Append(stack, Name(name)), Name(name))
  BY DEF TableEmbedded
<1>2. Name(name) \in Keys /\ Name(name) \in Values
  BY DEF Name, Values, Keys
<1>3. status = "running" /\ Len(stack) + 1 <= room /\ stack \in Seq(Values)
  BY DEF TableEmbedded, In, RInv, Room, TypeOK
<1>4. Append(stack, Name(name)) \in Seq(Values) /\ Len(Append(stack, Name(name))) <= room
  BY <1>2, <1>3
<1> QED
  BY <1>1, <1>2, <1>3, <1>4, RInvDescend

LEMMA RInvArrayEmbedded == RInv /\ ArrayEmbedded => RInv'
<1> SUFFICES ASSUME RInv, ArrayEmbedded PROVE RInv'
  OBVIOUS
<1>1. /\ status = "running" /\ Len(stack) + 1 <= room /\ room \in Nat
      /\ stack \in Seq(Values) /\ calls # << >> /\ TypeOK
  BY DEF ArrayEmbedded, In, RInv, Room, TypeOK
<1>2. Index(Top.n) \in Keys
  BY <1>1, TopType DEF Index, Keys, CallType
<1>3. Len(stack) <= room
  BY <1>1
<1> QED
  BY <1>1, <1>2, <1>3, RInvDescend DEF ArrayEmbedded

LEMMA RInvReturnToTable == RInv /\ ReturnToTable => RInv'
<1> SUFFICES ASSUME RInv, ReturnToTable PROVE RInv'
  OBVIOUS
<1>1. /\ TypeOK /\ Room /\ status = "running" /\ calls # << >> /\ Len(calls) > 1
      /\ Len(stack) + 1 <= room /\ stack \in Seq(Values) /\ RawSet(stack)
      /\ Expect(Caller, Caller.key, Table(Top.id))
      /\ calls' = SubSeq(calls, 1, Len(calls) - 1)
      /\ UNCHANGED <<room, overrun, next, elements, exact>>
  BY DEF RInv, Room, TypeOK, ReturnToTable
<1>2. Caller \in CallType /\ Top \in CallType
  BY <1>1, TopType
<1>3. Caller.key \in Values /\ Table(Top.id) \in Values
  BY <1>2, BoundsAssumption DEF CallType, Values, Scalars, Table, TableValues, Tables
<1>4. doc' \in [Tables -> SUBSET (Values \X (Values \cup ({"typed"} \X BSONTypes)))]
  BY <1>1, <1>2, <1>3, ExpectType
<1>5. /\ tab' \in [Tables -> SUBSET (Values \X Values)]
      /\ stack' \in Seq(Values)
      /\ \/ status' = "undefined"
         \/ status' = "running" /\ Len(stack') = Len(stack) - 2
  BY <1>1, RawSetType
<1>6. calls' \in Seq(CallType) /\ calls' # << >>
  <2>1. calls \in Seq(CallType) /\ Len(calls) > 1
    BY <1>1 DEF TypeOK
  <2>2. /\ SubSeq(calls, 1, Len(calls) - 1) \in Seq(CallType)
        /\ Len(SubSeq(calls, 1, Len(calls) - 1)) = Len(calls) - 1
    BY <2>1
  <2>3. calls' = SubSeq(calls, 1, Len(calls) - 1)
    BY <1>1
  <2>4. Len(calls') # 0
    BY <2>1, <2>2, <2>3
  <2>5. calls' # << >>
    BY <2>4
  <2> QED
    BY <2>2, <2>3, <2>5
<1>7. TypeOK'
  BY <1>1, <1>4, <1>5, <1>6 DEF TypeOK
<1>8. Room'
  BY <1>1, <1>5, <1>6 DEF Room, TypeOK
<1> QED
  BY <1>7, <1>8 DEF RInv

LEMMA RInvReturnToArray == RInv /\ ReturnToArray => RInv'
<1> SUFFICES ASSUME RInv, ReturnToArray PROVE RInv'
  OBVIOUS
<1>1. /\ TypeOK /\ Room /\ status = "running" /\ calls # << >> /\ Len(calls) > 1
      /\ Len(stack) + 1 <= room /\ stack \in Seq(Values) /\ RawSetI(stack, Caller.n)
      /\ Expect(Caller, Caller.key, Table(Top.id))
      /\ calls' = [SubSeq(calls, 1, Len(calls) - 1) EXCEPT ![Len(calls) - 1].n = @ + 1]
      /\ UNCHANGED <<room, overrun, next, elements, exact>>
  BY DEF RInv, Room, TypeOK, ReturnToArray
<1>2. Caller \in CallType /\ Top \in CallType /\ Caller.n \in Nat
  BY <1>1, TopType DEF CallType
<1>3. Caller.key \in Values /\ Table(Top.id) \in Values
  BY <1>2, BoundsAssumption DEF CallType, Values, Scalars, Table, TableValues, Tables
<1>4. doc' \in [Tables -> SUBSET (Values \X (Values \cup ({"typed"} \X BSONTypes)))]
  BY <1>1, <1>2, <1>3, ExpectType
<1>5. /\ tab' \in [Tables -> SUBSET (Values \X Values)]
      /\ stack' \in Seq(Values)
      /\ \/ status' = "undefined"
         \/ status' = "running" /\ Len(stack') = Len(stack) - 1
  BY <1>1, <1>2, RawSetIType
<1>6. calls' \in Seq(CallType) /\ calls' # << >>
  <2> DEFINE rest == SubSeq(calls, 1, Len(calls) - 1)
  <2>1. rest \in Seq(CallType) /\ Len(rest) = Len(calls) - 1 /\ Len(calls) - 1 \in 1 .. Len(rest)
    BY <1>1 DEF TypeOK
  <2>2. calls' \in Seq(CallType)
    BY <1>1, <2>1, CallsExcept
  <2>3. Len(calls') = Len(rest)
    BY <1>1, <2>1
  <2> QED
    BY <2>1, <2>2, <2>3
<1>7. TypeOK'
  BY <1>1, <1>4, <1>5, <1>6 DEF TypeOK
<1>8. Room'
  BY <1>1, <1>5, <1>6 DEF Room, TypeOK
<1> QED
  BY <1>7, <1>8 DEF RInv

LEMMA RInvReturnToHandler == RInv /\ ReturnToHandler => RInv'
  BY DEF RInv, Room, TypeOK, ReturnToHandler

LEMMA RInvBsonToLua == RInv /\ BsonToLua => RInv'
<1> SUFFICES ASSUME RInv, BsonToLua PROVE RInv'
  OBVIOUS
<1>1. Nil \in Values
  BY DEF Values, Scalars
<1>2. CASE status' = "empty"
  BY <1>1, <1>2 DEF RInv, Room, TypeOK, BsonToLua
<1>3. CASE status' = "running"
  <2>1. /\ MaxTables >= 1 /\ stack' = Append(stack, Table(1)) /\ next' = 1
        /\ calls' = <<Call("bson_to_table", 1, Len(stack) + 1)>>
        /\ Len(stack) <= 2 /\ stack \in Seq(Values)
        /\ UNCHANGED <<room, overrun, tab, doc, elements, exact>>
    BY <1>3 DEF BsonToLua, RInv, Room, TypeOK
  <2>2. Table(1) \in Values /\ 1 \in Tables
    BY <2>1, BoundsAssumption DEF Table, Values, TableValues, Tables
  <2>3. Call("bson_to_table", 1, Len(stack) + 1) \in CallType
    BY <2>1, BoundsAssumption DEF Call, CallType
  <2>4. stack' \in Seq(Values) /\ Len(stack') = Len(stack) + 1
    BY <2>1, <2>2
  <2>5. calls' \in Seq(CallType) /\ calls' # << >>
    BY <2>1, <2>3
  <2>6. TypeOK'
    BY <1>3, <2>1, <2>2, <2>4, <2>5 DEF TypeOK, RInv
  <2>7. Room'
    BY <1>3, <2>1, <2>4, <2>5, MinStackAssumption DEF Room, RInv, TypeOK
  <2> QED
    BY <2>6, <2>7 DEF RInv
<1> QED
  BY <1>2, <1>3 DEF BsonToLua

LEMMA RInvStep == RInv /\ [Next]_vars => RInv'
<1> SUFFICES ASSUME RInv, [Next]_vars PROVE RInv'
  OBVIOUS
<1>1. CASE Next
  BY <1>1, RInvBsonToLua, RInvTableScalar, RInvArrayScalar, RInvTableEmbedded,
     RInvArrayEmbedded, RInvReturnToTable, RInvReturnToArray, RInvReturnToHandler
     DEF Next
<1>2. CASE UNCHANGED vars
  BY <1>2 DEF vars, RInv, Room, TypeOK
<1> QED
  BY <1>1, <1>2

LEMMA RInvariant == Spec => []RInv
<1>1. QED
  BY RInvInit, RInvStep, PTL DEF Spec

(* Every variable keeps its type, whatever the document. *)
THEOREM TypeCorrect == Spec => []TypeOK
<1>1. RInv => TypeOK
  BY DEF RInv
<1> QED
  BY <1>1, RInvariant, PTL

(* lua_push_value, which asks for two slots and uses up to four, and the
   functions it calls stay within the slots that Lua has, at any depth. *)
THEOREM RoomSuffices == Spec => []StackRoom
<1>1. RInv => StackRoom
  BY DEF RInv, Room, StackRoom, ExtraStack, TypeOK
<1> QED
  BY <1>1, RInvariant, PTL

-----------------------------------------------------------------------------
(* As long as every element is of a type with an exact case, the table of   *)
(* every call in progress is where its function looks for it.               *)

Shape ==
  /\ calls[1].id = 1
  /\ Len(stack) = Top.at
  /\ \A i \in 1 .. Len(calls) : /\ calls[i].at >= 1
                                /\ stack[calls[i].at] = Table(calls[i].id)
  /\ \A i, j \in 1 .. Len(calls) : i < j => calls[i].at < calls[j].at
  /\ \A i \in 1 .. Len(calls) - 1 : calls[i].fn = "bson_to_table" =>
       /\ calls[i + 1].at = calls[i].at + 2
       /\ stack[calls[i].at + 1] = calls[i].key
  /\ \A i \in 1 .. Len(calls) - 1 : calls[i].fn = "bson_to_array" =>
       /\ calls[i + 1].at = calls[i].at + 1
       /\ calls[i].key = Index(calls[i].n)

Aligned ==
  exact => /\ tab = doc
           /\ status # "undefined"
           /\ status = "running" => Shape
           /\ status = "done" => stack # << >> /\ stack[Len(stack)] = Table(1)

AInv == RInv /\ Aligned

(* What is pushed can be taken off again. *)
LEMMA PopPushed ==
  ASSUME NEW S, NEW s \in Seq(S), NEW a \in S
  PROVE  SubSeq(Append(s, a), 1, Len(s)) = s
  OBVIOUS

(* The bottom of a stack. *)
LEMMA Cut ==
  ASSUME NEW S, NEW s \in Seq(S), NEW n \in 0 .. Len(s)
  PROVE  /\ SubSeq(s, 1, n) \in Seq(S)
         /\ Len(SubSeq(s, 1, n)) = n
         /\ \A p \in 1 .. n : SubSeq(s, 1, n)[p] = s[p]
  OBVIOUS

(* The top of what was pushed, and what was there before. *)
LEMMA AtPushed ==
  ASSUME NEW s \in Seq(Values), NEW a \in Values
  PROVE  /\ At(Append(s, a), 1) = a
         /\ At(Append(s, a), 2) = At(s, 1)
         /\ At(Append(s, a), 3) = At(s, 2)
  BY DEF At

(* A call whose index or key was set is the same call otherwise. *)
LEMMA CallExcept ==
  ASSUME NEW c \in CallType, NEW x
  PROVE  /\ LET d == [c EXCEPT !.n = x] IN
              d.fn = c.fn /\ d.id = c.id /\ d.key = c.key /\ d.at = c.at
         /\ LET d == [c EXCEPT !.key = x] IN
              d.fn = c.fn /\ d.id = c.id /\ d.key = x /\ d.n = c.n /\ d.at = c.at
<1>1. PICK f \in {"bson_to_table", "bson_to_array"}, d \in 1 .. MaxTables,
           k \in Keys \cup {Nil}, m \in Nat, h \in Nat :
        c = [fn |-> f, id |-> d, key |-> k, n |-> m, at |-> h]
  BY DEF CallType
<1> QED
  BY <1>1

(* Storing in a table that is one. *)
LEMMA StoreInTable ==
  ASSUME NEW d \in 1 .. MaxTables, NEW k, NEW v, NEW s,
         Store(Table(d), k, v, s), tab = doc,
         NEW c, c.id = d, Expect(c, k, v)
  PROVE  tab' = doc' /\ stack' = s /\ status' = status
<1>1. Table(d) \in TableValues /\ Table(d)[2] = d
  BY BoundsAssumption DEF Table, TableValues, Tables
<1>2. tab' = [tab EXCEPT ![d] = Put(tab[d], k, v)] /\ stack' = s /\ status' = status
  BY <1>1 DEF Store
<1>3. doc' = [doc EXCEPT ![d] = Put(doc[d], k, v)]
  BY DEF Expect
<1> QED
  BY <1>2, <1>3

LEMMA AInvInit == Init => AInv
  BY RInvInit DEF AInv, Aligned, Init

LEMMA AInvTableScalar == AInv /\ TableScalar => Aligned'
<1> SUFFICES ASSUME AInv, TableScalar, exact' PROVE /\ tab' = doc'
                                                    /\ status' = "running"
                                                    /\ Shape'
  BY DEF Aligned
<1> PICK name \in Names, type \in Types \ Containers :
       LET s == Append(stack, Name(name)) IN
       /\ Use(s, Slots(type))
       /\ RawSet(PushValue(s, type))
       /\ Expect(Top, Name(name), Image(type))
       /\ exact' = (exact /\ ~Loses(type))
  BY DEF TableScalar
<1> DEFINE s == Append(stack, Name(name))
           u == Append(s, LuaValue(type))
<1>1. /\ TypeOK /\ status = "running" /\ calls # << >> /\ stack \in Seq(Values)
      /\ exact /\ tab = doc /\ Shape /\ calls' = calls
      /\ type \notin Unhandled /\ type # "Timestamp"
  BY DEF AInv, Aligned, RInv, Room, TypeOK, TableScalar, In, Loses
<1>2. Top \in CallType /\ Top.id \in 1 .. MaxTables /\ Len(calls) \in Nat \ {0}
  BY <1>1, TopType DEF CallType
<1>3. Name(name) \in Values /\ LuaValue(type) \in Values /\ LuaValue(type) = Image(type)
  BY <1>1, LuaValueType DEF Name, Values, Keys, LuaValue, Image
<1>4. s \in Seq(Values) /\ Len(s) = Len(stack) + 1 /\ PushValue(s, type) = u
      /\ u \in Seq(Values) /\ Len(u) = Len(stack) + 2
  BY <1>1, <1>3 DEF PushValue
<1>5. At(stack, 1) = Table(Top.id)
  <2>1. stack[Len(stack)] = Table(Top.id) /\ Len(stack) >= 1
    BY <1>1, <1>2 DEF Shape, Top
  <2> QED
    BY <1>1, <2>1 DEF At
<1>6. At(u, 1) = LuaValue(type) /\ At(u, 2) = Name(name) /\ At(u, 3) = Table(Top.id)
  <2>1. At(u, 1) = LuaValue(type) /\ At(u, 2) = At(s, 1) /\ At(u, 3) = At(s, 2)
    BY <1>3, <1>4, AtPushed
  <2>2. At(s, 1) = Name(name) /\ At(s, 2) = At(stack, 1)
    BY <1>1, <1>3, AtPushed
  <2> QED
    BY <1>5, <2>1, <2>2
<1>7. SubSeq(u, 1, Len(u) - 2) = stack
  BY <1>1, <1>3, <1>4
<1>8. Store(Table(Top.id), Name(name), Image(type), stack)
  <2>1. RawSet(u)
    BY <1>4
  <2> QED
    BY <1>3, <1>6, <1>7, <2>1 DEF RawSet
<1>9. tab' = doc' /\ stack' = stack /\ status' = status
  BY <1>1, <1>2, <1>8, StoreInTable
<1> QED
  BY <1>1, <1>9 DEF Shape, Top

LEMMA AInvArrayScalar == AInv /\ ArrayScalar => Aligned'
<1> SUFFICES ASSUME AInv, ArrayScalar, exact' PROVE /\ tab' = doc'
                                                    /\ status' = "running"
                                                    /\ Shape'
  BY DEF Aligned
<1> PICK type \in Types \ Containers :
       /\ Use(stack, Slots(type))
       /\ RawSetI(PushValue(stack, type), Top.n)
       /\ Expect(Top, Index(Top.n), Image(type))
       /\ exact' = (exact /\ ~Loses(type))
  BY DEF ArrayScalar
<1> DEFINE u == Append(stack, LuaValue(type))
<1>1. /\ TypeOK /\ status = "running" /\ calls # << >> /\ stack \in Seq(Values)
      /\ exact /\ tab = doc /\ Shape /\ calls \in Seq(CallType)
      /\ calls' = [calls EXCEPT ![Len(calls)].n = @ + 1]
      /\ type \notin Unhandled /\ type # "Timestamp"
  BY DEF AInv, Aligned, RInv, Room, TypeOK, ArrayScalar, In, Loses
<1>2. Top \in CallType /\ Top.id \in 1 .. MaxTables /\ Len(calls) \in Nat \ {0}
  BY <1>1, TopType DEF CallType
<1>3. LuaValue(type) \in Values /\ LuaValue(type) = Image(type)
  BY <1>1, LuaValueType DEF LuaValue, Image
<1>4. u \in Seq(Values) /\ Len(u) = Len(stack) + 1 /\ PushValue(stack, type) = u
  BY <1>1, <1>3 DEF PushValue
<1>5. At(stack, 1) = Table(Top.id)
  <2>1. stack[Len(stack)] = Table(Top.id) /\ Len(stack) >= 1
    BY <1>1, <1>2 DEF Shape, Top
  <2> QED
    BY <1>1, <2>1 DEF At
<1>6. At(u, 1) = LuaValue(type) /\ At(u, 2) = Table(Top.id)
  <2>1. At(u, 1) = LuaValue(type) /\ At(u, 2) = At(stack, 1)
    BY <1>1, <1>3, AtPushed
  <2> QED
    BY <1>5, <2>1
<1>7. SubSeq(u, 1, Len(u) - 1) = stack
  BY <1>1, <1>3, <1>4, PopPushed
<1>8. Store(Table(Top.id), Index(Top.n), Image(type), stack)
  <2>1. RawSetI(u, Top.n)
    BY <1>4
  <2> QED
    BY <1>3, <1>6, <1>7, <2>1 DEF RawSetI
<1>9. tab' = doc' /\ stack' = stack /\ status' = status
  BY <1>1, <1>2, <1>8, StoreInTable
<1>10. /\ Len(calls') = Len(calls)
       /\ \A i \in 1 .. Len(calls) : /\ calls'[i].at = calls[i].at
                                     /\ calls'[i].id = calls[i].id
                                     /\ calls'[i].fn = calls[i].fn
                                     /\ calls'[i].key = calls[i].key
                                     /\ i < Len(calls) => calls'[i].n = calls[i].n
  <2>1. /\ Len(calls') = Len(calls)
        /\ calls'[Len(calls)] = [calls[Len(calls)] EXCEPT !.n = @ + 1]
        /\ \A i \in 1 .. Len(calls) - 1 : calls'[i] = calls[i]
    BY <1>1, <1>2
  <2>2. calls[Len(calls)] \in CallType
    BY <1>1, <1>2
  <2> DEFINE c == calls[Len(calls)]
             d == calls'[Len(calls)]
  <2>3. d.fn = c.fn /\ d.id = c.id /\ d.key = c.key /\ d.at = c.at
    <3>1. d = [c EXCEPT !.n = c.n + 1]
      BY <2>1
    <3> QED
      BY <2>2, <3>1, CallExcept
  <2>4. ASSUME NEW i \in 1 .. Len(calls)
        PROVE  /\ calls'[i].at = calls[i].at
               /\ calls'[i].id = calls[i].id
               /\ calls'[i].fn = calls[i].fn
               /\ calls'[i].key = calls[i].key
               /\ i < Len(calls) => calls'[i].n = calls[i].n
    <3>1. CASE i = Len(calls)
      BY <1>2, <2>3, <3>1
    <3>2. CASE i # Len(calls)
      <4>1. i \in 1 .. Len(calls) - 1
        BY <1>2, <3>2
      <4> QED
        BY <2>1, <4>1
    <3> QED
      BY <3>1, <3>2
  <2> QED
    BY <2>1, <2>4
<1> QED
  BY <1>1, <1>2, <1>9, <1>10 DEF Shape, Top

LEMMA Between ==
  \A m \in Nat : \A a, b \in 1 .. m : b = a + 2 => a + 1 \in 1 .. m
  OBVIOUS

(* An embedded object: its table comes where the shape wants it, above the
   caller's table and, in a document, the key. *)
LEMMA AInvDescend ==
  ASSUME AInv, status = "running", calls # << >>,
         NEW s \in Seq(Values), NEW key \in Keys, Descend(s, key),
         \/ Top.fn = "bson_to_table" /\ key \in Values /\ s = Append(stack, key)
         \/ Top.fn = "bson_to_array" /\ s = stack /\ key = Index(Top.n)
  PROVE  Aligned'
<1> SUFFICES ASSUME exact' PROVE tab' = doc' /\ status' = "running" /\ Shape'
  BY DEF Aligned
<1>1. /\ TypeOK /\ stack \in Seq(Values) /\ calls \in Seq(CallType)
      /\ tab = doc /\ Shape /\ exact /\ next \in Nat
      /\ stack' = Append(s, Table(next + 1))
      /\ UNCHANGED <<status, tab, doc, exact>>
  BY DEF AInv, Aligned, RInv, TypeOK, Descend, Tables
<1> DEFINE L == Len(calls)
<1>2. L \in Nat \ {0} /\ calls[L] \in CallType /\ Top = calls[L]
  BY <1>1, TopType DEF Top
<1>3. PICK fn \in {"bson_to_table", "bson_to_array"} :
        calls' = Append([calls EXCEPT ![L].key = key], Call(fn, next + 1, Len(s) + 1))
  BY DEF Descend
<1> DEFINE c == calls'[L]
           d == calls'[L + 1]
<1>5. /\ Len(calls') = L + 1
      /\ \A i \in 1 .. L - 1 : calls'[i] = calls[i]
      /\ c = [calls[L] EXCEPT !.key = key]
      /\ d = Call(fn, next + 1, Len(s) + 1)
  <2> DEFINE cc == [calls EXCEPT ![L].key = key]
             new == Call(fn, next + 1, Len(s) + 1)
  <2>1. L \in 1 .. L
    BY <1>2
  <2>2. cc \in Seq(CallType)
    BY <1>1, <2>1, CallsExcept
  <2>3. /\ Len(cc) = L
        /\ \A i \in 1 .. L - 1 : cc[i] = calls[i]
        /\ cc[L] = [calls[L] EXCEPT !.key = key]
    <3>1. DOMAIN cc = DOMAIN calls /\ DOMAIN calls = 1 .. L
      BY <1>1
    <3>2. Len(cc) = L
      BY <1>2, <2>2, <3>1
    <3>3. \A i \in 1 .. L : cc[i] = IF i = L THEN [calls[L] EXCEPT !.key = key] ELSE calls[i]
      BY <3>1
    <3>4. L \in 1 .. L /\ \A i \in 1 .. L - 1 : i \in 1 .. L /\ i # L
      BY <1>2
    <3> QED
      BY <3>2, <3>3, <3>4
  <2>4. calls' = Append(cc, new)
    BY <1>3
  <2> HIDE DEF cc, new
  <2>5. /\ Len(Append(cc, new)) = L + 1
        /\ \A i \in 1 .. L : Append(cc, new)[i] = cc[i]
        /\ Append(cc, new)[L + 1] = new
    BY <1>2, <2>2, <2>3
  <2> QED
    BY <1>2, <2>3, <2>4, <2>5 DEF new
<1>6. c.fn = calls[L].fn /\ c.id = calls[L].id /\ c.key = key /\ c.n = calls[L].n /\ c.at = calls[L].at
  BY <1>2, <1>5, CallExcept
<1>7. d.id = next + 1 /\ d.at = Len(s) + 1
  BY <1>5 DEF Call
<1>8. calls[L].at = Len(stack) /\ Len(stack) \in Nat
  BY <1>1, <1>2 DEF Shape
<1>9. /\ \A i \in 1 .. L : calls'[i].id = calls[i].id /\ calls'[i].at = calls[i].at /\ calls'[i].fn = calls[i].fn
      /\ \A i \in 1 .. L - 1 : calls'[i].key = calls[i].key /\ calls'[i].n = calls[i].n
  <2>1. \A i \in 1 .. L : i = L \/ i \in 1 .. L - 1
    BY <1>2
  <2> QED
    BY <1>5, <1>6, <2>1
<1>10. /\ Len(stack') = Len(s) + 1
       /\ stack'[Len(s) + 1] = Table(next + 1)
       /\ Len(s) >= Len(stack)
       /\ \A p \in 1 .. Len(stack) : stack'[p] = stack[p]
  <2>1. CASE key \in Values /\ s = Append(stack, key)
    BY <1>1, <2>1
  <2>2. CASE s = stack
    BY <1>1, <2>2
  <2> QED
    BY <2>1, <2>2
<1>11. \A i \in 1 .. L : calls[i].at \in 1 .. Len(stack)
  <2>1. ASSUME NEW i \in 1 .. L PROVE calls[i].at \in 1 .. Len(stack)
    <3>1. calls[i] \in CallType
      BY <1>1
    <3>2. calls[i].at \in Nat /\ calls[i].at >= 1
      BY <1>1, <3>1 DEF Shape, CallType
    <3>3. i = L \/ calls[i].at < calls[L].at
      BY <1>1, <1>2 DEF Shape
    <3> QED
      BY <1>8, <3>2, <3>3
  <2> QED
    BY <2>1
<1>12. Len(stack') = calls'[Len(calls')].at /\ calls'[1].id = 1
  <2>1. calls[1].id = 1
    BY <1>1 DEF Shape
  <2>2. 1 \in 1 .. L
    BY <1>2
  <2> QED
    BY <1>5, <1>7, <1>9, <1>10, <2>1, <2>2
<1>13. \A i \in 1 .. Len(calls') : /\ calls'[i].at >= 1
                                   /\ stack'[calls'[i].at] = Table(calls'[i].id)
  <2>1. ASSUME NEW i \in 1 .. L
        PROVE  calls'[i].at >= 1 /\ stack'[calls'[i].at] = Table(calls'[i].id)
    <3>1. calls[i].at \in 1 .. Len(stack) /\ stack[calls[i].at] = Table(calls[i].id)
      BY <1>1, <1>11 DEF Shape
    <3>2. calls'[i].at = calls[i].at /\ calls'[i].id = calls[i].id
      BY <1>9
    <3>3. stack'[calls[i].at] = stack[calls[i].at] /\ calls[i].at >= 1
      BY <1>8, <1>10, <3>1
    <3> QED
      BY <3>1, <3>2, <3>3
  <2>2. d.at >= 1 /\ stack'[d.at] = Table(d.id)
    BY <1>7, <1>10, <1>8
  <2> QED
    BY <1>2, <1>5, <2>1, <2>2
<1>14. \A i, j \in 1 .. Len(calls') : i < j => calls'[i].at < calls'[j].at
  <2>1. ASSUME NEW i \in 1 .. Len(calls'), NEW j \in 1 .. Len(calls'), i < j
        PROVE  calls'[i].at < calls'[j].at
    <3>1. CASE j = L + 1
      BY <1>2, <1>5, <1>7, <1>8, <1>9, <1>10, <1>11, <2>1, <3>1
    <3>2. CASE j # L + 1
      <4>1. i \in 1 .. L /\ j \in 1 .. L
        BY <1>2, <1>5, <2>1, <3>2
      <4>2. calls[i].at < calls[j].at
        BY <1>1, <2>1, <4>1 DEF Shape
      <4> QED
        BY <1>9, <4>1, <4>2
    <3> QED
      BY <3>1, <3>2
  <2> QED
    BY <2>1
<1>15. ASSUME NEW i \in 1 .. Len(calls') - 1
       PROVE  /\ calls'[i].fn = "bson_to_table" =>
                   /\ calls'[i + 1].at = calls'[i].at + 2
                   /\ stack'[calls'[i].at + 1] = calls'[i].key
              /\ calls'[i].fn = "bson_to_array" =>
                   /\ calls'[i + 1].at = calls'[i].at + 1
                   /\ calls'[i].key = Index(calls'[i].n)
  <2>1. CASE i = L
    <3>1. CASE Top.fn = "bson_to_table" /\ s = Append(stack, key)
      <4>1. Len(s) = Len(stack) + 1 /\ stack'[Len(stack) + 1] = key
        BY <1>1, <3>1
      <4>2. calls'[i + 1].at = Len(s) + 1
        BY <1>7, <2>1
      <4>3. calls'[i].at = Len(stack) /\ calls'[i].key = key /\ calls'[i].fn = Top.fn
        BY <1>2, <1>6, <1>8, <2>1
      <4>4. calls'[i].fn # "bson_to_array"
        BY <3>1, <4>3
      <4>5. calls'[i + 1].at = calls'[i].at + 2
        BY <1>8, <4>1, <4>2, <4>3
      <4>6. stack'[calls'[i].at + 1] = calls'[i].key
        BY <4>1, <4>3
      <4> QED
        BY <4>4, <4>5, <4>6
    <3>2. CASE Top.fn = "bson_to_array" /\ s = stack /\ key = Index(Top.n)
      <4>1. calls'[i + 1].at = Len(stack) + 1
        BY <1>7, <2>1, <3>2
      <4>2. /\ calls'[i].at = Len(stack) /\ calls'[i].key = key
            /\ calls'[i].fn = Top.fn /\ calls'[i].n = Top.n
        BY <1>2, <1>6, <1>8, <2>1
      <4>3. calls'[i].fn # "bson_to_table"
        BY <3>2, <4>2
      <4>4. calls'[i + 1].at = calls'[i].at + 1
        BY <4>1, <4>2
      <4>5. calls'[i].key = Index(calls'[i].n)
        BY <3>2, <4>2
      <4> QED
        BY <4>3, <4>4, <4>5
    <3> QED
      BY <3>1, <3>2
  <2>2. CASE i # L
    <3>1. i \in 1 .. L - 1 /\ i + 1 \in 1 .. L
      BY <1>2, <1>5, <2>2
    <3>2. calls[i].at \in 1 .. Len(stack) /\ calls[i + 1].at \in 1 .. Len(stack)
      BY <1>11, <3>1
    <3>3. calls[i].fn = "bson_to_table" =>
            /\ calls[i + 1].at = calls[i].at + 2
            /\ stack[calls[i].at + 1] = calls[i].key
      BY <1>1, <3>1 DEF Shape
    <3>4. calls[i].fn = "bson_to_array" =>
            /\ calls[i + 1].at = calls[i].at + 1
            /\ calls[i].key = Index(calls[i].n)
      BY <1>1, <3>1 DEF Shape
    <3>5. calls[i].fn = "bson_to_table" => calls[i].at + 1 \in 1 .. Len(stack)
      <4>1. calls[i].fn = "bson_to_table" => calls[i + 1].at = calls[i].at + 2
        BY <3>3
      <4>2. Len(stack) \in Nat
        BY <1>8
      <4> QED
        BY <3>2, <4>1, <4>2, Between
    <3>6. /\ calls'[i].at = calls[i].at /\ calls'[i].fn = calls[i].fn
          /\ calls'[i].key = calls[i].key /\ calls'[i].n = calls[i].n
          /\ calls'[i + 1].at = calls[i + 1].at
      <4>1. i \in 1 .. L
        BY <1>2, <3>1
      <4> QED
        BY <1>9, <3>1, <4>1
    <3>7. calls[i].fn = "bson_to_table" => stack'[calls[i].at + 1] = stack[calls[i].at + 1]
      BY <1>10, <3>5
    <3>8. calls'[i].fn = "bson_to_table" =>
            /\ calls'[i + 1].at = calls'[i].at + 2
            /\ stack'[calls'[i].at + 1] = calls'[i].key
      BY <3>3, <3>6, <3>7
    <3>9. calls'[i].fn = "bson_to_array" =>
            /\ calls'[i + 1].at = calls'[i].at + 1
            /\ calls'[i].key = Index(calls'[i].n)
      BY <3>4, <3>6
    <3> QED
      BY <3>8, <3>9
  <2> QED
    BY <2>1, <2>2
<1> QED
  BY <1>1, <1>12, <1>13, <1>14, <1>15 DEF Shape, Top

LEMMA AInvTableEmbedded == AInv /\ TableEmbedded => Aligned'
<1> SUFFICES ASSUME AInv, TableEmbedded PROVE Aligned'
  OBVIOUS
<1>1. PICK name \in Names : Descend(Append(stack, Name(name)), Name(name))
  BY DEF TableEmbedded
<1>2. Name(name) \in Keys /\ Name(name) \in Values
  BY DEF Name, Values, Keys
<1>3. status = "running" /\ stack \in Seq(Values) /\ calls # << >> /\ Top.fn = "bson_to_table"
  BY DEF TableEmbedded, In, AInv, RInv, Room, TypeOK
<1>4. Append(stack, Name(name)) \in Seq(Values)
  BY <1>2, <1>3
<1> QED
  BY <1>1, <1>2, <1>3, <1>4, AInvDescend

LEMMA AInvArrayEmbedded == AInv /\ ArrayEmbedded => Aligned'
<1> SUFFICES ASSUME AInv, ArrayEmbedded PROVE Aligned'
  OBVIOUS
<1>1. /\ status = "running" /\ stack \in Seq(Values) /\ calls # << >> /\ TypeOK
      /\ Top.fn = "bson_to_array" /\ Descend(stack, Index(Top.n))
  BY DEF ArrayEmbedded, In, AInv, RInv, Room, TypeOK
<1>2. Index(Top.n) \in Keys
  BY <1>1, TopType DEF Index, Keys, CallType
<1> QED
  BY <1>1, <1>2, AInvDescend

(* When a call is over and the stack is cut down to its caller's table, the
   shape is that of the calls left. *)
LEMMA ShapePop ==
  ASSUME TypeOK, Shape, stack' \in Seq(Values), NEW M \in Nat \ {0},
         Len(calls) = M + 1, Len(calls') = M, Len(stack') = calls[M].at,
         Len(stack') <= Len(stack),
         \A p \in 1 .. Len(stack') : stack'[p] = stack[p],
         \A i \in 1 .. M : /\ calls'[i].at = calls[i].at
                           /\ calls'[i].id = calls[i].id
                           /\ calls'[i].fn = calls[i].fn
                           /\ calls'[i].key = calls[i].key,
         \A i \in 1 .. M - 1 : calls'[i].n = calls[i].n
  PROVE  Shape'
<1>1. Len(stack') = calls'[Len(calls')].at /\ calls'[1].id = 1
  BY DEF Shape
<1>2. \A i \in 1 .. M : i \in 1 .. M + 1
  OBVIOUS
<1>3. ASSUME NEW i \in 1 .. M PROVE calls[i].at \in 1 .. Len(stack')
  <2>1. calls[i] \in CallType
    BY <1>2 DEF TypeOK
  <2>2. calls[i].at \in Nat /\ calls[i].at >= 1
    BY <1>2, <2>1 DEF Shape, CallType
  <2>3. i = M \/ calls[i].at < calls[M].at
    BY <1>2 DEF Shape
  <2>4. calls[M].at \in Nat
    OBVIOUS
  <2> QED
    BY <2>2, <2>3, <2>4
<1>4. ASSUME NEW i \in 1 .. Len(calls')
      PROVE  calls'[i].at >= 1 /\ stack'[calls'[i].at] = Table(calls'[i].id)
  <2>1. calls[i].at >= 1 /\ stack[calls[i].at] = Table(calls[i].id)
    BY <1>2 DEF Shape
  <2> QED
    BY <1>3, <2>1
<1>5. ASSUME NEW i \in 1 .. Len(calls'), NEW j \in 1 .. Len(calls'), i < j
      PROVE  calls'[i].at < calls'[j].at
  <2>1. calls[i].at < calls[j].at
    BY <1>2, <1>5 DEF Shape
  <2> QED
    BY <2>1
<1>6. ASSUME NEW i \in 1 .. Len(calls') - 1
      PROVE  /\ calls'[i].fn = "bson_to_table" =>
                  /\ calls'[i + 1].at = calls'[i].at + 2
                  /\ stack'[calls'[i].at + 1] = calls'[i].key
             /\ calls'[i].fn = "bson_to_array" =>
                  /\ calls'[i + 1].at = calls'[i].at + 1
                  /\ calls'[i].key = Index(calls'[i].n)
  <2>1. i \in 1 .. M /\ i + 1 \in 1 .. M /\ i \in 1 .. M - 1 /\ i \in 1 .. Len(calls) - 1
    OBVIOUS
  <2>2. calls[i].at \in 1 .. Len(stack') /\ calls[i + 1].at \in 1 .. Len(stack')
    BY <1>3, <2>1
  <2>3. /\ calls[i].fn = "bson_to_table" =>
             /\ calls[i + 1].at = calls[i].at + 2
             /\ stack[calls[i].at + 1] = calls[i].key
        /\ calls[i].fn = "bson_to_array" =>
             /\ calls[i + 1].at = calls[i].at + 1
             /\ calls[i].key = Index(calls[i].n)
    BY <2>1 DEF Shape
  <2>4. calls[i].fn = "bson_to_table" => calls[i].at + 1 \in 1 .. Len(stack')
    <3>1. Len(stack') \in Nat
      OBVIOUS
    <3>2. calls[i].fn = "bson_to_table" => calls[i + 1].at = calls[i].at + 2
      BY <2>3
    <3> QED
      BY <2>2, <3>1, <3>2, Between
  <2>5. /\ calls'[i].at = calls[i].at /\ calls'[i].fn = calls[i].fn
        /\ calls'[i].key = calls[i].key /\ calls'[i].n = calls[i].n
        /\ calls'[i + 1].at = calls[i + 1].at
    BY <2>1
  <2>6. calls[i].fn = "bson_to_table" => stack'[calls[i].at + 1] = stack[calls[i].at + 1]
    BY <2>4
  <2>7. calls'[i].fn = "bson_to_table" =>
          /\ calls'[i + 1].at = calls'[i].at + 2
          /\ stack'[calls'[i].at + 1] = calls'[i].key
    BY <2>3, <2>5, <2>6
  <2>8. calls'[i].fn = "bson_to_array" =>
          /\ calls'[i + 1].at = calls'[i].at + 1
          /\ calls'[i].key = Index(calls'[i].n)
    BY <2>3, <2>5
  <2> QED
    BY <2>7, <2>8
<1> QED
  BY <1>1, <1>4, <1>5, <1>6 DEF Shape, Top

LEMMA AInvReturnToTable == AInv /\ ReturnToTable => Aligned'
<1> SUFFICES ASSUME AInv, ReturnToTable, exact' PROVE /\ tab' = doc'
                                                      /\ status' = "running"
                                                      /\ Shape'
  BY DEF Aligned
<1>1. /\ TypeOK /\ status = "running" /\ stack \in Seq(Values) /\ calls \in Seq(CallType)
      /\ calls # << >> /\ exact /\ tab = doc /\ Shape /\ Len(calls) > 1
      /\ Caller.fn = "bson_to_table" /\ RawSet(stack)
      /\ Expect(Caller, Caller.key, Table(Top.id))
      /\ calls' = SubSeq(calls, 1, Len(calls) - 1)
  BY DEF AInv, Aligned, RInv, Room, TypeOK, ReturnToTable
<1> DEFINE M == Len(calls) - 1
           s == SubSeq(stack, 1, Len(stack) - 2)
<1>2. M \in Nat \ {0} /\ M \in 1 .. Len(calls) - 1 /\ M \in 1 .. Len(calls) /\ Len(calls) = M + 1
  BY <1>1
<1>3. /\ Caller \in CallType /\ Top \in CallType /\ Caller = calls[M] /\ Top = calls[M + 1]
      /\ Caller.id \in 1 .. MaxTables /\ Caller.at \in Nat
  BY <1>1, <1>2, TopType DEF Caller, Top, CallType
<1>4. /\ Len(stack) = Caller.at + 2 /\ Caller.at >= 1
      /\ stack[Caller.at] = Table(Caller.id)
      /\ stack[Caller.at + 1] = Caller.key
      /\ stack[Caller.at + 2] = Table(Top.id)
  <2>1. M + 1 \in 1 .. Len(calls)
    BY <1>2
  <2> QED
    BY <1>1, <1>2, <1>3, <2>1 DEF Shape
<1>5. At(stack, 1) = Table(Top.id) /\ At(stack, 2) = Caller.key /\ At(stack, 3) = Table(Caller.id)
  <2>1. Caller.at \in Nat \ {0}
    BY <1>3, <1>4
  <2> QED
    BY <1>4, <2>1, AtTop
<1>6. Store(Table(Caller.id), Caller.key, Table(Top.id), s)
  BY <1>1, <1>5 DEF RawSet
<1>7. tab' = doc' /\ stack' = s /\ status' = status
  BY <1>1, <1>3, <1>6, StoreInTable
<1>8. /\ s \in Seq(Values) /\ Len(s) = Caller.at /\ Len(s) <= Len(stack)
      /\ \A p \in 1 .. Len(s) : s[p] = stack[p]
  <2>1. Len(stack) \in Nat
    BY <1>1
  <2>2. Len(stack) - 2 = Caller.at /\ Caller.at \in 0 .. Len(stack)
    <3>1. Len(stack) = Caller.at + 2
      BY <1>4
    <3>2. Caller.at \in Nat
      BY <1>3
    <3> HIDE DEF M, s
    <3> QED
      BY <3>1, <3>2
  <2>3. stack \in Seq(Values)
    BY <1>1
  <2> QED
    BY <2>1, <2>2, <2>3, Cut
<1>9. Len(calls') = M /\ \A i \in 1 .. M : calls'[i] = calls[i]
  BY <1>1, <1>2
<1>10. Shape'
  <2>1. \A i \in 1 .. M - 1 : i \in 1 .. M
    BY <1>2
  <2> HIDE DEF M, s
  <2> QED
    BY <1>1, <1>2, <1>3, <1>7, <1>8, <1>9, <2>1, ShapePop
<1> QED
  BY <1>1, <1>7, <1>10

LEMMA AInvReturnToArray == AInv /\ ReturnToArray => Aligned'
<1> SUFFICES ASSUME AInv, ReturnToArray, exact' PROVE /\ tab' = doc'
                                                      /\ status' = "running"
                                                      /\ Shape'
  BY DEF Aligned
<1> DEFINE M == Len(calls) - 1
           s == SubSeq(stack, 1, Len(stack) - 1)
           rest == SubSeq(calls, 1, M)
<1>1. /\ TypeOK /\ status = "running" /\ stack \in Seq(Values) /\ calls \in Seq(CallType)
      /\ calls # << >> /\ exact /\ tab = doc /\ Shape /\ Len(calls) > 1
      /\ Caller.fn = "bson_to_array" /\ RawSetI(stack, Caller.n)
      /\ Expect(Caller, Caller.key, Table(Top.id))
      /\ calls' = [rest EXCEPT ![M].n = @ + 1]
  BY DEF AInv, Aligned, RInv, Room, TypeOK, ReturnToArray
<1>2. M \in Nat \ {0} /\ M \in 1 .. Len(calls) - 1 /\ M \in 1 .. Len(calls) /\ Len(calls) = M + 1
  BY <1>1
<1>3. /\ Caller \in CallType /\ Top \in CallType /\ Caller = calls[M] /\ Top = calls[M + 1]
      /\ Caller.id \in 1 .. MaxTables /\ Caller.at \in Nat
  BY <1>1, <1>2, TopType DEF Caller, Top, CallType
<1>4. /\ Len(stack) = Caller.at + 1 /\ Caller.at >= 1
      /\ stack[Caller.at] = Table(Caller.id)
      /\ Caller.key = Index(Caller.n)
      /\ stack[Caller.at + 1] = Table(Top.id)
  <2>1. M + 1 \in 1 .. Len(calls)
    BY <1>2
  <2> QED
    BY <1>1, <1>2, <1>3, <2>1 DEF Shape
<1>5. At(stack, 1) = Table(Top.id) /\ At(stack, 2) = Table(Caller.id)
  BY <1>3, <1>4 DEF At
<1>6. Store(Table(Caller.id), Caller.key, Table(Top.id), s)
  BY <1>1, <1>4, <1>5 DEF RawSetI
<1>7. tab' = doc' /\ stack' = s /\ status' = status
  BY <1>1, <1>3, <1>6, StoreInTable
<1>8. /\ s \in Seq(Values) /\ Len(s) = Caller.at /\ Len(s) <= Len(stack)
      /\ \A p \in 1 .. Len(s) : s[p] = stack[p]
  <2>1. Len(stack) \in Nat
    BY <1>1
  <2>2. Len(stack) - 1 = Caller.at /\ Caller.at \in 0 .. Len(stack)
    <3>1. Len(stack) = Caller.at + 1
      BY <1>4
    <3>2. Caller.at \in Nat
      BY <1>3
    <3> HIDE DEF M, s
    <3> QED
      BY <3>1, <3>2
  <2>3. stack \in Seq(Values)
    BY <1>1
  <2> QED
    BY <2>1, <2>2, <2>3, Cut
<1>9. /\ Len(calls') = M
      /\ \A i \in 1 .. M - 1 : calls'[i] = calls[i]
      /\ calls'[M] = [calls[M] EXCEPT !.n = calls[M].n + 1]
  <2>1. Len(rest) = M /\ rest \in Seq(CallType) /\ \A i \in 1 .. M : rest[i] = calls[i]
    <3>1. M \in 0 .. Len(calls)
      BY <1>2
    <3> QED
      BY <1>1, <3>1, Cut
  <2>2. DOMAIN rest = 1 .. M /\ M \in 1 .. M /\ \A i \in 1 .. M - 1 : i \in 1 .. M /\ i # M
    <3> HIDE DEF rest, M
    <3>1. DOMAIN rest = 1 .. M
      BY <2>1
    <3>2. M \in Nat \ {0}
      BY <1>2
    <3> QED
      BY <3>1, <3>2
  <2> HIDE DEF rest, M
  <2>3. Len(calls') = M
    BY <1>1, <2>1, <2>2
  <2>4. \A i \in 1 .. M : calls'[i] = IF i = M THEN [rest[M] EXCEPT !.n = rest[M].n + 1] ELSE rest[i]
    BY <1>1, <2>2
  <2> QED
    BY <2>1, <2>2, <2>3, <2>4
<1>10. \A i \in 1 .. M : /\ calls'[i].at = calls[i].at
                         /\ calls'[i].id = calls[i].id
                         /\ calls'[i].fn = calls[i].fn
                         /\ calls'[i].key = calls[i].key
  <2>1. \A i \in 1 .. M : i = M \/ i \in 1 .. M - 1
    <3>1. M \in Nat
      BY <1>2
    <3> HIDE DEF M
    <3> QED
      BY <3>1
  <2>2. calls[M] \in CallType
    BY <1>3
  <2> HIDE DEF M
  <2>3. /\ calls'[M].at = calls[M].at /\ calls'[M].id = calls[M].id
        /\ calls'[M].fn = calls[M].fn /\ calls'[M].key = calls[M].key
    BY <1>9, <2>2, CallExcept
  <2> QED
    BY <1>9, <2>1, <2>3
<1>11. Shape'
  <2> HIDE DEF M, s
  <2> QED
    BY <1>1, <1>2, <1>3, <1>7, <1>8, <1>9, <1>10, ShapePop
<1> QED
  BY <1>1, <1>7, <1>11

LEMMA AInvReturnToHandler == AInv /\ ReturnToHandler => Aligned'
<1> SUFFICES ASSUME AInv, ReturnToHandler, exact'
             PROVE  tab' = doc' /\ status' = "done" /\ stack' # << >>
                    /\ stack'[Len(stack')] = Table(1)
  BY DEF Aligned
<1>1. /\ TypeOK /\ status = "running" /\ stack \in Seq(Values) /\ exact /\ tab = doc /\ Shape
      /\ Len(calls) = 1 /\ status' = "done" /\ UNCHANGED <<stack, tab, doc, exact>>
  BY DEF AInv, Aligned, RInv, TypeOK, ReturnToHandler
<1>2. stack[Len(stack)] = Table(1) /\ Len(stack) >= 1
  BY <1>1 DEF Shape, Top
<1> QED
  BY <1>1, <1>2

LEMMA AInvBsonToLua == AInv /\ BsonToLua => Aligned'
<1> SUFFICES ASSUME AInv, BsonToLua, exact' PROVE Aligned'
  BY DEF Aligned
<1>1. exact /\ tab = doc /\ UNCHANGED <<tab, doc, exact>> /\ stack \in Seq(Values)
  BY DEF AInv, Aligned, RInv, TypeOK, BsonToLua
<1>2. CASE status' = "empty"
  BY <1>1, <1>2 DEF Aligned
<1>3. CASE status' = "running"
  <2>1. /\ stack' = Append(stack, Table(1))
        /\ calls' = <<Call("bson_to_table", 1, Len(stack) + 1)>>
    BY <1>3 DEF BsonToLua
  <2>2. Len(calls') = 1 /\ calls'[1].id = 1 /\ calls'[1].at = Len(stack) + 1
    BY <2>1 DEF Call
  <2>3. Len(stack') = Len(stack) + 1 /\ stack'[Len(stack) + 1] = Table(1) /\ Len(stack) \in Nat
    BY <1>1, <2>1
  <2>4. Shape'
    BY <2>2, <2>3 DEF Shape, Top
  <2> QED
    BY <1>1, <1>3, <2>4 DEF Aligned
<1> QED
  BY <1>2, <1>3 DEF BsonToLua

LEMMA AInvStep == AInv /\ [Next]_vars => AInv'
<1> SUFFICES ASSUME AInv, [Next]_vars PROVE AInv'
  OBVIOUS
<1>1. RInv'
  BY RInvStep DEF AInv
<1>2. CASE Next
  BY <1>1, <1>2, AInvBsonToLua, AInvTableScalar, AInvArrayScalar, AInvTableEmbedded,
     AInvArrayEmbedded, AInvReturnToTable, AInvReturnToArray, AInvReturnToHandler
     DEF Next, AInv
<1>3. CASE UNCHANGED vars
  BY <1>1, <1>3 DEF vars, AInv, Aligned, Shape, Top
<1> QED
  BY <1>2, <1>3

(* A document of types that lua_push_value has an exact case for comes out as
   itself, however it is nested: no undefined behaviour on the way, nothing of
   the caller's written to, and the table on top of the stack holds it. *)
THEOREM HandledIsMarshalled == Spec => []HandledMarshalled
<1>1. AInv => HandledMarshalled
  BY DEF AInv, Aligned, HandledMarshalled, FullyMarshalled, Marshalled
<1> QED
  BY <1>1, AInvInit, AInvStep, PTL DEF Spec

==============================================================================
