------------------------------ MODULE BsonToLua ------------------------------
(***************************************************************************)
(* How a document of the server becomes a Lua table (utils.cpp:            *)
(* bson_to_lua, bson_to_table, bson_to_array, lua_push_value).             *)
(*                                                                         *)
(* The functions keep no pointer to the tables they fill: they address     *)
(* them from the top of the Lua stack.  lua_push_value has no case for     *)
(* some element types and pushes nothing for them, and then lua_rawset     *)
(* takes for a table, a key and a value whatever lies on the stack.  It    *)
(* does not check what it is given: a table that is none is undefined      *)
(* behaviour.                                                              *)
(*                                                                         *)
(* The document is the environment's choice, made as it is read: at every  *)
(* turn the iterator gives an element of any type or is at its end.        *)
(***************************************************************************)
EXTENDS Naturals, Sequences

CONSTANTS
  Types,         \* the element types the server may send
  Names,         \* the field names
  MinStack,      \* LUA_MINSTACK: the stack slots a C function may use unasked
  MaxTables,     \* bound: documents, embedded documents and arrays
  MaxElements    \* bound: elements

Plain == {"NumberInt", "NumberLong", "NumberDouble", "Bool", "String"}
Typed == {"Date", "Timestamp", "Symbol", "BinData", "RegEx", "jstOID", "jstNULL"}
Containers == {"Object", "Array"}
Unhandled == {"Code", "CodeWScope", "DBRef", "MinKey", "MaxKey"}
BSONTypes == Plain \cup Typed \cup Containers \cup Unhandled \cup {"Undefined"}

ASSUME TypesAssumption == Types \subseteq BSONTypes
ASSUME BoundsAssumption == MaxTables \in Nat /\ MaxElements \in Nat
ASSUME MinStackAssumption == MinStack \in Nat /\ MinStack >= 4

ExtraStack == 5  \* EXTRA_STACK: slots Lua keeps beyond those it promises

(* Lua values.  A table is its number; 0 is one the caller passed. *)
Table(t) == <<"table", t>>
Name(n) == <<"name", n>>
Index(i) == <<"index", i>>
Nil == <<"nil", "nil">>
Other == <<"other", "other">>

Tables == 0 .. MaxTables
TableValues == {"table"} \X Tables
Keys == ({"name"} \X Names) \cup ({"index"} \X Nat)
Scalars == ({"plain"} \X Plain) \cup ({"typed"} \X (Typed \ {"Timestamp"}))
           \cup {Nil}
Values == TableValues \cup Keys \cup Scalars \cup {Other}

VARIABLES
  status,    \* "start", "running", then "done", "empty" or "undefined"
  stack,     \* the Lua stack of the handler, arguments first
  room,      \* how many slots of it Lua has promised (ci->top)
  overrun,   \* history: the most slots used beyond room
  calls,     \* the calls of bson_to_table and bson_to_array in progress
  tab,       \* what each Lua table holds: pairs of a key and a value
  doc,       \* history: what it should hold, by the document as read so far
  next,      \* tables created
  elements,  \* elements read
  exact      \* history: no element was of a type that loses anything

vars == <<status, stack, room, overrun, calls, tab, doc, next, elements, exact>>

Init ==
  /\ status = "start"
  /\ stack \in {<<Other>>, <<Other, Table(0)>>}  \* cursor_next; find_one's query
  /\ room = MinStack
  /\ overrun = 0
  /\ calls = << >>
  /\ tab = [t \in Tables |-> {}]
  /\ doc = [t \in Tables |-> {}]
  /\ next = 0
  /\ elements = 0
  /\ exact = TRUE

-----------------------------------------------------------------------------
(* The Lua stack.                                                           *)

(* The value at index -i; below the arguments there is no table. *)
At(s, i) == IF i <= Len(s) THEN s[Len(s) - i + 1] ELSE Other

(* Table content f after key k was set to v: nil removes the key. *)
Put(f, k, v) ==
  {p \in f : p[1] # k} \cup (IF v = Nil THEN {} ELSE {<<k, v>>})

(* t[k] = v without a check, leaving stack s. *)
Store(t, k, v, s) ==
  IF t \in TableValues
  THEN /\ tab' = [tab EXCEPT ![t[2]] = Put(@, k, v)]
       /\ stack' = s
       /\ status' = status
  ELSE /\ status' = "undefined"
       /\ UNCHANGED <<tab, stack>>

(* lua_rawset(L, -3) and lua_rawseti(L, -2, n) on stack s. *)
RawSet(s) == Store(At(s, 3), At(s, 2), At(s, 1), SubSeq(s, 1, Len(s) - 2))
RawSetI(s, n) == Store(At(s, 2), Index(n), At(s, 1), SubSeq(s, 1, Len(s) - 1))

Larger(a, b) == IF a >= b THEN a ELSE b
Beyond(height, r) == IF height > r THEN height - r ELSE 0

(* Mutant: nothing is asked for. *)
CheckStackNever(height) == room

(* lua_checkstack(L, 2) on a stack of this height. *)
CheckStack(height) == Larger(room, height + 2)

(* A key is pushed, if there is one, then lua_push_value asks for two slots on
   stack s and uses so many. *)
Use(s, slots) ==
  /\ room' = CheckStack(Len(s))
  /\ overrun' = Larger(overrun, Larger(Beyond(Len(s), room),
                                       Beyond(Len(s) + slots, room')))

-----------------------------------------------------------------------------
(* lua_push_value.                                                          *)

(* What a scalar of this type becomes: a Timestamp becomes a Date. *)
LuaValue(type) ==
  IF type = "Undefined" THEN Nil
  ELSE IF type \in Plain THEN <<"plain", type>>
  ELSE <<"typed", IF type = "Timestamp" THEN "Date" ELSE type>>

(* Mutant: no nil for Undefined. *)
PushValueNoNil(s, type) ==
  IF type \in Unhandled \cup {"Undefined"} THEN s ELSE Append(s, LuaValue(type))

(* Mutant: the default case pushes a table of its type. *)
PushValueAnyType(s, type) == Append(s, LuaValue(type))

(* The stack after a scalar; nothing is pushed for an unhandled type. *)
PushValue(s, type) == IF type \in Unhandled THEN s ELSE Append(s, LuaValue(type))

(* push_bsontype_table has the table, its metatable, a key and a value on the
   stack at once. *)
Slots(type) == IF type \in Typed THEN 4 ELSE 1

(* What a faithful copy would hold. *)
Image(type) ==
  IF type = "Undefined" THEN Nil
  ELSE IF type \in Plain THEN <<"plain", type>> ELSE <<"typed", type>>

Loses(type) == type \in Unhandled \cup {"Timestamp"}

-----------------------------------------------------------------------------
(* bson_to_table and bson_to_array.                                         *)

Top == calls[Len(calls)]
In(fn) == status = "running" /\ Top.fn = fn
Read == elements < MaxElements /\ elements' = elements + 1

(* A call, with the local variables it has: the field it is at, or the index. *)
Call(fn, t, height) == [fn |-> fn, id |-> t, key |-> Nil, n |-> 1, at |-> height]

Expect(c, key, v) == doc' = [doc EXCEPT ![c.id] = Put(@, key, v)]

(* A scalar field of a document. *)
TableScalar ==
  /\ In("bson_to_table")
  /\ Read
  /\ \E name \in Names, type \in Types \ Containers :
       LET s == Append(stack, Name(name)) IN
       /\ Use(s, Slots(type))
       /\ RawSet(PushValue(s, type))
       /\ Expect(Top, Name(name), Image(type))
       /\ exact' = (exact /\ ~Loses(type))
  /\ UNCHANGED <<calls, next>>

(* A scalar element of an array. *)
ArrayScalar ==
  /\ In("bson_to_array")
  /\ Read
  /\ \E type \in Types \ Containers :
       /\ Use(stack, Slots(type))
       /\ RawSetI(PushValue(stack, type), Top.n)
       /\ Expect(Top, Index(Top.n), Image(type))
       /\ exact' = (exact /\ ~Loses(type))
  /\ calls' = [calls EXCEPT ![Len(calls)].n = @ + 1]
  /\ UNCHANGED next

(* An embedded object under this key: the function for it makes its table on
   stack s. *)
Descend(s, key) ==
  /\ Read
  /\ next < MaxTables
  /\ next' = next + 1
  /\ Use(s, 1)
  /\ stack' = Append(s, Table(next + 1))
  /\ \E fn \in {"bson_to_table", "bson_to_array"} :
       /\ (IF fn = "bson_to_table" THEN "Object" ELSE "Array") \in Types
       /\ calls' = Append([calls EXCEPT ![Len(calls)].key = key],
                          Call(fn, next + 1, Len(s) + 1))
  /\ UNCHANGED <<status, tab, doc, exact>>

TableEmbedded ==
  /\ In("bson_to_table")
  /\ \E name \in Names : Descend(Append(stack, Name(name)), Name(name))

ArrayEmbedded ==
  /\ In("bson_to_array")
  /\ Descend(stack, Index(Top.n))

(* The iterator is at its end: the function returns to the one that called it,
   which stores the top of the stack. *)
Caller == calls[Len(calls) - 1]

ReturnToTable ==
  /\ status = "running"
  /\ Len(calls) > 1
  /\ Caller.fn = "bson_to_table"
  /\ RawSet(stack)
  /\ Expect(Caller, Caller.key, Table(Top.id))
  /\ calls' = SubSeq(calls, 1, Len(calls) - 1)
  /\ UNCHANGED <<room, overrun, next, elements, exact>>

ReturnToArray ==
  /\ status = "running"
  /\ Len(calls) > 1
  /\ Caller.fn = "bson_to_array"
  /\ RawSetI(stack, Caller.n)
  /\ Expect(Caller, Caller.key, Table(Top.id))
  /\ calls' = [SubSeq(calls, 1, Len(calls) - 1) EXCEPT ![Len(calls) - 1].n = @ + 1]
  /\ UNCHANGED <<room, overrun, next, elements, exact>>

ReturnToHandler ==
  /\ status = "running"
  /\ Len(calls) = 1
  /\ status' = "done"
  /\ calls' = << >>
  /\ UNCHANGED <<stack, room, overrun, tab, doc, next, elements, exact>>

(* bson_to_lua: nil for an empty document, else a table. *)
BsonToLua ==
  /\ status = "start"
  /\ \/ /\ status' = "empty"
        /\ stack' = Append(stack, Nil)
        /\ UNCHANGED <<calls, next>>
     \/ /\ MaxTables >= 1
        /\ status' = "running"
        /\ stack' = Append(stack, Table(1))
        /\ calls' = <<Call("bson_to_table", 1, Len(stack) + 1)>>
        /\ next' = 1
  /\ UNCHANGED <<room, overrun, tab, doc, elements, exact>>

-----------------------------------------------------------------------------

Next ==
  \/ BsonToLua
  \/ TableScalar
  \/ ArrayScalar
  \/ TableEmbedded
  \/ ArrayEmbedded
  \/ ReturnToTable
  \/ ReturnToArray
  \/ ReturnToHandler

Spec == Init /\ [][Next]_vars

-----------------------------------------------------------------------------
(* Properties.                                                              *)

CallType ==
  [fn : {"bson_to_table", "bson_to_array"}, id : 1 .. MaxTables,
   key : Keys \cup {Nil}, n : Nat, at : Nat]

(* Every variable has its type: what is on the stack and in the tables are Lua
   values that mongo.type and the methods of the binding know. *)
TypeOK ==
  /\ status \in {"start", "running", "done", "empty", "undefined"}
  /\ stack \in Seq(Values)
  /\ room \in Nat
  /\ overrun \in Nat
  /\ calls \in Seq(CallType)
  /\ tab \in [Tables -> SUBSET (Values \X Values)]
  /\ doc \in [Tables -> SUBSET (Values \X (Values \cup ({"typed"} \X BSONTypes)))]
  /\ next \in Tables
  /\ elements \in 0 .. MaxElements
  /\ exact \in BOOLEAN

(* What the handler returns is a table of its own that holds the document, and
   no table of the caller's was written to. *)
Marshalled == stack # << >> /\ stack[Len(stack)] = Table(1) /\ tab = doc

(* Every document that is not empty is marshalled to a table, however it is
   nested, as README.md says of every document. *)
FullyMarshalled == status \in {"done", "undefined"} => Marshalled

(* The same for a document of the types lua_push_value has an exact case for. *)
HandledMarshalled == exact => FullyMarshalled

(* However deep a document is nested, the functions stay within the slots that
   Lua has, although two are asked for and up to four are used. *)
StackRoom == overrun <= ExtraStack

==============================================================================
