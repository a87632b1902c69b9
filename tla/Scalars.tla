------------------------------ MODULE Scalars ------------------------------
(***************************************************************************)
(* Single values on their way from Lua to BSON and back: lua_append_bson   *)
(* and lua_push_value without the tables around them, and the functions of *)
(* the type tables (mongo.Date and the like).                              *)
(*                                                                         *)
(* The number of a script is a double.  Numbers are counted in halves, so  *)
(* that there are some which are not whole: 3 is one and a half.  The      *)
(* widths of the integers, the doubles there are and the digits a number   *)
(* is written with are parameters.                                         *)
(*                                                                         *)
(* A text is <<kind, head, tail>>: what it reads as up to the first zero   *)
(* byte, "numeral", "oid" or "word" and which, and what follows that byte, *)
(* 0 if there is none.  No text is both a numeral and an object id here.   *)
(* A value of Lua is a tuple that begins with its type, a value of BSON    *)
(* one that begins with the name of its type.                              *)
(***************************************************************************)
EXTENDS Integers, Sequences

CONSTANTS
  IntMax,      \* INT_MAX
  LongMax,     \* the largest long long
  Doubles,     \* the numbers a double can be, in halves
  Round(_),    \* the double for a number
  Short(_),    \* the number written in the six digits of a stream
  Written(_)   \* the number written by lua_tostring, in fourteen digits

ULongMax == 2 * LongMax + 1
UIntMax == 2 * IntMax + 1
IntRange == (-IntMax - 1) .. IntMax
LongRange == (-LongMax - 1) .. LongMax
\* The numbers looked at: a little more than the widest integer holds.
Span == (-2 * ULongMax - 2) .. (2 * ULongMax + 2)

Whole(x) == x % 2 = 0

ASSUME WidthAssumption == IntMax \in Nat /\ LongMax \in Nat /\ IntMax <= LongMax
ASSUME DoublesAssumption ==
  /\ Doubles \subseteq Span
  /\ \A i \in IntRange \cup 0 .. UIntMax : 2 * i \in Doubles
ASSUME RoundAssumption ==
  /\ \A x \in Span : Round(x) \in Doubles
  /\ \A x \in Doubles : Round(x) = x
  /\ \A x \in Span : Whole(x) => Whole(Round(x))
  /\ \A x, y \in Span : x <= y => Round(x) <= Round(y)
ASSUME DigitsAssumption == \A x \in Doubles : Short(x) \in Span /\ Written(x) \in Span

(***************************************************************************)
(* Texts.  A char pointer ends at the first zero byte.                     *)
(***************************************************************************)
Numeral(x) == <<"numeral", x, 0>>
Cut(t) == <<t[1], t[2], 0>>

(***************************************************************************)
(* lua_tonumber, lua_tostring and the tests of what they can convert.      *)
(***************************************************************************)
IsNumber(v) == v[1] = "number" \/ (v[1] = "string" /\ v[2][1] = "numeral" /\ v[2][3] = 0)
ToNumber(v) == IF ~IsNumber(v) THEN 0 ELSE IF v[1] = "number" THEN v[2] ELSE Round(v[2][2])
IsString(v) == v[1] \in {"number", "string"}
ToString(v) == IF v[1] = "number" THEN Numeral(Written(v[2])) ELSE v[2]

(***************************************************************************)
(* Casts.  Where the number does not fit the behaviour is undefined and g  *)
(* is what comes of it.                                                    *)
(***************************************************************************)
Trunc(x) == IF x >= 0 THEN x \div 2 ELSE -((-x) \div 2)
Signed(u) == IF u <= LongMax THEN u ELSE u - (ULongMax + 1)
AsUnsigned(x, g) == IF Trunc(x) \in 0 .. ULongMax THEN Trunc(x) ELSE g
AsLong(x, g) == IF Trunc(x) \in LongRange THEN Trunc(x) ELSE Signed(g)
\* static_cast<int32_t>
Wrapped(i) == ((i + IntMax + 1) % (2 * IntMax + 2)) - (IntMax + 1)
\* Mutant: the cast to 32 bits is forgotten.
AsWideInt(x, g) == AsLong(x, g)
AsInt(x, g) == Wrapped(AsLong(x, g))

(***************************************************************************)
(* lua_append_bson for what is no plain table.  Nothing: the entry is left *)
(* out, since what the type table holds is no text.                        *)
(***************************************************************************)
Nothing == <<"none">>

\* Mutant: a fraction counts as whole.
SmallNumber(x) == -2 * IntMax < x /\ x < 2 * IntMax
SmallWhole(x) == Whole(x) /\ -2 * IntMax < x /\ x < 2 * IntMax

Encode(v, g) ==
  CASE v[1] = "nil" -> <<"jstNULL">>
    [] v[1] = "number" /\ SmallWhole(v[2]) -> <<"NumberInt", Trunc(v[2])>>
    [] v[1] = "number" /\ ~SmallWhole(v[2]) -> <<"NumberDouble", v[2]>>
    [] v[1] = "boolean" -> <<"Bool", v[2]>>
    [] v[1] = "string" -> <<"String", Cut(v[2])>>
    [] v[1] = "Date" -> <<"Date", AsUnsigned(ToNumber(v[2]), g)>>
    [] v[1] = "Timestamp" -> <<"Timestamp", 0, 0>>
    [] v[1] = "RegEx" ->
         IF IsString(v[2]) /\ IsString(v[3])
         THEN <<"RegEx", Cut(ToString(v[2])), Cut(ToString(v[3]))>> ELSE Nothing
    [] v[1] = "NumberInt" -> <<"NumberInt", AsInt(ToNumber(v[2]), g)>>
    [] v[1] = "NumberLong" -> <<"NumberLong", AsLong(ToNumber(v[2]), g)>>
    [] v[1] = "Symbol" ->
         IF IsString(v[2]) THEN <<"Symbol", Cut(ToString(v[2]))>> ELSE Nothing
    [] v[1] = "BinData" ->
         IF IsString(v[2]) THEN <<"BinData", ToString(v[2]), 0>> ELSE Nothing
    [] v[1] = "ObjectId" ->
         IF IsString(v[2]) THEN <<"jstOID", Cut(ToString(v[2]))>> ELSE Nothing
    [] v[1] = "NULL" -> <<"jstNULL">>
    [] OTHER -> Nothing

\* OID::init takes nothing but the text of an object id.
Refused(v) == v[1] = "ObjectId" /\ IsString(v[2]) /\ ToString(v[2])[1] # "oid"

\* The conversion of this value is undefined.
Overflows(v) ==
  \/ v[1] = "Date" /\ Trunc(ToNumber(v[2])) \notin 0 .. ULongMax
  \/ v[1] \in {"NumberInt", "NumberLong"} /\ Trunc(ToNumber(v[2])) \notin LongRange

(***************************************************************************)
(* lua_push_value for what is neither Object nor Array.                    *)
(***************************************************************************)
Nil == <<"nil">>
Number(x) == <<"number", x>>
String(t) == <<"string", t>>

\* lua_pushnumber of a long long.  Mutant: it is read as an int.
LongAsInt(n) == Number(2 * Wrapped(n))
PushLong(n) == Number(Round(2 * n))

\* A Timestamp becomes a Date.  Mutant: it stays a Timestamp.
TimestampAsIs(s, i) == <<"Timestamp", Number(2 * ((s + i) % (UIntMax + 1)))>>
PushTimestamp(s, i) == <<"Date", Number(2 * ((s + i) % (UIntMax + 1)))>>

\* Mutant: a Symbol becomes a plain string.
SymbolAsString(t) == String(Cut(t))
PushSymbol(t) == <<"Symbol", String(Cut(t))>>

Decode(e) ==
  CASE e[1] = "Undefined" -> Nil
    [] e[1] = "NumberInt" -> Number(2 * e[2])
    [] e[1] = "NumberLong" -> PushLong(e[2])
    [] e[1] = "NumberDouble" -> Number(e[2])
    [] e[1] = "Bool" -> <<"boolean", e[2]>>
    [] e[1] = "String" -> String(Cut(e[2]))
    [] e[1] = "Date" -> <<"Date", Number(Round(2 * e[2]))>>
    [] e[1] = "Timestamp" -> PushTimestamp(e[2], e[3])
    [] e[1] = "Symbol" -> PushSymbol(e[2])
    [] e[1] = "BinData" -> <<"BinData", String(e[2])>>
    [] e[1] = "RegEx" -> <<"RegEx", String(Cut(e[2])), String(Cut(e[3]))>>
    [] e[1] = "jstOID" -> <<"ObjectId", String(e[2])>>
    [] e[1] = "jstNULL" -> <<"NULL">>

\* The type tables that hold one value; a RegEx holds two, NULL none.
Boxes == {"Date", "Timestamp", "NumberInt", "NumberLong", "Symbol", "BinData", "ObjectId"}

(***************************************************************************)
(* __call with an argument: box(x) replaces what the box holds, if x is of *)
(* the right type.                                                         *)
(***************************************************************************)
Takes(b, a) ==
  CASE b \in {"NumberInt", "NumberLong", "Date", "Timestamp"} -> IsNumber(a)
    [] b \in {"Symbol", "BinData", "ObjectId", "RegEx"} -> IsString(a)
    [] OTHER -> FALSE

(***************************************************************************)
(* mongo.tonumber(v) of base ten: a number, or nil.                        *)
(***************************************************************************)
BsonToNumber(v) ==
  IF IsNumber(v) THEN Number(ToNumber(v))
  ELSE IF v[1] \in Boxes \cup {"RegEx"} /\ IsNumber(v[2]) THEN Number(ToNumber(v[2]))
  ELSE Nil
=============================================================================
