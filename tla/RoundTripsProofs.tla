-------------------------- MODULE RoundTripsProofs --------------------------
(***************************************************************************)
(* What a trip to the server keeps, for integers of every width, every set *)
(* of doubles and every way to round and to write numbers.  First the      *)
(* single values, then the tables and documents, then the specification.   *)
(***************************************************************************)
EXTENDS RoundTrips, FiniteSetTheorems, FunctionTheorems, WellFoundedInduction, TLAPS

(***************************************************************************)
(* The forms of values and elements.                                       *)
(***************************************************************************)

\* A value that a number, a text, a boolean or a box can be is known by its tag.
LEMMA PlainForms ==
  ASSUME NEW v \in Plain
  PROVE  /\ v[1] \in {"number", "string", "boolean"}
         /\ v[1] = "number" => v = Number(v[2]) /\ v[2] \in Doubles
         /\ v[1] = "string" => v = String(v[2]) /\ v[2] \in Texts
         /\ v[1] = "boolean" => v = <<"boolean", v[2]>> /\ v[2] \in BOOLEAN
<1>1. CASE v \in {"number"} \X Doubles
  BY <1>1 DEF Number
<1>2. CASE v \in {"string"} \X Texts
  BY <1>2 DEF String
<1>3. CASE v \in {"boolean"} \X BOOLEAN
  BY <1>3
<1> QED
  BY <1>1, <1>2, <1>3 DEF Plain

LEMMA ValueForms ==
  ASSUME NEW v \in ValueTypes
  PROVE  /\ v[1] \in {"number", "string", "boolean"} \cup Boxes \cup {"RegEx", "NULL"}
         /\ v[1] \in {"number", "string", "boolean"} => v \in Plain
         /\ v[1] \in Boxes => v = <<v[1], v[2]>> /\ v[2] \in Plain
         /\ v[1] = "RegEx" => v = <<"RegEx", v[2], v[3]>> /\ v[2] \in Plain /\ v[3] \in Plain
         /\ v[1] = "NULL" => v = <<"NULL">>
<1>1. CASE v \in Plain
  BY <1>1, PlainForms DEF Boxes
<1>2. CASE v \in Boxes \X Plain
  BY <1>2 DEF Boxes
<1>3. CASE v \in {"RegEx"} \X Plain \X Plain
  BY <1>3 DEF Boxes
<1>4. CASE v = <<"NULL">>
  BY <1>4 DEF Boxes
<1> QED
  BY <1>1, <1>2, <1>3, <1>4 DEF ValueTypes

LEMMA TextForms ==
  ASSUME NEW t \in Texts
  PROVE  /\ t = <<t[1], t[2], t[3]>>
         /\ t[1] \in {"numeral", "oid", "word"}
         /\ t[1] = "numeral" => t[2] \in Span
         /\ t[1] # "numeral" => t[2] \in Nat
         /\ Cut(t) \in Texts
<1>1. CASE t \in {"numeral"} \X Span \X Nat
  <2>1. Cut(t) \in {"numeral"} \X Span \X Nat
    BY <1>1 DEF Cut
  <2> QED
    BY <1>1, <2>1 DEF Texts
<1>2. CASE t \in {"oid", "word"} \X Nat \X Nat
  <2>1. Cut(t) \in {"oid", "word"} \X Nat \X Nat
    BY <1>2 DEF Cut
  <2> QED
    BY <1>2, <2>1 DEF Texts
<1> QED
  BY <1>1, <1>2 DEF Texts

ElementTags ==
  {"NumberInt", "NumberLong", "NumberDouble", "Bool", "String", "Symbol", "jstOID", "RegEx",
   "BinData", "Date", "Timestamp", "jstNULL", "Undefined"}

LEMMA ElementForms ==
  ASSUME NEW e \in ElementTypes
  PROVE  /\ e[1] \in ElementTags
         /\ e[1] = "NumberInt" => e = <<"NumberInt", e[2]>> /\ e[2] \in IntRange
         /\ e[1] = "NumberLong" => e = <<"NumberLong", e[2]>> /\ e[2] \in LongRange
         /\ e[1] = "NumberDouble" => e = <<"NumberDouble", e[2]>> /\ e[2] \in Doubles
         /\ e[1] = "Bool" => e = <<"Bool", e[2]>> /\ e[2] \in BOOLEAN
         /\ e[1] \in {"String", "Symbol"} => e = <<e[1], e[2]>> /\ e[2] \in Texts
         /\ e[1] = "jstOID" => /\ e = <<"jstOID", e[2]>> /\ e[2] \in Texts
                               /\ e[2][1] = "oid" /\ e[2] = Cut(e[2])
         /\ e[1] = "RegEx" => e = <<"RegEx", e[2], e[3]>> /\ e[2] \in Texts /\ e[3] \in Texts
         /\ e[1] = "BinData" => e = <<"BinData", e[2], e[3]>> /\ e[2] \in Texts
         /\ e[1] = "Date" => e = <<"Date", e[2]>> /\ e[2] \in 0 .. ULongMax
         /\ e[1] = "Timestamp" => /\ e = <<"Timestamp", e[2], e[3]>>
                                  /\ e[2] \in 0 .. UIntMax /\ e[3] \in 0 .. UIntMax
         /\ e[1] = "jstNULL" => e = <<"jstNULL">>
         /\ e[1] = "Undefined" => e = <<"Undefined">>
<1>1. CASE e \in {"NumberInt"} \X IntRange
  BY <1>1 DEF ElementTags
<1>2. CASE e \in {"NumberLong"} \X LongRange
  BY <1>2 DEF ElementTags
<1>3. CASE e \in {"NumberDouble"} \X Doubles
  BY <1>3 DEF ElementTags
<1>4. CASE e \in {"Bool"} \X BOOLEAN
  BY <1>4 DEF ElementTags
<1>5. CASE e \in {"String", "Symbol"} \X Texts
  BY <1>5 DEF ElementTags
<1>6. CASE e \in {"jstOID"} \X ({"oid"} \X Nat \X {0})
  <2>1. PICK n \in Nat : e = <<"jstOID", <<"oid", n, 0>> >>
    BY <1>6
  <2>2. <<"oid", n, 0>> \in Texts
    BY DEF Texts
  <2> QED
    BY <2>1, <2>2 DEF ElementTags, Cut
<1>7. CASE e \in {"RegEx"} \X Texts \X Texts
  BY <1>7 DEF ElementTags
<1>8. CASE e \in {"BinData"} \X Texts \X Nat
  BY <1>8 DEF ElementTags
<1>9. CASE e \in {"Date"} \X (0 .. ULongMax)
  BY <1>9 DEF ElementTags
<1>10. CASE e \in {"Timestamp"} \X (0 .. UIntMax) \X (0 .. UIntMax)
  BY <1>10 DEF ElementTags
<1>11. CASE e \in {<<"jstNULL">>, <<"Undefined">>}
  BY <1>11 DEF ElementTags
<1> QED
  BY <1>1, <1>2, <1>3, <1>4, <1>5, <1>6, <1>7, <1>8, <1>9, <1>10, <1>11 DEF ElementTypes

(***************************************************************************)
(* Widths and casts.                                                       *)
(***************************************************************************)

LEMMA Widths ==
  /\ IntMax \in Nat /\ LongMax \in Nat /\ IntMax <= LongMax
  /\ UIntMax = 2 * IntMax + 1 /\ ULongMax = 2 * LongMax + 1
  /\ IntRange = (-IntMax - 1) .. IntMax /\ LongRange = (-LongMax - 1) .. LongMax
  /\ Span = (-2 * ULongMax - 2) .. (2 * ULongMax + 2)
  /\ Doubles \subseteq Span
BY WidthAssumption, DoublesAssumption
   DEF UIntMax, ULongMax, IntRange, LongRange, Span

\* Every whole number of a type is a number that can be rounded.
LEMMA Rounding ==
  /\ \A i \in IntRange \cup 0 .. UIntMax : 2 * i \in Doubles /\ Round(2 * i) = 2 * i
  /\ \A i \in LongRange \cup 0 .. ULongMax : 2 * i \in Span /\ Round(2 * i) \in Doubles
  /\ \A x \in Doubles : Round(x) = x /\ x \in Int
<1>1. \A i \in LongRange \cup 0 .. ULongMax : 2 * i \in Span
  BY Widths
<1>2. \A x \in Doubles : x \in Int
  BY Widths
<1> QED
  BY <1>1, <1>2, DoublesAssumption, RoundAssumption

LEMMA Truncation ==
  /\ \A x \in Int : Trunc(x) \in Int /\ (Whole(x) => 2 * Trunc(x) = x /\ x \div 2 = Trunc(x))
  /\ \A i \in Int : Trunc(2 * i) = i /\ Whole(2 * i) /\ (2 * i) \div 2 = i
<1>1. ASSUME NEW x \in Int
      PROVE  Trunc(x) \in Int /\ (Whole(x) => 2 * Trunc(x) = x /\ x \div 2 = Trunc(x))
  BY DEF Trunc, Whole
<1>2. ASSUME NEW i \in Int
      PROVE  Trunc(2 * i) = i /\ Whole(2 * i) /\ (2 * i) \div 2 = i
  BY DEF Trunc, Whole
<1> QED
  BY <1>1, <1>2

LEMMA Casts ==
  ASSUME NEW x \in Int, NEW g \in 0 .. ULongMax
  PROVE  /\ AsUnsigned(x, g) \in 0 .. ULongMax
         /\ AsLong(x, g) \in LongRange
         /\ AsInt(x, g) \in IntRange
<1>1. Trunc(x) \in Int
  BY Truncation
<1>2. AsUnsigned(x, g) \in 0 .. ULongMax
  BY <1>1 DEF AsUnsigned
<1>3. AsLong(x, g) \in LongRange
  BY <1>1, Widths DEF AsLong, Signed
<1>4. PICK i \in Int : i = AsLong(x, g)
  BY <1>3, Widths
<1>5. PICK m \in Nat : m = 2 * IntMax + 2
  BY Widths
<1>6. PICK j \in Int : j = i + IntMax + 1
  BY <1>4, Widths
<1>7. j % m \in 0 .. m - 1
  BY <1>5, <1>6, Widths
<1>8. Wrapped(i) = (j % m) - (IntMax + 1)
  BY <1>5, <1>6 DEF Wrapped
<1>9. Wrapped(i) \in IntRange
  BY <1>5, <1>7, <1>8, Widths
<1> QED
  BY <1>2, <1>3, <1>4, <1>9 DEF AsInt

LEMMA Timestamps ==
  ASSUME NEW e \in ElementTypes, e[1] = "Timestamp"
  PROVE  e[2] \in Nat /\ e[3] \in Nat
<1>1. e[2] \in 0 .. UIntMax /\ e[3] \in 0 .. UIntMax
  BY ElementForms
<1>2. UIntMax \in Nat
  BY Widths
<1> QED
  BY <1>1, <1>2

\* A number within the width is what the cast makes of it.
LEMMA CastsKeep ==
  ASSUME NEW i \in Int, NEW g
  PROVE  /\ i \in 0 .. ULongMax => AsUnsigned(2 * i, g) = i
         /\ i \in LongRange => AsLong(2 * i, g) = i
         /\ i \in IntRange => AsInt(2 * i, g) = i
<1>1. Trunc(2 * i) = i
  BY Truncation
<1>2. i \in 0 .. ULongMax => AsUnsigned(2 * i, g) = i
  BY <1>1 DEF AsUnsigned
<1>3. i \in LongRange => AsLong(2 * i, g) = i
  BY <1>1 DEF AsLong
<1>4. ASSUME i \in IntRange PROVE AsInt(2 * i, g) = i
  <2>1. AsLong(2 * i, g) = i
    BY <1>3, <1>4, Widths
  <2>2. PICK m \in Nat : m = 2 * IntMax + 2
    BY Widths
  <2>3. PICK j \in Int : j = i + IntMax + 1
    BY Widths
  <2>4. j \in 0 .. m - 1
    BY <1>4, <2>2, <2>3, Widths
  <2>5. j % m = j
    BY <2>2, <2>4
  <2>6. Wrapped(i) = (j % m) - (IntMax + 1)
    BY <2>2, <2>3 DEF Wrapped
  <2> QED
    BY <2>1, <2>3, <2>5, <2>6, Widths DEF AsInt
<1> QED
  BY <1>2, <1>3, <1>4

LEMMA Conversions ==
  ASSUME NEW v \in Plain
  PROVE  /\ ToNumber(v) \in Doubles
         /\ IsString(v) => ToString(v) \in Texts
<1>1. 0 \in Doubles
  BY Rounding, Widths
<1>2. CASE v[1] = "number"
  <2>1. Numeral(Written(v[2])) \in {"numeral"} \X Span \X Nat
    BY <1>2, PlainForms, DigitsAssumption DEF Numeral
  <2> QED
    BY <1>2, <2>1, PlainForms DEF ToNumber, IsNumber, ToString, Texts
<1>3. CASE v[1] = "string"
  <2>1. v[2] \in Texts
    BY <1>3, PlainForms
  <2>2. v[2][1] = "numeral" => Round(v[2][2]) \in Doubles
    BY <2>1, TextForms, RoundAssumption
  <2> QED
    BY <1>1, <1>3, <2>1, <2>2 DEF ToNumber, IsNumber, ToString
<1>4. CASE v[1] = "boolean"
  BY <1>1, <1>4 DEF ToNumber, IsNumber, IsString
<1> QED
  BY <1>2, <1>3, <1>4, PlainForms

-----------------------------------------------------------------------------
(***************************************************************************)
(* Encode and Decode stay within the types.                                *)
(***************************************************************************)

LEMMA EncodeType ==
  ASSUME NEW v \in ValueTypes \cup {Nil}, NEW g \in 0 .. ULongMax, ~Refused(v)
  PROVE  Encode(v, g) \in ElementTypes \cup {Nothing}
<1>1. CASE v[1] = "nil"
  BY <1>1 DEF Encode, ElementTypes
<1>2. CASE v[1] = "number"
  <2>0. v \in ValueTypes
    BY <1>2 DEF Nil
  <2>1. v[2] \in Doubles
    BY <1>2, <2>0, ValueForms, PlainForms
  <2>2. CASE SmallWhole(v[2])
    <3>1. Trunc(v[2]) \in IntRange
      <4>1. v[2] \in Int /\ -2 * IntMax < v[2] /\ v[2] < 2 * IntMax
        BY <2>1, <2>2, Rounding DEF SmallWhole
      <4>2. Trunc(v[2]) \in Int /\ 2 * Trunc(v[2]) = v[2]
        BY <2>2, <4>1, Truncation DEF SmallWhole
      <4>3. PICK t \in Int : t = Trunc(v[2])
        BY <4>2
      <4> QED
        BY <4>1, <4>2, <4>3, Widths
    <3>2. Encode(v, g) = <<"NumberInt", Trunc(v[2])>>
      BY <1>2, <2>2 DEF Encode
    <3> QED
      BY <3>1, <3>2 DEF ElementTypes
  <2>3. CASE ~SmallWhole(v[2])
    <3>1. Encode(v, g) = <<"NumberDouble", v[2]>>
      BY <1>2, <2>3 DEF Encode
    <3> QED
      BY <2>1, <3>1 DEF ElementTypes
  <2> QED
    BY <2>2, <2>3
<1>3. CASE v[1] = "boolean"
  BY <1>3, ValueForms, PlainForms DEF Encode, ElementTypes, Nil
<1>4. CASE v[1] = "string"
  <2>1. Cut(v[2]) \in Texts
    BY <1>4, ValueForms, PlainForms, TextForms DEF Nil
  <2>2. Encode(v, g) = <<"String", Cut(v[2])>>
    BY <1>4 DEF Encode
  <2> QED
    BY <2>1, <2>2 DEF ElementTypes
<1>5. CASE v[1] \in Boxes
  <2>1. v[2] \in Plain
    BY <1>5, ValueForms DEF Nil, Boxes
  <2>2. ToNumber(v[2]) \in Int
    BY <2>1, Conversions, Rounding
  <2>3. IsString(v[2]) => ToString(v[2]) \in Texts /\ Cut(ToString(v[2])) \in Texts
    BY <2>1, Conversions, TextForms
  <2>4. CASE v[1] = "Date"
    <3>1. AsUnsigned(ToNumber(v[2]), g) \in 0 .. ULongMax
      BY <2>2, Casts
    <3>2. Encode(v, g) = <<"Date", AsUnsigned(ToNumber(v[2]), g)>>
      BY <2>4 DEF Encode
    <3> QED
      BY <3>1, <3>2 DEF ElementTypes
  <2>5. CASE v[1] = "Timestamp"
    <3>1. Encode(v, g) = <<"Timestamp", 0, 0>>
      BY <2>5 DEF Encode
    <3>2. 0 \in 0 .. UIntMax
      BY Widths
    <3> QED
      BY <3>1, <3>2 DEF ElementTypes
  <2>6. CASE v[1] = "NumberInt"
    <3>1. AsInt(ToNumber(v[2]), g) \in IntRange
      BY <2>2, Casts
    <3>2. Encode(v, g) = <<"NumberInt", AsInt(ToNumber(v[2]), g)>>
      BY <2>6 DEF Encode
    <3> QED
      BY <3>1, <3>2 DEF ElementTypes
  <2>7. CASE v[1] = "NumberLong"
    <3>1. AsLong(ToNumber(v[2]), g) \in LongRange
      BY <2>2, Casts
    <3>2. Encode(v, g) = <<"NumberLong", AsLong(ToNumber(v[2]), g)>>
      BY <2>7 DEF Encode
    <3> QED
      BY <3>1, <3>2 DEF ElementTypes
  <2>8. CASE v[1] = "Symbol"
    BY <2>3, <2>8 DEF Encode, ElementTypes
  <2>9. CASE v[1] = "BinData"
    BY <2>3, <2>9 DEF Encode, ElementTypes
  <2>10. CASE v[1] = "ObjectId"
    <3>1. CASE ~IsString(v[2])
      BY <2>10, <3>1 DEF Encode
    <3>2. CASE IsString(v[2])
      <4>1. ToString(v[2])[1] = "oid" /\ ToString(v[2])[2] \in Nat
        BY <2>3, <2>10, <3>2, TextForms DEF Refused
      <4>2. Cut(ToString(v[2])) \in {"oid"} \X Nat \X {0}
        BY <4>1 DEF Cut
      <4>3. Encode(v, g) = <<"jstOID", Cut(ToString(v[2]))>>
        BY <2>10, <3>2 DEF Encode
      <4> QED
        BY <4>2, <4>3 DEF ElementTypes
    <3> QED
      BY <3>1, <3>2
  <2> QED
    BY <1>5, <2>4, <2>5, <2>6, <2>7, <2>8, <2>9, <2>10 DEF Boxes
<1>6. CASE v[1] = "RegEx"
  <2>1. v[2] \in Plain /\ v[3] \in Plain
    BY <1>6, ValueForms DEF Nil
  <2>2. \A w \in {v[2], v[3]} : IsString(w) => Cut(ToString(w)) \in Texts
    BY <2>1, Conversions, TextForms
  <2> QED
    BY <1>6, <2>2 DEF Encode, ElementTypes
<1>7. CASE v[1] = "NULL"
  BY <1>7 DEF Encode, ElementTypes
<1> QED
  BY <1>1, <1>2, <1>3, <1>4, <1>5, <1>6, <1>7, ValueForms DEF Nil

LEMMA DecodeType ==
  ASSUME NEW e \in ElementTypes
  PROVE  Decode(e) \in ValueTypes \cup {Nil}
<1>1. CASE e[1] \in {"NumberInt", "NumberLong", "NumberDouble", "Date", "Timestamp"}
  <2> DEFINE x == IF e[1] = "NumberDouble" THEN e[2]
                  ELSE IF e[1] = "Timestamp" THEN 2 * ((e[2] + e[3]) % (UIntMax + 1))
                  ELSE IF e[1] = "NumberInt" THEN 2 * e[2] ELSE Round(2 * e[2])
  <2>1. x \in Doubles
    <3>1. CASE e[1] = "NumberInt"
      BY <3>1, ElementForms, Rounding
    <3>2. CASE e[1] \in {"NumberLong", "Date"}
      BY <3>2, ElementForms, Rounding
    <3>3. CASE e[1] = "NumberDouble"
      BY <3>3, ElementForms
    <3>4. CASE e[1] = "Timestamp"
      <4>1. PICK s \in Nat : s = e[2] + e[3]
        BY <3>4, Timestamps
      <4>2. PICK m \in Nat : m = UIntMax + 1 /\ m > 0
        BY Widths
      <4>3. s % m \in 0 .. m - 1
        BY <4>1, <4>2
      <4>4. s % m \in 0 .. UIntMax
        BY <4>2, <4>3, Widths
      <4> QED
        BY <3>4, <4>1, <4>2, <4>4, Rounding
    <3> QED
      BY <1>1, <3>1, <3>2, <3>3, <3>4
  <2>2. Decode(e) \in {Number(x), <<"Date", Number(x)>>}
    BY <1>1 DEF Decode, PushLong, PushTimestamp
  <2>3. Number(x) \in Plain
    BY <2>1 DEF Number, Plain
  <2> QED
    BY <2>2, <2>3 DEF ValueTypes, Boxes
<1>2. CASE e[1] \in {"String", "Symbol"}
  <2>1. Cut(e[2]) \in Texts
    BY <1>2, ElementForms, TextForms
  <2>2. String(Cut(e[2])) \in Plain
    BY <2>1 DEF String, Plain
  <2> QED
    BY <1>2, <2>2 DEF Decode, PushSymbol, ValueTypes, Boxes
<1>3. CASE e[1] \in {"BinData", "jstOID"}
  <2>1. String(e[2]) \in Plain
    BY <1>3, ElementForms DEF String, Plain
  <2> QED
    BY <1>3, <2>1 DEF Decode, ValueTypes, Boxes
<1>4. CASE e[1] = "RegEx"
  <2>1. Cut(e[2]) \in Texts /\ Cut(e[3]) \in Texts
    BY <1>4, ElementForms, TextForms
  <2>2. String(Cut(e[2])) \in Plain /\ String(Cut(e[3])) \in Plain
    BY <2>1 DEF String, Plain
  <2> QED
    BY <1>4, <2>2 DEF Decode, ValueTypes
<1>5. CASE e[1] = "Bool"
  BY <1>5, ElementForms DEF Decode, ValueTypes, Plain
<1>6. CASE e[1] \in {"jstNULL", "Undefined"}
  BY <1>6 DEF Decode, ValueTypes
<1> QED
  BY <1>1, <1>2, <1>3, <1>4, <1>5, <1>6, ElementForms DEF ElementTags

-----------------------------------------------------------------------------
(***************************************************************************)
(* One way and back.                                                       *)
(***************************************************************************)

\* A number comes back, whichever of the two types it travels as.
LEMMA NumberTrip ==
  ASSUME NEW x \in Doubles, NEW g
  PROVE  Decode(Encode(Number(x), g)) = Number(x)
<1>1. x \in Int
  BY Rounding
<1>2. CASE SmallWhole(x)
  <2>1. Encode(Number(x), g) = <<"NumberInt", Trunc(x)>>
    BY <1>2 DEF Encode, Number
  <2>2. 2 * Trunc(x) = x
    BY <1>1, <1>2, Truncation DEF SmallWhole
  <2> QED
    BY <2>1, <2>2 DEF Decode
<1>3. CASE ~SmallWhole(x)
  <2>1. Encode(Number(x), g) = <<"NumberDouble", x>>
    BY <1>3 DEF Encode, Number
  <2> QED
    BY <2>1 DEF Decode
<1> QED
  BY <1>2, <1>3

\* What a proper value is once it was stored and loaded.
LEMMA ProperTrip ==
  ASSUME NEW v \in ValueTypes, Proper(v), NEW g \in 0 .. ULongMax
  PROVE  /\ Encode(v, g) # Nothing
         /\ Decode(Encode(v, g)) = Returned(v)
         /\ Returned(v) # Nil
<1>0. v[2][1] = "string" /\ v[1] \in Boxes \cup {"RegEx"} => v[2] = String(v[2][2])
  BY ValueForms, PlainForms
<1>1. CASE v[1] = "number"
  <2>1. v = Number(v[2]) /\ v[2] \in Doubles
    BY <1>1, ValueForms, PlainForms
  <2>2. Decode(Encode(v, g)) = v
    BY <2>1, NumberTrip
  <2>3. Encode(v, g) # Nothing
    BY <1>1 DEF Encode, Nothing
  <2> QED
    BY <1>1, <2>2, <2>3 DEF Returned, Nil
<1>2. CASE v[1] \in {"boolean", "NULL"}
  <2>1. CASE v[1] = "boolean"
    <3>1. v = <<"boolean", v[2]>>
      BY <2>1, ValueForms, PlainForms
    <3>2. Encode(v, g) = <<"Bool", v[2]>>
      BY <2>1 DEF Encode
    <3>3. Decode(<<"Bool", v[2]>>) = <<"boolean", v[2]>>
      BY DEF Decode
    <3> QED
      BY <2>1, <3>1, <3>2, <3>3 DEF Returned, Nothing, Nil
  <2>2. CASE v[1] = "NULL"
    BY <2>2, ValueForms DEF Encode, Decode, Returned, Nothing, Nil
  <2> QED
    BY <1>2, <2>1, <2>2
<1>3. CASE v[1] = "string"
  <2>1. v = String(v[2]) /\ v[2][3] = 0 /\ v[2] \in Texts
    BY <1>3, ValueForms, PlainForms DEF Proper, Held
  <2>2. Cut(v[2]) = v[2] /\ Cut(Cut(v[2])) = v[2]
    BY <2>1, TextForms DEF Cut
  <2> QED
    BY <1>3, <2>1, <2>2 DEF Encode, Decode, Returned, Nothing, Nil, String
<1>4. CASE v[1] \in {"Date", "NumberInt", "NumberLong"}
  <2>1. v = <<v[1], v[2]>> /\ v[2] \in Plain /\ v[2][1] = "number"
    BY <1>4, ValueForms DEF Boxes, Proper, Held, Count
  <2>2. v[2] = Number(v[2][2]) /\ v[2][2] \in Doubles /\ Whole(v[2][2])
    BY <1>4, <2>1, PlainForms DEF Proper, Held, Count
  <2>3. PICK i \in Int : v[2][2] = 2 * i /\ v[2][2] \div 2 = i
    BY <2>2, Truncation, Rounding
  <2>4. ToNumber(v[2]) = 2 * i
    BY <2>1, <2>3 DEF ToNumber, IsNumber
  <2>5. Round(2 * i) = 2 * i
    BY <2>2, <2>3, Rounding
  <2>6. CASE v[1] = "Date"
    <3>1. AsUnsigned(2 * i, g) = i
      BY <2>3, <2>6, CastsKeep DEF Proper, Count, Held
    <3> QED
      BY <2>1, <2>2, <2>3, <2>4, <2>5, <2>6, <3>1 DEF Encode, Decode, Returned, Nothing, Nil
  <2>7. CASE v[1] = "NumberInt"
    <3>1. AsInt(2 * i, g) = i
      BY <2>3, <2>7, CastsKeep DEF Proper, Count, Held
    <3> QED
      BY <2>1, <2>2, <2>3, <2>4, <2>7, <3>1 DEF Encode, Decode, Returned, Nothing, Nil, Number
  <2>8. CASE v[1] = "NumberLong"
    <3>1. AsLong(2 * i, g) = i
      BY <2>3, <2>8, CastsKeep DEF Proper, Count, Held
    <3> QED
      BY <2>1, <2>2, <2>3, <2>4, <2>5, <2>8, <3>1
         DEF Encode, Decode, PushLong, Returned, Nothing, Nil, Number
  <2> QED
    BY <1>4, <2>6, <2>7, <2>8
<1>5. CASE v[1] \in {"Symbol", "ObjectId"}
  <2>1. v = <<v[1], String(v[2][2])>> /\ v[2][2] \in Texts /\ v[2][2][3] = 0
    BY <1>5, ValueForms, PlainForms DEF Boxes, Proper, Held, Count
  <2>2. Cut(v[2][2]) = v[2][2] /\ Cut(Cut(v[2][2])) = v[2][2]
    BY <2>1, TextForms DEF Cut
  <2>3. IsString(v[2]) /\ ToString(v[2]) = v[2][2]
    BY <2>1 DEF IsString, ToString, String
  <2>4. CASE v[1] = "Symbol"
    <3>1. Encode(v, g) = <<"Symbol", v[2][2]>>
      BY <2>2, <2>3, <2>4 DEF Encode
    <3>2. Decode(<<"Symbol", v[2][2]>>) = <<"Symbol", String(v[2][2])>>
      BY <2>2 DEF Decode, PushSymbol
    <3> QED
      BY <2>1, <2>4, <3>1, <3>2 DEF Returned, Nothing, Nil
  <2>5. CASE v[1] = "ObjectId"
    <3>1. Encode(v, g) = <<"jstOID", v[2][2]>>
      BY <2>2, <2>3, <2>5 DEF Encode
    <3>2. Decode(<<"jstOID", v[2][2]>>) = <<"ObjectId", String(v[2][2])>>
      BY <2>2 DEF Decode
    <3> QED
      BY <2>1, <2>5, <3>1, <3>2 DEF Returned, Nothing, Nil
  <2> QED
    BY <1>5, <2>4, <2>5
<1>6. CASE v[1] = "BinData"
  <2>1. v = <<v[1], String(v[2][2])>>
    BY <1>6, ValueForms, PlainForms DEF Boxes, Proper, Held, Count
  <2>2. IsString(v[2]) /\ ToString(v[2]) = v[2][2]
    BY <2>1 DEF IsString, ToString, String
  <2> QED
    BY <1>6, <2>1, <2>2 DEF Encode, Decode, Returned, Nothing, Nil
<1>7. CASE v[1] = "RegEx"
  <2>1. /\ v = <<"RegEx", String(v[2][2]), String(v[3][2])>>
        /\ v[2][2] \in Texts /\ v[2][2][3] = 0 /\ v[3][2] \in Texts /\ v[3][2][3] = 0
    BY <1>7, ValueForms, PlainForms DEF Proper, Held, Count
  <2>2. \A t \in {v[2][2], v[3][2]} : Cut(t) = t /\ Cut(Cut(t)) = t
    BY <2>1, TextForms DEF Cut
  <2>3. \A w \in {v[2], v[3]} : IsString(w) /\ ToString(w) = w[2]
    BY <2>1 DEF IsString, ToString, String
  <2> QED
    BY <1>7, <2>1, <2>2, <2>3 DEF Encode, Decode, Returned, Nothing, Nil
<1> QED
  BY <1>1, <1>2, <1>3, <1>4, <1>5, <1>6, <1>7, ValueForms DEF Boxes, Proper, Held, Count

\* An element with one form on either side is stored as it was.
LEMMA ExactTrip ==
  ASSUME NEW e \in ElementTypes, Exact(e), NEW g
  PROVE  Decode(e) # Nil /\ Encode(Decode(e), g) = e
<1>1. CASE e[1] \in {"Bool", "jstNULL"}
  BY <1>1, ElementForms DEF Encode, Decode, Nil
<1>2. CASE e[1] = "NumberInt"
  <2>1. e = <<"NumberInt", e[2]>> /\ e[2] \in Int /\ SmallWhole(2 * e[2])
    BY <1>2, ElementForms, Widths DEF Exact
  <2>2. Trunc(2 * e[2]) = e[2]
    BY <2>1, Truncation
  <2>3. Decode(e) = Number(2 * e[2])
    BY <2>1 DEF Decode
  <2>4. Encode(Number(2 * e[2]), g) = <<"NumberInt", e[2]>>
    BY <2>1, <2>2 DEF Encode, Number
  <2> QED
    BY <2>1, <2>3, <2>4 DEF Nil, Number
<1>3. CASE e[1] = "NumberDouble"
  <2>1. e = <<"NumberDouble", e[2]>> /\ ~SmallWhole(e[2])
    BY <1>3, ElementForms DEF Exact
  <2>2. Decode(e) = Number(e[2])
    BY <2>1 DEF Decode
  <2>3. Encode(Number(e[2]), g) = <<"NumberDouble", e[2]>>
    BY <2>1 DEF Encode, Number
  <2> QED
    BY <2>1, <2>2, <2>3 DEF Nil, Number
<1>4. CASE e[1] = "Date"
  <2>1. e = <<"Date", e[2]>> /\ e[2] \in 0 .. ULongMax /\ Round(2 * e[2]) = 2 * e[2]
    BY <1>4, ElementForms DEF Exact
  <2>2. AsUnsigned(2 * e[2], g) = e[2]
    BY <2>1, CastsKeep
  <2>3. Decode(e) = <<"Date", Number(2 * e[2])>> /\ ToNumber(Number(2 * e[2])) = 2 * e[2]
    BY <2>1 DEF Decode, Number, ToNumber, IsNumber
  <2> QED
    BY <2>1, <2>2, <2>3 DEF Encode, Nil
<1>5. CASE e[1] \in {"String", "Symbol", "jstOID"}
  <2>1. e = <<e[1], e[2]>> /\ e[2] \in Texts /\ e[2] = Cut(e[2])
    <3>1. CASE e[1] = "jstOID"
      BY <3>1, ElementForms
    <3>2. CASE e[1] \in {"String", "Symbol"}
      <4>1. e = <<e[1], e[2]>> /\ e[2] \in Texts /\ e[2][3] = 0
        BY <3>2, ElementForms DEF Exact
      <4> QED
        BY <4>1, TextForms DEF Cut
    <3> QED
      BY <1>5, <3>1, <3>2
  <2>2. IsString(String(e[2])) /\ ToString(String(e[2])) = e[2] /\ String(e[2])[2] = e[2]
    BY DEF IsString, ToString, String
  <2>3. CASE e[1] = "String"
    <3>1. Decode(e) = String(e[2])
      BY <2>1, <2>3 DEF Decode
    <3>2. Encode(String(e[2]), g) = <<"String", Cut(e[2])>>
      BY DEF Encode, String
    <3> QED
      BY <2>1, <2>3, <3>1, <3>2 DEF Nil, String
  <2>4. CASE e[1] = "Symbol"
    BY <2>1, <2>2, <2>4 DEF Encode, Decode, PushSymbol, Nil
  <2>5. CASE e[1] = "jstOID"
    BY <2>1, <2>2, <2>5 DEF Encode, Decode, Nil
  <2> QED
    BY <1>5, <2>3, <2>4, <2>5
<1>6. CASE e[1] = "RegEx"
  <2>1. /\ e = <<"RegEx", e[2], e[3]>> /\ e[2] \in Texts /\ e[3] \in Texts
        /\ e[2][3] = 0 /\ e[3][3] = 0
    BY <1>6, ElementForms DEF Exact
  <2>2. Cut(e[2]) = e[2] /\ Cut(e[3]) = e[3]
    BY <2>1, TextForms DEF Cut
  <2>3. \A t \in {e[2], e[3]} : IsString(String(t)) /\ ToString(String(t)) = t
    BY DEF IsString, ToString, String
  <2>4. Decode(e) = <<"RegEx", String(e[2]), String(e[3])>>
    BY <2>1, <2>2 DEF Decode
  <2>5. Encode(<<"RegEx", String(e[2]), String(e[3])>>, g) = <<"RegEx", e[2], e[3]>>
    BY <2>2, <2>3 DEF Encode
  <2> QED
    BY <2>1, <2>4, <2>5 DEF Nil
<1>7. CASE e[1] = "BinData"
  <2>1. e = <<"BinData", e[2], 0>>
    BY <1>7, ElementForms DEF Exact
  <2>2. IsString(String(e[2])) /\ ToString(String(e[2])) = e[2]
    BY DEF IsString, ToString, String
  <2>3. Decode(e) = <<"BinData", String(e[2])>>
    BY <2>1 DEF Decode
  <2>4. Encode(<<"BinData", String(e[2])>>, g) = <<"BinData", e[2], 0>>
    BY <2>2 DEF Encode
  <2> QED
    BY <2>1, <2>3, <2>4 DEF Nil
<1> QED
  BY <1>1, <1>2, <1>3, <1>4, <1>5, <1>6, <1>7, ElementForms DEF ElementTags, Exact

\* What was loaded is proper, unless converting it back overflows.
LEMMA DecodedProper ==
  ASSUME NEW e \in ElementTypes, Decode(e) # Nil, ~Overflows(Decode(e))
  PROVE  Proper(Decode(e)) /\ Returned(Decode(e)) = Decode(e)
<1>1. CASE e[1] \in {"NumberInt", "NumberLong", "NumberDouble", "Bool", "jstNULL", "Undefined"}
  BY <1>1 DEF Decode, PushLong, Proper, Returned, Number, Nil
<1>2. CASE e[1] \in {"Date", "Timestamp"}
  <2>1. PICK x \in Doubles : Decode(e) = <<"Date", Number(x)>> /\ Whole(x)
    <3>1. CASE e[1] = "Date"
      <4>1. PICK u \in 0 .. ULongMax : u = e[2]
        BY <3>1, ElementForms
      <4>2. Round(2 * u) \in Doubles /\ 2 * u \in Span
        BY Rounding
      <4>3. u \in Int
        BY Widths
      <4>4. Whole(2 * u)
        BY <4>3, Truncation
      <4>5. Whole(Round(2 * u))
        BY <4>2, <4>4, RoundAssumption
      <4>6. Decode(e) = <<"Date", Number(Round(2 * u))>>
        BY <3>1, <4>1 DEF Decode
      <4> QED
        BY <4>2, <4>5, <4>6
    <3>2. CASE e[1] = "Timestamp"
      <4>1. PICK t \in Nat : t = (e[2] + e[3]) % (UIntMax + 1) /\ t \in 0 .. UIntMax
        <5>1. PICK a \in Nat : a = e[2] + e[3]
          BY <3>2, Timestamps
        <5>2. PICK m \in Nat : m = UIntMax + 1 /\ m > 0
          BY Widths
        <5>3. a % m \in 0 .. m - 1
          BY <5>1, <5>2
        <5>4. a % m \in 0 .. UIntMax
          BY <5>2, <5>3, Widths
        <5> QED
          BY <5>1, <5>2, <5>4
      <4>2. 2 * t \in Doubles /\ Whole(2 * t)
        BY <4>1, Rounding, Truncation
      <4>3. Decode(e) = <<"Date", Number(2 * t)>>
        BY <3>2, <4>1 DEF Decode, PushTimestamp
      <4> QED
        BY <4>2, <4>3
    <3> QED
      BY <1>2, <3>1, <3>2
  <2>2. x \in Int /\ ToNumber(Number(x)) = x
    BY Rounding DEF ToNumber, IsNumber, Number
  <2>3. x \div 2 \in 0 .. ULongMax
    BY <2>1, <2>2, Truncation DEF Overflows
  <2> QED
    BY <2>1, <2>3 DEF Proper, Count, Number, Returned
<1>3. CASE e[1] \in {"String", "Symbol"}
  BY <1>3 DEF Decode, PushSymbol, Proper, Held, String, Cut, Returned
<1>4. CASE e[1] = "BinData"
  BY <1>4 DEF Decode, Proper, String, Returned
<1>5. CASE e[1] = "jstOID"
  <2>1. e[2][1] = "oid" /\ e[2][3] = 0
    BY <1>5, ElementForms DEF Cut
  <2> QED
    BY <1>5, <2>1 DEF Decode, Proper, Held, String, Returned
<1>6. CASE e[1] = "RegEx"
  BY <1>6 DEF Decode, Proper, Held, String, Cut, Returned
<1> QED
  BY <1>1, <1>2, <1>3, <1>4, <1>5, <1>6, ElementForms DEF ElementTags

\* Numbers, dates and the timestamps of one second are loaded in their order.
LEMMA OrderTrip ==
  ASSUME NEW d \in ElementTypes, NEW e \in ElementTypes, NotBefore(d, e)
  PROVE  /\ Decode(d) # Nil /\ Decode(e) # Nil
         /\ Measure(Decode(e)) <= Measure(Decode(d))
<1>1. ASSUME {d[1], e[1]} \subseteq {"NumberInt", "NumberLong", "NumberDouble"},
             Amount(e) <= Amount(d)
      PROVE  /\ Decode(d) # Nil /\ Decode(e) # Nil
             /\ Measure(Decode(e)) <= Measure(Decode(d))
  <2>1. ASSUME NEW f \in {d, e}
        PROVE  Amount(f) \in Span /\ Decode(f) = Number(Round(Amount(f)))
    <3>1. CASE f[1] = "NumberInt"
      <4>1. 2 * f[2] \in Doubles /\ Round(2 * f[2]) = 2 * f[2]
        BY <3>1, ElementForms, Rounding
      <4> QED
        BY <3>1, <4>1, Widths DEF Amount, Decode
    <3>2. CASE f[1] = "NumberLong"
      BY <3>2, ElementForms, Rounding DEF Amount, Decode, PushLong
    <3>3. CASE f[1] = "NumberDouble"
      <4>1. f[2] \in Doubles /\ Round(f[2]) = f[2]
        BY <3>3, ElementForms, Rounding
      <4> QED
        BY <3>3, <4>1, Widths DEF Amount, Decode
    <3> QED
      BY <1>1, <3>1, <3>2, <3>3
  <2>2. Round(Amount(e)) <= Round(Amount(d))
    BY <1>1, <2>1, RoundAssumption
  <2> QED
    BY <2>1, <2>2 DEF Measure, Number, Nil
<1>2. ASSUME d[1] = "Date", e[1] = "Date", e[2] <= d[2]
      PROVE  /\ Decode(d) # Nil /\ Decode(e) # Nil
             /\ Measure(Decode(e)) <= Measure(Decode(d))
  <2>1. PICK a \in 0 .. ULongMax, b \in 0 .. ULongMax : a = e[2] /\ b = d[2]
    BY <1>2, ElementForms
  <2>2. 2 * a \in Span /\ 2 * b \in Span
    BY Rounding
  <2>3. a \in Int /\ b \in Int /\ a <= b
    BY <1>2, <2>1, Widths
  <2>4. 2 * a <= 2 * b
    BY <2>3
  <2>5. Round(2 * a) <= Round(2 * b)
    BY <2>2, <2>4, RoundAssumption
  <2> QED
    BY <1>2, <2>1, <2>5 DEF Decode, Measure, Number, Nil
<1>3. ASSUME d[1] = "Timestamp", e[1] = "Timestamp",
             e[2] = d[2], e[3] <= d[3], d[2] + d[3] <= UIntMax
      PROVE  /\ Decode(d) # Nil /\ Decode(e) # Nil
             /\ Measure(Decode(e)) <= Measure(Decode(d))
  <2>1. PICK s \in Nat, t \in Nat, u \in Nat, v \in Nat :
          s = e[2] /\ t = e[3] /\ u = d[2] /\ v = d[3]
    BY <1>3, Timestamps
  <2>2. PICK a \in Nat, b \in Nat : a = s + t /\ b = u + v
    BY <2>1
  <2>3. PICK m \in Nat, w \in Nat : m = w + 1 /\ w = UIntMax
    BY Widths
  <2>4. a <= b /\ b < m
    <3>1. s <= u /\ t <= v /\ b <= w
      BY <1>3, <2>1, <2>2, <2>3
    <3> QED
      BY <2>2, <2>3, <3>1
  <2>5. a % m = a /\ b % m = b
    BY <2>3, <2>4
  <2>6. Decode(e) = <<"Date", Number(2 * a)>> /\ Decode(d) = <<"Date", Number(2 * b)>>
    BY <1>3, <2>1, <2>2, <2>3, <2>5 DEF Decode, PushTimestamp
  <2> QED
    BY <2>4, <2>6 DEF Measure, Number, Nil
<1> QED
  BY <1>1, <1>2, <1>3 DEF NotBefore

-----------------------------------------------------------------------------
(***************************************************************************)
(* Documents.                                                              *)
(***************************************************************************)

\* There is a last one among some of n things.
LEMMA LastOne ==
  ASSUME NEW n \in Nat, NEW S \in SUBSET (1 .. n), S # {}
  PROVE  \E i \in S : \A j \in S : j <= i
<1> DEFINE T == {n - i : i \in S}
<1>1. T \subseteq Nat /\ T # {}
  <2>1. ASSUME NEW i \in S PROVE n - i \in Nat
    <3>1. i \in 1 .. n
      OBVIOUS
    <3> QED
      BY <3>1
  <2> QED
    BY <2>1
<1>2. \E x \in T : \A y \in T : ~(<<y, x>> \in OpToRel(<, Nat))
  BY <1>1, NatLessThanWellFounded, WFMin
<1>3. PICK i \in S : \A j \in S : ~(<<n - j, n - i>> \in OpToRel(<, Nat))
  BY <1>2
<1>4. ASSUME NEW j \in S PROVE j <= i
  <2>1. i \in 1 .. n /\ j \in 1 .. n
    OBVIOUS
  <2>2. n - i \in Nat /\ n - j \in Nat
    BY <2>1
  <2>3. ~(n - j < n - i)
    BY <1>3, <2>2 DEF OpToRel
  <2> QED
    BY <2>1, <2>3
<1> QED
  BY <1>4

\* The places in a list are counted without a gap.
LEMMA Places ==
  ASSUME NEW n \in Nat, NEW fs, DOMAIN fs = 1 .. n
  PROVE  /\ \A i \in Present(fs) : Place(fs, i) \in Nat
         /\ \A i, j \in Present(fs) : Place(fs, i) = Place(fs, j) => i = j
         /\ Present(fs) = 1 .. n => \A i \in 1 .. n : Place(fs, i) = i
<1> DEFINE Upto(i) == {j \in Present(fs) : j <= i}
<1>1. Present(fs) \subseteq 1 .. n /\ IsFiniteSet(Present(fs))
  BY FS_Interval, FS_Subset DEF Present
<1>2. ASSUME NEW i \in Present(fs)
      PROVE  IsFiniteSet(Upto(i)) /\ Cardinality(Upto(i)) \in Nat
  BY <1>1, FS_Subset, FS_CardinalityType
<1>3. ASSUME NEW i \in Present(fs), NEW j \in Present(fs), i < j
      PROVE  Place(fs, i) # Place(fs, j)
  <2>1. i \in Int /\ j \in Int
    BY <1>1
  <2>2. Upto(i) \in SUBSET Upto(j)
    <3>1. ASSUME NEW x \in Upto(i) PROVE x \in Upto(j)
      <4>1. x \in Int /\ x <= i
        BY <1>1, <3>1
      <4> QED
        BY <1>3, <2>1, <3>1, <4>1
    <3> QED
      BY <3>1
  <2>3. j \in Upto(j) /\ j \notin Upto(i)
    BY <1>3, <2>1
  <2>4. Cardinality(Upto(j)) = Cardinality(Upto(i)) => Upto(j) = Upto(i)
    BY <1>2, <2>2, FS_Subset
  <2>5. Cardinality(Upto(j)) # Cardinality(Upto(i))
    BY <2>3, <2>4
  <2> QED
    BY <2>5 DEF Place
<1>4. ASSUME Present(fs) = 1 .. n, NEW i \in 1 .. n
      PROVE  Place(fs, i) = i
  <2>1. Upto(i) = 1 .. i
    BY <1>4
  <2>2. Cardinality(1 .. i) = i
    BY FS_Interval
  <2> QED
    BY <2>1, <2>2 DEF Place
<1>5. \A i \in Present(fs) : Place(fs, i) \in Nat
  BY <1>2 DEF Place
<1>6. ASSUME NEW i \in Present(fs), NEW j \in Present(fs), Place(fs, i) = Place(fs, j)
      PROVE  i = j
  <2>1. i \in Int /\ j \in Int
    BY <1>1
  <2>2. i < j \/ j < i \/ i = j
    BY <2>1
  <2> QED
    BY <1>3, <1>6, <2>2
<1> QED
  BY <1>4, <1>5, <1>6

\* An element of a list is loaded under its place.
LEMMA ListedEntry ==
  ASSUME NEW n \in Nat, NEW fs, DOMAIN fs = 1 .. n,
         NEW i \in Present(fs), Decode(fs[i][2]) # Nil
  PROVE  /\ Number(2 * Place(fs, i)) \in DOMAIN Listed(fs)
         /\ Listed(fs)[Number(2 * Place(fs, i))] = Decode(fs[i][2])
<1> DEFINE kept == {j \in Present(fs) : Decode(fs[j][2]) # Nil}
           k == Number(2 * Place(fs, i))
           c == CHOOSE j \in kept : k = Number(2 * Place(fs, j))
<1>1. i \in kept
  OBVIOUS
<1>2. c \in kept /\ k = Number(2 * Place(fs, c))
  BY <1>1
<1>3. 2 * Place(fs, c) = 2 * Place(fs, i)
  BY <1>2 DEF Number
<1>4. PICK p \in Nat, q \in Nat : p = Place(fs, c) /\ q = Place(fs, i)
  BY <1>1, <1>2, Places
<1>5. 2 * p = 2 * q
  BY <1>3, <1>4
<1>6. p = q
  BY <1>5
<1>7. c = i
  BY <1>1, <1>2, <1>4, <1>6, Places
<1>8. Listed(fs) = [x \in {Number(2 * Place(fs, j)) : j \in kept} |->
                      Decode(fs[CHOOSE j \in kept : x = Number(2 * Place(fs, j))][2])]
  BY DEF Listed
<1>9. k \in {Number(2 * Place(fs, j)) : j \in kept}
  BY <1>1
<1>10. Listed(fs)[k] = Decode(fs[c][2])
  BY <1>8, <1>9
<1> QED
  BY <1>7, <1>8, <1>9, <1>10

\* Every key of a loaded list is the place of one of its elements.
LEMMA ListedKey ==
  ASSUME NEW n \in Nat, NEW fs, DOMAIN fs = 1 .. n, NEW k \in DOMAIN Listed(fs)
  PROVE  \E i \in Present(fs) : /\ Decode(fs[i][2]) # Nil
                                /\ k = Number(2 * Place(fs, i))
                                /\ Listed(fs)[k] = Decode(fs[i][2])
<1>1. PICK i \in Present(fs) : Decode(fs[i][2]) # Nil /\ k = Number(2 * Place(fs, i))
  BY DEF Listed
<1>2. Listed(fs)[k] = Decode(fs[i][2])
  BY <1>1, ListedEntry
<1> QED
  BY <1>1, <1>2

LEMMA LastPresent ==
  ASSUME NEW n \in Nat, NEW fs, DOMAIN fs = 1 .. n, NEW i \in Present(fs)
  PROVE  /\ Last(fs, fs[i][1]) \in Present(fs)
         /\ fs[Last(fs, fs[i][1])][1] = fs[i][1]
<1> DEFINE S == {j \in Present(fs) : fs[j][1] = fs[i][1]}
<1>1. S \in SUBSET (1 .. n) /\ S # {}
  BY DEF Present
<1>2. PICK j \in S : \A l \in S : l <= j
  BY <1>1, LastOne
<1>3. \E m \in Present(fs) :
        fs[m][1] = fs[i][1] /\ \A l \in Present(fs) : fs[l][1] = fs[i][1] => l <= m
  BY <1>2
<1> QED
  BY <1>3 DEF Last

\* A field whose name is its own is loaded under that name.
LEMMA MappedEntry ==
  ASSUME NEW n \in Nat, NEW fs, DOMAIN fs = 1 .. n,
         NEW i \in Present(fs), Decode(fs[i][2]) # Nil,
         \A j \in Present(fs) : fs[j][1] = fs[i][1] => j = i
  PROVE  /\ String(fs[i][1]) \in DOMAIN Mapped(fs)
         /\ Mapped(fs)[String(fs[i][1])] = Decode(fs[i][2])
<1> DEFINE names == {fs[j][1] : j \in Present(fs)}
           kept == {m \in names : Decode(fs[Last(fs, m)][2]) # Nil}
<1>1. Last(fs, fs[i][1]) = i
  BY LastPresent
<1>2. fs[i][1] \in kept
  BY <1>1
<1>3. Mapped(fs) = [k \in {String(m) : m \in kept} |-> Decode(fs[Last(fs, k[2])][2])]
  BY DEF Mapped
<1>4. String(fs[i][1])[2] = fs[i][1]
  BY DEF String
<1> QED
  BY <1>1, <1>2, <1>3, <1>4

\* Every key of a loaded table is the name of one of the fields.
LEMMA MappedKey ==
  ASSUME NEW n \in Nat, NEW fs, DOMAIN fs = 1 .. n, NEW k \in DOMAIN Mapped(fs)
  PROVE  \E i \in Present(fs) : /\ Decode(fs[i][2]) # Nil
                                /\ k = String(fs[i][1])
                                /\ Mapped(fs)[k] = Decode(fs[i][2])
<1> DEFINE names == {fs[j][1] : j \in Present(fs)}
           kept == {m \in names : Decode(fs[Last(fs, m)][2]) # Nil}
<1>1. Mapped(fs) = [x \in {String(m) : m \in kept} |-> Decode(fs[Last(fs, x[2])][2])]
  BY DEF Mapped
<1>2. PICK m \in kept : k = String(m)
  BY <1>1
<1>3. PICK j \in Present(fs) : m = fs[j][1]
  BY <1>2
<1>4. Last(fs, m) \in Present(fs) /\ fs[Last(fs, m)][1] = m
  BY <1>3, LastPresent
<1>5. k[2] = m
  BY <1>2 DEF String
<1>6. Mapped(fs)[k] = Decode(fs[Last(fs, m)][2])
  BY <1>1, <1>2, <1>5
<1> QED
  BY <1>2, <1>4, <1>6

\* The table that comes of a document has values of Lua under proper keys,
\* and finitely many.
LEMMA LoadedType ==
  ASSUME NEW n \in Nat, NEW d, DOMAIN d.fields = 1 .. n,
         \A i \in 1 .. n : IsName(d.fields[i][1]) /\ d.fields[i][2] \in ElementTypes \cup {Nothing}
  PROVE  /\ IsFiniteSet(DOMAIN Loaded(d))
         /\ Loaded(d) = [k \in DOMAIN Loaded(d) |-> Loaded(d)[k]]
         /\ \A k \in DOMAIN Loaded(d) :
              /\ IsKey(k) /\ Loaded(d)[k] \in ValueTypes
              /\ k[1] = "string" => k[2] = Cut(k[2])
              /\ k[1] = "number" => Whole(k[2])
              /\ \E e \in ElementTypes : Loaded(d)[k] = Decode(e) /\ Decode(e) # Nil
<1> DEFINE fs == d.fields
<1>1. DOMAIN fs = 1 .. n
  OBVIOUS
<1>2. Present(fs) \subseteq 1 .. n /\ \A i \in Present(fs) : fs[i][2] \in ElementTypes
  BY DEF Present
<1>3. IsFiniteSet(Present(fs))
  BY <1>2, FS_Interval, FS_Subset
<1>4. CASE d.array
  <2>1. Loaded(d) = Listed(fs)
    BY <1>4 DEF Loaded
  <2> DEFINE kept == {j \in Present(fs) : Decode(fs[j][2]) # Nil}
             f == [j \in kept |-> Number(2 * Place(fs, j))]
             T == {Number(2 * Place(fs, j)) : j \in kept}
  <2>2. IsFiniteSet(kept)
    BY <1>3, FS_Subset
  <2>3. f \in Surjection(kept, T)
    BY Fun_IsSurj
  <2>4. IsFiniteSet(T)
    BY <2>2, <2>3, FS_Surjection
  <2>5. DOMAIN Listed(fs) = T
    BY DEF Listed
  <2>6. ASSUME NEW k \in DOMAIN Listed(fs)
        PROVE  /\ IsKey(k) /\ Listed(fs)[k] \in ValueTypes
               /\ k[1] = "string" => k[2] = Cut(k[2])
               /\ k[1] = "number" => Whole(k[2])
               /\ \E e \in ElementTypes : Listed(fs)[k] = Decode(e) /\ Decode(e) # Nil
    <3>1. PICK i \in Present(fs) : /\ Decode(fs[i][2]) # Nil
                                   /\ k = Number(2 * Place(fs, i))
                                   /\ Listed(fs)[k] = Decode(fs[i][2])
      BY <1>1, ListedKey
    <3>2. PICK p \in Nat : p = Place(fs, i)
      BY <1>1, <3>1, Places
    <3>3. k = Number(2 * p) /\ 2 * p \in Int /\ Whole(2 * p)
      <4>1. p \in Int /\ 2 * p \in Int
        OBVIOUS
      <4>2. Whole(2 * p)
        BY <4>1, Truncation
      <4> QED
        BY <3>1, <3>2, <4>1, <4>2
    <3>4. fs[i][2] \in ElementTypes /\ Decode(fs[i][2]) \in ValueTypes
      BY <1>2, <3>1, DecodeType
    <3> QED
      BY <3>1, <3>3, <3>4 DEF IsKey, Number
  <2>7. Listed(fs) = [k \in DOMAIN Listed(fs) |-> Listed(fs)[k]]
    BY DEF Listed
  <2> QED
    BY <2>1, <2>4, <2>5, <2>6, <2>7
<1>5. CASE ~d.array
  <2>1. Loaded(d) = Mapped(fs)
    BY <1>5 DEF Loaded
  <2> DEFINE f == [j \in Present(fs) |-> String(fs[j][1])]
             T == {String(fs[j][1]) : j \in Present(fs)}
  <2>2. f \in Surjection(Present(fs), T)
    BY Fun_IsSurj
  <2>3. IsFiniteSet(T)
    BY <1>3, <2>2, FS_Surjection
  <2>4. ASSUME NEW k \in DOMAIN Mapped(fs)
        PROVE  /\ k \in T /\ IsKey(k) /\ Mapped(fs)[k] \in ValueTypes
               /\ k[1] = "string" => k[2] = Cut(k[2])
               /\ k[1] = "number" => Whole(k[2])
               /\ \E e \in ElementTypes : Mapped(fs)[k] = Decode(e) /\ Decode(e) # Nil
    <3>1. PICK i \in Present(fs) : /\ Decode(fs[i][2]) # Nil
                                   /\ k = String(fs[i][1])
                                   /\ Mapped(fs)[k] = Decode(fs[i][2])
      BY <1>1, MappedKey
    <3>2. fs[i][2] \in ElementTypes /\ Decode(fs[i][2]) \in ValueTypes /\ IsName(fs[i][1])
      BY <1>2, <3>1, DecodeType
    <3> QED
      BY <3>1, <3>2 DEF IsKey, String, IsName
  <2>5. DOMAIN Mapped(fs) \in SUBSET T
    BY <2>4
  <2>6. IsFiniteSet(DOMAIN Mapped(fs))
    BY <2>3, <2>5, FS_Subset
  <2>7. Mapped(fs) = [k \in DOMAIN Mapped(fs) |-> Mapped(fs)[k]]
    BY DEF Mapped
  <2> QED
    BY <2>1, <2>4, <2>6, <2>7
<1> QED
  BY <1>4, <1>5

\* The order in which lua_next goes through a finite table.
LEMMA OrderFacts ==
  ASSUME IsFiniteSet(DOMAIN table), NEW o \in Orders(table)
  PROVE  /\ Cardinality(DOMAIN table) \in Nat
         /\ DOMAIN o = 1 .. Cardinality(DOMAIN table)
         /\ \A i \in DOMAIN o : o[i] \in DOMAIN table
         /\ \A i, j \in DOMAIN o : o[i] = o[j] => i = j
         /\ \A k \in DOMAIN table : \E i \in DOMAIN o : o[i] = k
         /\ listed => \A i \in DOMAIN o : o[i] = Number(2 * i)
<1>1. Cardinality(DOMAIN table) \in Nat
  BY FS_CardinalityType
<1>2. /\ o \in Bijection(1 .. Cardinality(DOMAIN table), DOMAIN table)
      /\ listed => \A i \in DOMAIN o : o[i] = Number(2 * i)
  BY DEF Orders
<1>3. /\ o \in [1 .. Cardinality(DOMAIN table) -> DOMAIN table]
      /\ \A a, b \in 1 .. Cardinality(DOMAIN table) : o[a] = o[b] => a = b
      /\ \A k \in DOMAIN table : \E i \in 1 .. Cardinality(DOMAIN table) : o[i] = k
  <2> DEFINE S == 1 .. Cardinality(DOMAIN table)
             T == DOMAIN table
  <2>1. o \in Bijection(S, T)
    BY <1>2
  <2> HIDE DEF S, T
  <2>2. o \in [S -> T]
    BY <2>1, Fun_BijectionProperties
  <2>3. \A a, b \in S : o[a] = o[b] => a = b
    BY <2>1, Fun_BijectionProperties
  <2>4. \A k \in T : \E i \in S : o[i] = k
    BY <2>1, Fun_BijectionProperties
  <2> QED
    BY <2>2, <2>3, <2>4 DEF S, T
<1>4. DOMAIN o = 1 .. Cardinality(DOMAIN table)
  BY <1>3
<1> QED
  BY <1>1, <1>2, <1>3, <1>4

\* What the fields of a stored table are.
LEMMA StoredFields ==
  ASSUME NEW o, NEW g
  PROVE  /\ Stored(table, o, g) =
              Document(Stored(table, o, g).array, Stored(table, o, g).fields)
         /\ DOMAIN Stored(table, o, g).fields = DOMAIN o
         /\ Stored(table, o, g).array = Dense(o)
         /\ Dense(o) => \A i \in DOMAIN o :
              Stored(table, o, g).fields[i]
                = <<Numeral(2 * (i - 1)), Encode(At(table, i), g[i])>>
         /\ ~Dense(o) => \A i \in DOMAIN o :
              Stored(table, o, g).fields[i] = <<NameOf(o[i]), Encode(table[o[i]], g[i])>>
<1>1. CASE Dense(o)
  <2>1. Stored(table, o, g) = Document(TRUE, AsArray(table, o, g))
    BY <1>1 DEF Stored
  <2>2. Dense(o) = TRUE
    BY <1>1 DEF Dense
  <2> QED
    BY <1>1, <2>1, <2>2 DEF Document, AsArray
<1>2. CASE ~Dense(o)
  <2>1. Stored(table, o, g) = Document(FALSE, AsObject(table, o, g))
    BY <1>2 DEF Stored
  <2>2. Dense(o) = FALSE
    BY <1>2 DEF Dense
  <2>3. /\ Stored(table, o, g).array = FALSE
        /\ Stored(table, o, g).fields = AsObject(table, o, g)
    BY <2>1 DEF Document
  <2>4. \A i \in DOMAIN o :
          AsObject(table, o, g)[i] = <<NameOf(o[i]), Encode(table[o[i]], g[i])>>
    BY DEF AsObject
  <2>5. DOMAIN AsObject(table, o, g) = DOMAIN o
    BY DEF AsObject
  <2> HIDE DEF Stored, AsObject
  <2> QED
    BY <1>2, <2>1, <2>2, <2>3, <2>4, <2>5
<1> QED
  BY <1>1, <1>2

LEMMA StoredType ==
  ASSUME TypeOK, IsFiniteSet(DOMAIN table), NEW o \in Orders(table),
         NEW g \in [DOMAIN o -> 0 .. ULongMax], ~Throws(table, o),
         NEW i \in DOMAIN o
  PROVE  /\ IsName(Stored(table, o, g).fields[i][1])
         /\ Stored(table, o, g).fields[i][2] \in ElementTypes \cup {Nothing}
<1>1. o[i] \in DOMAIN table /\ g[i] \in 0 .. ULongMax
  BY OrderFacts
<1>2. CASE Dense(o)
  <2>1. At(table, i) \in ValueTypes \cup {Nil}
    BY DEF At, TypeOK
  <2>2. ~Refused(At(table, i))
    BY <1>2 DEF Throws
  <2>3. Encode(At(table, i), g[i]) \in ElementTypes \cup {Nothing}
    BY <1>1, <2>1, <2>2, EncodeType
  <2> QED
    BY <1>2, <2>3, StoredFields DEF IsName, Numeral, Cut
<1>3. CASE ~Dense(o)
  <2>1. table[o[i]] \in ValueTypes /\ ~Refused(table[o[i]])
    BY <1>1, <1>3 DEF TypeOK, Throws
  <2>2. Encode(table[o[i]], g[i]) \in ElementTypes \cup {Nothing}
    BY <1>1, <2>1, EncodeType
  <2>3. IsName(NameOf(o[i]))
    BY DEF IsName, NameOf, Numeral, Cut
  <2> QED
    BY <1>3, <2>2, <2>3, StoredFields
<1> QED
  BY <1>2, <1>3

-----------------------------------------------------------------------------
(***************************************************************************)
(* The inductive invariant.                                                *)
(***************************************************************************)

\* Tables and documents are finite, and only an inner one is an array.
Finite ==
  /\ table = [k \in DOMAIN table |-> table[k]]
  /\ IsFiniteSet(DOMAIN table)
  /\ stored = Document(stored.array, stored.fields)
  /\ \E n \in Nat : DOMAIN stored.fields = 1 .. n
  /\ \A i \in DOMAIN stored.fields :
       stored.fields[i] = <<stored.fields[i][1], stored.fields[i][2]>>
  /\ stored.array => inner

\* The document that is the script's own is what lua_to_bson made of the
\* table it still holds.
Faithful ==
  own => /\ side = "server"
         /\ \E o \in Orders(table) : \E g \in [DOMAIN o -> 0 .. ULongMax] :
              stored = Stored(table, o, g)

\* A loaded table has only what lua_push_value makes.
Decoded ==
  age = "loaded" => \A k \in DOMAIN table :
    /\ k[1] = "string" => k[2] = Cut(k[2])
    /\ k[1] = "number" => Whole(k[2])
    /\ \E e \in ElementTypes : table[k] = Decode(e) /\ Decode(e) # Nil

\* The fields of the loaded document that the script did not assign are
\* entries of its table.
Remembered ==
  side = "script" =>
    IF stored.array
    THEN age = "loaded" /\ table = Loaded(stored) /\ listed = Unbroken(stored)
    ELSE \A i \in DOMAIN stored.fields :
           Exact(stored.fields[i][2]) /\ Sole(stored.fields, i) =>
             /\ String(stored.fields[i][1]) \in DOMAIN table
             /\ table[String(stored.fields[i][1])] = Decode(stored.fields[i][2])

IInv == TypeOK /\ Finite /\ Faithful /\ Decoded /\ Remembered

LEMMA InitIInv == Init => IInv
<1> SUFFICES ASSUME Init PROVE IInv
  OBVIOUS
<1>1. /\ stored = Document(stored.array, stored.fields) /\ stored.array \in BOOLEAN
      /\ stored.array => inner
      /\ \E n \in Nat : DOMAIN stored.fields = 1 .. n
      /\ \A i \in DOMAIN stored.fields :
           /\ stored.fields[i] = <<stored.fields[i][1], stored.fields[i][2]>>
           /\ IsName(stored.fields[i][1]) /\ stored.fields[i][2] \in ElementTypes
      /\ side = "script" => DOMAIN stored.fields = {} /\ ~stored.array
  <2>1. CASE side = "script" /\ stored = NoDocument
    <3>1. DOMAIN << >> = 1 .. 0
      OBVIOUS
    <3> QED
      BY <2>1, <3>1 DEF NoDocument, Document
  <2>2. CASE side = "server"
    <3>1. PICK array \in BOOLEAN, fields \in Foreign :
            (array => inner) /\ stored = Document(array, fields)
      BY <2>2 DEF Init
    <3> QED
      BY <2>2, <3>1, InputAssumption DEF Document
  <2> QED
    BY <2>1, <2>2 DEF Init
<1>2. DOMAIN table = {}
  BY DEF Init, Empty
<1>3. TypeOK
  BY <1>1, <1>2 DEF Init, TypeOK
<1>4. Finite
  <2>1. table = [k \in DOMAIN table |-> table[k]]
    BY DEF Init, Empty
  <2> QED
    BY <1>1, <1>2, <2>1, FS_EmptySet DEF Finite
<1>5. Faithful /\ Decoded /\ Remembered
  BY <1>1 DEF Init, Faithful, Decoded, Remembered
<1> QED
  BY <1>3, <1>4, <1>5 DEF IInv

\* What a script does to its table.
LEMMA ChangeKeepsIInv ==
  ASSUME IInv, side = "script", NEW t, NEW k, IsKey(k), Becomes(t, k),
         IsFiniteSet(DOMAIN t), t = [x \in DOMAIN t |-> t[x]],
         \A x \in DOMAIN t : IsKey(x) /\ t[x] \in ValueTypes,
         \A x \in DOMAIN table : x # k => x \in DOMAIN t /\ t[x] = table[x]
  PROVE  IInv'
<1> USE DEF IInv
<1>1. /\ table' = t /\ listed' = FALSE /\ age' \in {"built", "changed"}
      /\ stored' = Rest(k) /\ UNCHANGED <<inner, side, own>>
  BY DEF Becomes, TypeOK
<1>2. own = FALSE
  BY DEF Faithful, TypeOK
<1>3. CASE stored.array
  <2>1. stored' = NoDocument
    BY <1>1, <1>3 DEF Rest
  <2>2. DOMAIN << >> = 1 .. 0
    OBVIOUS
  <2>3. stored'.array = FALSE /\ stored'.fields = << >> /\ DOMAIN stored'.fields = {}
    BY <2>1, <2>2 DEF NoDocument, Document
  <2>4. TypeOK'
    BY <1>1, <1>2, <2>3 DEF TypeOK
  <2>5. Finite'
    BY <1>1, <2>1, <2>2, <2>3 DEF Finite, NoDocument, Document
  <2> QED
    BY <1>1, <1>2, <2>3, <2>4, <2>5 DEF Faithful, Decoded, Remembered
<1>4. CASE ~stored.array
  <2> DEFINE fs == stored.fields
             rest == [i \in DOMAIN fs |-> IF fs[i][1] = NameOf(k) THEN <<fs[i][1], Nothing>>
                                          ELSE fs[i]]
  <2>1. stored' = Document(FALSE, rest)
    BY <1>1, <1>4 DEF Rest, Finite, Document, TypeOK
  <2>2. stored'.array = FALSE /\ stored'.fields = rest /\ DOMAIN stored'.fields = DOMAIN fs
    BY <2>1 DEF Document
  <2>3. ASSUME NEW i \in DOMAIN fs
        PROVE  /\ rest[i][1] = fs[i][1]
               /\ rest[i][2] \in ElementTypes \cup {Nothing}
               /\ IsName(rest[i][1])
    BY DEF TypeOK
  <2>4. TypeOK'
    BY <1>1, <1>2, <2>2, <2>3 DEF TypeOK
  <2>5. Finite'
    <3>1. \A i \in DOMAIN fs : rest[i] = <<rest[i][1], rest[i][2]>>
      BY DEF Finite
    <3> QED
      BY <1>1, <2>1, <2>2, <3>1 DEF Finite
  <2>6. Remembered'
    <3> SUFFICES ASSUME NEW i \in DOMAIN fs, Exact(rest[i][2]), Sole(rest, i)
                 PROVE  /\ String(rest[i][1]) \in DOMAIN t
                        /\ t[String(rest[i][1])] = Decode(rest[i][2])
      BY <1>1, <2>2 DEF Remembered
    <3>1. fs[i][1] # NameOf(k)
      <4>1. ~Exact(Nothing)
        BY DEF Exact, Nothing
      <4> QED
        BY <4>1
    <3>2. rest[i] = fs[i] /\ Sole(fs, i)
      BY <2>3, <3>1 DEF Sole
    <3>3. String(fs[i][1]) \in DOMAIN table /\ table[String(fs[i][1])] = Decode(fs[i][2])
      BY <1>4, <3>2 DEF Remembered
    <3>4. String(fs[i][1]) # k
      <4>1. IsName(fs[i][1])
        BY DEF TypeOK
      <4>2. NameOf(String(fs[i][1])) = fs[i][1]
        BY <4>1 DEF NameOf, String, IsName
      <4> QED
        BY <3>1, <4>2
    <3> QED
      BY <3>2, <3>3, <3>4
  <2> QED
    BY <1>1, <1>2, <2>4, <2>5, <2>6 DEF Faithful, Decoded
<1> QED
  BY <1>3, <1>4

LEMMA AssignKeepsIInv ==
  ASSUME IInv, NEW k \in Keys, NEW v \in Values, Assign(k, v)
  PROVE  IInv'
<1> DEFINE t == [x \in DOMAIN table \cup {k} |-> IF x = k THEN v ELSE table[x]]
<1>1. side = "script" /\ Becomes(t, k)
  BY DEF Assign
<1>2. IsKey(k) /\ v \in ValueTypes
  BY InputAssumption
<1>3. IsFiniteSet(DOMAIN t)
  BY FS_AddElement DEF IInv, Finite
<1>4. \A x \in DOMAIN t : IsKey(x) /\ t[x] \in ValueTypes
  BY <1>2 DEF IInv, TypeOK
<1>5. \A x \in DOMAIN table : x # k => x \in DOMAIN t /\ t[x] = table[x]
  OBVIOUS
<1>6. t = [x \in DOMAIN t |-> t[x]]
  OBVIOUS
<1> HIDE DEF t
<1> QED
  BY <1>6, <1>1, <1>2, <1>3, <1>4, <1>5, ChangeKeepsIInv

LEMMA CallKeepsIInv ==
  ASSUME IInv, NEW k \in DOMAIN table, NEW a \in Arguments, NEW b \in Arguments, Call(k, a, b)
  PROVE  IInv'
<1> DEFINE v == IF table[k][1] = "RegEx" THEN <<"RegEx", a, b>> ELSE <<table[k][1], a>>
           t == [table EXCEPT ![k] = v]
<1>1. side = "script" /\ Becomes(t, k)
  BY DEF Call
<1>2. v \in ValueTypes
  <2>1. \A w \in Arguments : w \in ValueTypes
    BY InputAssumption
  <2>2. \A w \in Arguments : IsNumber(w) \/ IsString(w) => w \in Plain
    BY <2>1, ValueForms DEF IsNumber, IsString
  <2>3. Takes(table[k][1], a) /\ (table[k][1] = "RegEx" => IsString(b))
    BY DEF Call
  <2>4. a \in Plain /\ (table[k][1] = "RegEx" => b \in Plain)
    BY <2>2, <2>3 DEF Takes
  <2>5. table[k][1] # "RegEx" => table[k][1] \in Boxes
    BY <2>3 DEF Takes, Boxes
  <2> QED
    BY <2>4, <2>5 DEF ValueTypes
<1> HIDE DEF v
<1>3. IsKey(k) /\ IsFiniteSet(DOMAIN t) /\ DOMAIN t = DOMAIN table
  BY DEF IInv, TypeOK, Finite
<1>4. \A x \in DOMAIN t : IsKey(x) /\ t[x] \in ValueTypes
  BY <1>2 DEF IInv, TypeOK
<1>5. \A x \in DOMAIN table : x # k => x \in DOMAIN t /\ t[x] = table[x]
  OBVIOUS
<1>6. t = [x \in DOMAIN t |-> t[x]]
  OBVIOUS
<1> HIDE DEF t
<1> QED
  BY <1>6, <1>1, <1>3, <1>4, <1>5, ChangeKeepsIInv

LEMMA MakeNumberKeepsIInv ==
  ASSUME IInv, NEW k \in DOMAIN table, MakeNumber(k)
  PROVE  IInv'
<1> DEFINE n == BsonToNumber(table[k])
           t == IF n = Nil THEN [x \in DOMAIN table \ {k} |-> table[x]]
                ELSE [table EXCEPT ![k] = n]
<1>1. side = "script" /\ Becomes(t, k)
  BY DEF MakeNumber
<1>2. n = Nil \/ n \in ValueTypes
  <2>1. table[k] \in ValueTypes
    BY DEF IInv, TypeOK
  <2>2. CASE IsNumber(table[k])
    <3>1. table[k] \in Plain
      BY <2>1, <2>2, ValueForms DEF IsNumber
    <3>2. Number(ToNumber(table[k])) \in Plain
      BY <3>1, Conversions DEF Plain, Number
    <3> QED
      BY <2>2, <3>2 DEF BsonToNumber, ValueTypes
  <2>3. CASE ~IsNumber(table[k]) /\ table[k][1] \in Boxes \cup {"RegEx"} /\ IsNumber(table[k][2])
    <3>1. table[k][2] \in Plain
      BY <2>1, <2>3, ValueForms
    <3>2. Number(ToNumber(table[k][2])) \in Plain
      BY <3>1, Conversions DEF Plain, Number
    <3> QED
      BY <2>3, <3>2 DEF BsonToNumber, ValueTypes
  <2> QED
    BY <2>2, <2>3 DEF BsonToNumber
<1> HIDE DEF n
<1>3. IsKey(k) /\ IsFiniteSet(DOMAIN t)
  BY FS_RemoveElement DEF IInv, TypeOK, Finite
<1>4. \A x \in DOMAIN t : IsKey(x) /\ t[x] \in ValueTypes
  BY <1>2 DEF IInv, TypeOK
<1>5. \A x \in DOMAIN table : x # k => x \in DOMAIN t /\ t[x] = table[x]
  OBVIOUS
<1>6. t = [x \in DOMAIN t |-> t[x]]
  OBVIOUS
<1> HIDE DEF t
<1> QED
  BY <1>6, <1>1, <1>3, <1>4, <1>5, ChangeKeepsIInv

LEMMA SaveKeepsIInv ==
  ASSUME IInv, Save
  PROVE  IInv' /\ Faithful'
<1>1. PICK o \in Orders(table) :
        /\ ~Throws(table, o)
        /\ \E g \in [DOMAIN o -> IF \E k \in DOMAIN table : Overflows(table[k])
                                 THEN Junk ELSE {0}] :
             stored' = Stored(table, o, g)
  BY DEF Save
<1>2. PICK g \in [DOMAIN o -> 0 .. ULongMax] : stored' = Stored(table, o, g)
  <2>1. Junk \subseteq 0 .. ULongMax /\ 0 \in 0 .. ULongMax
    BY JunkAssumption, Widths
  <2> QED
    BY <1>1, <2>1
<1>3. /\ side' = "server" /\ own' = TRUE /\ UNCHANGED <<inner, table, listed, age>>
      /\ TypeOK /\ Finite /\ Decoded
  BY DEF Save, IInv
<1>4. DOMAIN stored'.fields = DOMAIN o /\ stored' = Document(stored'.array, stored'.fields)
  BY <1>2, StoredFields
<1>5. stored'.array = Dense(o)
  BY <1>2, StoredFields
<1>6. \A i \in DOMAIN o :
        IsName(stored'.fields[i][1]) /\ stored'.fields[i][2] \in ElementTypes \cup {Nothing}
  BY <1>1, <1>2, <1>3, StoredType DEF Finite
<1>7. Dense(o) \in BOOLEAN /\ (Dense(o) => inner)
  BY DEF Dense
<1>8. TypeOK'
  BY <1>3, <1>4, <1>5, <1>6, <1>7 DEF TypeOK
<1>9. Finite'
  <2>1. Cardinality(DOMAIN table) \in Nat /\ DOMAIN o = 1 .. Cardinality(DOMAIN table)
    BY <1>3, OrderFacts DEF Finite
  <2>2. \A i \in DOMAIN o : stored'.fields[i] = <<stored'.fields[i][1], stored'.fields[i][2]>>
    BY <1>2, StoredFields
  <2> QED
    BY <1>3, <1>4, <1>5, <1>7, <2>1, <2>2 DEF Finite
<1>10. Faithful'
  <2>1. Orders(table)' = Orders(table) /\ Stored(table, o, g)' = Stored(table, o, g)
    BY <1>3 DEF Orders, Stored, Dense, AsArray, AsObject, At, NameOf
  <2> QED
    BY <1>2, <1>3, <2>1 DEF Faithful
<1>11. Decoded' /\ Remembered'
  BY <1>3 DEF Decoded, Remembered
<1> QED
  BY <1>8, <1>9, <1>10, <1>11 DEF IInv

LEMMA LoadKeepsIInv ==
  ASSUME IInv, Load
  PROVE  IInv'
<1>1. /\ table' = Loaded(stored) /\ listed' = (stored.array /\ Unbroken(stored))
      /\ side' = "script" /\ age' = "loaded" /\ own' = FALSE /\ UNCHANGED <<inner, stored>>
      /\ TypeOK /\ Finite
  BY DEF Load, IInv
<1>2. PICK n \in Nat : DOMAIN stored.fields = 1 .. n
  BY <1>1 DEF Finite
<1>3. \A i \in 1 .. n :
        IsName(stored.fields[i][1]) /\ stored.fields[i][2] \in ElementTypes \cup {Nothing}
  BY <1>1, <1>2 DEF TypeOK
<1>4. /\ IsFiniteSet(DOMAIN Loaded(stored))
      /\ Loaded(stored) = [k \in DOMAIN Loaded(stored) |-> Loaded(stored)[k]]
      /\ \A k \in DOMAIN Loaded(stored) :
           /\ IsKey(k) /\ Loaded(stored)[k] \in ValueTypes
           /\ k[1] = "string" => k[2] = Cut(k[2])
           /\ k[1] = "number" => Whole(k[2])
           /\ \E e \in ElementTypes : Loaded(stored)[k] = Decode(e) /\ Decode(e) # Nil
  BY <1>2, <1>3, LoadedType
<1>5. TypeOK'
  <2>1. listed' \in BOOLEAN
    BY <1>1
  <2> QED
    BY <1>1, <1>4, <2>1 DEF TypeOK
<1>6. Finite' /\ Faithful' /\ Decoded'
  <2>1. Finite'
    BY <1>1, <1>4 DEF Finite
  <2>2. Faithful'
    BY <1>1 DEF Faithful
  <2>3. Decoded'
    BY <1>1, <1>4 DEF Decoded
  <2> QED
    BY <2>1, <2>2, <2>3
<1>7. Remembered'
  <2>1. CASE stored.array
    <3>1. Unbroken(stored) \in BOOLEAN /\ Unbroken(stored)' = Unbroken(stored)
      BY <1>1 DEF Unbroken, Present
    <3>2. Loaded(stored)' = Loaded(stored)
      <4>1. Listed(stored.fields)' = Listed(stored.fields)
        BY <1>1 DEF Listed, Present, Place
      <4>2. Mapped(stored.fields)' = Mapped(stored.fields)
        BY <1>1 DEF Mapped, Present, Last
      <4> QED
        BY <1>1, <4>1, <4>2 DEF Loaded
    <3> QED
      BY <1>1, <2>1, <3>1, <3>2 DEF Remembered
  <2>2. CASE ~stored.array
    <3>1. table' = Mapped(stored.fields)
      BY <1>1, <2>2 DEF Loaded
    <3>2. ASSUME NEW i \in DOMAIN stored.fields,
                 Exact(stored.fields[i][2]), Sole(stored.fields, i)
          PROVE  /\ String(stored.fields[i][1]) \in DOMAIN table'
                 /\ table'[String(stored.fields[i][1])] = Decode(stored.fields[i][2])
      <4>1. stored.fields[i][2] # Nothing
        BY <3>2 DEF Exact, Nothing
      <4>2. i \in Present(stored.fields) /\ stored.fields[i][2] \in ElementTypes
        BY <1>2, <1>3, <4>1 DEF Present
      <4>3. Decode(stored.fields[i][2]) # Nil
        BY <3>2, <4>2, ExactTrip
      <4>4. \A j \in Present(stored.fields) :
              stored.fields[j][1] = stored.fields[i][1] => j = i
        BY <3>2 DEF Sole, Present
      <4> QED
        BY <1>2, <3>1, <4>2, <4>3, <4>4, MappedEntry
    <3> QED
      BY <1>1, <2>2, <3>2 DEF Remembered, Sole
  <2> QED
    BY <2>1, <2>2
<1> QED
  BY <1>5, <1>6, <1>7 DEF IInv

LEMMA NextIInv == IInv /\ [Next]_vars => IInv'
<1> SUFFICES ASSUME IInv, [Next]_vars PROVE IInv'
  OBVIOUS
<1>1. ASSUME NEW k \in Keys, NEW v \in Values, Assign(k, v) PROVE IInv'
  BY <1>1, AssignKeepsIInv
<1>2. ASSUME NEW k \in DOMAIN table, NEW a \in Arguments, NEW b \in Arguments, Call(k, a, b)
      PROVE  IInv'
  BY <1>2, CallKeepsIInv
<1>3. ASSUME NEW k \in DOMAIN table, MakeNumber(k) PROVE IInv'
  BY <1>3, MakeNumberKeepsIInv
<1>4. CASE Save
  BY <1>4, SaveKeepsIInv
<1>5. CASE Load
  BY <1>5, LoadKeepsIInv
<1>6. CASE UNCHANGED vars
  <2>1. UNCHANGED <<inner, table, listed, stored, side, own, age>>
    BY <1>6 DEF vars
  <2>2. TypeOK' /\ Finite' /\ Decoded'
    BY <2>1 DEF IInv, TypeOK, Finite, Decoded
  <2>3. Faithful'
    <3>1. Orders(table)' = Orders(table)
      BY <2>1 DEF Orders
    <3>2. \A o, g : Stored(table, o, g)' = Stored(table, o, g)
      BY <2>1 DEF Stored, Dense, AsArray, AsObject, At, NameOf
    <3> QED
      BY <2>1, <3>1, <3>2 DEF IInv, Faithful
  <2>4. Remembered'
    <3>1. Loaded(stored)' = Loaded(stored) /\ Unbroken(stored)' = Unbroken(stored)
      BY <2>1 DEF Loaded, Listed, Mapped, Present, Place, Last, Unbroken
    <3> QED
      BY <2>1, <3>1 DEF IInv, Remembered, Sole
  <2> QED
    BY <2>2, <2>3, <2>4 DEF IInv
<1> QED
  BY <1>1, <1>2, <1>3, <1>4, <1>5, <1>6 DEF Next

\* In every reachable state the invariant holds.
THEOREM InvariantHolds == Spec => []IInv
<1>1. Init => IInv
  BY InitIInv
<1>2. IInv /\ [Next]_vars => IInv'
  BY NextIInv
<1> QED
  BY <1>1, <1>2, PTL DEF Spec

\* The table holds values of Lua and the document elements of BSON, within
\* the width of their types.
THEOREM TypeCorrect == Spec => []TypeOK
<1>1. IInv => TypeOK
  BY DEF IInv
<1> QED
  BY <1>1, InvariantHolds, PTL

-----------------------------------------------------------------------------
(***************************************************************************)
(* What the trips keep.                                                    *)
(***************************************************************************)

\* A step from the server to the script loads the document, and the other way
\* the table is saved.
LEMMA Sides ==
  ASSUME TypeOK, [Next]_vars
  PROVE  /\ side = "server" /\ side' = "script" => Load
         /\ side = "script" /\ side' = "server" => Save
<1>1. ASSUME NEW k \in Keys, NEW v \in Values, Assign(k, v)
      PROVE  side' = side
  BY <1>1 DEF Assign, Becomes
<1>2. ASSUME NEW k \in DOMAIN table, NEW a \in Arguments, NEW b \in Arguments, Call(k, a, b)
      PROVE  side' = side
  BY <1>2 DEF Call, Becomes
<1>3. ASSUME NEW k \in DOMAIN table, MakeNumber(k)
      PROVE  side' = side
  BY <1>3 DEF MakeNumber, Becomes
<1>4. Save => side = "script"
  BY DEF Save
<1>5. Load => side = "server"
  BY DEF Load
<1>6. UNCHANGED vars => side' = side
  BY DEF vars
<1> QED
  BY <1>1, <1>2, <1>3, <1>4, <1>5, <1>6 DEF Next

LEMMA LoadKeepsOrder ==
  ASSUME IInv, Load,
         NEW i \in Present(stored.fields), NEW j \in Present(stored.fields),
         NotBefore(stored.fields[i][2], stored.fields[j][2]),
         stored.array \/ (Sole(stored.fields, i) /\ Sole(stored.fields, j))
  PROVE  Measure(table'[KeyOf(stored, j)]) <= Measure(table'[KeyOf(stored, i)])
<1> DEFINE fs == stored.fields
<1>1. PICK n \in Nat : DOMAIN fs = 1 .. n
  BY DEF IInv, Finite
<1>2. fs[i][2] \in ElementTypes /\ fs[j][2] \in ElementTypes
  BY DEF IInv, TypeOK, Present
<1>3. /\ Decode(fs[i][2]) # Nil /\ Decode(fs[j][2]) # Nil
      /\ Measure(Decode(fs[j][2])) <= Measure(Decode(fs[i][2]))
  BY <1>2, OrderTrip
<1>4. table' = Loaded(stored)
  BY DEF Load
<1>5. ASSUME NEW x \in {i, j}
      PROVE  table'[KeyOf(stored, x)] = Decode(fs[x][2])
  <2>1. CASE stored.array
    BY <1>1, <1>3, <1>4, <2>1, ListedEntry DEF Loaded, KeyOf
  <2>2. CASE ~stored.array
    <3>1. \A y \in Present(fs) : fs[y][1] = fs[x][1] => y = x
      BY <2>2 DEF Sole, Present
    <3> QED
      BY <1>1, <1>3, <1>4, <2>2, <3>1, MappedEntry DEF Loaded, KeyOf
  <2> QED
    BY <2>1, <2>2
<1> QED
  BY <1>3, <1>5

\* Two numbers, two dates or two timestamps of one second are never in the
\* wrong order in the table their document is loaded into, whatever the types
\* and however much was rounded.
THEOREM OrderIsKept == Spec => OrderKept
<1>1. ASSUME IInv, [Next]_vars, side = "server" /\ side' = "script"
      PROVE  \A i, j \in Present(stored.fields) :
               (/\ NotBefore(stored.fields[i][2], stored.fields[j][2])
                /\ stored.array \/ (Sole(stored.fields, i) /\ Sole(stored.fields, j)))
               => Measure(table'[KeyOf(stored, j)]) <= Measure(table'[KeyOf(stored, i)])
  <2>1. Load
    BY <1>1, Sides DEF IInv
  <2> QED
    BY <1>1, <2>1, LoadKeepsOrder
<1> QED
  BY <1>1, InvariantHolds, PTL DEF Spec, OrderKept

\* A field that the script did not assign is stored as it was.
LEMMA SaveKeepsFields ==
  ASSUME IInv, Save, ~stored.array, NEW i \in DOMAIN stored.fields,
         Exact(stored.fields[i][2]), Sole(stored.fields, i)
  PROVE  \E j \in DOMAIN stored'.fields : stored'.fields[j] = stored.fields[i]
<1> DEFINE name == stored.fields[i][1]
           e == stored.fields[i][2]
<1>1. String(name) \in DOMAIN table /\ table[String(name)] = Decode(e)
  BY DEF IInv, Remembered, Save
<1>2a. PICK o \in Orders(table) : \E g : stored' = Stored(table, o, g)
  BY DEF Save
<1>2. PICK g : stored' = Stored(table, o, g)
  BY <1>2a
<1>3. PICK j \in DOMAIN o : o[j] = String(name)
  BY <1>1, OrderFacts DEF IInv, Finite
<1>4. ~Dense(o)
  BY <1>3 DEF Dense, String
<1>5. /\ DOMAIN stored'.fields = DOMAIN o
      /\ stored'.fields[j] = <<NameOf(o[j]), Encode(table[o[j]], g[j])>>
  BY <1>2, <1>3, <1>4, StoredFields
<1>6. e \in ElementTypes /\ IsName(name)
  <2>1. e # Nothing
    BY DEF Exact, Nothing
  <2> QED
    BY <2>1 DEF IInv, TypeOK
<1>7. NameOf(o[j]) = name
  BY <1>3, <1>6 DEF NameOf, String, IsName
<1>8. Encode(table[o[j]], g[j]) = e
  BY <1>1, <1>3, <1>6, ExactTrip
<1>9. stored.fields[i] = <<name, e>>
  BY DEF IInv, Finite
<1> QED
  BY <1>5, <1>7, <1>8, <1>9

\* An array that was only read is stored as it was.
LEMMA SaveKeepsArray ==
  ASSUME IInv, Save, stored.array, \A i \in DOMAIN stored.fields : Exact(stored.fields[i][2])
  PROVE  /\ stored'.array
         /\ [i \in DOMAIN stored'.fields |-> stored'.fields[i][2]]
              = [i \in DOMAIN stored.fields |-> stored.fields[i][2]]
<1> DEFINE fs == stored.fields
<1>1. PICK n \in Nat : DOMAIN fs = 1 .. n
  BY DEF IInv, Finite
<1>2. ASSUME NEW i \in 1 .. n
      PROVE  /\ i \in Present(fs) /\ fs[i][2] \in ElementTypes
             /\ Decode(fs[i][2]) # Nil /\ \A g : Encode(Decode(fs[i][2]), g) = fs[i][2]
  <2>1. fs[i][2] # Nothing
    BY <1>1 DEF Exact, Nothing
  <2>2. i \in Present(fs) /\ fs[i][2] \in ElementTypes
    BY <1>1, <2>1 DEF IInv, TypeOK, Present
  <2> QED
    BY <1>1, <2>2, ExactTrip
<1>3. Unbroken(stored) /\ Present(fs) = 1 .. n
  BY <1>1, <1>2 DEF Unbroken, Present
<1>4. table = Listed(fs) /\ listed
  BY <1>3 DEF IInv, Remembered, Save, Loaded
<1>5. ASSUME NEW i \in 1 .. n
      PROVE  Number(2 * i) \in DOMAIN table /\ table[Number(2 * i)] = Decode(fs[i][2])
  <2>1. i \in Present(fs) /\ Decode(fs[i][2]) # Nil
    BY <1>2
  <2>2. Place(fs, i) = i
    BY <1>1, <1>3, Places
  <2>3. /\ Number(2 * Place(fs, i)) \in DOMAIN Listed(fs)
        /\ Listed(fs)[Number(2 * Place(fs, i))] = Decode(fs[i][2])
    BY <1>1, <2>1, ListedEntry
  <2> QED
    BY <1>4, <2>2, <2>3
<1>6. \A k \in DOMAIN table : \E i \in 1 .. n : k = Number(2 * i)
  BY <1>1, <1>3, <1>4, ListedKey, Places
<1>7a. PICK o \in Orders(table) : \E g : stored' = Stored(table, o, g)
  BY DEF Save
<1>7. PICK g : stored' = Stored(table, o, g)
  BY <1>7a
<1>8. \A i \in DOMAIN o : o[i] = Number(2 * i)
  BY <1>4, OrderFacts DEF IInv, Finite
<1>9. DOMAIN o = 1 .. n
  <2>1. PICK m \in Nat : DOMAIN o = 1 .. m
    BY OrderFacts DEF IInv, Finite
  <2>2. ASSUME NEW i \in 1 .. m PROVE i \in 1 .. n
    <3>1. o[i] \in DOMAIN table /\ o[i] = Number(2 * i)
      BY <1>8, <2>1, OrderFacts DEF IInv, Finite
    <3>2. PICK j \in 1 .. n : Number(2 * i) = Number(2 * j)
      BY <1>6, <3>1
    <3> QED
      BY <3>2 DEF Number
  <2>3. ASSUME NEW i \in 1 .. n PROVE i \in 1 .. m
    <3>1. Number(2 * i) \in DOMAIN table
      BY <1>5
    <3>2. PICK j \in 1 .. m : o[j] = Number(2 * i)
      BY <2>1, <3>1, OrderFacts DEF IInv, Finite
    <3>3. Number(2 * j) = Number(2 * i)
      BY <1>8, <2>1, <3>2
    <3> QED
      BY <3>3 DEF Number
  <2> QED
    BY <2>1, <2>2, <2>3
<1>10. Dense(o)
  <2>1. inner
    BY DEF IInv, Finite
  <2>2. ASSUME NEW i \in DOMAIN o
        PROVE  o[i][1] = "number" /\ Trunc(o[i][2]) = i
    <3>1. i \in Int /\ o[i] = Number(2 * i)
      BY <1>8, <1>9
    <3>2. o[i][1] = "number" /\ o[i][2] = 2 * i
      BY <3>1 DEF Number
    <3> QED
      BY <3>1, <3>2, Truncation
  <2> QED
    BY <2>1, <2>2 DEF Dense
<1>11. /\ stored'.array /\ DOMAIN stored'.fields = 1 .. n
       /\ \A i \in 1 .. n : stored'.fields[i] = <<Numeral(2 * (i - 1)), Encode(At(table, i), g[i])>>
  BY <1>7, <1>9, <1>10, StoredFields
<1>12. ASSUME NEW i \in 1 .. n PROVE stored'.fields[i][2] = fs[i][2]
  <2>1. At(table, i) = Decode(fs[i][2])
    BY <1>5 DEF At
  <2>2. stored'.fields[i][2] = Encode(At(table, i), g[i])
    BY <1>11
  <2> QED
    BY <1>2, <2>1, <2>2
<1> QED
  BY <1>1, <1>11, <1>12

\* Saving changes nothing of a document but what the script assigned.
THEOREM OthersUntouched == Spec => Untouched
<1>1. ASSUME IInv, [Next]_vars, side = "script" /\ side' = "server"
      PROVE  IF stored.array
             THEN (age = "loaded" /\ \A i \in DOMAIN stored.fields : Exact(stored.fields[i][2])) =>
                    /\ stored'.array
                    /\ [i \in DOMAIN stored'.fields |-> stored'.fields[i][2]]
                         = [i \in DOMAIN stored.fields |-> stored.fields[i][2]]
             ELSE \A i \in DOMAIN stored.fields :
                    (Exact(stored.fields[i][2]) /\ Sole(stored.fields, i)) =>
                      \E j \in DOMAIN stored'.fields : stored'.fields[j] = stored.fields[i]
  <2>1. Save
    BY <1>1, Sides DEF IInv
  <2>2. CASE stored.array
    BY <1>1, <2>1, <2>2, SaveKeepsArray
  <2>3. CASE ~stored.array
    BY <1>1, <2>1, <2>3, SaveKeepsFields
  <2> QED
    BY <2>2, <2>3
<1> QED
  BY <1>1, InvariantHolds, PTL DEF Spec, Untouched

\* A number key that counts from one and is no fraction is that number.
LEMMA CountKey ==
  ASSUME NEW k, IsKey(k), k[1] = "number", Whole(k[2]), NEW i \in Int, Trunc(k[2]) = i
  PROVE  k = Number(2 * i)
<1>1. k = Number(k[2]) /\ k[2] \in Int
  BY DEF IsKey, String
<1>2. 2 * Trunc(k[2]) = k[2]
  BY <1>1, Truncation
<1> QED
  BY <1>1, <1>2

\* What an element of a stored list is loaded as, and under which key.
LEMMA ListReturns ==
  ASSUME IInv, own, Load, NEW o \in Orders(table), NEW g \in [DOMAIN o -> 0 .. ULongMax],
         stored = Stored(table, o, g), Dense(o),
         NEW i \in DOMAIN o, o[i] = Number(2 * i), NEW v,
         Encode(table[o[i]], g[i]) # Nothing,
         Decode(Encode(table[o[i]], g[i])) = v, v # Nil
  PROVE  KeyOf(stored, i) \in DOMAIN table' /\ table'[KeyOf(stored, i)] = v
<1> DEFINE fs == stored.fields
<1>1. PICK n \in Nat : DOMAIN fs = 1 .. n /\ DOMAIN o = 1 .. n
  BY StoredFields DEF IInv, Finite
<1>2. stored.array /\ table' = Listed(fs)
  BY StoredFields DEF Load, Loaded
<1>3. fs[i] = <<Numeral(2 * (i - 1)), Encode(At(table, i), g[i])>>
  BY StoredFields
<1>4. At(table, i) = table[o[i]]
  BY OrderFacts DEF At, IInv, Finite
<1>5. i \in Present(fs) /\ Decode(fs[i][2]) = v
  BY <1>1, <1>3, <1>4 DEF Present
<1>6. /\ Number(2 * Place(fs, i)) \in DOMAIN Listed(fs)
      /\ Listed(fs)[Number(2 * Place(fs, i))] = Decode(fs[i][2])
  BY <1>1, <1>5, ListedEntry
<1> QED
  BY <1>2, <1>5, <1>6 DEF KeyOf

\* What the last field of a name is loaded as, if none of that name is nil.
LEMMA MappedLast ==
  ASSUME NEW n \in Nat, NEW fs, DOMAIN fs = 1 .. n, NEW i \in Present(fs),
         \A j \in Present(fs) : fs[j][1] = fs[i][1] => Decode(fs[j][2]) # Nil
  PROVE  /\ String(fs[i][1]) \in DOMAIN Mapped(fs)
         /\ \E j \in Present(fs) : /\ fs[j][1] = fs[i][1]
                                   /\ Mapped(fs)[String(fs[i][1])] = Decode(fs[j][2])
<1> DEFINE names == {fs[j][1] : j \in Present(fs)}
           kept == {m \in names : Decode(fs[Last(fs, m)][2]) # Nil}
           l == Last(fs, fs[i][1])
<1>1. l \in Present(fs) /\ fs[l][1] = fs[i][1]
  BY LastPresent
<1>2. fs[i][1] \in kept
  BY <1>1
<1>3. Mapped(fs) = [k \in {String(m) : m \in kept} |-> Decode(fs[Last(fs, k[2])][2])]
  BY DEF Mapped
<1>4. String(fs[i][1])[2] = fs[i][1]
  BY DEF String
<1>5. Mapped(fs)[String(fs[i][1])] = Decode(fs[l][2])
  BY <1>2, <1>3, <1>4
<1> QED
  BY <1>1, <1>2, <1>3, <1>5

\* What entries of one name are loaded as.
LEMMA EntryReturns ==
  ASSUME IInv, own, Load, NEW o \in Orders(table), NEW g \in [DOMAIN o -> 0 .. ULongMax],
         stored = Stored(table, o, g), ~Dense(o), NEW k \in DOMAIN table,
         \A i \in DOMAIN o : o[i] \in Namesakes(k) =>
            /\ Encode(table[o[i]], g[i]) # Nothing
            /\ Decode(Encode(table[o[i]], g[i])) = Returned(table[o[i]])
            /\ Returned(table[o[i]]) # Nil
  PROVE  /\ String(NameOf(k)) \in DOMAIN table'
         /\ \E j \in Namesakes(k) : table'[String(NameOf(k))] = Returned(table[j])
<1> DEFINE fs == stored.fields
<1>1. PICK n \in Nat : DOMAIN fs = 1 .. n /\ DOMAIN o = 1 .. n
  BY StoredFields DEF IInv, Finite
<1>2. ~stored.array /\ table' = Mapped(fs)
  BY StoredFields DEF Load, Loaded
<1>3. \A i \in DOMAIN o : fs[i] = <<NameOf(o[i]), Encode(table[o[i]], g[i])>>
  BY StoredFields
<1>4. PICK i \in DOMAIN o : o[i] = k
  BY OrderFacts DEF IInv, Finite
<1>5. ASSUME NEW j \in Present(fs), fs[j][1] = NameOf(k)
      PROVE  /\ o[j] \in Namesakes(k)
             /\ Decode(fs[j][2]) = Returned(table[o[j]])
             /\ Decode(fs[j][2]) # Nil
  <2>1. j \in DOMAIN o
    BY <1>1 DEF Present
  <2>2. fs[j][1] = NameOf(o[j]) /\ fs[j][2] = Encode(table[o[j]], g[j])
    BY <1>3, <2>1
  <2>3. o[j] \in DOMAIN table
    BY <2>1, OrderFacts DEF IInv, Finite
  <2>4. o[j] \in Namesakes(k)
    BY <1>5, <2>2, <2>3 DEF Namesakes
  <2> QED
    BY <2>1, <2>2, <2>4
<1>6. i \in Present(fs) /\ fs[i][1] = NameOf(k)
  <2>1. o[i] \in Namesakes(k)
    BY <1>4 DEF Namesakes
  <2>2. fs[i][1] = NameOf(k) /\ fs[i][2] = Encode(table[o[i]], g[i])
    BY <1>3, <1>4
  <2> QED
    BY <1>1, <2>1, <2>2 DEF Present
<1>7. /\ String(fs[i][1]) \in DOMAIN Mapped(fs)
      /\ \E j \in Present(fs) : /\ fs[j][1] = fs[i][1]
                                /\ Mapped(fs)[String(fs[i][1])] = Decode(fs[j][2])
  <2>1. \A j \in Present(fs) : fs[j][1] = fs[i][1] => Decode(fs[j][2]) # Nil
    BY <1>5, <1>6
  <2> HIDE DEF fs
  <2> QED
    BY <1>1, <1>6, <2>1, MappedLast
<1> QED
  BY <1>2, <1>5, <1>6, <1>7

LEMMA LoadReturns ==
  ASSUME IInv, own, Load, NEW k \in DOMAIN table
  PROVE  IF stored.array
         THEN (Whole(k[2]) /\ Proper(table[k])) =>
                /\ KeyOf(stored, k[2] \div 2) \in DOMAIN table'
                /\ table'[KeyOf(stored, k[2] \div 2)] = Returned(table[k])
         ELSE (\A j \in Namesakes(k) : Proper(table[j])) =>
                /\ String(NameOf(k)) \in DOMAIN table'
                /\ \E j \in Namesakes(k) : table'[String(NameOf(k))] = Returned(table[j])
<1>1. PICK o \in Orders(table) : \E g \in [DOMAIN o -> 0 .. ULongMax] :
              stored = Stored(table, o, g)
  BY DEF IInv, Faithful
<1>2. PICK g \in [DOMAIN o -> 0 .. ULongMax] : stored = Stored(table, o, g)
  BY <1>1
<1>3. ASSUME NEW i \in DOMAIN o, Proper(table[o[i]])
      PROVE  /\ Encode(table[o[i]], g[i]) # Nothing
             /\ Decode(Encode(table[o[i]], g[i])) = Returned(table[o[i]])
             /\ Returned(table[o[i]]) # Nil
  <2>1. o[i] \in DOMAIN table /\ g[i] \in 0 .. ULongMax
    BY OrderFacts DEF IInv, Finite
  <2> QED
    BY <1>3, <2>1, ProperTrip DEF IInv, TypeOK
<1>4. CASE Dense(o)
  <2>1. stored.array
    BY <1>2, <1>4, StoredFields
  <2>2. SUFFICES ASSUME Whole(k[2]), Proper(table[k])
        PROVE  /\ KeyOf(stored, k[2] \div 2) \in DOMAIN table'
               /\ table'[KeyOf(stored, k[2] \div 2)] = Returned(table[k])
    BY <2>1
  <2>3. PICK i \in DOMAIN o : o[i] = k
    BY OrderFacts DEF IInv, Finite
  <2>4. i \in Int /\ k[1] = "number" /\ Trunc(k[2]) = i
    BY <1>4, <2>3, OrderFacts DEF Dense, IInv, Finite
  <2>5. k = Number(2 * i)
    BY <2>2, <2>4, CountKey DEF IInv, TypeOK
  <2>6. k[2] \div 2 = i
    BY <2>4, <2>5 DEF Number
  <2>7. KeyOf(stored, i) \in DOMAIN table' /\ table'[KeyOf(stored, i)] = Returned(table[k])
    BY <1>2, <1>3, <1>4, <2>2, <2>3, <2>5, ListReturns
  <2> QED
    BY <2>6, <2>7
<1>5. CASE ~Dense(o)
  <2>1. ~stored.array
    BY <1>2, <1>5, StoredFields
  <2>2. SUFFICES ASSUME \A j \in Namesakes(k) : Proper(table[j])
        PROVE  /\ String(NameOf(k)) \in DOMAIN table'
               /\ \E j \in Namesakes(k) : table'[String(NameOf(k))] = Returned(table[j])
    BY <2>1
  <2> QED
    BY <1>2, <1>3, <1>5, <2>2, EntryReturns
<1> QED
  BY <1>4, <1>5

\* Every proper value of a table that a script saves and loads comes back: of
\* a list all but what fractions are the keys of, of any other table one value
\* for each text that its keys are written as.
THEOREM ValuesComeBack == Spec => ValuesSurvive
<1>1. ASSUME IInv, [Next]_vars, own /\ side' = "script"
      PROVE  \A k \in DOMAIN table :
               IF stored.array
               THEN (Whole(k[2]) /\ Proper(table[k])) =>
                      LET back == KeyOf(stored, k[2] \div 2) IN
                        back \in DOMAIN table' /\ table'[back] = Returned(table[k])
               ELSE (\A j \in Namesakes(k) : Proper(table[j])) =>
                      LET back == String(NameOf(k)) IN
                        /\ back \in DOMAIN table'
                        /\ \E j \in Namesakes(k) : table'[back] = Returned(table[j])
  <2>1. Load
    BY <1>1, Sides DEF IInv, Faithful
  <2> QED
    BY <1>1, <2>1, LoadReturns
<1> QED
  BY <1>1, InvariantHolds, PTL DEF Spec, ValuesSurvive

LEMMA LoadSettles ==
  ASSUME IInv, own, Load, age = "loaded",
         stored.array \/ \A k \in DOMAIN table : k[1] = "string",
         \A k \in DOMAIN table : ~Overflows(table[k])
  PROVE  table' = table
<1> DEFINE fs == stored.fields
<1>1. PICK o \in Orders(table) : \E g \in [DOMAIN o -> 0 .. ULongMax] :
              stored = Stored(table, o, g)
  BY DEF IInv, Faithful
<1>2. PICK g \in [DOMAIN o -> 0 .. ULongMax] : stored = Stored(table, o, g)
  BY <1>1
<1>3. PICK n \in Nat : DOMAIN fs = 1 .. n /\ DOMAIN o = 1 .. n
  BY <1>2, StoredFields DEF IInv, Finite
<1>4. ASSUME NEW k \in DOMAIN table
      PROVE  /\ IsKey(k) /\ (k[1] = "string" => k[2] = Cut(k[2]))
             /\ \A x \in 0 .. ULongMax : /\ Encode(table[k], x) # Nothing
                                         /\ Decode(Encode(table[k], x)) = table[k]
             /\ table[k] # Nil /\ Returned(table[k]) = table[k]
  <2>1. IsKey(k) /\ table[k] \in ValueTypes
    BY DEF IInv, TypeOK
  <2>2. PICK e \in ElementTypes : table[k] = Decode(e) /\ Decode(e) # Nil
    BY DEF IInv, Decoded
  <2>3. Proper(table[k]) /\ Returned(table[k]) = table[k]
    BY <2>2, DecodedProper
  <2> QED
    BY <2>1, <2>2, <2>3, ProperTrip DEF IInv, Decoded
<1>5. \A i \in 1 .. n : g[i] \in 0 .. ULongMax /\ o[i] \in DOMAIN table
  BY <1>3, OrderFacts DEF IInv, Finite
<1>6. \A k \in DOMAIN table : \E i \in 1 .. n : o[i] = k
  BY <1>3, OrderFacts DEF IInv, Finite
<1>9. /\ table = [k \in DOMAIN table |-> table[k]]
      /\ table' = [k \in DOMAIN table' |-> table'[k]]
  <2>1. IInv'
    BY LoadKeepsIInv
  <2> QED
    BY <2>1 DEF IInv, Finite
<1>7. CASE Dense(o)
  <2>1. stored.array /\ table' = Listed(fs)
    BY <1>2, <1>7, StoredFields DEF Load, Loaded
  <2>2. ASSUME NEW i \in 1 .. n PROVE o[i] = Number(2 * i)
    <3>1. i \in Int /\ o[i][1] = "number" /\ Trunc(o[i][2]) = i
      BY <1>3, <1>7 DEF Dense
    <3>2. IsKey(o[i])
      BY <1>4, <1>5
    <3>3. Whole(o[i][2])
      BY <1>5, <3>1 DEF IInv, Decoded
    <3> QED
      BY <3>1, <3>2, <3>3, CountKey
  <2>3. ASSUME NEW i \in 1 .. n
        PROVE  i \in Present(fs)
    <3>1. fs[i] = <<Numeral(2 * (i - 1)), Encode(At(table, i), g[i])>>
      BY <1>2, <1>3, <1>7, StoredFields
    <3>2. At(table, i) = table[o[i]]
      BY <1>5, <2>2 DEF At
    <3> QED
      BY <1>3, <1>4, <1>5, <3>1, <3>2 DEF Present
  <2>4. Present(fs) = DOMAIN fs
    BY <1>3, <2>3 DEF Present
  <2>5. ASSUME NEW i \in 1 .. n
        PROVE  o[i] \in DOMAIN table' /\ table'[o[i]] = table[o[i]]
    <3>1. i \in DOMAIN o /\ o[i] = Number(2 * i)
      BY <1>3, <2>2
    <3>2. /\ Decode(Encode(table[o[i]], g[i])) = table[o[i]]
          /\ table[o[i]] # Nil
      BY <1>4, <1>5
    <3>3. Encode(table[o[i]], g[i]) # Nothing
      BY <1>4, <1>5
    <3>4. KeyOf(stored, i) = o[i]
      BY <1>3, <2>1, <2>4, <3>1, Places DEF KeyOf
    <3> QED
      BY <1>2, <1>7, <3>1, <3>2, <3>3, <3>4, ListReturns
  <2>6. ASSUME NEW k \in DOMAIN table' PROVE k \in DOMAIN table
    <3>1. PICK i \in Present(fs) : k = Number(2 * Place(fs, i))
      BY <1>3, <2>1, ListedKey
    <3>2. i \in 1 .. n /\ Place(fs, i) = i
      BY <1>3, <2>4, <3>1, Places
    <3> QED
      BY <1>5, <2>2, <3>1, <3>2
  <2>7. DOMAIN table' = DOMAIN table
    BY <1>6, <2>5, <2>6
  <2>8. \A k \in DOMAIN table : table'[k] = table[k]
    BY <1>6, <2>5
  <2> QED
    BY <2>1, <2>7, <2>8, <1>9
<1>8. CASE ~Dense(o)
  <2>1. ~stored.array /\ table' = Mapped(fs)
    BY <1>2, <1>8, StoredFields DEF Load, Loaded
  <2>2. ASSUME NEW k \in DOMAIN table PROVE String(NameOf(k)) = k
    <3>1. k[1] = "string" /\ k = String(k[2]) /\ k[2] = Cut(k[2])
      BY <1>4, <2>1 DEF IsKey, Number
    <3> QED
      BY <3>1 DEF NameOf
  <2>3. \A j, k \in DOMAIN table : NameOf(j) = NameOf(k) => j = k
    BY <2>2
  <2>4. ASSUME NEW i \in 1 .. n
        PROVE  o[i] \in DOMAIN table' /\ table'[o[i]] = table[o[i]]
    <3>1. o[i] \in DOMAIN table /\ i \in DOMAIN o
      BY <1>3, <1>5
    <3>2. /\ Encode(table[o[i]], g[i]) # Nothing /\ table[o[i]] # Nil
          /\ Decode(Encode(table[o[i]], g[i])) = table[o[i]]
      BY <1>4, <1>5
    <3>3. /\ String(NameOf(o[i])) \in DOMAIN table'
          /\ table'[String(NameOf(o[i]))] = table[o[i]]
      <4>1. \A j \in DOMAIN o : o[j] \in Namesakes(o[i]) => j = i
        BY <1>3, <1>5, <2>3, <3>1, OrderFacts DEF Namesakes, IInv, Finite
      <4>2. \A j \in Namesakes(o[i]) : j = o[i]
        BY <2>3, <3>1 DEF Namesakes
      <4>3. Returned(table[o[i]]) = table[o[i]]
        BY <1>4, <1>5
      <4>4. \A j \in DOMAIN o : o[j] \in Namesakes(o[i]) =>
              /\ Encode(table[o[j]], g[j]) # Nothing
              /\ Decode(Encode(table[o[j]], g[j])) = Returned(table[o[j]])
              /\ Returned(table[o[j]]) # Nil
        BY <3>2, <4>1, <4>3
      <4>5. /\ String(NameOf(o[i])) \in DOMAIN table'
            /\ \E j \in Namesakes(o[i]) : table'[String(NameOf(o[i]))] = Returned(table[j])
        BY <1>2, <1>8, <3>1, <4>4, EntryReturns
      <4> QED
        BY <4>2, <4>3, <4>5
    <3> QED
      BY <2>2, <3>1, <3>3
  <2>5. ASSUME NEW k \in DOMAIN table' PROVE k \in DOMAIN table
    <3>1. PICK i \in Present(fs) : k = String(fs[i][1])
      BY <1>3, <2>1, MappedKey
    <3>2. i \in 1 .. n /\ fs[i] = <<NameOf(o[i]), Encode(table[o[i]], g[i])>>
      BY <1>2, <1>3, <1>8, StoredFields DEF Present
    <3> QED
      BY <1>5, <2>2, <3>1, <3>2
  <2>6. DOMAIN table' = DOMAIN table
    BY <1>6, <2>4, <2>5
  <2>7. \A k \in DOMAIN table : table'[k] = table[k]
    BY <1>6, <2>4
  <2> QED
    BY <2>1, <2>6, <2>7, <1>9
<1> QED
  BY <1>7, <1>8

\* The second trip changes nothing.
THEOREM SettledAfterOne == Spec => Settled
<1>1. ASSUME IInv, [Next]_vars,
             /\ own /\ age = "loaded" /\ side' = "script"
             /\ stored.array \/ \A k \in DOMAIN table : k[1] = "string"
             /\ \A k \in DOMAIN table : ~Overflows(table[k])
      PROVE  table' = table
  <2>1. Load
    BY <1>1, Sides DEF IInv, Faithful
  <2> QED
    BY <1>1, <2>1, LoadSettles
<1> QED
  BY <1>1, InvariantHolds, PTL DEF Spec, Settled
=============================================================================
