----------------------------- MODULE RoundTrips -----------------------------
(***************************************************************************)
(* A table that a script fills, or finds on the server as another client   *)
(* left it, and that it saves, loads, changes and saves again.  It is      *)
(* either the table of a whole document or one inside a document, which is *)
(* stored as an array if its keys, in the order of lua_next, count from    *)
(* one.                                                                    *)
(*                                                                         *)
(* A field is <<name, element>>; an element Nothing was not appended.      *)
(***************************************************************************)
EXTENDS Scalars, FiniteSets, Functions

CONSTANTS
  Keys,        \* keys a script uses: <<"number", x>> or <<"string", text>>
  Values,      \* values it assigns
  Arguments,   \* what it passes to boxes
  Foreign,     \* what another client wrote: sequences of fields
  Junk,        \* what may come of a conversion that is undefined
  MaxEntries   \* entries of a table that a script builds

ASSUME JunkAssumption == Junk \subseteq 0 .. ULongMax /\ 0 \in Junk

VARIABLES
  inner,    \* the table lies inside a document
  table,    \* the table in the script, a function from keys to values
  listed,   \* it is a list without a hole, which lua_next goes through in order
  stored,   \* the document on the server
  side,     \* who has the last word, "script" or "server"
  own,      \* on the server: the document is what this table was stored as
  age       \* "built" by the script, "loaded", or "changed" since

vars == <<inner, table, listed, stored, side, own, age>>

Empty == [k \in {} |-> Nil]
Document(array, fields) == [array |-> array, fields |-> fields]
NoDocument == Document(FALSE, <<>>)

(***************************************************************************)
(* The loop of lua_to_bson and the two of lua_append_bson.                 *)
(***************************************************************************)
NameOf(k) == IF k[1] = "number" THEN Numeral(Short(k[2])) ELSE Cut(k[2])

\* The orders in which lua_next may go through t.
Orders(t) ==
  {o \in Bijection(1 .. Cardinality(DOMAIN t), DOMAIN t) :
     listed => \A i \in DOMAIN o : o[i] = Number(2 * i)}

\* lua_tointeger of the key is compared, so that one and a half is one.
Dense(o) == inner /\ \A i \in DOMAIN o : o[i][1] = "number" /\ Trunc(o[i][2]) = i

At(t, i) == IF Number(2 * i) \in DOMAIN t THEN t[Number(2 * i)] ELSE Nil

AsArray(t, o, g) == [i \in DOMAIN o |-> <<Numeral(2 * (i - 1)), Encode(At(t, i), g[i])>>]
AsObject(t, o, g) == [i \in DOMAIN o |-> <<NameOf(o[i]), Encode(t[o[i]], g[i])>>]

Stored(t, o, g) ==
  IF Dense(o) THEN Document(TRUE, AsArray(t, o, g)) ELSE Document(FALSE, AsObject(t, o, g))

\* An exception from an object id leaves no document.
Throws(t, o) == \E i \in DOMAIN o : Refused(IF Dense(o) THEN At(t, i) ELSE t[o[i]])

(***************************************************************************)
(* bson_to_array and bson_to_table.  A later field of the same name takes  *)
(* the place of an earlier one, and nil takes it away.                     *)
(***************************************************************************)
Present(fs) == {i \in DOMAIN fs : fs[i][2] # Nothing}
Place(fs, i) == Cardinality({j \in Present(fs) : j <= i})
Last(fs, n) == CHOOSE i \in Present(fs) :
                 fs[i][1] = n /\ \A j \in Present(fs) : fs[j][1] = n => j <= i

Listed(fs) ==
  LET kept == {i \in Present(fs) : Decode(fs[i][2]) # Nil} IN
  [k \in {Number(2 * Place(fs, i)) : i \in kept} |->
     Decode(fs[CHOOSE i \in kept : k = Number(2 * Place(fs, i))][2])]

Mapped(fs) ==
  LET names == {fs[i][1] : i \in Present(fs)}
      kept  == {n \in names : Decode(fs[Last(fs, n)][2]) # Nil}
  IN [k \in {String(n) : n \in kept} |-> Decode(fs[Last(fs, k[2])][2])]

\* No element was left out and none is nil once it is loaded.
Unbroken(d) == \A i \in DOMAIN d.fields : i \in Present(d.fields) /\ Decode(d.fields[i][2]) # Nil

Loaded(d) == IF d.array THEN Listed(d.fields) ELSE Mapped(d.fields)

-----------------------------------------------------------------------------
\* The script starts with an empty table, or with the document of another
\* client to load.
Init ==
  /\ inner \in BOOLEAN
  /\ table = Empty
  /\ listed = FALSE
  /\ own = FALSE
  /\ age = "built"
  /\ \/ side = "script" /\ stored = NoDocument
     \/ /\ side = "server"
        /\ \E array \in BOOLEAN, fields \in Foreign :
             (array => inner) /\ stored = Document(array, fields)

\* What is left of the document that was loaded: the fields not assigned since.
Rest(k) ==
  IF stored.array THEN NoDocument
  ELSE [stored EXCEPT !.fields =
          [i \in DOMAIN @ |-> IF @[i][1] = NameOf(k) THEN <<@[i][1], Nothing>> ELSE @[i]]]

\* A loaded table is changed once: a bound, since a second change meets
\* nothing that the first does not.
Becomes(t, k) ==
  /\ age # "changed"
  /\ table' = t
  /\ listed' = FALSE
  /\ age' = IF age = "loaded" THEN "changed" ELSE age
  /\ stored' = Rest(k)
  /\ UNCHANGED <<inner, side, own>>

Assign(k, v) ==
  /\ side = "script"
  /\ k \in DOMAIN table \/ Cardinality(DOMAIN table) < MaxEntries
  /\ Becomes([x \in DOMAIN table \cup {k} |-> IF x = k THEN v ELSE table[x]], k)

\* box(a), or expression(a, b)
Call(k, a, b) ==
  /\ side = "script"
  /\ k \in DOMAIN table
  /\ Takes(table[k][1], a)
  /\ IF table[k][1] = "RegEx"
     THEN IsString(b) /\ Becomes([table EXCEPT ![k] = <<"RegEx", a, b>>], k)
     ELSE Becomes([table EXCEPT ![k] = <<table[k][1], a>>], k)

\* t[k] = mongo.tonumber(t[k])
MakeNumber(k) ==
  /\ side = "script"
  /\ k \in DOMAIN table
  /\ LET n == BsonToNumber(table[k]) IN
       IF n = Nil THEN Becomes([x \in DOMAIN table \ {k} |-> table[x]], k)
       ELSE Becomes([table EXCEPT ![k] = n], k)

Save ==
  /\ side = "script"
  /\ \E o \in Orders(table) :
       /\ ~Throws(table, o)
       /\ \E g \in [DOMAIN o -> IF \E k \in DOMAIN table : Overflows(table[k])
                                THEN Junk ELSE {0}] :
            stored' = Stored(table, o, g)
  /\ side' = "server"
  /\ own' = TRUE
  /\ UNCHANGED <<inner, table, listed, age>>

\* The driver makes a document without fields nil at the top.
Load ==
  /\ side = "server"
  /\ inner \/ Present(stored.fields) # {}
  /\ table' = Loaded(stored)
  /\ listed' = (stored.array /\ Unbroken(stored))
  /\ side' = "script"
  /\ age' = "loaded"
  /\ own' = FALSE
  /\ UNCHANGED <<inner, stored>>

Next ==
  \/ \E k \in Keys, v \in Values : Assign(k, v)
  \/ \E k \in DOMAIN table : \E a, b \in Arguments : Call(k, a, b)
  \/ \E k \in DOMAIN table : MakeNumber(k)
  \/ Save
  \/ Load

Spec == Init /\ [][Next]_vars

-----------------------------------------------------------------------------
Texts == ({"numeral"} \X Span \X Nat) \cup ({"oid", "word"} \X Nat \X Nat)
IsName(n) == n = Cut(n)
IsKey(k) == (k = Number(k[2]) /\ k[2] \in Int) \/ k = String(k[2])
Plain == ({"number"} \X Doubles) \cup ({"string"} \X Texts) \cup ({"boolean"} \X BOOLEAN)
\* The constructors, mongo.Date(x) and so on, take whatever they are given.
ValueTypes == Plain \cup (Boxes \X Plain) \cup ({"RegEx"} \X Plain \X Plain) \cup {<<"NULL">>}
ElementTypes ==
  ({"NumberInt"} \X IntRange) \cup ({"NumberLong"} \X LongRange) \cup ({"NumberDouble"} \X Doubles)
  \cup ({"Bool"} \X BOOLEAN) \cup ({"String", "Symbol"} \X Texts)
  \cup ({"jstOID"} \X ({"oid"} \X Nat \X {0}))
  \cup ({"RegEx"} \X Texts \X Texts) \cup ({"BinData"} \X Texts \X Nat)
  \cup ({"Date"} \X (0 .. ULongMax)) \cup ({"Timestamp"} \X (0 .. UIntMax) \X (0 .. UIntMax))
  \cup {<<"jstNULL">>, <<"Undefined">>}

ASSUME InputAssumption ==
  /\ \A k \in Keys : IsKey(k) /\ (k[1] = "number" => k[2] \in Doubles)
  /\ Values \cup Arguments \subseteq ValueTypes
  /\ \A fs \in Foreign :
       /\ Len(fs) \in Nat /\ DOMAIN fs = 1 .. Len(fs)
       /\ \A i \in DOMAIN fs : /\ fs[i] = <<fs[i][1], fs[i][2]>>
                                /\ IsName(fs[i][1]) /\ fs[i][2] \in ElementTypes

\* The table holds values of Lua that a number, a text or a box of them can
\* be; the document holds elements within the width of their types.
TypeOK ==
  /\ inner \in BOOLEAN /\ listed \in BOOLEAN /\ own \in BOOLEAN
  /\ side \in {"script", "server"} /\ age \in {"built", "loaded", "changed"}
  /\ \A k \in DOMAIN table : IsKey(k) /\ table[k] \in ValueTypes
  /\ stored.array \in BOOLEAN
  /\ \A i \in DOMAIN stored.fields :
       IsName(stored.fields[i][1]) /\ stored.fields[i][2] \in ElementTypes \cup {Nothing}

\* What a value is once it has been to the server; only a proper one has that.
Held(v) == v[1] = "string" /\ v[2][3] = 0
Count(v, range) == v[1] = "number" /\ Whole(v[2]) /\ v[2] \div 2 \in range
Proper(v) ==
  \/ v[1] \in {"number", "boolean", "NULL"}
  \/ Held(v)
  \/ v[1] = "Date" /\ Count(v[2], 0 .. ULongMax)
  \/ v[1] = "NumberInt" /\ Count(v[2], IntRange)
  \/ v[1] = "NumberLong" /\ Count(v[2], LongRange)
  \/ v[1] = "Symbol" /\ Held(v[2])
  \/ v[1] = "ObjectId" /\ Held(v[2]) /\ v[2][2][1] = "oid"
  \/ v[1] = "BinData" /\ v[2][1] = "string"
  \/ v[1] = "RegEx" /\ Held(v[2]) /\ Held(v[3])
Returned(v) == IF v[1] \in {"NumberInt", "NumberLong"} THEN v[2] ELSE v

\* The key under which field i of d is loaded.
KeyOf(d, i) == IF d.array THEN Number(2 * Place(d.fields, i)) ELSE String(d.fields[i][1])

Namesakes(k) == {j \in DOMAIN table : NameOf(j) = NameOf(k)}

\* A script that saves a table and loads it gets every proper value back.  A
\* list is a list again, which has closed up where an element could not be
\* stored; only what a fraction is the key of is lost (utils.cpp:148).  In any
\* other table a value is found under the text its key is written as
\* (utils.cpp:171), and where keys have one text one of their values is.
ValuesSurvive ==
  [][ (own /\ side' = "script") =>
        \A k \in DOMAIN table :
          IF stored.array
          THEN (Whole(k[2]) /\ Proper(table[k])) =>
                 LET back == KeyOf(stored, k[2] \div 2) IN
                   back \in DOMAIN table' /\ table'[back] = Returned(table[k])
          ELSE (\A j \in Namesakes(k) : Proper(table[j])) =>
                 LET back == String(NameOf(k)) IN
                   /\ back \in DOMAIN table'
                   /\ \E j \in Namesakes(k) : table'[back] = Returned(table[j]) ]_vars

\* The second trip changes nothing: what was loaded from the server, saved as
\* it is and loaded again is the same table, unless an array had a hole or a
\* date or a long integer became a number too large to be converted back.
Settled ==
  [][ (/\ own /\ age = "loaded" /\ side' = "script"
       /\ stored.array \/ \A k \in DOMAIN table : k[1] = "string"
       /\ \A k \in DOMAIN table : ~Overflows(table[k]))
      => table' = table ]_vars

\* Elements that have one form on either side.
Exact(e) ==
  \/ e[1] \in {"Bool", "jstOID", "jstNULL"}
  \/ e[1] = "NumberInt" /\ SmallWhole(2 * e[2])
  \/ e[1] = "NumberDouble" /\ ~SmallWhole(e[2])
  \/ e[1] = "Date" /\ Round(2 * e[2]) = 2 * e[2]
  \/ e[1] \in {"String", "Symbol"} /\ e[2][3] = 0
  \/ e[1] = "RegEx" /\ e[2][3] = 0 /\ e[3][3] = 0
  \/ e[1] = "BinData" /\ e[3] = 0

Sole(fs, i) == \A j \in DOMAIN fs : fs[j][1] = fs[i][1] => j = i

\* A script that loads a document of another client, assigns some entries and
\* saves it leaves the other fields as they were, type and all, if their type
\* has one form in Lua; an array that was only read is the same array.
Untouched ==
  [][ (side = "script" /\ side' = "server") =>
        IF stored.array
        THEN (age = "loaded" /\ \A i \in DOMAIN stored.fields : Exact(stored.fields[i][2])) =>
               /\ stored'.array
               /\ [i \in DOMAIN stored'.fields |-> stored'.fields[i][2]]
                    = [i \in DOMAIN stored.fields |-> stored.fields[i][2]]
        ELSE \A i \in DOMAIN stored.fields :
               (Exact(stored.fields[i][2]) /\ Sole(stored.fields, i)) =>
                 \E j \in DOMAIN stored'.fields : stored'.fields[j] = stored.fields[i] ]_vars

\* d is not before e: numbers of any type, dates, and timestamps of the same
\* second whose sum fits.
Amount(e) == IF e[1] = "NumberDouble" THEN e[2] ELSE 2 * e[2]
NotBefore(d, e) ==
  \/ /\ {d[1], e[1]} \subseteq {"NumberInt", "NumberLong", "NumberDouble"}
     /\ Amount(e) <= Amount(d)
  \/ d[1] = "Date" /\ e[1] = "Date" /\ e[2] <= d[2]
  \/ /\ d[1] = "Timestamp" /\ e[1] = "Timestamp"
     /\ e[2] = d[2] /\ e[3] <= d[3] /\ d[2] + d[3] <= UIntMax

Measure(v) == IF v[1] = "number" THEN v[2] ELSE v[2][2]

\* Numbers and dates of a document are in the same order in the table it is
\* loaded into, though they change type and lose digits, and so are timestamps
\* of the same second.  Between two seconds the order may be lost: the date
\* that a timestamp becomes is the sum of its seconds and its increment
\* (utils.cpp:79).
OrderKept ==
  [][ (side = "server" /\ side' = "script") =>
        \A i, j \in Present(stored.fields) :
          (/\ NotBefore(stored.fields[i][2], stored.fields[j][2])
           /\ stored.array \/ (Sole(stored.fields, i) /\ Sole(stored.fields, j)))
          => Measure(table'[KeyOf(stored, j)]) <= Measure(table'[KeyOf(stored, i)]) ]_vars
=============================================================================
