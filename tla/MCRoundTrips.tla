---------------------------- MODULE MCRoundTrips ----------------------------
(***************************************************************************)
(* RoundTrips with integers of three bits (-4 .. 3), long longs of five    *)
(* (-16 .. 15) and doubles of three significant bits, in halves: every     *)
(* number of the shorter integers is a double, the largest long long and   *)
(* the largest unsigned one are not.  Two significant bits are what the    *)
(* name of a number key shows.                                             *)
(***************************************************************************)
EXTENDS RoundTrips

LOCAL Magnitude(x) == IF x < 0 THEN -x ELSE x

\* The step between the numbers of b significant bits around m, when the
\* largest is 64.
LOCAL Step(m, b) == CHOOSE s \in {1, 2, 4, 8, 16, 32} :
                      m <= 2^b * s /\ (s = 1 \/ 2 * m > 2^b * s)

\* The nearest one; a tie goes to the even one.
LOCAL Nearest(x, b) ==
  LET m == Magnitude(x)
      s == Step(m, b)
      q == m \div s
      r == IF 2 * (m % s) > s \/ (2 * (m % s) = s /\ q % 2 = 1) THEN q + 1 ELSE q
  IN IF x < 0 THEN -(r * s) ELSE r * s

MCRound(x) == Nearest(x, 3)
MCShort(x) == Nearest(x, 2)
MCWritten(x) == x
MCDoubles == {x \in -64 .. 64 : MCRound(x) = x}

A == <<"word", 1, 0>>
B == <<"word", 1, 7>>      \* A, a zero byte and something else
O == <<"oid", 1, 0>>
One == Numeral(2)
True == <<"boolean", TRUE>>

MCKeys == {Number(2), Number(4), Number(5), String(A), String(B)}

MCValues ==
  {Number(x) : x \in {2, 3, 6}} \cup {True} \cup {String(t) : t \in {B, One}}
  \cup {<<"Date", Number(x)>> : x \in {-2, 28}} \cup {<<"Timestamp", Number(2)>>}
  \cup {<<"NumberInt", Number(8)>>} \cup {<<"NumberLong", Number(x)>> : x \in {28, 32}}
  \cup {<<"Symbol", String(A)>>, <<"Symbol", True>>, <<"BinData", String(B)>>}
  \cup {<<"RegEx", String(A), String(One)>>, <<"ObjectId", String(O)>>}
  \cup {<<"ObjectId", String(A)>>, <<"NULL">>}

MCArguments == {Number(6), String(A)}

Elements ==
  {<<"NumberInt", 2>>, <<"NumberInt", 3>>, <<"NumberLong", 15>>, <<"NumberDouble", 28>>,
   <<"NumberDouble", 4>>, <<"Bool", TRUE>>, <<"String", A>>, <<"String", B>>,
   <<"Date", 3>>, <<"Date", 31>>, <<"Timestamp", 2, 1>>, <<"Timestamp", 2, 3>>,
   <<"Symbol", A>>, <<"BinData", B, 0>>, <<"BinData", A, 1>>, <<"RegEx", A, A>>,
   <<"jstOID", O>>, <<"jstNULL">>, <<"Undefined">>}

MCForeign ==
  {<<>>} \cup {<<<<A, e>>>> : e \in Elements}
  \cup {<<<<n, e>>, <<One, f>>>> : n \in {A, One}, e, f \in Elements}
=============================================================================
