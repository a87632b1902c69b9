---------------------------- MODULE ResultStream ----------------------------
(***************************************************************************)
(* What a query's result promises to the consumers that share it, with no  *)
(* batches, no server and no driver: one sequence of documents, each of    *)
(* which goes to one consumer, in order, and an end that is announced only *)
(* where there is nothing left.  The one blemish is in Take: a consumer    *)
(* that is handed a blank (empty) document cannot tell it from the end.    *)
(*                                                                         *)
(* Module Cursor refines this specification.                               *)
(***************************************************************************)
EXTENDS Naturals

CONSTANTS
  NumDocs,      \* how many documents the query matches
  Consumers     \* loops, coroutines and functions that read the result

Docs == 1 .. NumDocs
Loops == {"for", "while"}

VARIABLES
  blank,        \* the documents without any field
  tailable,     \* does the result stay open for documents yet to come?
  position,     \* documents taken so far
  owner,        \* who took each document, {} while nobody has
  ended         \* <<consumer, kind>> for each loop that was told the end

vars == <<blank, tailable, position, owner, ended>>

Init ==
  /\ blank \in SUBSET Docs
  /\ tailable \in BOOLEAN
  /\ position = 0
  /\ owner = [d \in Docs |-> {}]
  /\ ended = {}

(* Consumer c takes the documents up to k. *)
TakeTo(c, k) ==
  /\ position' = k
  /\ owner' = [d \in Docs |-> IF d \in (position + 1) .. k THEN {c} ELSE owner[d]]

Take(c) ==
  /\ position < NumDocs
  /\ TakeTo(c, position + 1)
  /\ \/ ended' = ended
     \/ position + 1 \in blank /\ ended' = ended \cup {<<c, "for">>}
  /\ UNCHANGED <<blank, tailable>>

(* c takes all that there is. *)
TakeAll(c) ==
  /\ \E k \in position .. NumDocs :
       /\ ~tailable => k = NumDocs
       /\ TakeTo(c, k)
  /\ UNCHANGED <<blank, tailable, ended>>

End(c) ==
  /\ ~tailable => position = NumDocs
  /\ \E kind \in Loops : ended' = ended \cup {<<c, kind>>}
  /\ UNCHANGED <<blank, tailable, position, owner>>

Next == \E c \in Consumers : Take(c) \/ TakeAll(c) \/ End(c)

Spec == Init /\ [][Next]_vars

==============================================================================
