------------------------------- MODULE Cursor -------------------------------
(***************************************************************************)
(* A query's cursor (mongo_cursor.cpp) and the Lua code that reads it.     *)
(*                                                                         *)
(* The box holds a DBClientCursor of the driver, which keeps one batch of  *)
(* documents and asks the server for the next when the batch is used up    *)
(* (its more(); external, the driver is not in the repository).  Several   *)
(* consumers may share the cursor: functions, coroutines, iterators made   *)
(* by results().  Lua runs one handler at a time, so a handler is a step   *)
(* and consumers interleave between handlers: what has_more() said may no  *)
(* longer be so when its caller gets to next().                            *)
(*                                                                         *)
(* No handler of a cursor catches the exceptions of the driver: one that   *)
(* is thrown by a failing getMore leaves through Lua and ends the process. *)
(***************************************************************************)
EXTENDS Naturals

CONSTANTS
  NumDocs,      \* how many documents the query matches
  BatchSize,    \* the most documents in a batch
  Consumers

ASSUME NumDocsAssumption == NumDocs \in Nat
ASSUME BatchSizeAssumption == BatchSize \in Nat \ {0}

Docs == 1 .. NumDocs
Loops == {"for", "while"}

VARIABLES
  blank,      \* the matching documents without any field
  tailable,   \* was Option_CursorTailable among the query's options?
  status,     \* "new", then "open", "failed" (db:query gave nil) or "crashed"
  produced,   \* documents in the server's result so far (all, if not tailable)
  fetched,    \* documents in the batches received so far
  live,       \* the driver's cursor id is not 0: the server has the cursor
  pos,        \* documents that next() has taken
  owner,      \* history: who took each document, {} while nobody has
  loop,       \* where each consumer is in its loop over the cursor
  promise,    \* the document has_more() announced to a consumer that took none since
  ended,      \* history: <<consumer, kind>> of the loops that came to an end
  surprised   \* history: <<consumer, document>>: announced, but next() was nil

vars == <<blank, tailable, status, produced, fetched, live, pos, owner, loop,
          promise, ended, surprised>>

queryVars == <<blank, tailable>>
scriptVars == <<loop, promise, ended, surprised>>

Init ==
  /\ blank \in SUBSET Docs
  /\ tailable \in BOOLEAN
  /\ status = "new"
  /\ produced = IF tailable THEN 0 ELSE NumDocs
  /\ fetched = 0
  /\ live = FALSE
  /\ pos = 0
  /\ owner = [d \in Docs |-> {}]
  /\ loop = [c \in Consumers |-> "none"]
  /\ promise = [c \in Consumers |-> {}]
  /\ ended = {}
  /\ surprised = {}

-----------------------------------------------------------------------------
(* The server and the driver.                                               *)

(* The server's answer to a query or a getMore: a batch, and whether it keeps
   the cursor.  It drops one that is not tailable only with the last document
   (maybe one getMore later), and sends an empty batch only then. *)
Answer ==
  \E k \in 0 .. BatchSize :
    /\ fetched + k <= produced
    /\ fetched' = fetched + k
    /\ live' \in BOOLEAN
    /\ ~tailable => /\ k = 0 => fetched = NumDocs /\ ~live'
                    /\ ~live' => fetched' = NumDocs

(* A document arrives at the end of a tailable result. *)
Produce ==
  /\ tailable
  /\ produced < NumDocs
  /\ produced' = produced + 1
  /\ UNCHANGED <<queryVars, status, fetched, live, pos, owner, scriptVars>>

Buffered == pos < fetched

(* more(): TRUE if a document is at hand, after a getMore if need be. *)
More ==
  IF ~Buffered /\ live THEN Answer ELSE UNCHANGED <<fetched, live>>

(* next() of the driver, by consumer c: the documents up to k are taken. *)
TakeTo(c, k) ==
  /\ pos' = k
  /\ owner' = [d \in Docs |-> IF d \in (pos + 1) .. k THEN {c} ELSE owner[d]]

-----------------------------------------------------------------------------
(* Handlers.                                                                *)

(* cursor_create: db:query gives a cursor with its first batch, or nil and a
   message when the driver returns no cursor or throws. *)
CursorCreate ==
  /\ status = "new"
  /\ \/ status' = "open" /\ Answer
     \/ status' = "failed" /\ UNCHANGED <<fetched, live>>
  /\ UNCHANGED <<queryVars, produced, pos, owner, scriptVars>>

(* cursor:results() starts a for loop. *)
CursorResults(c) ==
  /\ status = "open"
  /\ loop[c] = "none"
  /\ loop' = [loop EXCEPT ![c] = "for"]
  /\ UNCHANGED <<queryVars, status, produced, fetched, live, pos, owner,
                 promise, ended, surprised>>

(* Mutant: the iterator asks moreInCurrentBatch(). *)
ResultIteratorThisBatch(c) ==
  /\ status = "open"
  /\ loop[c] = "for"
  /\ IF Buffered THEN TakeTo(c, pos + 1) ELSE UNCHANGED <<pos, owner>>
  /\ IF Buffered /\ pos + 1 \notin blank
     THEN UNCHANGED <<loop, ended>>
     ELSE /\ loop' = [loop EXCEPT ![c] = "none"]
          /\ ended' = ended \cup {<<c, "for">>}
  /\ promise' = [promise EXCEPT ![c] = {}]
  /\ UNCHANGED <<queryVars, status, produced, fetched, live, surprised>>

(* Mutant: the iterator peeks at the document. *)
ResultIteratorPeeks(c) ==
  /\ status = "open"
  /\ loop[c] = "for"
  /\ More
  /\ IF pos < fetched'
     THEN UNCHANGED <<loop, ended>>
     ELSE /\ loop' = [loop EXCEPT ![c] = "none"]
          /\ ended' = ended \cup {<<c, "for">>}
  /\ promise' = [promise EXCEPT ![c] = {}]
  /\ UNCHANGED <<queryVars, status, produced, pos, owner, surprised>>

(* The closure of results(), called by a for loop: the loop goes on as long as
   it does not get nil; bson_to_lua makes nil of an empty document. *)
ResultIterator(c) ==
  /\ status = "open"
  /\ loop[c] = "for"
  /\ More
  /\ IF pos < fetched' THEN TakeTo(c, pos + 1) ELSE UNCHANGED <<pos, owner>>
  /\ IF pos < fetched' /\ pos + 1 \notin blank
     THEN UNCHANGED <<loop, ended>>
     ELSE /\ loop' = [loop EXCEPT ![c] = "none"]
          /\ ended' = ended \cup {<<c, "for">>}
  /\ promise' = [promise EXCEPT ![c] = {}]
  /\ UNCHANGED <<queryVars, status, produced, surprised>>

(* Mutant: next() is called without more(). *)
CursorNextUnchecked(c) ==
  /\ status = "open"
  /\ loop[c] \in {"none", "body"}
  /\ TakeTo(c, pos + 1)
  /\ promise' = [promise EXCEPT ![c] = {}]
  /\ loop' = [loop EXCEPT ![c] = IF loop[c] = "body" THEN "while" ELSE "none"]
  /\ UNCHANGED <<queryVars, status, produced, fetched, live, ended, surprised>>

(* Mutant: next() is called twice, to test the document and to convert it,
   so that nobody gets the first of the two. *)
CursorNextTwice(c) ==
  /\ status = "open"
  /\ loop[c] \in {"none", "body"}
  /\ More
  /\ IF pos + 1 < fetched'
     THEN pos' = pos + 2 /\ owner' = [owner EXCEPT ![pos + 2] = {c}]
     ELSE UNCHANGED <<pos, owner>>
  /\ promise' = [promise EXCEPT ![c] = {}]
  /\ loop' = [loop EXCEPT ![c] = IF loop[c] = "body" THEN "while" ELSE "none"]
  /\ UNCHANGED <<queryVars, status, produced, ended, surprised>>

(* cursor:next(), on its own or in the body of a while loop. *)
CursorNext(c) ==
  /\ status = "open"
  /\ loop[c] \in {"none", "body"}
  /\ More
  /\ IF pos < fetched' THEN TakeTo(c, pos + 1) ELSE UNCHANGED <<pos, owner>>
  /\ IF pos < fetched' /\ pos + 1 \notin blank
     THEN UNCHANGED surprised
     ELSE surprised' = surprised \cup ({c} \X promise[c])
  /\ promise' = [promise EXCEPT ![c] = {}]
  /\ loop' = [loop EXCEPT ![c] = IF loop[c] = "body" THEN "while" ELSE "none"]
  /\ UNCHANGED <<queryVars, status, produced, ended>>

(* Mutant: the argument is left out of account and moreInCurrentBatch() is
   always asked. *)
CursorHasMoreThisBatch(c, inCurrentBatch) ==
  /\ status = "open"
  /\ loop[c] \in {"none", "while"}
  /\ loop[c] = "while" => ~inCurrentBatch
  /\ promise' = [promise EXCEPT ![c] = IF Buffered THEN {pos + 1} ELSE {}]
  /\ IF loop[c] = "while" /\ ~Buffered
     THEN ended' = ended \cup {<<c, "while">>}
     ELSE UNCHANGED ended
  /\ loop' = [loop EXCEPT ![c] = IF loop[c] = "none" THEN "none"
                                 ELSE IF Buffered THEN "body" ELSE "none"]
  /\ UNCHANGED <<queryVars, status, produced, fetched, live, pos, owner, surprised>>

(* Mutant: a cursor that is not dead is taken to have more. *)
CursorHasMoreIfLive(c, inCurrentBatch) ==
  /\ status = "open"
  /\ loop[c] \in {"none", "while"}
  /\ loop[c] = "while" => ~inCurrentBatch
  /\ promise' = [promise EXCEPT ![c] = IF Buffered \/ live THEN {pos + 1} ELSE {}]
  /\ IF loop[c] = "while" /\ ~(Buffered \/ live)
     THEN ended' = ended \cup {<<c, "while">>}
     ELSE UNCHANGED ended
  /\ loop' = [loop EXCEPT ![c] = IF loop[c] = "none" THEN "none"
                                 ELSE IF Buffered \/ live THEN "body" ELSE "none"]
  /\ UNCHANGED <<queryVars, status, produced, fetched, live, pos, owner, surprised>>

(* cursor:has_more(), on its own or as the condition of a while loop; with a
   true argument it looks at the current batch only. *)
CursorHasMore(c, inCurrentBatch) ==
  /\ status = "open"
  /\ loop[c] \in {"none", "while"}
  /\ loop[c] = "while" => ~inCurrentBatch
  /\ IF inCurrentBatch THEN UNCHANGED <<fetched, live>> ELSE More
  /\ promise' = [promise EXCEPT ![c] = IF pos < fetched' THEN {pos + 1} ELSE {}]
  /\ IF loop[c] = "while" /\ ~(pos < fetched')
     THEN ended' = ended \cup {<<c, "while">>}
     ELSE UNCHANGED ended
  /\ loop' = [loop EXCEPT ![c] = IF loop[c] = "none" THEN "none"
                                 ELSE IF pos < fetched' THEN "body" ELSE "none"]
  /\ UNCHANGED <<queryVars, status, produced, pos, owner, surprised>>

(* cursor:itcount() takes everything, in as many batches as there are. *)
CursorItCount(c) ==
  /\ status = "open"
  /\ loop[c] = "none"
  /\ \E k \in fetched .. produced :
       /\ ~live => k = fetched
       /\ ~tailable /\ live => k = NumDocs
       /\ fetched' = k
       /\ TakeTo(c, k)
  /\ live' \in (IF tailable /\ live THEN BOOLEAN ELSE {FALSE})
  /\ promise' = [promise EXCEPT ![c] = {}]
  /\ UNCHANGED <<queryVars, status, produced, loop, ended, surprised>>

(* An exception of the driver, when a handler needs a getMore and it fails:
   nothing catches it.  itcount() gets there through the current batch. *)
UncaughtException(c) ==
  /\ status = "open"
  /\ live
  /\ ~Buffered \/ loop[c] = "none"
  /\ status' = "crashed"
  /\ UNCHANGED <<queryVars, produced, fetched, live, pos, owner, scriptVars>>

(* The script begins `while cursor:has_more() do ... cursor:next() ... end`. *)
StartWhile(c) ==
  /\ status = "open"
  /\ loop[c] = "none"
  /\ loop' = [loop EXCEPT ![c] = "while"]
  /\ UNCHANGED <<queryVars, status, produced, fetched, live, pos, owner,
                 promise, ended, surprised>>

-----------------------------------------------------------------------------

Next ==
  \/ Produce
  \/ CursorCreate
  \/ \E c \in Consumers : CursorResults(c)
  \/ \E c \in Consumers : ResultIterator(c)
  \/ \E c \in Consumers : CursorNext(c)
  \/ \E c \in Consumers, b \in BOOLEAN : CursorHasMore(c, b)
  \/ \E c \in Consumers : CursorItCount(c)
  \/ \E c \in Consumers : UncaughtException(c)
  \/ \E c \in Consumers : StartWhile(c)

Spec == Init /\ [][Next]_vars

(* A step of the loop that c is in. *)
LoopStep(c) ==
  \/ ResultIterator(c)
  \/ loop[c] = "while" /\ CursorHasMore(c, FALSE)
  \/ loop[c] = "body" /\ CursorNext(c)

(* A loop that has begun goes on: Lua calls the iterator or the condition
   again, and the script resumes a coroutine that yields in the body. *)
FairSpec == Spec /\ \A c \in Consumers : WF_vars(LoopStep(c))

-----------------------------------------------------------------------------
(* Properties.                                                              *)

(* Every variable has its type; what is taken was fetched, and what is fetched
   was produced. *)
TypeOK ==
  /\ blank \in SUBSET Docs
  /\ tailable \in BOOLEAN
  /\ status \in {"new", "open", "failed", "crashed"}
  /\ produced \in 0 .. NumDocs
  /\ fetched \in 0 .. produced
  /\ live \in BOOLEAN
  /\ pos \in 0 .. fetched
  /\ owner \in [Docs -> SUBSET Consumers]
  /\ loop \in [Consumers -> {"none", "for", "while", "body"}]
  /\ promise \in [Consumers -> SUBSET Docs]
  /\ ended \in SUBSET (Consumers \X Loops)
  /\ surprised \in SUBSET (Consumers \X Docs)

(* When a for loop over results() ends, nothing is left of the result: what
   the example of README.md calls to loop through the result set. *)
ForLoopSeesAll ==
  \A c \in Consumers : (<<c, "for">> \in ended /\ ~tailable) => pos = NumDocs

(* The same for a result without empty documents. *)
ForLoopSeesAllNonEmpty == blank = {} => ForLoopSeesAll

(* When a loop of has_more() and next() ends, nothing is left of the result,
   whoever took it and empty documents or not. *)
WhileLoopSeesAll ==
  \A c \in Consumers : (<<c, "while">> \in ended /\ ~tailable) => pos = NumDocs

(* has_more() announces a document, and yet the caller's next() gives nil: only
   if the document is empty or another consumer took it in between. *)
AnnouncedDocument ==
  \A c \in Consumers, d \in Docs : <<c, d>> \in surprised =>
    d \in blank \/ \E other \in Consumers \ {c} : owner[d] = {other}

(* Batches, getMores and interleaved loops are not to be seen: the consumers
   get the documents as from one stream. *)
Stream == INSTANCE ResultStream WITH position <- pos
ImplementsResultStream == Stream!Spec

(* Every loop over a result that is not tailable comes to its end, unless the
   process does. *)
LoopsEnd ==
  \A c \in Consumers :
    (loop[c] # "none" /\ ~tailable) ~> (loop[c] = "none" \/ status = "crashed")

==============================================================================
