---------------------------- MODULE CursorProofs ----------------------------
(***************************************************************************)
(* Proofs about module Cursor, for every result, batch size and set of     *)
(* consumers.                                                              *)
(***************************************************************************)
EXTENDS Cursor, TLAPS

-----------------------------------------------------------------------------
(* Type correctness.                                                        *)

(* A batch never goes past what the server has. *)
LEMMA AnswerType ==
  ASSUME TypeOK, Answer
  PROVE  fetched' \in fetched .. produced /\ live' \in BOOLEAN /\ fetched' \in 0 .. produced
  BY NumDocsAssumption, BatchSizeAssumption DEF TypeOK, Answer

LEMMA MoreType ==
  ASSUME TypeOK, More
  PROVE  fetched' \in fetched .. produced /\ live' \in BOOLEAN /\ fetched' \in 0 .. produced
  BY AnswerType, NumDocsAssumption DEF TypeOK, More

LEMMA TakeToType ==
  ASSUME TypeOK, NEW c \in Consumers, NEW k, TakeTo(c, k)
  PROVE  owner' \in [Docs -> SUBSET Consumers] /\ pos' = k
  BY DEF TypeOK, TakeTo

LEMMA TypeInit == Init => TypeOK
<1> SUFFICES ASSUME Init PROVE TypeOK
  OBVIOUS
<1>1. produced \in 0 .. NumDocs /\ fetched \in 0 .. produced /\ pos \in 0 .. fetched
  BY NumDocsAssumption DEF Init
<1> QED
  BY <1>1 DEF Init, TypeOK

LEMMA TypeStep == TypeOK /\ [Next]_vars => TypeOK'
<1> SUFFICES ASSUME TypeOK, [Next]_vars PROVE TypeOK'
  OBVIOUS
<1> USE NumDocsAssumption DEF queryVars, scriptVars
<1>0. /\ pos \in Nat /\ fetched \in Nat /\ produced \in Nat
      /\ pos <= fetched /\ fetched <= produced /\ produced <= NumDocs
  BY DEF TypeOK
<1>1. CASE Produce
  BY <1>0, <1>1 DEF Produce, TypeOK
<1>2. CASE CursorCreate
  BY <1>0, <1>2, AnswerType DEF CursorCreate, TypeOK
<1>3. ASSUME NEW c \in Consumers,
             CursorResults(c) \/ StartWhile(c) \/ UncaughtException(c)
      PROVE  TypeOK'
  BY <1>3 DEF CursorResults, StartWhile, UncaughtException, TypeOK
<1>4. ASSUME NEW c \in Consumers, ResultIterator(c) PROVE TypeOK'
  <2>1. fetched' \in fetched .. produced /\ live' \in BOOLEAN
    BY <1>4, MoreType DEF ResultIterator
  <2>2. pos' \in 0 .. fetched' /\ owner' \in [Docs -> SUBSET Consumers]
    BY <1>0, <1>4, <2>1, TakeToType DEF ResultIterator, TypeOK
  <2>3. /\ loop' \in [Consumers -> {"none", "for", "while", "body"}]
        /\ promise' \in [Consumers -> SUBSET Docs]
        /\ ended' \in SUBSET (Consumers \X Loops)
    BY <1>4 DEF ResultIterator, TypeOK, Loops
  <2> QED
    BY <1>0, <1>4, <2>1, <2>2, <2>3 DEF ResultIterator, TypeOK
<1>5. ASSUME NEW c \in Consumers, CursorNext(c) PROVE TypeOK'
  <2>1. fetched' \in fetched .. produced /\ live' \in BOOLEAN
    BY <1>5, MoreType DEF CursorNext
  <2>2. pos' \in 0 .. fetched' /\ owner' \in [Docs -> SUBSET Consumers]
    BY <1>0, <1>5, <2>1, TakeToType DEF CursorNext, TypeOK
  <2>3. /\ loop' \in [Consumers -> {"none", "for", "while", "body"}]
        /\ promise' \in [Consumers -> SUBSET Docs]
        /\ surprised' \in SUBSET (Consumers \X Docs)
    BY <1>5 DEF CursorNext, TypeOK
  <2> QED
    BY <1>0, <1>5, <2>1, <2>2, <2>3 DEF CursorNext, TypeOK
<1>6. ASSUME NEW c \in Consumers, NEW b \in BOOLEAN, CursorHasMore(c, b)
      PROVE  TypeOK'
  <2>1. fetched' \in fetched .. produced /\ live' \in BOOLEAN
    BY <1>0, <1>6, MoreType DEF CursorHasMore, TypeOK
  <2>2. promise' \in [Consumers -> SUBSET Docs]
    BY <1>0, <1>6, <2>1 DEF CursorHasMore, TypeOK, Docs
  <2>3. /\ loop' \in [Consumers -> {"none", "for", "while", "body"}]
        /\ ended' \in SUBSET (Consumers \X Loops)
    BY <1>6 DEF CursorHasMore, TypeOK, Loops
  <2> QED
    BY <1>0, <1>6, <2>1, <2>2, <2>3 DEF CursorHasMore, TypeOK
<1>7. ASSUME NEW c \in Consumers, CursorItCount(c) PROVE TypeOK'
  <2>1. PICK k \in fetched .. produced : fetched' = k /\ TakeTo(c, k)
    BY <1>7 DEF CursorItCount
  <2>2. pos' \in 0 .. fetched' /\ owner' \in [Docs -> SUBSET Consumers]
    BY <1>0, <2>1, TakeToType
  <2>3. live' \in BOOLEAN /\ promise' \in [Consumers -> SUBSET Docs]
    BY <1>7 DEF CursorItCount, TypeOK
  <2> QED
    BY <1>0, <1>7, <2>1, <2>2, <2>3 DEF CursorItCount, TypeOK
<1>8. CASE UNCHANGED vars
  BY <1>8 DEF vars, TypeOK
<1> QED
  BY <1>1, <1>2, <1>3, <1>4, <1>5, <1>6, <1>7, <1>8 DEF Next

(* Nothing is taken before it is fetched, nor fetched before it is there. *)
THEOREM TypeCorrect == Spec => []TypeOK
  BY TypeInit, TypeStep, PTL DEF Spec

-----------------------------------------------------------------------------
(* The inductive invariant.                                                 *)

(* A result that is not tailable is there from the start, and the server lets
   go of its cursor only when all of it has been sent. *)
Drained ==
  ~tailable => /\ produced = NumDocs
               /\ status # "new" /\ status # "failed" /\ ~live => fetched = NumDocs

(* Before the query nothing has happened. *)
NewIsFresh == status = "new" => fetched = 0 /\ ~live

(* The documents up to pos, and no others, have an owner. *)
Owned == \A d \in Docs : IF d <= pos THEN \E c \in Consumers : owner[d] = {c}
                                     ELSE owner[d] = {}

(* A document that was announced to c was fetched, and if it is gone another
   consumer has it. *)
PromiseKept ==
  \A c \in Consumers, d \in Docs : d \in promise[c] =>
    /\ d <= fetched
    /\ d <= pos + 1
    /\ d <= pos => \E other \in Consumers \ {c} : owner[d] = {other}

Inv ==
  /\ TypeOK
  /\ Drained
  /\ NewIsFresh
  /\ Owned
  /\ PromiseKept
  /\ AnnouncedDocument
  /\ WhileLoopSeesAll
  /\ ForLoopSeesAllNonEmpty

LEMMA InvInit == Init => Inv
<1> SUFFICES ASSUME Init PROVE Inv
  OBVIOUS
<1>1. TypeOK
  BY TypeInit
<1>2. Drained /\ NewIsFresh
  BY DEF Init, Drained, NewIsFresh
<1>3. Owned
  BY NumDocsAssumption DEF Init, Owned, Docs
<1>4. PromiseKept /\ AnnouncedDocument /\ WhileLoopSeesAll /\ ForLoopSeesAllNonEmpty
  BY DEF Init, PromiseKept, AnnouncedDocument, WhileLoopSeesAll,
         ForLoopSeesAllNonEmpty, ForLoopSeesAll
<1> QED
  BY <1>1, <1>2, <1>3, <1>4 DEF Inv

(* What more() does to the state, and what it tells. *)
LEMMA MoreFacts ==
  ASSUME Inv, status = "open", More, UNCHANGED <<tailable, produced, status>>
  PROVE  /\ fetched' \in Nat /\ fetched <= fetched' /\ fetched' <= NumDocs
         /\ Drained'
         /\ ~tailable /\ ~(pos < fetched') => pos = NumDocs
<1> USE NumDocsAssumption DEF Inv
<1>1. fetched' \in fetched .. produced /\ fetched \in Nat /\ pos \in 0 .. fetched
  BY MoreType DEF TypeOK
<1>2. produced <= NumDocs /\ produced \in Nat
  BY DEF TypeOK
<1>3. CASE ~Buffered /\ live
  <2>1. PICK k \in 0 .. BatchSize :
          /\ fetched' = fetched + k
          /\ ~tailable => /\ k = 0 => fetched = NumDocs /\ ~live'
                          /\ ~live' => fetched' = NumDocs
    BY <1>3 DEF More, Answer
  <2>2. ~tailable /\ ~(pos < fetched') => pos = NumDocs
    BY <1>1, <1>2, <1>3, <2>1, BatchSizeAssumption DEF Buffered
  <2> QED
    BY <1>1, <1>2, <2>1, <2>2 DEF Drained
<1>4. CASE Buffered \/ ~live
  <2>1. fetched' = fetched /\ live' = live
    BY <1>4 DEF More
  <2>2. ~tailable /\ ~(pos < fetched') => pos = NumDocs
    BY <1>1, <1>2, <1>4, <2>1 DEF Drained, Buffered
  <2> QED
    BY <1>1, <1>2, <2>1, <2>2 DEF Drained
<1> QED
  BY <1>3, <1>4

(* Taking the documents up to k leaves the owners of the earlier ones alone;
   a document announced to another consumer now has c for its owner. *)
LEMMA TakeFacts ==
  ASSUME Inv, NEW c \in Consumers, NEW k \in Nat, pos <= k, k <= NumDocs, TakeTo(c, k)
  PROVE  /\ Owned'
         /\ \A d \in Docs : d <= pos => owner'[d] = owner[d]
         /\ \A d \in Docs : d > pos /\ d <= k => owner'[d] = {c}
         /\ \A b \in Consumers : b # c =>
              \A d \in Docs : d \in promise[b] /\ d <= k =>
                \E other \in Consumers \ {b} : owner'[d] = {other}
<1> USE NumDocsAssumption DEF Inv
<1>1. pos \in Nat /\ pos' = k
  BY DEF TypeOK, TakeTo
<1>2. \A d \in Docs : d \in Nat /\ d >= 1
  BY DEF Docs
<1>3. \A d \in Docs : owner'[d] = IF d > pos /\ d <= k THEN {c} ELSE owner[d]
  BY <1>1, <1>2 DEF TakeTo
<1>4. Owned'
  BY <1>1, <1>2, <1>3 DEF Owned
<1>5. ASSUME NEW b \in Consumers, b # c, NEW d \in Docs, d \in promise[b], d <= k
      PROVE  \E other \in Consumers \ {b} : owner'[d] = {other}
  <2>1. CASE d <= pos
    BY <1>1, <1>2, <1>3, <1>5, <2>1 DEF PromiseKept
  <2>2. CASE d > pos
    BY <1>3, <1>5, <2>2
  <2> QED BY <1>1, <1>2, <2>1, <2>2
<1> QED
  BY <1>1, <1>2, <1>3, <1>4, <1>5

(* The history properties survive any step that takes documents. *)
LEMMA TakeKeepsHistory ==
  ASSUME Inv, TypeOK', NEW c \in Consumers, NEW k \in Nat, pos <= k, k <= NumDocs,
         TakeTo(c, k), fetched <= fetched', UNCHANGED <<blank, tailable>>,
         promise' = [promise EXCEPT ![c] = {}]
  PROVE  /\ PromiseKept'
         /\ surprised' = surprised => AnnouncedDocument'
         /\ ended' = ended => WhileLoopSeesAll' /\ ForLoopSeesAllNonEmpty'
<1> USE NumDocsAssumption DEF Inv
<1>1. pos \in Nat /\ pos' = k /\ fetched \in Nat /\ fetched' \in Nat
  BY DEF TypeOK, TakeTo
<1>2. \A d \in Docs : d \in Nat
  BY DEF Docs
<1>3. \A b \in Consumers : promise'[b] = IF b = c THEN {} ELSE promise[b]
  BY DEF TypeOK
<1>4. PromiseKept'
  <2> SUFFICES ASSUME NEW b \in Consumers, NEW d \in Docs, d \in promise'[b]
               PROVE  /\ d <= fetched' /\ d <= k + 1
                      /\ d <= k => \E other \in Consumers \ {b} : owner'[d] = {other}
    BY <1>1 DEF PromiseKept
  <2>1. b # c /\ d \in promise[b]
    BY <1>3
  <2>2. d <= fetched /\ d <= pos + 1
    BY <2>1 DEF PromiseKept
  <2>3. d <= k => \E other \in Consumers \ {b} : owner'[d] = {other}
    BY <2>1, TakeFacts
  <2> QED BY <1>1, <1>2, <2>2, <2>3
<1>5. ASSUME surprised' = surprised PROVE AnnouncedDocument'
  <2> SUFFICES ASSUME NEW b \in Consumers, NEW d \in Docs, <<b, d>> \in surprised,
                      d \notin blank
               PROVE  \E other \in Consumers \ {b} : owner'[d] = {other}
    BY <1>5 DEF AnnouncedDocument
  <2>1. PICK other \in Consumers \ {b} : owner[d] = {other}
    BY DEF AnnouncedDocument
  <2>2. d <= pos
    BY <2>1, <1>2 DEF Owned
  <2> QED BY <2>1, <2>2, TakeFacts
<1>6. ASSUME ended' = ended PROVE WhileLoopSeesAll' /\ ForLoopSeesAllNonEmpty'
  BY <1>1, <1>6 DEF WhileLoopSeesAll, ForLoopSeesAllNonEmpty, ForLoopSeesAll, TypeOK
<1> QED
  BY <1>4, <1>5, <1>6

(* To take nothing is to take the documents up to pos. *)
LEMMA TakeNothing ==
  ASSUME TypeOK, NEW c \in Consumers, UNCHANGED <<pos, owner>>
  PROVE  TakeTo(c, pos)
<1>1. (pos + 1) .. pos = {}
  BY NumDocsAssumption DEF TypeOK
<1>2. owner = [d \in Docs |-> owner[d]]
  BY DEF TypeOK
<1> QED
  BY <1>1, <1>2 DEF TakeTo

(* A step that leaves pos and owner alone, and takes no promise back. *)
LEMMA QuietKeepsHistory ==
  ASSUME Inv, TypeOK', UNCHANGED <<blank, tailable, pos, owner, surprised>>,
         fetched <= fetched', ended' = ended, UNCHANGED promise
  PROVE  Owned' /\ PromiseKept' /\ AnnouncedDocument' /\ WhileLoopSeesAll'
         /\ ForLoopSeesAllNonEmpty'
<1> USE DEF Inv
<1>1. fetched \in Nat /\ fetched' \in Nat /\ \A d \in Docs : d \in Nat
  BY NumDocsAssumption DEF TypeOK, Docs
<1>2. Owned' /\ AnnouncedDocument'
  BY DEF Owned, AnnouncedDocument
<1>3. PromiseKept'
  BY <1>1 DEF PromiseKept
<1>4. WhileLoopSeesAll' /\ ForLoopSeesAllNonEmpty'
  BY DEF WhileLoopSeesAll, ForLoopSeesAllNonEmpty, ForLoopSeesAll
<1> QED
  BY <1>2, <1>3, <1>4

LEMMA InvIterator ==
  ASSUME Inv, TypeOK', NEW c \in Consumers, ResultIterator(c)
  PROVE  Inv'
<1> USE DEF Inv
<1>1. /\ fetched' \in Nat /\ fetched <= fetched' /\ fetched' <= NumDocs
      /\ Drained'
      /\ ~tailable /\ ~(pos < fetched') => pos = NumDocs
  BY MoreFacts DEF ResultIterator, queryVars
<1>2. PICK k \in Nat : /\ pos <= k /\ k <= NumDocs /\ TakeTo(c, k)
                       /\ ~(pos < fetched') => k = pos
  <2>1. pos \in Nat /\ pos <= fetched /\ pos <= NumDocs
    BY NumDocsAssumption DEF TypeOK
  <2>2. CASE pos < fetched'
    <3>1. pos + 1 \in Nat /\ pos + 1 <= NumDocs /\ TakeTo(c, pos + 1)
      BY <1>1, <2>1, <2>2, NumDocsAssumption DEF ResultIterator
    <3> QED BY <2>1, <2>2, <3>1
  <2>3. CASE ~(pos < fetched')
    BY <2>1, <2>3, TakeNothing DEF ResultIterator
  <2> QED BY <2>2, <2>3
<1>3. Owned' /\ PromiseKept' /\ AnnouncedDocument'
  BY <1>1, <1>2, TakeFacts, TakeKeepsHistory DEF ResultIterator, queryVars
<1>4. NewIsFresh'
  BY DEF ResultIterator, NewIsFresh
<1>5. pos' = k /\ pos \in Nat /\ pos <= NumDocs /\ k >= pos
  BY <1>2, NumDocsAssumption DEF TakeTo, TypeOK
<1>6. /\ ended' = ended \/ ended' = ended \cup {<<c, "for">>}
      /\ UNCHANGED <<blank, tailable>>
      /\ blank = {} /\ ended' # ended => ~(pos < fetched')
  BY DEF ResultIterator, queryVars
<1>7. WhileLoopSeesAll'
  BY <1>2, <1>5, <1>6, NumDocsAssumption DEF WhileLoopSeesAll
<1>8. ForLoopSeesAllNonEmpty'
  <2> SUFFICES ASSUME blank = {}, ~tailable, NEW b \in Consumers, <<b, "for">> \in ended'
               PROVE  k = NumDocs
    BY <1>5, <1>6 DEF ForLoopSeesAllNonEmpty, ForLoopSeesAll
  <2>1. CASE <<b, "for">> \in ended
    BY <1>2, <1>5, <2>1, NumDocsAssumption DEF ForLoopSeesAllNonEmpty, ForLoopSeesAll
  <2>2. CASE <<b, "for">> \notin ended
    BY <1>1, <1>2, <1>6, <2>2
  <2> QED BY <2>1, <2>2
<1> QED
  BY <1>1, <1>3, <1>4, <1>7, <1>8

LEMMA InvNext ==
  ASSUME Inv, TypeOK', NEW c \in Consumers, CursorNext(c)
  PROVE  Inv'
<1> USE DEF Inv
<1>1. /\ fetched' \in Nat /\ fetched <= fetched' /\ fetched' <= NumDocs
      /\ Drained'
  BY MoreFacts DEF CursorNext, queryVars
<1>2. PICK k \in Nat : /\ pos <= k /\ k <= NumDocs /\ TakeTo(c, k)
                       /\ ~(pos < fetched') => k = pos
                       /\ pos < fetched' => k = pos + 1
  <2>1. pos \in Nat /\ pos <= fetched /\ pos <= NumDocs
    BY NumDocsAssumption DEF TypeOK
  <2>2. CASE pos < fetched'
    <3>1. pos + 1 \in Nat /\ pos + 1 <= NumDocs /\ TakeTo(c, pos + 1)
      BY <1>1, <2>1, <2>2, NumDocsAssumption DEF CursorNext
    <3> QED BY <2>1, <2>2, <3>1
  <2>3. CASE ~(pos < fetched')
    BY <2>1, <2>3, TakeNothing DEF CursorNext
  <2> QED BY <2>2, <2>3
<1>3. Owned' /\ PromiseKept' /\ WhileLoopSeesAll' /\ ForLoopSeesAllNonEmpty'
  BY <1>1, <1>2, TakeFacts, TakeKeepsHistory DEF CursorNext, queryVars
<1>4. NewIsFresh'
  BY DEF CursorNext, NewIsFresh
<1>5. AnnouncedDocument'
  <2>1. CASE surprised' = surprised
    BY <1>1, <1>2, <2>1, TakeKeepsHistory DEF CursorNext, queryVars
  <2>2. CASE surprised' # surprised
    <3>1. /\ surprised' = surprised \cup ({c} \X promise[c])
          /\ ~(pos < fetched') \/ pos + 1 \in blank
          /\ UNCHANGED <<blank, tailable>>
      BY <2>2 DEF CursorNext, queryVars
    <3>2. pos \in Nat /\ fetched \in Nat /\ \A d \in Docs : d \in Nat /\ (d <= pos + 1 => d <= pos \/ d = pos + 1)
      BY NumDocsAssumption DEF TypeOK, Docs
    <3> SUFFICES ASSUME NEW b \in Consumers, NEW d \in Docs, <<b, d>> \in surprised',
                        d \notin blank
                 PROVE  \E other \in Consumers \ {b} : owner'[d] = {other}
      BY <3>1 DEF AnnouncedDocument
    <3>3. \E other \in Consumers \ {b} : owner[d] = {other}
      <4>1. CASE <<b, d>> \in surprised
        BY <4>1 DEF AnnouncedDocument
      <4>2. CASE <<b, d>> \notin surprised
        <5>1. b = c /\ d \in promise[b]
          BY <3>1, <4>2
        <5>2. d <= fetched /\ d <= pos + 1
          BY <5>1 DEF PromiseKept
        <5>3. d <= pos
          BY <1>1, <3>1, <3>2, <5>2
        <5> QED BY <5>1, <5>3 DEF PromiseKept
      <4> QED BY <4>1, <4>2
    <3>4. d <= pos
      BY <3>3 DEF Owned
    <3> QED BY <1>2, <3>3, <3>4, TakeFacts
  <2> QED BY <2>1, <2>2
<1> QED
  BY <1>1, <1>3, <1>4, <1>5

LEMMA InvHasMore ==
  ASSUME Inv, TypeOK', NEW c \in Consumers, NEW b \in BOOLEAN, CursorHasMore(c, b)
  PROVE  Inv'
<1> USE NumDocsAssumption DEF Inv
<1>1. /\ fetched' \in Nat /\ fetched <= fetched' /\ fetched' <= NumDocs
      /\ Drained'
      /\ ~b /\ ~tailable /\ ~(pos < fetched') => pos = NumDocs
  <2>1. CASE b
    BY <2>1 DEF CursorHasMore, queryVars, Drained, TypeOK
  <2>2. CASE ~b
    BY <2>2, MoreFacts DEF CursorHasMore, queryVars
  <2> QED BY <2>1, <2>2
<1>2. /\ UNCHANGED <<blank, tailable, pos, owner, surprised>>
      /\ pos \in Nat /\ fetched \in Nat /\ \A d \in Docs : d \in Nat
  BY DEF CursorHasMore, queryVars, TypeOK, Docs
<1>3. Owned' /\ AnnouncedDocument'
  BY <1>2 DEF Owned, AnnouncedDocument
<1>4. NewIsFresh'
  BY DEF CursorHasMore, NewIsFresh
<1>5. PromiseKept'
  <2> SUFFICES ASSUME NEW a \in Consumers, NEW d \in Docs, d \in promise'[a]
               PROVE  /\ d <= fetched' /\ d <= pos + 1
                      /\ d <= pos => \E other \in Consumers \ {a} : owner[d] = {other}
    BY <1>2 DEF PromiseKept
  <2>1. CASE a = c
    <3>1. d = pos + 1 /\ pos < fetched'
      BY <2>1 DEF CursorHasMore, TypeOK
    <3> QED BY <1>1, <1>2, <3>1
  <2>2. CASE a # c
    <3>1. d \in promise[a]
      BY <2>2 DEF CursorHasMore, TypeOK
    <3> QED BY <1>1, <1>2, <3>1 DEF PromiseKept
  <2> QED BY <2>1, <2>2
<1>6. WhileLoopSeesAll' /\ ForLoopSeesAllNonEmpty'
  <2>1. CASE ended' = ended
    BY <1>2, <2>1 DEF WhileLoopSeesAll, ForLoopSeesAllNonEmpty, ForLoopSeesAll
  <2>2. CASE ended' # ended
    <3>1. ended' = ended \cup {<<c, "while">>} /\ (~tailable => pos = NumDocs)
      BY <1>1, <2>2 DEF CursorHasMore
    <3> QED
      BY <1>2, <3>1 DEF WhileLoopSeesAll, ForLoopSeesAllNonEmpty, ForLoopSeesAll
  <2> QED BY <2>1, <2>2
<1> QED
  BY <1>1, <1>3, <1>4, <1>5, <1>6

LEMMA InvItCount ==
  ASSUME Inv, TypeOK', NEW c \in Consumers, CursorItCount(c)
  PROVE  Inv'
<1> USE NumDocsAssumption DEF Inv
<1>1. PICK k \in fetched .. produced :
        /\ ~tailable /\ live => k = NumDocs
        /\ ~live => k = fetched
        /\ fetched' = k /\ TakeTo(c, k)
  BY DEF CursorItCount
<1>2. k \in Nat /\ pos <= k /\ k <= NumDocs /\ fetched <= fetched'
  BY <1>1 DEF TypeOK
<1>3. UNCHANGED <<blank, tailable, status, produced, ended, surprised>>
      /\ promise' = [promise EXCEPT ![c] = {}] /\ status = "open"
  BY DEF CursorItCount, queryVars
<1>4. Drained' /\ NewIsFresh'
  BY <1>1, <1>3 DEF Drained, NewIsFresh
<1>5. Owned' /\ PromiseKept' /\ AnnouncedDocument' /\ WhileLoopSeesAll'
      /\ ForLoopSeesAllNonEmpty'
  BY <1>1, <1>2, <1>3, TakeFacts, TakeKeepsHistory
<1> QED
  BY <1>4, <1>5

LEMMA InvStep == Inv /\ [Next]_vars => Inv'
<1> SUFFICES ASSUME Inv, [Next]_vars PROVE Inv'
  OBVIOUS
<1>0. TypeOK'
  BY TypeStep DEF Inv
<1>1. CASE Produce
  <2>1. Drained' /\ NewIsFresh'
    BY <1>1 DEF Produce, queryVars, Inv, Drained, NewIsFresh
  <2> QED
    BY <1>0, <1>1, <2>1, QuietKeepsHistory, NumDocsAssumption
    DEF Produce, queryVars, scriptVars, Inv, TypeOK
<1>2. CASE CursorCreate
  <2>1. fetched' \in Nat /\ fetched <= fetched'
    BY <1>2, AnswerType, NumDocsAssumption DEF CursorCreate, Inv, TypeOK
  <2>2. Drained' /\ NewIsFresh'
    BY <1>2 DEF CursorCreate, Answer, queryVars, Inv, Drained, NewIsFresh
  <2> QED
    BY <1>0, <1>2, <2>1, <2>2, QuietKeepsHistory
    DEF CursorCreate, queryVars, scriptVars, Inv
<1>3. ASSUME NEW c \in Consumers,
             CursorResults(c) \/ StartWhile(c) \/ UncaughtException(c)
      PROVE  Inv'
  <2>1. /\ UNCHANGED <<blank, tailable, produced, fetched, live, pos, owner,
                       promise, ended, surprised>>
        /\ status = "open" /\ (status' = "open" \/ status' = "crashed")
    BY <1>3 DEF CursorResults, StartWhile, UncaughtException, queryVars, scriptVars
  <2>2. Drained' /\ NewIsFresh'
    BY <2>1 DEF Inv, Drained, NewIsFresh
  <2> QED
    BY <1>0, <2>1, <2>2, QuietKeepsHistory, NumDocsAssumption DEF Inv, TypeOK
<1>4. ASSUME NEW c \in Consumers, ResultIterator(c) PROVE Inv'
  BY <1>0, <1>4, InvIterator
<1>5. ASSUME NEW c \in Consumers, CursorNext(c) PROVE Inv'
  BY <1>0, <1>5, InvNext
<1>6. ASSUME NEW c \in Consumers, NEW b \in BOOLEAN, CursorHasMore(c, b) PROVE Inv'
  BY <1>0, <1>6, InvHasMore
<1>7. ASSUME NEW c \in Consumers, CursorItCount(c) PROVE Inv'
  BY <1>0, <1>7, InvItCount
<1>8. CASE UNCHANGED vars
  BY <1>0, <1>8
  DEF vars, Inv, Drained, NewIsFresh, Owned, PromiseKept, AnnouncedDocument,
      WhileLoopSeesAll, ForLoopSeesAllNonEmpty, ForLoopSeesAll
<1> QED
  BY <1>1, <1>2, <1>3, <1>4, <1>5, <1>6, <1>7, <1>8 DEF Next

THEOREM Invariant == Spec => []Inv
  BY InvInit, InvStep, PTL DEF Spec

(* A while loop of has_more() and next() that ends has left nothing of the
   result, however many consumers shared it. *)
THEOREM WhileLoopIsComplete == Spec => []WhileLoopSeesAll
  BY Invariant, PTL DEF Inv

(* A for loop over results() that ends has left nothing of a result without
   empty documents. *)
THEOREM ForLoopIsComplete == Spec => []ForLoopSeesAllNonEmpty
  BY Invariant, PTL DEF Inv

(* has_more() is wrong only about a document that is empty or that another
   consumer was faster to take. *)
THEOREM AnnouncementsHold == Spec => []AnnouncedDocument
  BY Invariant, PTL DEF Inv

-----------------------------------------------------------------------------
(* Every loop comes nearer to its end.                                      *)

(* The steps that a loop over a result which is not tailable has still to make,
   at most: two for each document, and one in a body whose document another
   consumer took. *)
LoopBudget(c) ==
  3 * (NumDocs - pos) + (CASE loop[c] = "while" -> 1
                           [] loop[c] = "body" /\ pos = NumDocs -> 2
                           [] OTHER -> 0)

(* A loop ends, or it has fewer steps to make; what other consumers take
   meanwhile does not give it more. *)
LoopsNearer ==
  ~tailable => \A c \in Consumers : loop[c] # "none" =>
    \/ loop'[c] = "none"
    \/ /\ LoopBudget(c)' <= LoopBudget(c)
       /\ LoopStep(c) => LoopBudget(c)' < LoopBudget(c)

(* What is ahead of a position does not become more when the position moves on. *)
LEMMA FewerAhead ==
  ASSUME NEW n \in Nat, NEW p \in Nat, NEW q \in Nat, p <= q, q <= n
  PROVE  /\ n - p \in Nat /\ n - q \in Nat
         /\ n - q <= n - p
         /\ p # n => n - p >= 1
OBVIOUS

(* While c is at the same place in its loop, whatever is taken is progress. *)
LEMMA TakenIsProgress ==
  ASSUME Inv, Inv', NEW c \in Consumers, loop'[c] = loop[c], pos <= pos'
  PROVE  /\ LoopBudget(c) \in Nat /\ LoopBudget(c)' \in Nat
         /\ LoopBudget(c)' <= LoopBudget(c)
<1>1. pos \in Nat /\ pos' \in Nat /\ pos <= NumDocs /\ pos' <= NumDocs /\ NumDocs \in Nat
  BY NumDocsAssumption DEF Inv, TypeOK
<1>2. CASE loop[c] = "while"
  BY <1>1, <1>2 DEF LoopBudget
<1>3. CASE loop[c] = "body"
  <2>1. /\ LoopBudget(c) = IF pos = NumDocs THEN 2 ELSE 3 * (NumDocs - pos)
        /\ LoopBudget(c)' = IF pos' = NumDocs THEN 2 ELSE 3 * (NumDocs - pos')
    BY <1>1, <1>3 DEF LoopBudget
  <2>2. pos = NumDocs => pos' = NumDocs
    BY <1>1
  <2>3. PICK m \in Nat, n \in Nat : /\ m = NumDocs - pos /\ n = NumDocs - pos'
                                    /\ n <= m /\ (pos # NumDocs => m >= 1)
    BY <1>1, FewerAhead
  <2>4. /\ LoopBudget(c) = IF pos = NumDocs THEN 2 ELSE 3 * m
        /\ LoopBudget(c)' = IF pos' = NumDocs THEN 2 ELSE 3 * n
    BY <2>1, <2>3
  <2> QED
    BY <2>2, <2>3, <2>4
<1>4. CASE loop[c] # "while" /\ loop[c] # "body"
  BY <1>1, <1>4 DEF LoopBudget
<1> QED
  BY <1>2, <1>3, <1>4

(* The loop that a step belongs to. *)
LEMMA LoopStepCounts ==
  ASSUME Inv, Inv', NEW c \in Consumers, ~tailable, loop[c] # "none", LoopStep(c)
  PROVE  loop'[c] = "none" \/ (LoopBudget(c)' < LoopBudget(c)
                              /\ LoopBudget(c) \in Nat /\ LoopBudget(c)' \in Nat)
<1>1. /\ pos \in Nat /\ pos' \in Nat /\ pos <= NumDocs /\ pos' <= NumDocs /\ NumDocs \in Nat
      /\ loop \in [Consumers -> {"none", "for", "while", "body"}]
      /\ fetched \in Nat
  BY NumDocsAssumption DEF Inv, TypeOK
<1>2. status = "open" /\ UNCHANGED <<tailable, produced, status>>
  BY DEF LoopStep, ResultIterator, CursorHasMore, CursorNext, queryVars
<1>3. fetched' \in Nat /\ (~(pos < fetched') => pos = NumDocs)
  BY <1>2, MoreFacts DEF LoopStep, ResultIterator, CursorHasMore, CursorNext
<1>4. fetched' <= NumDocs
  BY <1>2, MoreFacts DEF LoopStep, ResultIterator, CursorHasMore, CursorNext
<1>5. CASE ResultIterator(c)
  <2>1. loop[c] = "for"
    BY <1>5 DEF ResultIterator
  <2>2. CASE pos < fetched' /\ pos + 1 \notin blank
    <3>1. loop'[c] = "for" /\ pos' = pos + 1
      BY <1>1, <1>5, <2>1, <2>2 DEF ResultIterator, TakeTo
    <3> QED
      BY <1>1, <2>1, <3>1 DEF LoopBudget
  <2>3. CASE ~(pos < fetched' /\ pos + 1 \notin blank)
    BY <1>1, <1>5, <2>3 DEF ResultIterator
  <2> QED
    BY <2>2, <2>3
<1>6. CASE loop[c] = "while" /\ CursorHasMore(c, FALSE)
  <2>1. pos' = pos /\ loop'[c] = IF pos < fetched' THEN "body" ELSE "none"
    BY <1>1, <1>6 DEF CursorHasMore
  <2>2. CASE pos < fetched'
    <3>1. pos # NumDocs
      BY <1>1, <1>3, <1>4, <2>2
    <3> QED
      BY <1>1, <1>6, <2>1, <2>2, <3>1 DEF LoopBudget
  <2> QED
    BY <2>1, <2>2
<1>7. CASE loop[c] = "body" /\ CursorNext(c)
  <2>1. loop'[c] = "while"
    BY <1>1, <1>7 DEF CursorNext
  <2>2. CASE pos < fetched'
    <3>1. pos' = pos + 1 /\ pos # NumDocs
      BY <1>1, <1>3, <1>4, <1>7, <2>2 DEF CursorNext, TakeTo
    <3> QED
      BY <1>1, <1>7, <2>1, <3>1 DEF LoopBudget
  <2>3. CASE ~(pos < fetched')
    <3>1. pos' = pos /\ pos = NumDocs
      BY <1>3, <1>7, <2>3 DEF CursorNext
    <3> QED
      BY <1>1, <1>7, <2>1, <3>1 DEF LoopBudget
  <2> QED
    BY <2>2, <2>3
<1> QED
  BY <1>5, <1>6, <1>7 DEF LoopStep

LEMMA LoopsNearerStep ==
  ASSUME Inv, Inv', Next
  PROVE  LoopsNearer
<1> SUFFICES ASSUME ~tailable, NEW c \in Consumers, loop[c] # "none", loop'[c] # "none"
             PROVE  /\ LoopBudget(c)' <= LoopBudget(c)
                    /\ LoopStep(c) => LoopBudget(c)' < LoopBudget(c)
  BY DEF LoopsNearer
<1>1. LoopStep(c) \/ (loop'[c] = loop[c] /\ pos <= pos')
  <2>1. pos \in Nat /\ loop \in [Consumers -> {"none", "for", "while", "body"}]
    BY NumDocsAssumption DEF Inv, TypeOK
  <2>2. CASE Produce \/ CursorCreate
    BY <2>1, <2>2 DEF Produce, CursorCreate, scriptVars
  <2>3. ASSUME NEW d \in Consumers,
               CursorResults(d) \/ UncaughtException(d) \/ StartWhile(d)
        PROVE  loop'[c] = loop[c] /\ pos <= pos'
    BY <2>1, <2>3 DEF CursorResults, UncaughtException, StartWhile, scriptVars
  <2>4. ASSUME NEW d \in Consumers, ResultIterator(d) \/ CursorNext(d)
        PROVE  LoopStep(c) \/ (loop'[c] = loop[c] /\ pos <= pos')
    <3>1. CASE d = c
      BY <2>4, <3>1 DEF CursorNext, LoopStep
    <3>2. CASE d # c
      BY <2>1, <2>4, <3>2 DEF ResultIterator, CursorNext, TakeTo
    <3> QED
      BY <3>1, <3>2
  <2>5. ASSUME NEW d \in Consumers, NEW b \in BOOLEAN, CursorHasMore(d, b)
        PROVE  LoopStep(c) \/ (loop'[c] = loop[c] /\ pos <= pos')
    <3>1. CASE d = c
      <4>1. loop[c] = "while" /\ b = FALSE
        BY <2>5, <3>1 DEF CursorHasMore
      <4> QED
        BY <2>5, <3>1, <4>1 DEF LoopStep
    <3>2. CASE d # c
      BY <2>1, <2>5, <3>2 DEF CursorHasMore
    <3> QED
      BY <3>1, <3>2
  <2>6. ASSUME NEW d \in Consumers, CursorItCount(d)
        PROVE  loop'[c] = loop[c] /\ pos <= pos'
    <3>1. PICK k \in fetched .. produced : TakeTo(d, k)
      BY <2>6 DEF CursorItCount
    <3>2. pos' = k /\ pos <= fetched /\ fetched \in Nat
      BY <3>1, NumDocsAssumption DEF TakeTo, Inv, TypeOK
    <3> QED
      BY <2>1, <2>6, <3>2 DEF CursorItCount
  <2> QED
    BY <2>2, <2>3, <2>4, <2>5, <2>6 DEF Next
<1>2. CASE LoopStep(c)
  BY <1>2, LoopStepCounts
<1>3. CASE ~LoopStep(c)
  BY <1>1, <1>3, TakenIsProgress
<1> QED
  BY <1>2, <1>3

(* Each step of a loop over a result that is not tailable brings its end nearer,
   however batches are cut, with empty documents and whatever other consumers of
   the cursor do. *)
THEOREM LoopsComeNearer == Spec => [][LoopsNearer]_vars
<1>1. Inv /\ [Next]_vars => [LoopsNearer]_vars
  BY InvStep, LoopsNearerStep
<1> QED
  BY <1>1, Invariant, PTL DEF Spec

-----------------------------------------------------------------------------
(* Refinement.                                                              *)

LEMMA StreamTakeTo ==
  ASSUME NEW c \in Consumers, NEW k, TakeTo(c, k)
  PROVE  Stream!TakeTo(c, k)
  BY DEF TakeTo, Stream!TakeTo, Stream!Docs, Docs

LEMMA StreamIterator ==
  ASSUME Inv, NEW c \in Consumers, ResultIterator(c)
  PROVE  Stream!Next
<1> USE NumDocsAssumption DEF Inv
<1>1. /\ fetched' \in Nat /\ fetched' <= NumDocs
      /\ ~tailable /\ ~(pos < fetched') => pos = NumDocs
  BY MoreFacts DEF ResultIterator, queryVars
<1>2. pos \in Nat /\ UNCHANGED <<blank, tailable>>
  BY DEF TypeOK, ResultIterator, queryVars
<1>3. CASE pos < fetched'
  <2>1. Stream!Take(c)
    BY <1>1, <1>2, <1>3, StreamTakeTo DEF ResultIterator, Stream!Take
  <2> QED BY <2>1 DEF Stream!Next
<1>4. CASE ~(pos < fetched')
  <2>1. Stream!End(c)
    BY <1>1, <1>2, <1>4 DEF ResultIterator, Stream!End, Stream!Loops
  <2> QED BY <2>1 DEF Stream!Next
<1> QED
  BY <1>3, <1>4

LEMMA StreamNext ==
  ASSUME Inv, NEW c \in Consumers, CursorNext(c)
  PROVE  Stream!Next \/ UNCHANGED Stream!vars
<1> USE NumDocsAssumption DEF Inv
<1>1. fetched' \in Nat /\ fetched' <= NumDocs
  BY MoreFacts DEF CursorNext, queryVars
<1>2. pos \in Nat /\ UNCHANGED <<blank, tailable, ended>>
  BY DEF TypeOK, CursorNext, queryVars
<1>3. CASE pos < fetched'
  <2>1. Stream!Take(c)
    BY <1>1, <1>2, <1>3, StreamTakeTo DEF CursorNext, Stream!Take
  <2> QED BY <2>1 DEF Stream!Next
<1>4. CASE ~(pos < fetched')
  BY <1>2, <1>4 DEF CursorNext, Stream!vars
<1> QED
  BY <1>3, <1>4

LEMMA StreamHasMore ==
  ASSUME Inv, NEW c \in Consumers, NEW b \in BOOLEAN, CursorHasMore(c, b)
  PROVE  Stream!Next \/ UNCHANGED Stream!vars
<1> USE DEF Inv
<1>1. ~b /\ ~tailable /\ ~(pos < fetched') => pos = NumDocs
  BY MoreFacts DEF CursorHasMore, queryVars
<1>2. UNCHANGED <<blank, tailable, pos, owner>>
  BY DEF CursorHasMore, queryVars
<1>3. CASE ended' = ended
  BY <1>2, <1>3 DEF Stream!vars
<1>4. CASE ended' # ended
  <2>1. ~b /\ ~(pos < fetched') /\ ended' = ended \cup {<<c, "while">>}
    BY <1>4 DEF CursorHasMore
  <2>2. Stream!End(c)
    BY <1>1, <1>2, <2>1 DEF Stream!End, Stream!Loops
  <2> QED BY <2>2 DEF Stream!Next
<1> QED
  BY <1>3, <1>4

LEMMA StreamItCount ==
  ASSUME Inv, NEW c \in Consumers, CursorItCount(c)
  PROVE  Stream!Next
<1> USE NumDocsAssumption DEF Inv
<1>1. PICK k \in fetched .. produced :
        /\ ~tailable /\ live => k = NumDocs
        /\ ~live => k = fetched
        /\ TakeTo(c, k)
  BY DEF CursorItCount
<1>2. k \in pos .. NumDocs
  BY <1>1 DEF TypeOK
<1>3. ~tailable => k = NumDocs
  BY <1>1 DEF Drained, CursorItCount
<1>4. UNCHANGED <<blank, tailable, ended>>
  BY DEF CursorItCount, queryVars
<1>5. Stream!TakeAll(c)
  BY <1>1, <1>2, <1>3, <1>4, StreamTakeTo DEF Stream!TakeAll
<1> QED
  BY <1>5 DEF Stream!Next

LEMMA StreamStep == Inv /\ [Next]_vars => [Stream!Next]_(Stream!vars)
<1> SUFFICES ASSUME Inv, [Next]_vars PROVE Stream!Next \/ UNCHANGED Stream!vars
  OBVIOUS
<1>1. ASSUME \/ Produce \/ CursorCreate \/ UNCHANGED vars
             \/ \E c \in Consumers :
                  CursorResults(c) \/ StartWhile(c) \/ UncaughtException(c)
      PROVE  UNCHANGED Stream!vars
  BY <1>1 DEF Produce, CursorCreate, CursorResults, StartWhile, UncaughtException,
              vars, queryVars, scriptVars, Stream!vars
<1>2. ASSUME NEW c \in Consumers, ResultIterator(c) PROVE Stream!Next
  BY <1>2, StreamIterator
<1>3. ASSUME NEW c \in Consumers, CursorNext(c)
      PROVE  Stream!Next \/ UNCHANGED Stream!vars
  BY <1>3, StreamNext
<1>4. ASSUME NEW c \in Consumers, NEW b \in BOOLEAN, CursorHasMore(c, b)
      PROVE  Stream!Next \/ UNCHANGED Stream!vars
  BY <1>4, StreamHasMore
<1>5. ASSUME NEW c \in Consumers, CursorItCount(c) PROVE Stream!Next
  BY <1>5, StreamItCount
<1> QED
  BY <1>1, <1>2, <1>3, <1>4, <1>5 DEF Next

(* Whatever the batches and the interleaving, the consumers see one stream. *)
THEOREM CursorImplementsResultStream == Spec => ImplementsResultStream
<1>1. Init => Stream!Init
  BY DEF Init, Stream!Init, Stream!Docs, Docs
<1> QED
  BY <1>1, StreamStep, Invariant, PTL DEF Spec, ImplementsResultStream, Stream!Spec

==============================================================================
