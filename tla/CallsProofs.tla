---------------------------- MODULE CallsProofs ----------------------------
(***************************************************************************)
(* Proofs about module Calls, for any handlers of the shape it assumes and *)
(* any number of writes and calls.                                         *)
(***************************************************************************)
EXTENDS Calls, TLAPS

-----------------------------------------------------------------------------
(* Operators.                                                               *)

LEMMA BumpedType ==
  ASSUME NEW f \in [Writes -> Nat], NEW s
  PROVE  /\ Bumped(f, s) \in [Writes -> Nat]
         /\ \A w \in Writes : Bumped(f, s)[w] = IF w \in Elements(s) THEN f[w] + 1 ELSE f[w]
BY DEF Bumped

(* What a call may be asked for is a sequence of writes. *)
LEMMA RequestsAreSequences ==
  ASSUME NEW m \in Methods, NEW b \in Requests(m) \cup {<<>>}
  PROVE  b \in Seq(Writes)
<1>1. CASE b = <<>>
  BY <1>1
<1>2. CASE b \in {<<w>> : w \in Writes}
  <2> PICK w \in Writes : b = <<w>>
    BY <1>2
  <2> QED OBVIOUS
<1>3. CASE b \in {<<v, w>> : v, w \in Writes}
  <2> PICK v \in Writes, w \in Writes : b = <<v, w>>
    BY <1>3
  <2> QED OBVIOUS
<1> QED BY <1>1, <1>2, <1>3 DEF Requests

LEMMA PrefixElements ==
  ASSUME NEW b \in Seq(Writes), NEW n \in 0 .. Len(b)
  PROVE  /\ Elements(SubSeq(b, 1, n)) \subseteq Elements(b)
         /\ n = 0 => Elements(SubSeq(b, 1, n)) = {}
         /\ n = Len(b) => Elements(SubSeq(b, 1, n)) = Elements(b)
<1>1. /\ Len(SubSeq(b, 1, n)) = n
      /\ SubSeq(b, 1, n) \in Seq(Writes)
      /\ \A i \in 1 .. n : SubSeq(b, 1, n)[i] = b[i]
  OBVIOUS
<1>2. DOMAIN SubSeq(b, 1, n) = 1 .. n /\ DOMAIN b = 1 .. Len(b)
  BY <1>1
<1> DEFINE p == SubSeq(b, 1, n)
<1>3. \A x : x \in Elements(p) <=> \E i \in 1 .. n : x = b[i]
  BY <1>1, <1>2 DEF Elements
<1>4. \A x : x \in Elements(b) <=> \E i \in 1 .. Len(b) : x = b[i]
  BY <1>2 DEF Elements
<1>5. 1 .. n \subseteq 1 .. Len(b) /\ (n = 0 => 1 .. n = {})
  OBVIOUS
<1> HIDE DEF p
<1>6. /\ Elements(p) \subseteq Elements(b)
      /\ n = 0 => Elements(p) = {}
      /\ n = Len(b) => Elements(p) = Elements(b)
  BY <1>3, <1>4, <1>5
<1> QED BY <1>6 DEF p

(* The step a running handler is at. *)
LEMMA CurrentIsStep ==
  ASSUME method \in Methods, pc \in DOMAIN Handler[method]
  PROVE  /\ IsStep(Current)
         /\ Shaped(Handler[method], pc)
         /\ Len(Handler[method]) \in Nat
         /\ DOMAIN Handler[method] = 1 .. Len(Handler[method])
BY HandlerAssumption, ShapeAssumption DEF Current

(* A failure that is returned is one of two. *)
LEMMA VerdictType ==
  ASSUME method \in Methods, pc \in DOMAIN Handler[method], NEW o \in Outcomes, Reported(o)
  PROVE  Verdict(o) \in {"nil", "false"}
<1>1. Current.try \in Tries
  BY CurrentIsStep DEF IsStep
<1>2. o \in Exceptions \cup {"badref", "nil", "false", "stale"}
  BY DEF Reported, Outcomes, Going, Exceptions
<1>3. CASE o \in {"nil", "false", "stale"}
  BY <1>3 DEF Verdict
<1>4. CASE o \in Exceptions \cup {"badref"}
  <2>1. Thrown(o) \in Exceptions /\ Verdict(o) = Current.try[Thrown(o)]
    BY <1>4 DEF Thrown, Verdict, Exceptions
  <2>2. Current.try[Thrown(o)] \in {"nil", "false", "escapes"}
    BY <1>1, <2>1 DEF Tries
  <2> QED BY <2>1, <2>2 DEF Reported
<1> QED BY <1>2, <1>3, <1>4

-----------------------------------------------------------------------------
(* Types.                                                                   *)

FollowVars == <<phase, method, pc, batch, executed, temps, refs, result, reportVars, auto, calls>>

FollowTypes ==
  /\ phase \in {"idle", "running", "over", "dead"}
  /\ method \in Methods
  /\ pc \in 1 .. Len(Handler[method]) + 1
  /\ batch \in Requests(method) \cup {<<>>}
  /\ executed \in 0 .. Len(batch)
  /\ temps \in Nat /\ refs \in Nat
  /\ result \in {<<>>} \cup {<<r>> : r \in Results \cup {"argument"}}
               \cup ({"nil", "false"} \X {"message", "stale"})
  /\ auto \in BOOLEAN
  /\ doubts \in Nat /\ cuts \in Nat /\ calls \in Nat
  /\ success \in [Writes -> Nat]
  /\ garbled \in [Writes -> Nat]
  /\ failure \in [Writes -> Nat]

LEMMA FollowTyped ==
  ASSUME FollowTypes, phase = "running", pc \in DOMAIN Handler[method],
         NEW o \in Outcomes, NEW n \in 0 .. Len(batch), Follow(o, n)
  PROVE  FollowTypes'
<1> USE DEF FollowTypes
<1>0. Len(Handler[method]) \in Nat /\ pc \in 1 .. Len(Handler[method])
  BY CurrentIsStep
<1>1. method' = method /\ batch' = batch /\ executed' = n /\ auto' = auto /\ calls' = calls
  BY DEF Follow
<1>2. CASE GoesOn(o)
  BY <1>0, <1>1, <1>2 DEF GoesOn, reportVars
<1>3. CASE Fails(o, n)
  <2>1. result' \in {"nil", "false"} \X {"message", "stale"}
    BY <1>3, VerdictType DEF Fails
  <2>2. failure' \in [Writes -> Nat]
    BY <1>3, BumpedType DEF Fails
  <2> QED BY <1>0, <1>1, <1>3, <2>1, <2>2 DEF Fails
<1>4. CASE LuaError(o)
  BY <1>0, <1>1, <1>4 DEF LuaError, reportVars
<1>5. CASE Escapes(o)
  BY <1>0, <1>1, <1>5 DEF Escapes, reportVars
<1> QED BY <1>2, <1>3, <1>4, <1>5 DEF Follow

OtherTypes ==
  /\ pushed \in Seq(Results)
  /\ refusal \in {<<>>} \cup (Nat \X Cases)
  /\ swapped \in BOOLEAN /\ failed \in BOOLEAN
  /\ connections \in Nat
  /\ count \in [Writes -> Nat]

LEMMA TypesSplit == TypeOK <=> FollowTypes /\ OtherTypes
BY DEF TypeOK, FollowTypes, OtherTypes

LEMMA OutcomeTyped ==
  ASSUME method \in Methods, pc \in DOMAIN Handler[method], NEW o, Leads(Current, o)
  PROVE  o \in Outcomes
BY CurrentIsStep DEF Leads, IsStep

(* What the steps of a handler have in common. *)
WireFacts(o, n) ==
  /\ connections + (IF failed' THEN 0 ELSE 1) <= connections' + (IF failed THEN 0 ELSE 1)
  /\ Current.act \in Changes /\ n > 0 /\ failed' /\ o # "goes" =>
       connections + 1 <= connections' + (IF failed THEN 0 ELSE 1)

ChangeFacts(o, n) ==
  /\ Current.act \in Changes =>
       /\ Executes(n)
       /\ o \notin {"lua", "makes", "ends", "undefined"}
       /\ o = "goes" => n = Len(batch)
       /\ swapped' = swapped
  /\ Current.act \notin Changes =>
       /\ n = executed
       /\ count' = count
       /\ swapped' = swapped \/ Current.act = "element"

Taken(o, n) ==
  /\ phase = "running" /\ pc \in DOMAIN Handler[method]
  /\ Current.act # "free"
  /\ o \in Outcomes /\ n \in 0 .. Len(batch)
  /\ o = "goes" \/ (Leads(Current, o) /\ Current.act # "push")
  /\ Follow(o, n)
  /\ ChangeFacts(o, n)
  /\ WireFacts(o, n)
  /\ OtherTypes'

LEMMA ExecutesType ==
  ASSUME count \in [Writes -> Nat], NEW n, Executes(n)
  PROVE  count' \in [Writes -> Nat]
BY BumpedType DEF Executes

LEMMA QuietWire ==
  ASSUME OtherTypes, failed' = failed, connections' = connections, NEW o, NEW n,
         Current.act \notin Changes \/ n = 0 \/ o = "goes", n \in Nat
  PROVE  WireFacts(o, n)
BY DEF WireFacts, OtherTypes

LEMMA ArgumentTaken ==
  ASSUME TypeOK, TakeArgument
  PROVE  \E o, n : Taken(o, n)
<1>0. phase = "running" /\ pc \in DOMAIN Handler[method] /\ Current.act = "arg" /\ method \in Methods
  BY DEF TakeArgument, At, TypeOK
<1>a. PICK k \in DOMAIN Current.of : \E o \in Current.of[k] :
        /\ refusal' = IF o \in Going THEN refusal ELSE <<Current.pos, k>>
        /\ Follow(o, executed)
  BY DEF TakeArgument
<1>1. PICK o \in Current.of[k] :
        /\ refusal' = IF o \in Going THEN refusal ELSE <<Current.pos, k>>
        /\ Follow(o, executed)
  BY <1>a
<1>2. Leads(Current, o) /\ o \in Outcomes
  BY <1>0, <1>1, OutcomeTyped DEF Leads
<1>3. Current.pos \in Nat /\ k \in Cases
  BY <1>0, <1>1, CurrentIsStep DEF IsStep
<1>4. UNCHANGED <<pushed, swapped, failed, connections, count>>
  BY DEF TakeArgument, netVars
<1>5. OtherTypes /\ executed \in 0 .. Len(batch) /\ Len(batch) \in Nat
  BY TypesSplit, RequestsAreSequences DEF FollowTypes
<1>6. refusal' \in {<<>>} \cup (Nat \X Cases)
  BY <1>1, <1>3, <1>5 DEF OtherTypes
<1>7. OtherTypes'
  BY <1>4, <1>5, <1>6 DEF OtherTypes
<1>8. WireFacts(o, executed)
  BY <1>0, <1>4, <1>5, QuietWire DEF Changes
<1>9. ChangeFacts(o, executed)
  BY <1>0, <1>4 DEF ChangeFacts, Changes
<1> QED BY <1>0, <1>1, <1>2, <1>5, <1>7, <1>8, <1>9 DEF Taken

LEMMA ElementTaken ==
  ASSUME TypeOK, TakeElements
  PROVE  \E o, n : Taken(o, n)
<1>0. phase = "running" /\ pc \in DOMAIN Handler[method] /\ Current.act = "element" /\ method \in Methods
  BY DEF TakeElements, At, TypeOK
<1>a. PICK k \in DOMAIN Current.of, surplus \in BOOLEAN : \E o \in Current.of[k] :
        /\ swapped' = (surplus \/ o = "undefined")
        /\ Follow(o, executed)
  BY DEF TakeElements
<1>1. PICK o \in Current.of[k] :
        /\ swapped' = (surplus \/ o = "undefined")
        /\ Follow(o, executed)
  BY <1>a
<1>2. Leads(Current, o) /\ o \in Outcomes
  BY <1>0, <1>1, OutcomeTyped DEF Leads
<1>4. UNCHANGED <<pushed, refusal, failed, connections, count>>
  BY DEF TakeElements, netVars
<1>5. OtherTypes /\ executed \in 0 .. Len(batch) /\ Len(batch) \in Nat
  BY TypesSplit, RequestsAreSequences DEF FollowTypes
<1>6. swapped' \in BOOLEAN
  BY <1>1
<1>7. OtherTypes'
  BY <1>4, <1>5, <1>6 DEF OtherTypes
<1>8. WireFacts(o, executed)
  BY <1>0, <1>4, <1>5, QuietWire DEF Changes
<1>9. ChangeFacts(o, executed)
  BY <1>0, <1>4 DEF ChangeFacts, Changes
<1> QED BY <1>0, <1>1, <1>2, <1>5, <1>7, <1>8, <1>9 DEF Taken

LEMMA LocallyTaken ==
  ASSUME TypeOK, ComputesLocally
  PROVE  \E o, n : Taken(o, n)
<1>0. phase = "running" /\ pc \in DOMAIN Handler[method] /\ Current.act = "local" /\ method \in Methods
  BY DEF ComputesLocally, At, TypeOK
<1>a. PICK a \in DOMAIN Current.of : \E o \in Current.of[a] : Follow(o, executed)
  BY DEF ComputesLocally
<1>1. PICK o \in Current.of[a] : Follow(o, executed)
  BY <1>a
<1>2. Leads(Current, o) /\ o \in Outcomes
  BY <1>0, <1>1, OutcomeTyped DEF Leads
<1>4. UNCHANGED <<pushed, refusal, swapped, failed, connections, count>>
  BY DEF ComputesLocally, netVars
<1>5. OtherTypes /\ executed \in 0 .. Len(batch) /\ Len(batch) \in Nat
  BY TypesSplit, RequestsAreSequences DEF FollowTypes
<1>7. OtherTypes'
  BY <1>4, <1>5 DEF OtherTypes
<1>8. WireFacts(o, executed)
  BY <1>0, <1>4, <1>5, QuietWire DEF Changes
<1>9. ChangeFacts(o, executed)
  BY <1>0, <1>4 DEF ChangeFacts, Changes
<1> QED BY <1>0, <1>1, <1>2, <1>5, <1>7, <1>8, <1>9 DEF Taken

LEMMA PushTaken ==
  ASSUME TypeOK, PushesResult
  PROVE  \E o, n : Taken(o, n)
<1>0. phase = "running" /\ pc \in DOMAIN Handler[method] /\ Current.act = "push" /\ method \in Methods
  BY DEF PushesResult, At, TypeOK
<1>1. PICK r \in DOMAIN Current.of : pushed' = IF r = "nothing" THEN pushed ELSE Append(pushed, r)
  BY DEF PushesResult
<1>2. r \in Results
  BY <1>0, <1>1, CurrentIsStep DEF Shaped, Current
<1>4. UNCHANGED <<refusal, swapped, failed, connections, count>> /\ Follow("goes", executed)
  BY DEF PushesResult, netVars
<1>5. OtherTypes /\ executed \in 0 .. Len(batch) /\ Len(batch) \in Nat
  BY TypesSplit, RequestsAreSequences DEF FollowTypes
<1>6. pushed' \in Seq(Results)
  <2>1. pushed \in Seq(Results)
    BY <1>5 DEF OtherTypes
  <2>2. Append(pushed, r) \in Seq(Results)
    BY <1>2, <2>1
  <2> QED BY <1>1, <2>1, <2>2
<1>7. OtherTypes'
  BY <1>4, <1>5, <1>6 DEF OtherTypes
<1>8. WireFacts("goes", executed)
  BY <1>0, <1>4, <1>5, QuietWire DEF Changes
<1>9. ChangeFacts("goes", executed)
  BY <1>0, <1>4 DEF ChangeFacts, Changes
<1>10. "goes" \in Outcomes
  BY DEF Outcomes
<1> QED BY <1>0, <1>4, <1>5, <1>7, <1>8, <1>9, <1>10 DEF Taken

(* The driver: a connection is spent when it breaks, and made again before it
   can be used again. *)
LEMMA ReachesWire ==
  ASSUME OtherTypes, NEW a \in Answers, Reaches(a)
  PROVE  /\ connections' \in Nat /\ failed' \in BOOLEAN
         /\ connections + (IF failed' THEN 0 ELSE 1) <= connections' + (IF failed THEN 0 ELSE 1)
         /\ a = "broken" => connections + 1 <= connections' + (IF failed THEN 0 ELSE 1)
         /\ a \in {"done", "error"} => ~failed'
<1>0. connections \in Nat /\ failed \in BOOLEAN
  BY DEF OtherTypes
<1>1. /\ failed' = (a \in {"broken", "down"})
      /\ connections' = IF failed /\ a # "down" THEN connections + 1 ELSE connections
  BY DEF Reaches
<1>2. a = "down" => failed
  BY DEF Reaches, Available
<1>3. CASE a \in {"broken", "down"}
  <2>1. failed'
    BY <1>1, <1>3
  <2> QED BY <1>0, <1>1, <1>2, <1>3, <2>1
<1>4. CASE a \in {"done", "error"}
  <2>1. ~failed'
    BY <1>1, <1>4
  <2> QED BY <1>0, <1>1, <1>4, <2>1
<1> QED BY <1>3, <1>4 DEF Answers

LEMMA ReadTaken ==
  ASSUME TypeOK, ReadsServer
  PROVE  \E o, n : Taken(o, n)
<1>0. phase = "running" /\ pc \in DOMAIN Handler[method] /\ Current.act = "read" /\ method \in Methods
  BY DEF ReadsServer, At, TypeOK
<1>1. PICK a \in Answers : Reaches(a) /\ \E o \in Current.of[a] : Follow(o, executed)
  BY DEF ReadsServer
<1>a. PICK o \in Current.of[a] : Follow(o, executed)
  BY <1>1
<1>2. Leads(Current, o) /\ o \in Outcomes
  BY <1>0, <1>1, OutcomeTyped DEF Leads, Reaches
<1>4. UNCHANGED <<pushed, refusal, swapped, count>>
  BY DEF ReadsServer
<1>5. OtherTypes /\ executed \in 0 .. Len(batch) /\ Len(batch) \in Nat
  BY TypesSplit, RequestsAreSequences DEF FollowTypes
<1>6. connections' \in Nat /\ failed' \in BOOLEAN
  BY <1>1, <1>5, ReachesWire
<1>7. OtherTypes'
  BY <1>4, <1>5, <1>6 DEF OtherTypes
<1>8. WireFacts(o, executed)
  BY <1>0, <1>1, <1>5, ReachesWire DEF WireFacts, Changes
<1>9. ChangeFacts(o, executed)
  BY <1>0, <1>4 DEF ChangeFacts, Changes
<1> QED BY <1>0, <1>a, <1>2, <1>5, <1>7, <1>8, <1>9 DEF Taken

LEMMA ConnectTaken ==
  ASSUME TypeOK, Connects
  PROVE  \E o, n : Taken(o, n)
<1>0. phase = "running" /\ pc \in DOMAIN Handler[method] /\ Current.act = "connect" /\ method \in Methods
  BY DEF Connects, At, TypeOK
<1>1. PICK a \in DOMAIN Current.of :
        /\ failed' = (a # "done")
        /\ connections' = IF a = "done" THEN connections + 1 ELSE connections
        /\ \E o \in Current.of[a] : Follow(o, executed)
  BY DEF Connects
<1>a. PICK o \in Current.of[a] : Follow(o, executed)
  BY <1>1
<1>2. Leads(Current, o) /\ o \in Outcomes
  BY <1>0, <1>1, OutcomeTyped DEF Leads
<1>4. UNCHANGED <<pushed, refusal, swapped, count>>
  BY DEF Connects
<1>5. OtherTypes /\ executed \in 0 .. Len(batch) /\ Len(batch) \in Nat
  BY TypesSplit, RequestsAreSequences DEF FollowTypes
<1>6. connections \in Nat /\ connections' \in Nat /\ failed' \in BOOLEAN
  BY <1>1, <1>5 DEF OtherTypes
<1>7. OtherTypes'
  BY <1>4, <1>5, <1>6 DEF OtherTypes
<1>8. WireFacts(o, executed)
  <2>1. CASE a = "done"
    <3>1. ~failed' /\ connections' = connections + 1
      BY <1>1, <2>1
    <3> QED BY <1>0, <1>6, <3>1 DEF WireFacts, Changes
  <2>2. CASE a # "done"
    <3>1. failed' /\ connections' = connections
      BY <1>1, <2>2
    <3> QED BY <1>0, <1>6, <3>1 DEF WireFacts, Changes
  <2> QED BY <2>1, <2>2
<1>9. ChangeFacts(o, executed)
  BY <1>0, <1>4 DEF ChangeFacts, Changes
<1> QED BY <1>0, <1>a, <1>2, <1>5, <1>7, <1>8, <1>9 DEF Taken

(* What changes something goes on exactly when the driver has answered. *)
LEMMA ChangeAnswered ==
  ASSUME method \in Methods, pc \in DOMAIN Handler[method], Current.act \in Changes,
         NEW a \in DOMAIN Current.of, NEW o \in Current.of[a]
  PROVE  /\ a = "done" => o = "goes"
         /\ a # "done" => o \notin {"goes", "lua", "makes", "ends", "undefined"}
<1>1. /\ "done" \in DOMAIN Current.of /\ Current.of["done"] = {"goes"}
      /\ \A x \in DOMAIN Current.of \ {"done"} : Current.of[x] \cap (Going \cup {"lua"}) = {}
  BY CurrentIsStep DEF Shaped, Current
<1>2. CASE a = "done"
  BY <1>1, <1>2
<1>3. CASE a # "done"
  BY <1>1, <1>3 DEF Going
<1> QED BY <1>2, <1>3

LEMMA WriteTaken ==
  ASSUME TypeOK, WritesServer
  PROVE  \E o, n : Taken(o, n)
<1>0. /\ phase = "running" /\ pc \in DOMAIN Handler[method] /\ Current.act = "write"
      /\ method \in Methods /\ Current.act \in Changes
  BY DEF WritesServer, At, TypeOK, Changes
<1>1. PICK a \in Answers :
        /\ Reaches(a)
        /\ \E n \in Extent(a), o \in Current.of[a] : Executes(n) /\ Follow(o, n)
  BY DEF WritesServer
<1>a. PICK n \in Extent(a), o \in Current.of[a] : Executes(n) /\ Follow(o, n)
  BY <1>1
<1>b. a \in DOMAIN Current.of
  BY <1>1 DEF Reaches
<1>2. Leads(Current, o) /\ o \in Outcomes
  BY <1>0, <1>a, <1>b, OutcomeTyped DEF Leads
<1>4. UNCHANGED <<pushed, refusal, swapped>>
  BY DEF WritesServer
<1>5. OtherTypes /\ Len(batch) \in Nat
  BY TypesSplit, RequestsAreSequences DEF FollowTypes
<1>6. connections' \in Nat /\ failed' \in BOOLEAN /\ count' \in [Writes -> Nat]
  BY <1>1, <1>a, <1>5, ReachesWire, ExecutesType DEF OtherTypes
<1>7. OtherTypes'
  BY <1>4, <1>5, <1>6 DEF OtherTypes
<1>c. /\ n \in 0 .. Len(batch)
      /\ a = "done" => n = Len(batch)
      /\ a = "down" => n = 0
  BY <1>a, <1>5 DEF Extent
<1>d. /\ a = "done" => o = "goes"
      /\ a # "done" => o \notin {"goes", "lua", "makes", "ends", "undefined"}
  BY <1>0, <1>a, <1>b, ChangeAnswered
<1>e. a \in {"done", "error", "broken", "down"}
  BY DEF Answers
<1>8. WireFacts(o, n)
  BY <1>1, <1>5, <1>c, <1>d, <1>e, ReachesWire DEF WireFacts
<1>9. ChangeFacts(o, n)
  BY <1>0, <1>4, <1>a, <1>c, <1>d DEF ChangeFacts
<1> QED BY <1>0, <1>a, <1>c, <1>2, <1>5, <1>7, <1>8, <1>9 DEF Taken

LEMMA ModifyTaken ==
  ASSUME TypeOK, ModifiesQuery
  PROVE  \E o, n : Taken(o, n)
<1>0. /\ phase = "running" /\ pc \in DOMAIN Handler[method] /\ Current.act = "modify"
      /\ method \in Methods /\ Current.act \in Changes
  BY DEF ModifiesQuery, At, TypeOK, Changes
<1>b. PICK a \in DOMAIN Current.of : \E o \in Current.of[a] :
        LET n == IF a = "done" THEN Len(batch) ELSE 0 IN Executes(n) /\ Follow(o, n)
  BY DEF ModifiesQuery
<1>1. PICK o \in Current.of[a] :
        LET n == IF a = "done" THEN Len(batch) ELSE 0 IN Executes(n) /\ Follow(o, n)
  BY <1>b
<1> DEFINE n == IF a = "done" THEN Len(batch) ELSE 0
<1>a. Executes(n) /\ Follow(o, n)
  BY <1>1
<1>2. Leads(Current, o) /\ o \in Outcomes
  BY <1>0, <1>1, OutcomeTyped DEF Leads
<1>4. UNCHANGED <<pushed, refusal, swapped, failed, connections>>
  BY DEF ModifiesQuery
<1>5. OtherTypes /\ Len(batch) \in Nat
  BY TypesSplit, RequestsAreSequences DEF FollowTypes
<1>6. count' \in [Writes -> Nat]
  BY <1>a, <1>5, ExecutesType DEF OtherTypes
<1>7. OtherTypes'
  BY <1>4, <1>5, <1>6 DEF OtherTypes
<1>c. n \in 0 .. Len(batch) /\ (a = "done" => n = Len(batch)) /\ (a # "done" => n = 0)
  BY <1>5
<1>d. /\ a = "done" => o = "goes"
      /\ a # "done" => o \notin {"goes", "lua", "makes", "ends", "undefined"}
  BY <1>0, <1>1, ChangeAnswered
<1> HIDE DEF n
<1>e. n \in Nat /\ (n = 0 \/ o = "goes")
  BY <1>c, <1>d, <1>5
<1>8. WireFacts(o, n)
  BY <1>4, <1>5, <1>e, QuietWire
<1>9. ChangeFacts(o, n)
  BY <1>0, <1>4, <1>a, <1>c, <1>d DEF ChangeFacts
<1> QED BY <1>0, <1>a, <1>c, <1>2, <1>5, <1>7, <1>8, <1>9 DEF Taken

LEMMA StepShape ==
  ASSUME TypeOK, Next
  PROVE  \/ \E m \in Methods : \E b \in Requests(m) : Begin(m, b)
         \/ \E o, n : Taken(o, n)
         \/ ReadsGarbage \/ FreesTemporaries \/ Returns
BY ArgumentTaken, ElementTaken, LocallyTaken, PushTaken, ReadTaken, ConnectTaken, WriteTaken,
   ModifyTaken DEF Next

-----------------------------------------------------------------------------
(* Type correctness.                                                        *)

LEMMA TakenTyped ==
  ASSUME TypeOK, NEW o, NEW n, Taken(o, n)
  PROVE  TypeOK'
<1>1. FollowTypes
  BY TypesSplit
<1>2. FollowTypes'
  BY <1>1, FollowTyped DEF Taken
<1>3. OtherTypes'
  BY DEF Taken
<1> QED BY <1>2, <1>3 DEF TypeOK, FollowTypes, OtherTypes

LEMMA InitTyped ==
  ASSUME Init
  PROVE  TypeOK
<1>1. method \in Methods
  BY HandlerAssumption DEF Init
<1>2. Len(Handler[method]) \in Nat
  BY <1>1, HandlerAssumption
<1>3. Zero \in [Writes -> Nat]
  BY DEF Zero
<1>4. pc \in 1 .. Len(Handler[method]) + 1 /\ executed \in 0 .. Len(batch)
  BY <1>2 DEF Init
<1>5. batch \in Requests(method) \cup {<<>>} /\ refusal \in {<<>>} \cup (Nat \X Cases)
  BY DEF Init
<1>6. pushed \in Seq(Results)
  BY DEF Init
<1>7. result \in {<<>>} \cup {<<r>> : r \in Results \cup {"argument"}}
               \cup ({"nil", "false"} \X {"message", "stale"})
  BY DEF Init
<1>8. /\ count \in [Writes -> Nat] /\ garbled \in [Writes -> Nat]
      /\ success \in [Writes -> Nat] /\ failure \in [Writes -> Nat]
  BY <1>3 DEF Init
<1>9. /\ phase \in {"idle", "running", "over", "dead"} /\ temps \in Nat /\ refs \in Nat
      /\ swapped \in BOOLEAN /\ auto \in BOOLEAN /\ failed \in BOOLEAN
      /\ connections \in Nat /\ doubts \in Nat /\ cuts \in Nat /\ calls \in Nat
  BY DEF Init
<1> QED BY <1>1, <1>4, <1>5, <1>6, <1>7, <1>8, <1>9 DEF TypeOK

LEMMA BeginTyped ==
  ASSUME TypeOK, NEW m \in Methods, NEW b \in Requests(m), Begin(m, b)
  PROVE  TypeOK'
<1>1. b \in Seq(Writes)
  BY RequestsAreSequences
<1>2. Len(Handler[m]) \in Nat
  BY HandlerAssumption
<1>3. /\ phase' = "running" /\ method' = m /\ pc' = 1 /\ batch' = b /\ executed' = 0
      /\ temps' = 0 /\ refs' = 0 /\ pushed' = <<>> /\ result' = <<>> /\ refusal' = <<>>
      /\ swapped' = FALSE /\ calls' = calls + 1
      /\ UNCHANGED <<failed, connections, count, success, failure, garbled, doubts, cuts, auto>>
  BY DEF Begin, netVars, reportVars
<1>4. executed' \in 0 .. Len(batch') /\ pc' \in 1 .. Len(Handler[method']) + 1
  BY <1>1, <1>2, <1>3
<1>5. batch' \in Requests(method') \cup {<<>>} /\ method' \in Methods
  BY <1>3
<1>6. pushed' \in Seq(Results)
  BY <1>3
<1>7. result' \in {<<>>} /\ refusal' \in {<<>>}
  BY <1>3
<1>8. /\ count' \in [Writes -> Nat] /\ garbled' \in [Writes -> Nat]
      /\ success' \in [Writes -> Nat] /\ failure' \in [Writes -> Nat]
  BY <1>3 DEF TypeOK
<1>9. /\ phase' \in {"idle", "running", "over", "dead"} /\ temps' \in Nat /\ refs' \in Nat
      /\ swapped' \in BOOLEAN /\ auto' \in BOOLEAN /\ failed' \in BOOLEAN
      /\ connections' \in Nat /\ doubts' \in Nat /\ cuts' \in Nat /\ calls' \in Nat
  <2>1. /\ auto \in BOOLEAN /\ failed \in BOOLEAN /\ connections \in Nat
        /\ doubts \in Nat /\ cuts \in Nat /\ calls \in Nat
    BY DEF TypeOK
  <2>2. swapped' \in BOOLEAN /\ auto' \in BOOLEAN /\ failed' \in BOOLEAN
    BY <1>3, <2>1
  <2>3. temps' \in Nat /\ refs' \in Nat /\ connections' \in Nat /\ doubts' \in Nat
    BY <1>3, <2>1
  <2>4. phase' \in {"idle", "running", "over", "dead"} /\ cuts' \in Nat /\ calls' \in Nat
    BY <1>3, <2>1
  <2> QED BY <2>2, <2>3, <2>4
<1> QED BY <1>4, <1>5, <1>6, <1>7, <1>8, <1>9 DEF TypeOK

LEMMA GarbageTyped ==
  ASSUME TypeOK, ReadsGarbage
  PROVE  TypeOK'
BY DEF ReadsGarbage, TypeOK, netVars, reportVars

LEMMA FreeTyped ==
  ASSUME TypeOK, FreesTemporaries
  PROVE  TypeOK'
<1>1. pc \in 1 .. Len(Handler[method]) /\ Len(Handler[method]) \in Nat
  BY CurrentIsStep DEF FreesTemporaries, At, TypeOK
<1>2. pc' \in 1 .. Len(Handler[method]) + 1
  BY <1>1 DEF FreesTemporaries
<1> QED BY <1>2 DEF FreesTemporaries, TypeOK, netVars, reportVars

LEMMA ReturnTyped ==
  ASSUME TypeOK, Returns
  PROVE  TypeOK'
<1>1. success' \in [Writes -> Nat] /\ garbled' \in [Writes -> Nat]
  BY BumpedType DEF Returns, TypeOK
<1>2. result' \in {<<r>> : r \in Results \cup {"argument"}}
  <2>1. CASE pushed = <<>>
    BY <2>1 DEF Returns
  <2>2. CASE pushed # <<>>
    <3>1. pushed \in Seq(Results) /\ Len(pushed) \in 1 .. Len(pushed)
      BY <2>2 DEF TypeOK
    <3>2. pushed[Len(pushed)] \in Results
      BY <3>1
    <3> QED BY <2>2, <3>2 DEF Returns
  <2> QED BY <2>1, <2>2
<1> QED BY <1>1, <1>2 DEF Returns, TypeOK, netVars

LEMMA StutterTyped ==
  ASSUME TypeOK, UNCHANGED vars
  PROVE  TypeOK'
BY DEF TypeOK, vars, callVars, netVars, reportVars

LEMMA StepTyped ==
  ASSUME TypeOK, [Next]_vars
  PROVE  TypeOK'
<1>1. CASE Next
  BY <1>1, StepShape, TakenTyped, BeginTyped, GarbageTyped, FreeTyped, ReturnTyped
<1> QED BY <1>1, StutterTyped

(* Every call keeps to its handler's steps and every history to its type. *)
THEOREM TypeCorrect == Spec => []TypeOK
BY InitTyped, StepTyped, PTL DEF Spec

-----------------------------------------------------------------------------
(* How far a call in progress has come.                                     *)

Progress ==
  phase = "running" =>
    /\ result = <<>>
    /\ refs = 0
    /\ \A i \in DOMAIN Handler[method] : Handler[method][i].act \in Changes =>
         /\ pc <= i => executed = 0
         /\ pc > i => executed = Len(batch)

Held ==
  phase = "running" /\ temps > 0 =>
    /\ Has(Handler[method], "makes")
    /\ \E j \in DOMAIN Handler[method] : pc <= j /\ Handler[method][j].act = "free"

(* A method that changes nothing is asked for nothing. *)
LEMMA NothingAsked ==
  ASSUME TypeOK, \A i \in DOMAIN Handler[method] : Handler[method][i].act \notin Changes
  PROVE  batch = <<>> /\ executed = 0 /\ Len(batch) = 0
<1>1. method \notin Changing
  BY DEF Changing
<1>2. Requests(method) = {<<>>}
  BY <1>1, ShapeAssumption DEF Requests
<1> QED BY <1>2 DEF TypeOK

(* Before the step that changes something nothing is executed. *)
LEMMA NothingYet ==
  ASSUME TypeOK, Progress, phase = "running", pc \in DOMAIN Handler[method],
         Current.act \notin {"push", "free"}, Current.act \notin Changes
  PROVE  executed = 0
<1>1. CASE \E i \in DOMAIN Handler[method] : Handler[method][i].act \in Changes
  <2> PICK i \in DOMAIN Handler[method] : Handler[method][i].act \in Changes
    BY <1>1
  <2>1. /\ pc <= i => executed = 0
        /\ DOMAIN Handler[method] = 1 .. Len(Handler[method]) /\ Len(Handler[method]) \in Nat
    BY CurrentIsStep DEF Progress, TypeOK
  <2>2. CASE pc > i
    <3>1. \A j \in (i + 1) .. Len(Handler[method]) : Handler[method][j].act \in {"push", "free"}
      BY ShapeAssumption DEF Shaped, TypeOK
    <3>2. pc \in (i + 1) .. Len(Handler[method])
      BY <2>1, <2>2
    <3> QED BY <3>1, <3>2 DEF Current
  <2> QED BY <2>1, <2>2
<1>2. CASE \A i \in DOMAIN Handler[method] : Handler[method][i].act \notin Changes
  BY <1>2, NothingAsked
<1> QED BY <1>1, <1>2

LEMMA NothingYetAtChange ==
  ASSUME TypeOK, Progress, phase = "running", pc \in DOMAIN Handler[method],
         Current.act \in Changes
  PROVE  executed = 0
<1>1. pc <= pc
  BY DEF TypeOK
<1> QED BY <1>1 DEF Progress, Current

(* At its end everything is. *)
LEMMA AllExecuted ==
  ASSUME TypeOK, Progress, phase = "running", pc > Len(Handler[method])
  PROVE  executed = Len(batch)
<1>1. CASE \E i \in DOMAIN Handler[method] : Handler[method][i].act \in Changes
  <2> PICK i \in DOMAIN Handler[method] : Handler[method][i].act \in Changes
    BY <1>1
  <2>1. i \in 1 .. Len(Handler[method]) /\ Len(Handler[method]) \in Nat /\ pc \in Nat
    BY HandlerAssumption DEF TypeOK
  <2>2. pc > i
    BY <2>1
  <2> QED BY <2>2 DEF Progress
<1>2. CASE \A i \in DOMAIN Handler[method] : Handler[method][i].act \notin Changes
  BY <1>2, NothingAsked
<1> QED BY <1>1, <1>2

(* Nothing goes round the end of a handler that changes something or makes
   something with new. *)
LEMMA NoWayRound ==
  ASSUME TypeOK, pc \in DOMAIN Handler[method], Leads(Current, "ends")
  PROVE  /\ ~Has(Handler[method], "makes")
         /\ \A i \in DOMAIN Handler[method] : Handler[method][i].act \notin Changes
<1>1. Has(Handler[method], "ends")
  BY DEF Has, Current
<1>2. \A i \in DOMAIN Handler[method] :
        /\ Handler[method][i].act \in Changes => ~Has(Handler[method], "ends")
        /\ Leads(Handler[method][i], "makes") => ~Has(Handler[method], "ends")
  BY ShapeAssumption DEF Shaped, TypeOK
<1> QED BY <1>1, <1>2 DEF Has

LEMMA GoesOnProgress ==
  ASSUME TypeOK, Progress, NEW o, NEW n, Taken(o, n), GoesOn(o)
  PROVE  Progress'
<1>1. /\ phase' = "running" /\ result' = <<>> /\ refs' = 0 /\ method' = method
      /\ batch' = batch /\ executed' = n
  BY DEF GoesOn, Taken, Follow, Progress
<1>2. /\ pc \in DOMAIN Handler[method] /\ pc \in Nat
      /\ DOMAIN Handler[method] = 1 .. Len(Handler[method]) /\ Len(Handler[method]) \in Nat
  BY CurrentIsStep DEF Taken, TypeOK
<1>3. SUFFICES ASSUME NEW i \in DOMAIN Handler[method], Handler[method][i].act \in Changes
               PROVE  (pc' <= i => n = 0) /\ (pc' > i => n = Len(batch))
  BY <1>1 DEF Progress
<1>4. o # "ends"
  BY <1>3, NoWayRound DEF Taken
<1>5. pc' = pc + 1 /\ i \in Nat
  BY <1>2, <1>4 DEF GoesOn
<1>6. \A j \in (i + 1) .. Len(Handler[method]) : Handler[method][j].act \in {"push", "free"}
  BY <1>3, ShapeAssumption DEF Shaped, TypeOK
<1>7. /\ pc <= i => executed = 0
      /\ pc > i => executed = Len(batch)
  BY <1>3 DEF Progress, Taken
<1>8. CASE pc < i
  <2>1. Current.act \notin Changes
    <3>1. SUFFICES ASSUME Current.act \in Changes PROVE FALSE
      OBVIOUS
    <3>2. \A j \in (pc + 1) .. Len(Handler[method]) : Handler[method][j].act \in {"push", "free"}
      BY <1>2, <3>1, ShapeAssumption DEF Shaped, TypeOK, Current
    <3>3. i \in (pc + 1) .. Len(Handler[method])
      BY <1>2, <1>8
    <3> QED BY <1>3, <3>2, <3>3 DEF Changes
  <2>2. n = executed
    BY <2>1 DEF Taken, ChangeFacts
  <2> QED BY <1>2, <1>5, <1>7, <1>8, <2>2
<1>9. CASE pc = i
  <2>1. Current.act \in Changes
    BY <1>3, <1>9 DEF Current
  <2>2. o = "goes"
    BY <2>1 DEF Taken, ChangeFacts, GoesOn, Going
  <2>3. n = Len(batch)
    BY <2>1, <2>2 DEF Taken, ChangeFacts
  <2> QED BY <1>2, <1>5, <1>9, <2>3
<1>10. CASE pc > i
  <2>1. pc \in (i + 1) .. Len(Handler[method])
    BY <1>2, <1>10
  <2>2. Current.act \in {"push", "free"}
    BY <1>6, <2>1 DEF Current
  <2>3. n = executed
    BY <2>2 DEF Taken, ChangeFacts, Changes
  <2> QED BY <1>2, <1>5, <1>7, <1>10, <2>3
<1> QED BY <1>2, <1>5, <1>8, <1>9, <1>10

LEMMA GoesOnHeld ==
  ASSUME TypeOK, Held, NEW o, NEW n, Taken(o, n), GoesOn(o)
  PROVE  Held'
<1>1. phase' = "running" /\ method' = method /\ phase = "running"
  BY DEF GoesOn, Taken, Follow
<1>2. /\ pc \in DOMAIN Handler[method] /\ pc \in Nat
      /\ DOMAIN Handler[method] = 1 .. Len(Handler[method]) /\ Len(Handler[method]) \in Nat
  BY CurrentIsStep DEF Taken, TypeOK
<1>3. SUFFICES ASSUME temps' > 0
               PROVE  /\ Has(Handler[method], "makes")
                      /\ \E j \in DOMAIN Handler[method] : pc' <= j /\ Handler[method][j].act = "free"
  BY <1>1 DEF Held
<1>4. CASE o = "makes"
  <2>1. Leads(Handler[method][pc], "makes") /\ pc' = pc + 1
    BY <1>4 DEF Taken, Current, GoesOn
  <2>2. \E j \in (pc + 1) .. Len(Handler[method]) : Handler[method][j].act = "free"
    BY <1>2, <2>1, ShapeAssumption DEF Shaped, TypeOK
  <2>3. PICK j \in (pc + 1) .. Len(Handler[method]) : Handler[method][j].act = "free"
    BY <2>2
  <2>4. j \in DOMAIN Handler[method] /\ pc' <= j
    BY <1>2, <2>1, <2>3
  <2> QED BY <1>2, <2>1, <2>3, <2>4 DEF Has
<1>5. CASE o # "makes"
  <2>1. temps > 0
    BY <1>3, <1>5 DEF GoesOn
  <2>2. PICK j \in DOMAIN Handler[method] : pc <= j /\ Handler[method][j].act = "free"
    BY <1>1, <2>1 DEF Held
  <2>3. Has(Handler[method], "makes")
    BY <1>1, <2>1 DEF Held
  <2>4. o # "ends"
    BY <2>3, NoWayRound DEF Taken
  <2>5. pc # j
    BY <2>2 DEF Taken, Current
  <2>6. pc' <= j
    BY <1>2, <2>2, <2>4, <2>5 DEF GoesOn
  <2> QED BY <2>2, <2>3, <2>6
<1> QED BY <1>4, <1>5

-----------------------------------------------------------------------------
(* The accounts.                                                            *)

Share(w, S) == IF w \in S THEN 1 ELSE 0

(* What the call in progress has executed and not yet reported. *)
Part == IF swapped \/ phase # "running" THEN {} ELSE Elements(SubSeq(batch, 1, executed))

Accounts ==
  \A w \in Writes :
    /\ success[w] + Share(w, Part) <= count[w] + garbled[w]
    /\ phase # "dead" => /\ count[w] <= success[w] + failure[w] + Share(w, Part)
                        /\ count[w] <= success[w] + doubts + Share(w, Part)
    /\ phase = "dead" => count[w] <= success[w] + failure[w] + 1

DoubtsBounded == doubts + (IF failed THEN 0 ELSE 1) <= connections + cuts

IInv ==
  /\ TypeOK
  /\ Progress
  /\ Held
  /\ Accounts
  /\ DoubtsBounded
  /\ SuccessLeavesNothing

LEMMA Histories ==
  ASSUME TypeOK, NEW w \in Writes
  PROVE  /\ count[w] \in Nat /\ success[w] \in Nat /\ failure[w] \in Nat
         /\ garbled[w] \in Nat /\ doubts \in Nat
BY DEF TypeOK

(* What a step counts: the part executed before it is empty unless nothing more
   is executed by it. *)
LEMMA TakenCounts ==
  ASSUME TypeOK, Progress, NEW o, NEW n, Taken(o, n), NEW w \in Writes
  PROVE  LET p == Elements(SubSeq(batch, 1, n)) IN
         /\ p \subseteq Elements(batch)
         /\ n = 0 => p = {}
         /\ \/ count'[w] = count[w] + Share(w, p) /\ Part = {} /\ swapped' = swapped /\ ~swapped
            \/ count'[w] = count[w] /\ Part = {} /\ (swapped' \/ p = {})
            \/ count'[w] = count[w] /\ swapped' = swapped /\ Part = (IF swapped THEN {} ELSE p)
                 /\ o = "goes"
<1> DEFINE p == Elements(SubSeq(batch, 1, n))
<1>1. batch \in Seq(Writes) /\ n \in 0 .. Len(batch) /\ 0 \in 0 .. Len(batch)
  BY RequestsAreSequences DEF Taken, TypeOK
<1>2. p \subseteq Elements(batch) /\ (n = 0 => p = {})
  BY <1>1, PrefixElements
<1>3. Elements(SubSeq(batch, 1, 0)) = {}
  BY <1>1, PrefixElements
<1>4. phase = "running" /\ pc \in DOMAIN Handler[method] /\ Current.act # "free"
  BY DEF Taken
<1>5. CASE Current.act \in Changes
  <2>1. executed = 0
    BY <1>4, <1>5, NothingYetAtChange
  <2>2. Part = {} /\ swapped' = swapped
    BY <1>3, <1>5, <2>1 DEF Part, Taken, ChangeFacts
  <2>3. Executes(n)
    BY <1>5 DEF Taken, ChangeFacts
  <2>4. CASE swapped
    BY <1>2, <2>2, <2>3, <2>4 DEF Executes
  <2>5. CASE ~swapped
    <3>1. count' = Bumped(count, SubSeq(batch, 1, n))
      BY <2>3, <2>5 DEF Executes
    <3>2. count \in [Writes -> Nat]
      BY DEF TypeOK
    <3>3. count'[w] = (IF w \in p THEN count[w] + 1 ELSE count[w])
      BY <3>1, <3>2, BumpedType
    <3> HIDE DEF p
    <3>4. count'[w] = count[w] + Share(w, p)
      BY <3>2, <3>3 DEF Share
    <3> QED BY <1>2, <2>2, <2>5, <3>4 DEF p
  <2> QED BY <2>4, <2>5 DEF TypeOK
<1>6. CASE Current.act \notin Changes
  <2>1. n = executed /\ count' = count
    BY <1>6 DEF Taken, ChangeFacts
  <2>2. CASE Current.act = "push"
    <3>1. o = "goes" /\ swapped' = swapped
      BY <1>6, <2>2 DEF Taken, ChangeFacts
    <3>2. Part = IF swapped THEN {} ELSE p
      BY <1>4, <2>1 DEF Part
    <3> QED BY <1>2, <2>1, <3>1, <3>2
  <2>3. CASE Current.act # "push"
    <3>1. executed = 0
      BY <1>4, <1>6, <2>3, NothingYet
    <3>2. Part = {}
      BY <1>3, <3>1 DEF Part
    <3> QED BY <1>2, <2>1, <3>1, <3>2
  <2> QED BY <2>2, <2>3
<1> QED BY <1>5, <1>6

LEMMA GoesOnCounts ==
  ASSUME TypeOK, Progress, Accounts, NEW o, NEW n, Taken(o, n), GoesOn(o)
  PROVE  Accounts'
<1> SUFFICES ASSUME NEW w \in Writes
             PROVE  /\ success'[w] + Share(w, Part') <= count'[w] + garbled'[w]
                    /\ count'[w] <= success'[w] + failure'[w] + Share(w, Part')
                    /\ count'[w] <= success'[w] + doubts' + Share(w, Part')
                    /\ phase' # "dead"
  BY DEF Accounts, Share
<1> DEFINE p == Elements(SubSeq(batch, 1, n))
<1>1. /\ phase = "running" /\ phase' = "running" /\ batch' = batch /\ executed' = n
      /\ UNCHANGED <<success, failure, garbled, doubts>>
  BY DEF GoesOn, Taken, Follow, reportVars
<1>2. Part' = IF swapped' THEN {} ELSE p
  BY <1>1 DEF Part
<1>3. \/ count'[w] = count[w] + Share(w, p) /\ Part = {} /\ swapped' = swapped /\ ~swapped
      \/ count'[w] = count[w] /\ Part = {} /\ (swapped' \/ p = {})
      \/ count'[w] = count[w] /\ swapped' = swapped /\ Part = (IF swapped THEN {} ELSE p)
  BY TakenCounts
<1> HIDE DEF p
<1>4. \/ count'[w] = count[w] + Share(w, Part') /\ Share(w, Part) = 0
      \/ count'[w] = count[w] /\ Share(w, Part') = Share(w, Part)
  BY <1>2, <1>3 DEF Share
<1>5. /\ success[w] + Share(w, Part) <= count[w] + garbled[w]
      /\ count[w] <= success[w] + failure[w] + Share(w, Part)
      /\ count[w] <= success[w] + doubts + Share(w, Part)
  BY <1>1 DEF Accounts
<1>6. Share(w, Part) \in Nat /\ Share(w, Part') \in Nat
  BY DEF Share
<1> QED BY <1>1, <1>4, <1>5, <1>6, Histories

LEMMA FailsCounts ==
  ASSUME TypeOK, Progress, Accounts, NEW o, NEW n, Taken(o, n), Fails(o, n)
  PROVE  Accounts'
<1> SUFFICES ASSUME NEW w \in Writes
             PROVE  /\ success'[w] + Share(w, Part') <= count'[w] + garbled'[w]
                    /\ count'[w] <= success'[w] + failure'[w] + Share(w, Part')
                    /\ count'[w] <= success'[w] + doubts' + Share(w, Part')
                    /\ phase' # "dead"
  BY DEF Accounts, Share
<1> DEFINE p == Elements(SubSeq(batch, 1, n))
<1>1. /\ phase = "running" /\ phase' = "over" /\ UNCHANGED <<success, garbled>>
      /\ failure' = Bumped(failure, batch)
      /\ doubts' = IF n > 0 THEN doubts + 1 ELSE doubts
      /\ o # "goes"
  BY DEF Fails, Taken, Reported, Going
<1>2. Part' = {}
  BY <1>1 DEF Part
<1>3. /\ p \subseteq Elements(batch)
      /\ n = 0 => p = {}
      /\ \/ count'[w] = count[w] + Share(w, p) /\ Part = {}
         \/ count'[w] = count[w] /\ Part = {}
  BY <1>1, TakenCounts
<1>4. failure'[w] = IF w \in Elements(batch) THEN failure[w] + 1 ELSE failure[w]
  <2>1. failure \in [Writes -> Nat]
    BY DEF TypeOK
  <2> QED BY <1>1, <2>1, BumpedType
<1> HIDE DEF p
<1>5. failure'[w] >= failure[w] + Share(w, p)
  BY <1>3, <1>4, Histories DEF Share
<1>6. n \in Nat
  BY RequestsAreSequences DEF Taken, TypeOK
<1>7. doubts' >= doubts + Share(w, p) /\ doubts' \in Nat /\ failure'[w] \in Nat
  BY <1>1, <1>3, <1>4, <1>6, Histories DEF Share
<1>8. /\ success[w] + Share(w, Part) <= count[w] + garbled[w]
      /\ count[w] <= success[w] + failure[w] + Share(w, Part)
      /\ count[w] <= success[w] + doubts + Share(w, Part)
  BY <1>1 DEF Accounts
<1>9. /\ Share(w, Part') = 0 /\ Share(w, Part) = 0 /\ Share(w, p) \in Nat
      /\ count'[w] = count[w] \/ count'[w] = count[w] + Share(w, p)
  BY <1>2, <1>3 DEF Share
<1> QED BY <1>1, <1>5, <1>7, <1>8, <1>9, Histories

(* A call that ends without a report, at a step that did not go on. *)
LEMMA StopsCount ==
  ASSUME TypeOK, Progress, Accounts, NEW o, NEW n, Taken(o, n), LuaError(o) \/ Escapes(o)
  PROVE  Accounts'
<1> SUFFICES ASSUME NEW w \in Writes
             PROVE  /\ success'[w] + Share(w, Part') <= count'[w] + garbled'[w]
                    /\ phase' # "dead" => /\ count'[w] <= success'[w] + failure'[w] + Share(w, Part')
                                         /\ count'[w] <= success'[w] + doubts' + Share(w, Part')
                    /\ phase' = "dead" => count'[w] <= success'[w] + failure'[w] + 1
  BY DEF Accounts, Share
<1> DEFINE p == Elements(SubSeq(batch, 1, n))
<1>1. /\ phase = "running" /\ UNCHANGED <<success, failure, garbled, doubts>>
      /\ phase' = "over" \/ phase' = "dead"
      /\ o # "goes"
      /\ phase' = "over" => o = "lua"
  BY DEF LuaError, Escapes, Taken, reportVars, Going
<1>2. Part' = {}
  BY <1>1 DEF Part
<1>3. /\ Part = {}
      /\ count'[w] = count[w] \/ count'[w] = count[w] + Share(w, p)
  BY <1>1, TakenCounts
<1>4. phase' = "over" => count'[w] = count[w]
  BY <1>1 DEF Taken, ChangeFacts
<1> HIDE DEF p
<1>5. /\ success[w] + Share(w, Part) <= count[w] + garbled[w]
      /\ count[w] <= success[w] + failure[w] + Share(w, Part)
      /\ count[w] <= success[w] + doubts + Share(w, Part)
  BY <1>1 DEF Accounts
<1>6. Share(w, {}) = 0 /\ Share(w, p) \in {0, 1}
  BY DEF Share
<1> QED BY <1>1, <1>2, <1>3, <1>4, <1>5, <1>6, Histories

LEMMA ReturnCounts ==
  ASSUME TypeOK, Progress, Accounts, Returns
  PROVE  Accounts'
<1> SUFFICES ASSUME NEW w \in Writes
             PROVE  /\ success'[w] + Share(w, Part') <= count'[w] + garbled'[w]
                    /\ count'[w] <= success'[w] + failure'[w] + Share(w, Part')
                    /\ count'[w] <= success'[w] + doubts' + Share(w, Part')
                    /\ phase' # "dead"
  BY DEF Accounts, Share
<1>1. /\ phase = "running" /\ phase' = "over" /\ UNCHANGED <<failure, doubts, count>>
      /\ pc > Len(Handler[method])
      /\ success' = Bumped(success, batch)
      /\ garbled' = IF swapped THEN Bumped(garbled, batch) ELSE garbled
  BY DEF Returns, netVars
<1>2. Part' = {}
  BY <1>1 DEF Part
<1>3. batch \in Seq(Writes) /\ Len(batch) \in 0 .. Len(batch)
  BY RequestsAreSequences DEF TypeOK
<1>4. Part = IF swapped THEN {} ELSE Elements(batch)
  BY <1>1, <1>3, AllExecuted, PrefixElements DEF Part
<1> DEFINE e == Share(w, Elements(batch))
<1>5. success'[w] = success[w] + e
  <2>1. success \in [Writes -> Nat]
    BY DEF TypeOK
  <2> QED BY <1>1, <2>1, BumpedType DEF Share
<1>6. garbled'[w] = IF swapped THEN garbled[w] + e ELSE garbled[w]
  <2>1. garbled \in [Writes -> Nat]
    BY DEF TypeOK
  <2> QED BY <1>1, <2>1, BumpedType DEF Share
<1>7. /\ success[w] + Share(w, Part) <= count[w] + garbled[w]
      /\ count[w] <= success[w] + failure[w] + Share(w, Part)
      /\ count[w] <= success[w] + doubts + Share(w, Part)
  BY <1>1 DEF Accounts
<1>8. e \in Nat /\ Share(w, Part') = 0 /\ Share(w, Part) = IF swapped THEN 0 ELSE e
  BY <1>2, <1>4 DEF Share
<1> HIDE DEF e
<1>9. /\ count'[w] = count[w] /\ failure'[w] = failure[w] /\ doubts' = doubts /\ phase' # "dead"
  BY <1>1
<1>10. CASE swapped
  BY <1>5, <1>6, <1>7, <1>8, <1>9, <1>10, Histories
<1>11. CASE ~swapped
  BY <1>5, <1>6, <1>7, <1>8, <1>9, <1>11, Histories
<1> QED BY <1>10, <1>11

LEMMA BeginCounts ==
  ASSUME TypeOK, Accounts, NEW m \in Methods, NEW b \in Requests(m), Begin(m, b)
  PROVE  Accounts'
<1>1. /\ phase # "dead" /\ phase # "running" /\ phase' = "running" /\ executed' = 0 /\ batch' = b
      /\ UNCHANGED <<success, failure, garbled, doubts, count>>
  BY DEF Begin, netVars, reportVars
<1>2. b \in Seq(Writes) /\ 0 \in 0 .. Len(b)
  BY RequestsAreSequences
<1>3. Elements(SubSeq(b, 1, 0)) = {}
  BY <1>2, PrefixElements
<1>4. Part' = {} /\ Part = {}
  BY <1>1, <1>3 DEF Part
<1> QED BY <1>1, <1>4 DEF Accounts, Share

LEMMA FreeCounts ==
  ASSUME TypeOK, Accounts, FreesTemporaries \/ UNCHANGED vars
  PROVE  Accounts'
<1>1. UNCHANGED <<phase, batch, executed, swapped, success, failure, garbled, doubts, count>>
  BY DEF FreesTemporaries, vars, callVars, netVars, reportVars
<1>2. Part' = Part
  BY <1>1 DEF Part
<1> QED BY <1>1, <1>2 DEF Accounts, Share

LEMMA GarbageCounts ==
  ASSUME TypeOK, Progress, Accounts, ReadsGarbage
  PROVE  Accounts'
<1>1. /\ phase = "running" /\ phase' = "dead"
      /\ UNCHANGED <<success, failure, garbled, doubts, count>>
  BY DEF ReadsGarbage, At, netVars, reportVars
<1>2. Part' = {}
  BY <1>1 DEF Part
<1> SUFFICES ASSUME NEW w \in Writes
             PROVE  /\ success[w] <= count[w] + garbled[w]
                    /\ count[w] <= success[w] + failure[w] + 1
  <2>1. \A w \in Writes : success[w] + Share(w, {}) = success[w]
    BY Histories DEF Share
  <2> QED BY <1>1, <1>2, <2>1 DEF Accounts, Share
<1>3. Share(w, Part) \in {0, 1}
  BY DEF Share
<1> QED BY <1>1, <1>3, Histories DEF Accounts

-----------------------------------------------------------------------------
(* Doubts.                                                                  *)

LEMMA TakenDoubts ==
  ASSUME TypeOK, Progress, DoubtsBounded, NEW o, NEW n, Taken(o, n)
  PROVE  DoubtsBounded'
<1>x. PICK x \in Nat : x = IF failed THEN 0 ELSE 1
  OBVIOUS
<1>y. PICK y \in Nat : y = IF failed' THEN 0 ELSE 1
  OBVIOUS
<1>1. /\ connections + y <= connections' + x
      /\ Current.act \in Changes /\ n > 0 /\ failed' /\ o # "goes" =>
           connections + 1 <= connections' + x
  BY <1>x, <1>y DEF Taken, WireFacts
<1>2. /\ connections \in Nat /\ connections' \in Nat /\ doubts \in Nat /\ cuts \in Nat
  BY DEF TypeOK, Taken, OtherTypes
<1>c. connections + y <= connections' + x
  BY <1>1
<1>d. /\ Current.act \in Changes /\ n > 0 /\ failed' /\ o # "goes" =>
           connections + 1 <= connections' + x
      /\ failed' => y = 0
  BY <1>1, <1>y
<1>a. doubts + x <= connections + cuts
  BY <1>x DEF DoubtsBounded
<1>b. SUFFICES doubts' + y <= connections' + cuts'
  BY <1>y DEF DoubtsBounded
(* The arithmetic, over numbers. *)
<1>k. PICK c \in Nat, c1 \in Nat, d \in Nat, k \in Nat :
        c = connections /\ c1 = connections' /\ d = doubts /\ k = cuts
  BY <1>2
<1>f. d + x <= c + k /\ c + y <= c1 + x
  BY <1>a, <1>c, <1>k
<1>3. CASE doubts' = doubts /\ cuts' = cuts
  <2>1. d + y <= c1 + k
    BY <1>f
  <2> QED BY <1>k, <1>3, <2>1
<1>4. CASE Fails(o, n) /\ n > 0
  <2>1. doubts' = doubts + 1 /\ cuts' = (IF ~failed' THEN cuts + 1 ELSE cuts) /\ o # "goes"
    BY <1>4 DEF Fails, Reported, Going
  <2>2. Current.act \in Changes
    <3>1. SUFFICES ASSUME Current.act \notin Changes PROVE FALSE
      OBVIOUS
    <3>2. n = executed /\ executed = 0
      BY <2>1, <3>1, NothingYet DEF Taken, ChangeFacts
    <3> QED BY <1>4, <3>2
  <2>3. CASE failed'
    <3>1. c + 1 <= c1 + x /\ y = 0
      BY <1>4, <1>d, <1>k, <2>1, <2>2, <2>3
    <3>2. doubts' = d + 1 /\ cuts' = k
      BY <1>k, <2>1, <2>3
    <3>3. (d + 1) + y <= c1 + k
      BY <1>f, <3>1
    <3> QED BY <1>k, <3>2, <3>3
  <2>4. CASE ~failed'
    <3>1. doubts' = d + 1 /\ cuts' = k + 1
      BY <1>k, <2>1, <2>4
    <3>2. (d + 1) + y <= c1 + (k + 1)
      BY <1>f
    <3> QED BY <1>k, <3>1, <3>2
  <2> QED BY <2>3, <2>4
<1>5. CASE Fails(o, n) /\ ~(n > 0)
  BY <1>3, <1>5 DEF Fails
<1>6. CASE GoesOn(o) \/ LuaError(o) \/ Escapes(o)
  BY <1>3, <1>6 DEF GoesOn, LuaError, Escapes, reportVars
<1> QED BY <1>4, <1>5, <1>6 DEF Taken, Follow

-----------------------------------------------------------------------------
(* The invariant.                                                           *)

LEMMA TakenPreserves ==
  ASSUME IInv, NEW o, NEW n, Taken(o, n)
  PROVE  IInv'
<1> USE DEF IInv
<1>1. TypeOK' /\ DoubtsBounded'
  BY TakenTyped, TakenDoubts
<1>2. CASE GoesOn(o)
  <2>1. phase' = "running"
    BY <1>2 DEF GoesOn, Taken
  <2>2. SuccessLeavesNothing'
    BY <2>1 DEF SuccessLeavesNothing, Succeeded
  <2> QED BY <1>1, <1>2, <2>2, GoesOnProgress, GoesOnHeld, GoesOnCounts
<1>3. CASE Fails(o, n)
  <2>1. phase' = "over" /\ Len(result') = 2
    BY <1>3 DEF Fails
  <2>2. Progress' /\ Held' /\ SuccessLeavesNothing'
    BY <2>1 DEF Progress, Held, SuccessLeavesNothing, Succeeded
  <2> QED BY <1>1, <1>3, <2>2, FailsCounts
<1>4. CASE LuaError(o) \/ Escapes(o)
  <2>1. phase' \in {"over", "dead"} /\ result' = <<>>
    BY <1>4 DEF LuaError, Escapes, Taken, Progress
  <2>2. Len(result') = 0
    BY <2>1
  <2>3. Progress' /\ Held' /\ SuccessLeavesNothing'
    BY <2>1, <2>2 DEF Progress, Held, SuccessLeavesNothing, Succeeded
  <2> QED BY <1>1, <1>4, <2>3, StopsCount
<1> QED BY <1>2, <1>3, <1>4 DEF Taken, Follow

LEMMA BeginPreserves ==
  ASSUME IInv, NEW m \in Methods, NEW b \in Requests(m), Begin(m, b)
  PROVE  IInv'
<1> USE DEF IInv
<1>1. TypeOK' /\ Accounts'
  BY BeginTyped, BeginCounts
<1>2. /\ phase' = "running" /\ method' = m /\ pc' = 1 /\ executed' = 0 /\ temps' = 0
      /\ refs' = 0 /\ result' = <<>> /\ UNCHANGED <<doubts, failed, connections, cuts>>
  BY DEF Begin, netVars, reportVars
<1>3. \A i \in DOMAIN Handler[m] : i >= 1 /\ i \in Nat
  BY HandlerAssumption
<1>4. Progress'
  BY <1>2, <1>3 DEF Progress
<1>5. Held' /\ DoubtsBounded' /\ SuccessLeavesNothing'
  BY <1>2 DEF Held, DoubtsBounded, SuccessLeavesNothing, Succeeded
<1> QED BY <1>1, <1>4, <1>5

LEMMA FreePreserves ==
  ASSUME IInv, FreesTemporaries
  PROVE  IInv'
<1> USE DEF IInv
<1>1. TypeOK' /\ Accounts'
  BY FreeTyped, FreeCounts
<1>2. /\ phase = "running" /\ phase' = phase /\ pc' = pc + 1 /\ temps' = 0
      /\ UNCHANGED <<method, batch, executed, refs, result, doubts, failed, connections, cuts>>
      /\ pc \in DOMAIN Handler[method] /\ Current.act = "free"
  BY DEF FreesTemporaries, At, netVars, reportVars
<1>3. DOMAIN Handler[method] = 1 .. Len(Handler[method]) /\ Len(Handler[method]) \in Nat
  BY HandlerAssumption DEF TypeOK
<1>4. Handler[method][pc].act \notin Changes
  BY <1>2 DEF Current, Changes
<1>5. Progress'
  <2>1. SUFFICES ASSUME NEW i \in DOMAIN Handler[method], Handler[method][i].act \in Changes
                 PROVE  (pc + 1 <= i => executed = 0) /\ (pc + 1 > i => executed = Len(batch))
    BY <1>2 DEF Progress
  <2>2. i # pc /\ i \in Nat /\ pc \in Nat
    BY <1>2, <1>3, <1>4, <2>1
  <2> QED BY <1>2, <2>1, <2>2 DEF Progress
<1>6. Held' /\ DoubtsBounded' /\ SuccessLeavesNothing'
  BY <1>2 DEF Held, DoubtsBounded, SuccessLeavesNothing, Succeeded
<1> QED BY <1>1, <1>5, <1>6

LEMMA GarbagePreserves ==
  ASSUME IInv, ReadsGarbage
  PROVE  IInv'
<1> USE DEF IInv
<1>1. TypeOK' /\ Accounts'
  BY GarbageTyped, GarbageCounts
<1>2. phase' = "dead" /\ UNCHANGED <<doubts, failed, connections, cuts>>
  BY DEF ReadsGarbage, netVars, reportVars
<1> QED BY <1>1, <1>2 DEF Progress, Held, DoubtsBounded, SuccessLeavesNothing, Succeeded

LEMMA ReturnPreserves ==
  ASSUME IInv, Returns
  PROVE  IInv'
<1> USE DEF IInv
<1>1. TypeOK' /\ Accounts'
  BY ReturnTyped, ReturnCounts
<1>2. /\ phase = "running" /\ phase' = "over" /\ pc > Len(Handler[method])
      /\ UNCHANGED <<temps, refs, doubts, failed, connections, cuts>>
  BY DEF Returns, netVars
<1>3. temps = 0
  <2>1. SUFFICES ASSUME temps > 0 PROVE FALSE
    BY DEF TypeOK
  <2>2. PICK j \in DOMAIN Handler[method] : pc <= j
    BY <1>2, <2>1 DEF Held
  <2>3. j \in 1 .. Len(Handler[method]) /\ Len(Handler[method]) \in Nat /\ pc \in Nat
    BY HandlerAssumption DEF TypeOK
  <2> QED BY <1>2, <2>2, <2>3
<1>4. temps' = 0 /\ refs' = 0
  BY <1>2, <1>3 DEF Progress
<1> QED BY <1>1, <1>2, <1>4 DEF Progress, Held, DoubtsBounded, SuccessLeavesNothing

LEMMA InitInvariant ==
  ASSUME Init
  PROVE  IInv
<1>1. TypeOK
  BY InitTyped
<1>2. Progress /\ Held /\ DoubtsBounded /\ SuccessLeavesNothing
  BY DEF Init, Progress, Held, DoubtsBounded, SuccessLeavesNothing, Succeeded
<1>3. Part = {}
  BY DEF Init, Part
<1>4. Accounts
  BY <1>3 DEF Init, Accounts, Share, Zero
<1> QED BY <1>1, <1>2, <1>4 DEF IInv

LEMMA StepInvariant ==
  ASSUME IInv, [Next]_vars
  PROVE  IInv'
<1>1. CASE Next
  <2>1. TypeOK
    BY DEF IInv
  <2> QED BY <1>1, <2>1, StepShape, TakenPreserves, BeginPreserves, GarbagePreserves,
             FreePreserves, ReturnPreserves
<1>2. CASE UNCHANGED vars
  <2>1. TypeOK' /\ Accounts'
    BY <1>2, StutterTyped, FreeCounts DEF IInv
  <2>2. UNCHANGED <<phase, method, pc, batch, executed, temps, refs, result, doubts, failed,
                    connections, cuts>>
    BY <1>2 DEF vars, callVars, netVars, reportVars
  <2>3. Progress' /\ Held' /\ DoubtsBounded' /\ SuccessLeavesNothing'
    BY <2>2 DEF IInv, Progress, Held, DoubtsBounded, SuccessLeavesNothing, Succeeded
  <2> QED BY <2>1, <2>3 DEF IInv
<1> QED BY <1>1, <1>2

LEMMA InvariantReports ==
  ASSUME IInv
  PROVE  ReportsMatchExecutions
<1> SUFFICES ASSUME NEW w \in Writes
             PROVE  /\ success[w] <= count[w] + garbled[w]
                    /\ count[w] <= success[w] + failure[w]
                                    + (IF phase \in {"running", "dead"} THEN 1 ELSE 0)
  BY DEF ReportsMatchExecutions
<1>1. /\ success[w] + Share(w, Part) <= count[w] + garbled[w]
      /\ phase # "dead" => count[w] <= success[w] + failure[w] + Share(w, Part)
      /\ phase = "dead" => count[w] <= success[w] + failure[w] + 1
  BY DEF IInv, Accounts
<1>2. Share(w, Part) \in {0, 1} /\ (phase # "running" => Share(w, Part) = 0)
  BY DEF Share, Part
<1>3. /\ count[w] \in Nat /\ success[w] \in Nat /\ failure[w] \in Nat /\ garbled[w] \in Nat
  BY Histories DEF IInv
<1> QED BY <1>1, <1>2, <1>3

LEMMA InvariantDoubts ==
  ASSUME IInv
  PROVE  OneDoubtPerConnection
<1>1. SUFFICES ASSUME phase = "over", NEW w \in Writes
               PROVE  count[w] <= success[w] + doubts
  BY DEF OneDoubtPerConnection, IInv, DoubtsBounded
<1>2. count[w] <= success[w] + doubts + Share(w, Part)
  BY <1>1 DEF IInv, Accounts
<1>3. Share(w, Part) = 0
  BY <1>1 DEF Share, Part
<1>4. count[w] \in Nat /\ success[w] \in Nat /\ doubts \in Nat
  BY Histories DEF IInv
<1> QED BY <1>2, <1>3, <1>4

(* The strengthening of the three properties below is an invariant. *)
THEOREM InvariantHolds == Spec => []IInv
BY InitInvariant, StepInvariant, PTL DEF Spec

(* Whatever the handlers, as long as they have the shape assumed: a reported
   success was executed, unless a batch was swapped, and nothing is executed more
   often than it was asked for. *)
THEOREM ReportsMatch == Spec => []ReportsMatchExecutions
BY InvariantHolds, InvariantReports, PTL

(* Each connection leaves at most one write in doubt. *)
THEOREM OneDoubt == Spec => []OneDoubtPerConnection
BY InvariantHolds, InvariantDoubts, PTL

(* A call that succeeded leaves neither documents nor registry references. *)
THEOREM SuccessLeavesNothingBehind == Spec => []SuccessLeavesNothing
<1>1. IInv => SuccessLeavesNothing
  BY DEF IInv
<1> QED BY <1>1, InvariantHolds, PTL
=============================================================================
