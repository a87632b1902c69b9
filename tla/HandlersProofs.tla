--------------------------- MODULE HandlersProofs ---------------------------
(***************************************************************************)
(* Theorems about the handlers of luamongo, for any writes and any number  *)
(* of calls: which of them can end the process, leak, return an argument   *)
(* of the script or refuse a missing one.                                  *)
(*                                                                         *)
(* What a call came to is traced back to a step its handler took (Traced,  *)
(* for any handlers), and the steps of every method are looked through for *)
(* one that could have led there.                                          *)
(***************************************************************************)
EXTENDS MCCalls, CallsProofs

-----------------------------------------------------------------------------
(* What the end of a call says of the steps it took.                        *)

(* A step that can throw what its try block does not catch. *)
Uncaught(s) ==
  \E o \in Outcomes : /\ Leads(s, o)
                      /\ o \notin Going \cup {"lua", "nil", "false", "stale"}
                      /\ s.try[Thrown(o)] = "escapes"

Ended == phase = "dead" /\ ~swapped => pc \in DOMAIN Handler[method] /\ Uncaught(Current)

(* The argument refused is one that a step looked at and did not go on with. *)
Refuses(s, p, k) ==
  s.act = "arg" /\ s.pos = p /\ k \in DOMAIN s.of /\ ~(s.of[k] \subseteq Going)

Refused ==
  refusal # <<>> =>
    \E i \in DOMAIN Handler[method] : Refuses(Handler[method][i], refusal[1], refusal[2])

Stale == "stale" \in Elements(result) => Has(Handler[method], "stale")

(* No step before i is sure to push something. *)
Silent(h, i) == \A j \in DOMAIN h : j < i /\ h[j].act = "push" => "nothing" \in DOMAIN h[j].of

Pushing ==
  ~Has(Handler[method], "ends") =>
    /\ phase = "running" /\ pushed = <<>> => Silent(Handler[method], pc)
    /\ phase = "over" /\ result = <<"argument">> =>
         Silent(Handler[method], Len(Handler[method]) + 1)

(* What is left of what a step made was there when a later one failed. *)
MadeBefore(h, i) == \E j \in DOMAIN h : j < i /\ Leads(h[j], "makes")

Leaving(o) ==
  /\ Leads(Current, o)
  /\ \/ o = "lua" /\ result = <<>>
     \/ /\ Reported(o) /\ ~Current.tidy
        /\ result = <<Verdict(o), IF o = "stale" THEN "stale" ELSE "message">>

Making ==
  temps > 0 =>
    /\ phase = "running" => MadeBefore(Handler[method], pc)
    /\ phase = "over" => /\ pc \in DOMAIN Handler[method]
                         /\ MadeBefore(Handler[method], pc)
                         /\ \E o \in Outcomes : Leaving(o)

Traced == Ended /\ Refused /\ Stale /\ Pushing /\ Making

(* A call follows its handler while it goes on. *)
LEMMA Followed ==
  ASSUME TypeOK, Progress, NEW o, NEW n, Taken(o, n)
  PROVE  /\ method' = method /\ phase = "running" /\ pc \in DOMAIN Handler[method]
         /\ DOMAIN Handler[method] = 1 .. Len(Handler[method]) /\ Len(Handler[method]) \in Nat
         /\ pc \in Nat /\ result = <<>> /\ Current = Handler[method][pc]
         /\ o \in Outcomes
         /\ o # "goes" => Leads(Current, o)
BY HandlerAssumption DEF Taken, Follow, TypeOK, Progress, Current

LEMMA TakenEnded ==
  ASSUME TypeOK, Progress, NEW o, NEW n, Taken(o, n)
  PROVE  Ended'
<1>1. SUFFICES ASSUME phase' = "dead" PROVE pc' \in DOMAIN Handler[method'] /\ Uncaught(Current')
  BY DEF Ended
<1>2. Escapes(o)
  BY <1>1, Followed DEF Taken, Follow, GoesOn, Fails, LuaError
<1>3. pc' = pc /\ method' = method /\ Current' = Current
  BY <1>2, Followed DEF Escapes, Current
<1>4. /\ o \in Outcomes /\ Leads(Current, o)
      /\ o \notin Going \cup {"lua"} /\ Verdict(o) = "escapes"
  BY <1>2, Followed DEF Escapes, Going
<1>5. o \notin {"nil", "false", "stale"} /\ Current.try[Thrown(o)] = "escapes"
  BY <1>4 DEF Verdict
<1>6. Uncaught(Current)
  BY <1>4, <1>5 DEF Uncaught
<1> QED BY <1>3, <1>6, Followed

LEMMA TakenStale ==
  ASSUME TypeOK, Progress, NEW o, NEW n, Taken(o, n)
  PROVE  Stale'
<1>1. CASE Fails(o, n) /\ o = "stale"
  <2>1. Leads(Handler[method][pc], "stale")
    BY <1>1, Followed
  <2> QED BY <2>1, Followed DEF Stale, Has
<1>2. CASE Fails(o, n) /\ o # "stale"
  <2>1. result' = <<Verdict(o), "message">>
    BY <1>2 DEF Fails
  <2>2. Verdict(o) \in {"nil", "false"}
    BY <1>2, Followed, VerdictType DEF Fails, TypeOK
  <2>3. "stale" \notin Elements(result')
    BY <2>1, <2>2 DEF Elements
  <2> QED BY <2>3 DEF Stale
<1>3. CASE ~Fails(o, n)
  <2>1. result' = <<>>
    BY <1>3, Followed DEF Taken, Follow, GoesOn, LuaError, Escapes
  <2>2. "stale" \notin Elements(result')
    BY <2>1 DEF Elements
  <2> QED BY <2>2 DEF Stale
<1> QED BY <1>1, <1>2, <1>3

LEMMA TakenMaking ==
  ASSUME TypeOK, Progress, Making, NEW o, NEW n, Taken(o, n)
  PROVE  Making'
<1> SUFFICES ASSUME temps' > 0, phase' \in {"running", "over"} PROVE Making'
  BY DEF Making
<1> USE Followed
<1>1. CASE GoesOn(o)
  <2>1. phase' = "running"
    BY <1>1 DEF GoesOn
  <2>2. pc' > pc /\ pc' \in Nat
    BY <1>1 DEF GoesOn
  <2>3. CASE o = "makes"
    <3>1. Leads(Handler[method][pc], "makes")
      BY <2>3
    <3> QED BY <2>1, <2>2, <3>1 DEF Making, MadeBefore
  <2>4. CASE o # "makes"
    <3>1. temps > 0
      BY <1>1, <2>4 DEF GoesOn
    <3>2. PICK j \in DOMAIN Handler[method] : j < pc /\ Leads(Handler[method][j], "makes")
      BY <3>1 DEF Making, MadeBefore
    <3>3. j < pc'
      BY <2>2, <3>2
    <3> QED BY <2>1, <3>2, <3>3 DEF Making, MadeBefore
  <2> QED BY <2>3, <2>4
<1>2. CASE Fails(o, n)
  <2>1. /\ phase' = "over" /\ pc' = pc /\ Current' = Current
        /\ ~Current.tidy /\ temps > 0 /\ Reported(o)
        /\ result' = <<Verdict(o), IF o = "stale" THEN "stale" ELSE "message">>
    BY <1>2 DEF Fails, Current
  <2>2. MadeBefore(Handler[method], pc)
    BY <2>1 DEF Making
  <2>3. Leads(Current, o)
    BY <2>1 DEF Reported, Going
  <2>4. Verdict(o)' = Verdict(o) /\ (Reported(o)' <=> Reported(o))
    BY <2>1 DEF Verdict, Reported
  <2>5. Leaving(o)'
    BY <2>1, <2>3, <2>4 DEF Leaving
  <2> QED BY <2>1, <2>2, <2>5 DEF Making
<1>3. CASE LuaError(o)
  <2>1. /\ phase' = "over" /\ pc' = pc /\ Current' = Current
        /\ temps > 0 /\ o = "lua" /\ result' = <<>>
    BY <1>3 DEF LuaError, Current
  <2>2. MadeBefore(Handler[method], pc)
    BY <2>1 DEF Making
  <2>3. Leaving(o)'
    BY <2>1 DEF Leaving
  <2> QED BY <2>1, <2>2, <2>3 DEF Making
<1>4. CASE Escapes(o)
  BY <1>4 DEF Escapes
<1> QED BY <1>1, <1>2, <1>3, <1>4 DEF Taken, Follow

(* Only PushesResult pushes. *)
LEMMA PushOrNot ==
  ASSUME TypeOK, Next
  PROVE  \/ \E m \in Methods : \E b \in Requests(m) : Begin(m, b)
         \/ PushesResult
         \/ /\ phase = "running" /\ pushed' = pushed
            /\ pc \in DOMAIN Handler[method] /\ Current.act # "push"
            /\ (\E o, n : Taken(o, n)) \/ FreesTemporaries \/ ReadsGarbage
         \/ Returns
<1>1. CASE TakeArgument
  BY <1>1, ArgumentTaken DEF TakeArgument, At
<1>2. CASE TakeElements
  BY <1>2, ElementTaken DEF TakeElements, At
<1>3. CASE ReadsServer
  BY <1>3, ReadTaken DEF ReadsServer, At
<1>4. CASE WritesServer
  BY <1>4, WriteTaken DEF WritesServer, At
<1>5. CASE Connects
  BY <1>5, ConnectTaken DEF Connects, At
<1>6. CASE ComputesLocally
  BY <1>6, LocallyTaken DEF ComputesLocally, At
<1>7. CASE ModifiesQuery
  BY <1>7, ModifyTaken DEF ModifiesQuery, At
<1>8. CASE FreesTemporaries
  BY <1>8 DEF FreesTemporaries, At
<1>9. CASE ReadsGarbage
  BY <1>9 DEF ReadsGarbage, At
<1> QED BY <1>1, <1>2, <1>3, <1>4, <1>5, <1>6, <1>7, <1>8, <1>9 DEF Next

(* A step behind which nothing more was pushed. *)
LEMMA SilentOn ==
  ASSUME NEW m \in Methods, NEW i \in DOMAIN Handler[m], Silent(Handler[m], i),
         Handler[m][i].act = "push" => "nothing" \in DOMAIN Handler[m][i].of
  PROVE  Silent(Handler[m], i + 1)
<1>1. DOMAIN Handler[m] = 1 .. Len(Handler[m]) /\ Len(Handler[m]) \in Nat
  BY HandlerAssumption
<1>2. \A j \in DOMAIN Handler[m] : j < i + 1 => j < i \/ j = i
  BY <1>1
<1> QED BY <1>1, <1>2 DEF Silent

LEMMA TakenPushing ==
  ASSUME TypeOK, Progress, Pushing, NEW o, NEW n, Taken(o, n),
         pushed' = <<>> => /\ pushed = <<>>
                           /\ Current.act = "push" => "nothing" \in DOMAIN Current.of
  PROVE  Pushing'
<1> USE Followed
<1> SUFFICES ASSUME ~Has(Handler[method], "ends") PROVE Pushing'
  BY DEF Pushing
<1>1. CASE GoesOn(o)
  <2>1. phase' = "running"
    BY <1>1 DEF GoesOn
  <2>2. o # "ends"
    <3>1. o = "ends" => Leads(Handler[method][pc], "ends")
      OBVIOUS
    <3> QED BY <3>1 DEF Has
  <2>3. pc' = pc + 1
    BY <1>1, <2>2 DEF GoesOn
  <2>4. pushed' = <<>> => Silent(Handler[method], pc + 1)
    BY SilentOn DEF Pushing, TypeOK
  <2> QED BY <2>1, <2>3, <2>4 DEF Pushing
<1>2. CASE Fails(o, n)
  <2>1. phase' = "over" /\ Len(result') = 2
    BY <1>2 DEF Fails
  <2>2. result' # <<"argument">>
    BY <2>1
  <2> QED BY <2>1, <2>2 DEF Pushing
<1>3. CASE LuaError(o) \/ Escapes(o)
  <2>1. phase' # "running" /\ result' = <<>>
    BY <1>3 DEF LuaError, Escapes
  <2>2. result' # <<"argument">>
    BY <2>1
  <2> QED BY <2>1, <2>2 DEF Pushing
<1> QED BY <1>1, <1>2, <1>3 DEF Taken, Follow

LEMMA PushPushing ==
  ASSUME TypeOK, Progress, Pushing, PushesResult
  PROVE  Pushing'
<1>1. PICK o, n : Taken(o, n)
  BY PushTaken
<1>2. PICK r \in DOMAIN Current.of : pushed' = IF r = "nothing" THEN pushed ELSE Append(pushed, r)
  BY DEF PushesResult
<1>3. pushed \in Seq(Results) /\ r \in Results
  <2>1. method \in Methods /\ pc \in DOMAIN Handler[method] /\ Current.act = "push"
    BY DEF PushesResult, At, TypeOK
  <2> QED BY <2>1, CurrentIsStep DEF Shaped, Current, TypeOK
<1>4. pushed' = <<>> => r = "nothing" /\ pushed = <<>>
  <2>1. Len(Append(pushed, r)) = Len(pushed) + 1 /\ Len(pushed) \in Nat
    BY <1>3
  <2>2. Append(pushed, r) # <<>>
    BY <2>1
  <2> QED BY <1>2, <2>2
<1> QED BY <1>1, <1>2, <1>4, TakenPushing

LEMMA FreePushing ==
  ASSUME TypeOK, Pushing, FreesTemporaries
  PROVE  Pushing'
<1>1. /\ phase = "running" /\ phase' = "running" /\ pc \in DOMAIN Handler[method]
      /\ pc' = pc + 1 /\ UNCHANGED <<method, pushed>> /\ Handler[method][pc].act = "free"
  BY DEF FreesTemporaries, At, Current
<1>2. pushed = <<>> /\ ~Has(Handler[method], "ends") => Silent(Handler[method], pc + 1)
  BY <1>1, SilentOn DEF Pushing, TypeOK
<1> QED BY <1>1, <1>2 DEF Pushing

LEMMA ReturnPushing ==
  ASSUME TypeOK, Pushing, Returns
  PROVE  Pushing'
<1>1. /\ phase = "running" /\ phase' = "over" /\ method' = method
      /\ pc > Len(Handler[method])
      /\ result' = <<IF pushed = <<>> THEN "argument" ELSE pushed[Len(pushed)]>>
  BY DEF Returns
<1>2. pc = Len(Handler[method]) + 1
  BY <1>1, HandlerAssumption DEF TypeOK
<1>3. result' = <<"argument">> => pushed = <<>>
  <2>1. SUFFICES ASSUME pushed # <<>> PROVE result' # <<"argument">>
    OBVIOUS
  <2>2. pushed \in Seq(Results) /\ Len(pushed) \in 1 .. Len(pushed)
    BY <2>1 DEF TypeOK
  <2>3. pushed[Len(pushed)] \in Results
    BY <2>2
  <2>4. pushed[Len(pushed)] # "argument" /\ result'[1] = pushed[Len(pushed)]
    BY <1>1, <2>1, <2>3 DEF Results
  <2> QED BY <2>4
<1> QED BY <1>1, <1>2, <1>3 DEF Pushing

-----------------------------------------------------------------------------
(* The arguments refused.                                                   *)

LEMMA ArgumentRefused ==
  ASSUME TypeOK, Progress, Refused, TakeArgument
  PROVE  Refused'
<1>1. PICK k \in DOMAIN Current.of : \E o \in Current.of[k] :
        /\ refusal' = IF o \in Going THEN refusal ELSE <<Current.pos, k>>
        /\ Follow(o, executed)
  BY DEF TakeArgument
<1>2. PICK o \in Current.of[k] : refusal' = IF o \in Going THEN refusal ELSE <<Current.pos, k>>
  BY <1>1
<1>3. method' = method /\ pc \in DOMAIN Handler[method] /\ Current.act = "arg"
  BY <1>1 DEF TakeArgument, At, Follow
<1>4. CASE o \notin Going
  <2>1. refusal'[1] = Current.pos /\ refusal'[2] = k
    BY <1>2, <1>4
  <2>2. Refuses(Handler[method][pc], Current.pos, k)
    BY <1>2, <1>3, <1>4 DEF Refuses, Current
  <2> QED BY <1>3, <2>1, <2>2 DEF Refused
<1>5. CASE o \in Going
  BY <1>2, <1>3, <1>5 DEF Refused
<1> QED BY <1>4, <1>5

LEMMA StepRefused ==
  ASSUME TypeOK, Progress, Refused, Next
  PROVE  Refused'
<1>1. CASE \E m \in Methods : \E b \in Requests(m) : Begin(m, b)
  BY <1>1 DEF Begin, Refused
<1>2. CASE TakeArgument
  BY <1>2, ArgumentRefused
<1>3. CASE ~TakeArgument /\ ~\E m \in Methods : \E b \in Requests(m) : Begin(m, b)
  <2>1. refusal' = refusal
    BY <1>3 DEF Next, TakeElements, ReadsGarbage, ReadsServer, WritesServer, Connects,
       ComputesLocally, ModifiesQuery, PushesResult, FreesTemporaries, Returns
  <2>2. method' = method
    BY <1>3, PushOrNot, PushTaken, Followed DEF ReadsGarbage, FreesTemporaries, Returns
  <2> QED BY <2>1, <2>2 DEF Refused
<1> QED BY <1>1, <1>2, <1>3

-----------------------------------------------------------------------------
(* Traced is an invariant.                                                  *)

LEMMA InitTraced ==
  ASSUME Init
  PROVE  Traced
BY DEF Init, Traced, Ended, Refused, Stale, Pushing, Making, Elements

LEMMA BeginTraced ==
  ASSUME TypeOK, NEW m \in Methods, NEW b \in Requests(m), Begin(m, b)
  PROVE  Ended' /\ Stale' /\ Pushing' /\ Making'
<1>1. /\ phase' = "running" /\ method' = m /\ pc' = 1 /\ temps' = 0 /\ result' = <<>>
  BY DEF Begin
<1>2. "stale" \notin Elements(result')
  BY <1>1 DEF Elements
<1>3. \A j \in DOMAIN Handler[m] : ~(j < 1)
  BY HandlerAssumption
<1> QED BY <1>1, <1>2, <1>3 DEF Ended, Stale, Pushing, Silent, Making

LEMMA ReturnTraced ==
  ASSUME IInv, Returns
  PROVE  Ended' /\ Stale' /\ Making'
<1>1. /\ phase' = "over" /\ Len(result') = 1
      /\ result' = <<IF pushed = <<>> THEN "argument" ELSE pushed[Len(pushed)]>>
  BY DEF Returns
<1>2. temps' = 0
  BY <1>1, ReturnPreserves DEF IInv, SuccessLeavesNothing, Succeeded
<1>3. "stale" \notin Elements(result')
  <2>1. TypeOK'
    BY ReturnTyped DEF IInv
  <2>2. result'[1] \in Results \cup {"argument"}
    BY <1>1, <2>1 DEF TypeOK
  <2>3. Elements(result') = {result'[1]}
    BY <1>1 DEF Elements
  <2> QED BY <2>2, <2>3 DEF Results
<1> QED BY <1>1, <1>2, <1>3 DEF Ended, Stale, Making

LEMMA FreeTraced ==
  ASSUME IInv, FreesTemporaries
  PROVE  Ended' /\ Stale' /\ Making'
<1>1. phase' = "running" /\ temps' = 0 /\ result' = <<>>
  BY DEF FreesTemporaries, At, IInv, Progress
<1>2. "stale" \notin Elements(result')
  BY <1>1 DEF Elements
<1> QED BY <1>1, <1>2 DEF Ended, Stale, Making

LEMMA GarbageTraced ==
  ASSUME IInv, ReadsGarbage
  PROVE  Ended' /\ Stale' /\ Making' /\ Pushing'
<1>1. phase' = "dead" /\ swapped' /\ result' = <<>>
  BY DEF ReadsGarbage, At, IInv, Progress
<1>2. "stale" \notin Elements(result')
  BY <1>1 DEF Elements
<1> QED BY <1>1, <1>2 DEF Ended, Stale, Making, Pushing

LEMMA StepTraced ==
  ASSUME IInv, Traced, [Next]_vars
  PROVE  Traced'
<1> USE DEF Traced
<1>0. TypeOK /\ Progress
  BY DEF IInv
<1>1. CASE Next
  <2>1. Refused'
    BY <1>0, <1>1, StepRefused
  <2>2. CASE \E m \in Methods : \E b \in Requests(m) : Begin(m, b)
    BY <1>0, <2>1, <2>2, BeginTraced
  <2>3. CASE PushesResult
    BY <1>0, <2>1, <2>3, PushTaken, PushPushing, TakenEnded, TakenStale, TakenMaking
  <2>4. CASE /\ phase = "running" /\ pushed' = pushed
             /\ pc \in DOMAIN Handler[method] /\ Current.act # "push"
             /\ \E o, n : Taken(o, n)
    BY <1>0, <2>1, <2>4, TakenPushing, TakenEnded, TakenStale, TakenMaking
  <2>5. CASE FreesTemporaries
    BY <1>0, <2>1, <2>5, FreeTraced, FreePushing
  <2>6. CASE ReadsGarbage
    BY <2>1, <2>6, GarbageTraced
  <2>7. CASE Returns
    BY <1>0, <2>1, <2>7, ReturnTraced, ReturnPushing
  <2> QED BY <1>0, <1>1, <2>2, <2>3, <2>4, <2>5, <2>6, <2>7, PushOrNot
<1>2. CASE UNCHANGED vars
  <2>1. UNCHANGED <<phase, method, pc, temps, pushed, result, refusal, swapped>>
    BY <1>2 DEF vars, callVars
  <2> QED BY <2>1 DEF Ended, Refused, Stale, Pushing, Making, Leaving, Current, Reported, Verdict
<1> QED BY <1>1, <1>2

(* What ended a call, what it lost, returned and refused can be traced back to
   a step of its handler. *)
LEMMA CallsAreTraced == Spec => [](IInv /\ Traced)
<1>1. Init => IInv /\ Traced
  BY InitInvariant, InitTraced
<1>2. IInv /\ Traced /\ [Next]_vars => IInv' /\ Traced'
  BY StepInvariant, StepTraced
<1> QED BY <1>1, <1>2, PTL DEF Spec
-----------------------------------------------------------------------------
(* Where the steps of luamongo's handlers may lead.                         *)

Leading(X) == UNION {[D -> SUBSET X] : D \in SUBSET Cases}
StepsTo(X) == [act : Acts, pos : Nat, of : Leading(X), try : Tries, tidy : BOOLEAN]

(* Most steps make nothing, return no stale message and do not end early. *)
Ordinary == Outcomes \ {"makes", "stale", "ends"}
NoThrow == {"goes", "lua", "nil", "false", "undefined"}
Mute == Ordinary \ {"char"}

LEMMA SetsOfOutcomes ==
  /\ NoThrow \subseteq Mute /\ Mute \subseteq Ordinary /\ Ordinary \subseteq Outcomes
  /\ {"goes", "lua"} \subseteq NoThrow
  /\ "makes" \notin Ordinary /\ "stale" \notin Ordinary /\ "ends" \notin Ordinary
  /\ "char" \notin Mute
BY DEF NoThrow, Mute, Ordinary, Outcomes, Exceptions

LEMMA LeadingIn ==
  ASSUME NEW X, NEW D \in SUBSET Cases, NEW of \in [D -> SUBSET X]
  PROVE  of \in Leading(X)
BY DEF Leading

LEMMA LeadingWithin ==
  ASSUME NEW X, NEW Y, X \subseteq Y
  PROVE  Leading(X) \subseteq Leading(Y)
<1> SUFFICES ASSUME NEW of \in Leading(X) PROVE of \in Leading(Y)
  OBVIOUS
<1>1. PICK D \in SUBSET Cases : of \in [D -> SUBSET X]
  BY DEF Leading
<1>2. of \in [D -> SUBSET Y]
  BY <1>1
<1> QED BY <1>2, LeadingIn

LEMMA StepsWithin ==
  ASSUME NEW X, NEW Y, X \subseteq Y
  PROVE  StepsTo(X) \subseteq StepsTo(Y)
BY LeadingWithin DEF StepsTo

LEMMA LeadsWithin ==
  ASSUME NEW X, NEW s \in StepsTo(X), NEW o, Leads(s, o)
  PROVE  o \in X
<1>1. PICK D \in SUBSET Cases : s.of \in [D -> SUBSET X]
  BY DEF StepsTo, Leading
<1>2. PICK c \in DOMAIN s.of : o \in s.of[c]
  BY DEF Leads
<1> QED BY <1>1, <1>2

LEMMA TriesType ==
  /\ NoTry \in Tries
  /\ \A a, b \in {"nil", "false", "escapes"} : Try(a, b) \in Tries
  /\ \A a \in {"nil", "false", "escapes"} : TryStd(a) \in Tries /\ TryAssertion(a) \in Tries
BY DEF NoTry, Tries, Try, TryStd, TryAssertion, Exceptions

LEMMA StepTo ==
  ASSUME NEW X, NEW act \in Acts, NEW pos \in Nat, NEW D \in SUBSET Cases,
         NEW of \in [D -> SUBSET X]
  PROVE  Step(act, pos, of, NoTry) \in StepsTo(X)
BY LeadingIn, TriesType DEF Step, StepsTo

LEMMA InTo ==
  ASSUME NEW X, NEW s \in StepsTo(X), NEW t \in Tries
  PROVE  /\ In(t, s) \in StepsTo(X) /\ Tidy(s) \in StepsTo(X)
         /\ In(t, s).of = s.of /\ In(t, s).try = t /\ In(t, s).act = s.act
         /\ Tidy(s).of = s.of /\ Tidy(s).tidy = TRUE
BY DEF In, Tidy, StepsTo

(* Steps of which nothing escapes. *)
Caught(X) == {s \in StepsTo(X) : ~Uncaught(s)}
Plain == Caught(Ordinary)

LEMMA CaughtWithin ==
  ASSUME NEW X, NEW Y, X \subseteq Y
  PROVE  Caught(X) \subseteq Caught(Y)
BY StepsWithin DEF Caught

LEMMA QuietPlain ==
  ASSUME NEW X, X \subseteq NoThrow
  PROVE  StepsTo(X) \subseteq Plain
<1> SUFFICES ASSUME NEW s \in StepsTo(X) PROVE s \in Plain
  OBVIOUS
<1>1. s \in StepsTo(Ordinary)
  BY StepsWithin, SetsOfOutcomes
<1>2. ~Uncaught(s)
  <2>1. \A o : Leads(s, o) => o \in NoThrow
    BY LeadsWithin
  <2> QED BY <2>1 DEF Uncaught, NoThrow, Going
<1> QED BY <1>1, <1>2 DEF Plain, Caught

(* A try block with both catch clauses, and one without the last. *)
LEMMA TryCatches ==
  ASSUME NEW X \in SUBSET Outcomes, NEW s \in StepsTo(X), NEW a \in {"nil", "false"},
         NEW b \in {"nil", "false"}
  PROVE  In(Try(a, b), s) \in Caught(X)
<1>0. Try(a, b) \in Tries
  BY TriesType
<1>1. In(Try(a, b), s) \in StepsTo(X) /\ In(Try(a, b), s).try = Try(a, b)
  BY <1>0, InTo
<1>2. \A o \in Outcomes \ (Going \cup {"lua", "nil", "false", "stale"}) : Thrown(o) \in Exceptions
  BY DEF Outcomes, Going, Exceptions, Thrown
<1>3. \A e \in Exceptions : Try(a, b)[e] # "escapes"
  BY DEF Try, Exceptions
<1>4. ~Uncaught(In(Try(a, b), s))
  BY <1>1, <1>2, <1>3 DEF Uncaught
<1> QED BY <1>1, <1>4 DEF Caught

LEMMA TryStdCatches ==
  ASSUME NEW X \in SUBSET (Outcomes \ {"char"}), NEW s \in StepsTo(X), NEW a \in {"nil", "false"}
  PROVE  In(TryStd(a), s) \in Caught(X)
<1>0. TryStd(a) \in Tries
  BY TriesType
<1>1. /\ In(TryStd(a), s) \in StepsTo(X) /\ In(TryStd(a), s).try = TryStd(a)
  BY <1>0, InTo
<1>2. \A o \in X \ (Going \cup {"lua", "nil", "false", "stale"}) : Thrown(o) \in {"assertion", "std"}
  BY DEF Outcomes, Going, Exceptions, Thrown
<1>3. \A e \in {"assertion", "std"} : TryStd(a)[e] # "escapes"
  BY DEF Try, TryStd
<1>4. ~Uncaught(In(TryStd(a), s))
  <2>1. \A o : Leads(In(TryStd(a), s), o) => o \in X
    BY <1>1, LeadsWithin
  <2> QED BY <1>1, <1>2, <1>3, <2>1 DEF Uncaught
<1> QED BY <1>1, <1>4 DEF Caught

(* A try block around several steps. *)
LEMMA InAllType ==
  ASSUME NEW S, NEW T, NEW steps \in Seq(S), NEW t, \A s \in S : In(t, s) \in T
  PROVE  InAll(t, steps) \in Seq(T) /\ Len(InAll(t, steps)) = Len(steps)
<1>1. DOMAIN steps = 1 .. Len(steps) /\ Len(steps) \in Nat
      /\ \A i \in 1 .. Len(steps) : steps[i] \in S
  OBVIOUS
<1>2. InAll(t, steps) \in [1 .. Len(steps) -> T]
  BY <1>1 DEF InAll
<1> QED BY <1>1, <1>2

-----------------------------------------------------------------------------
(* The steps.                                                               *)

LEMMA CheckSteps ==
  ASSUME NEW p \in Nat
  PROVE  /\ \A ks : Check(p, ks) \in StepsTo({"goes", "lua"})
         /\ Text(p) \in StepsTo({"goes", "lua"}) /\ OptText(p) \in StepsTo({"goes", "lua"})
         /\ Int(p) \in StepsTo({"goes", "lua"}) /\ OptInt(p) \in StepsTo({"goes", "lua"})
         /\ TableArg(p) \in StepsTo({"goes", "lua"})
<1>1. ASSUME NEW ks PROVE Check(p, ks) \in StepsTo({"goes", "lua"})
  <2>1. [k \in Kinds |-> IF k \in ks THEN {"goes"} ELSE {"lua"}]
          \in [Kinds -> SUBSET {"goes", "lua"}]
    OBVIOUS
  <2>2. Kinds \in SUBSET Cases /\ "arg" \in Acts
    BY DEF Cases, Acts
  <2> QED BY <2>1, <2>2, StepTo DEF Check, Arg
<1> QED BY <1>1 DEF Text, OptText, Int, OptInt, TableArg

LEMMA ArgTo ==
  ASSUME NEW X, NEW p \in Nat, NEW of \in [Kinds -> SUBSET X]
  PROVE  Arg(p, of) \in StepsTo(X)
<1>1. Kinds \in SUBSET Cases /\ "arg" \in Acts
  BY DEF Cases, Acts
<1> QED BY <1>1, StepTo DEF Arg

LEMMA Documents ==
  /\ Document \in [Kinds -> SUBSET {"assertion", "goes", "badref", "char"}]
  /\ DocumentOrQuery \in [Kinds -> SUBSET {"assertion", "goes", "badref", "char", "lua"}]
  /\ HeapDocument \in [Kinds -> SUBSET {"assertion", "goes", "badref", "char", "makes"}]
  /\ Lenient(Document) \in [Kinds -> SUBSET {"assertion", "goes", "badref"}]
BY DEF Document, DocumentOrQuery, HeapDocument, Lenient, Kinds

LEMMA OptionalType ==
  ASSUME NEW X, "goes" \in X, NEW of \in [Kinds -> SUBSET X]
  PROVE  Optional(of) \in [Kinds -> SUBSET X]
BY DEF Optional

LEMMA DocumentSteps ==
  ASSUME NEW p \in Nat
  PROVE  /\ Arg(p, Document) \in StepsTo(Ordinary)
         /\ Arg(p, DocumentOrQuery) \in StepsTo(Ordinary)
         /\ Arg(p, Lenient(Document)) \in StepsTo(Mute)
         /\ Arg(p, Optional(Document)) \in StepsTo(Ordinary)
         /\ Arg(p, Optional(DocumentOrQuery)) \in StepsTo(Ordinary)
         /\ Arg(p, Optional(HeapDocument)) \in StepsTo(Ordinary \cup {"makes"})
         /\ \A k \in Kinds : /\ Arg(p, [Document EXCEPT ![k] = {"goes"}]) \in StepsTo(Ordinary)
                             /\ Arg(p, [Document EXCEPT ![k] = {"goes", "char", "assertion"}])
                                    \in StepsTo(Ordinary)
<1> DEFINE X == {"assertion", "goes", "badref", "char", "lua"}
<1>1. /\ X \subseteq Ordinary
      /\ {"assertion", "goes", "badref"} \subseteq Mute
      /\ {"assertion", "goes", "badref", "char", "makes"} \subseteq Ordinary \cup {"makes"}
  BY DEF Ordinary, Mute, Outcomes, Exceptions
<1>2. Document \in [Kinds -> SUBSET X] /\ DocumentOrQuery \in [Kinds -> SUBSET X]
  BY Documents
<1>3. \A k \in Kinds : /\ [Document EXCEPT ![k] = {"goes"}] \in [Kinds -> SUBSET X]
                      /\ [Document EXCEPT ![k] = {"goes", "char", "assertion"}]
                            \in [Kinds -> SUBSET X]
  BY <1>2
<1>4. /\ Optional(Document) \in [Kinds -> SUBSET X]
      /\ Optional(DocumentOrQuery) \in [Kinds -> SUBSET X]
      /\ Optional(HeapDocument)
            \in [Kinds -> SUBSET {"assertion", "goes", "badref", "char", "makes"}]
  BY <1>2, Documents, OptionalType
<1>5. StepsTo(X) \subseteq StepsTo(Ordinary)
  BY <1>1, StepsWithin
<1> HIDE DEF X
<1>6. /\ Arg(p, Document) \in StepsTo(X)
      /\ Arg(p, DocumentOrQuery) \in StepsTo(X)
      /\ Arg(p, Optional(Document)) \in StepsTo(X)
      /\ Arg(p, Optional(DocumentOrQuery)) \in StepsTo(X)
  BY <1>2, <1>4, ArgTo
<1>7. \A k \in Kinds : /\ Arg(p, [Document EXCEPT ![k] = {"goes"}]) \in StepsTo(X)
                      /\ Arg(p, [Document EXCEPT ![k] = {"goes", "char", "assertion"}])
                            \in StepsTo(X)
  BY <1>3, ArgTo
<1>8. Arg(p, Lenient(Document)) \in StepsTo(Mute)
  BY <1>1, Documents, ArgTo, StepsWithin
<1>9. Arg(p, Optional(HeapDocument)) \in StepsTo(Ordinary \cup {"makes"})
  BY <1>1, <1>4, ArgTo, StepsWithin
<1> QED BY <1>5, <1>6, <1>7, <1>8, <1>9

(* Calls of the driver. *)
LEMMA DriveTo ==
  ASSUME NEW X, NEW act \in Acts, NEW D \in SUBSET Answers, NEW of \in [D -> SUBSET X]
  PROVE  Drive(act, of) \in StepsTo(X)
BY StepTo DEF Drive, Cases

LEMMA ThrowsType == Throws \in [Answers -> SUBSET {"goes", "std"}]
BY DEF Throws

LEMMA DriverSteps ==
  /\ Read \in StepsTo(Mute) /\ Write \in StepsTo(Mute) /\ Connect \in StepsTo(Mute)
  /\ Local \in StepsTo(Mute) /\ Modifier \in StepsTo(Mute) /\ OpenCursor \in StepsTo(Mute)
<1>1. {"goes", "std", "nil"} \subseteq Mute
  BY DEF Mute, Ordinary, Outcomes, Exceptions
<1>2. Throws \in [Answers -> SUBSET Mute]
  BY <1>1, ThrowsType
<1>3. [Throws EXCEPT !["broken"] = {"nil", "std"}, !["down"] = {"nil", "std"}]
        \in [Answers -> SUBSET Mute]
  BY <1>1, <1>2
<1>4. \A D \in SUBSET Answers : [a \in D |-> Throws[a]] \in [D -> SUBSET Mute]
  BY <1>2
<1>5. {"done", "error"} \in SUBSET Answers /\ Answers \ {"down"} \in SUBSET Answers
      /\ {"read", "write", "connect", "local", "modify"} \subseteq Acts
  BY DEF Answers, Acts
<1>6. /\ [a \in {"done", "error"} |-> Throws[a]] \in [{"done", "error"} -> SUBSET Mute]
      /\ [a \in Answers \ {"down"} |-> Throws[a]] \in [Answers \ {"down"} -> SUBSET Mute]
  BY <1>4, <1>5
<1>7. Read \in StepsTo(Mute) /\ Write \in StepsTo(Mute)
  BY <1>2, <1>5, DriveTo DEF Read, Write
<1>8. Connect \in StepsTo(Mute) /\ Local \in StepsTo(Mute) /\ Modifier \in StepsTo(Mute)
  BY <1>5, <1>6, DriveTo DEF Connect, Local, Modifier
<1>9. OpenCursor \in StepsTo(Mute)
  BY <1>3, <1>5, DriveTo DEF OpenCursor
<1> QED BY <1>7, <1>8, <1>9

(* A call whose refusal is treated in a way of its own. *)
LEMMA ReadSteps ==
  ASSUME NEW X, "goes" \in X, "std" \in X, NEW r \in SUBSET X
  PROVE  Drive("read", [Throws EXCEPT !["error"] = r]) \in StepsTo(X)
<1>1. Throws \in [Answers -> SUBSET X]
  BY ThrowsType
<1>2. [Throws EXCEPT !["error"] = r] \in [Answers -> SUBSET X]
  BY <1>1
<1>3. "read" \in Acts
  BY DEF Acts
<1> QED BY <1>2, <1>3, DriveTo

(* A push that is sure to push. *)
Sure == {s \in StepsTo({"goes"}) : s.act = "push" /\ "nothing" \notin DOMAIN s.of}

LEMMA PushSteps ==
  ASSUME NEW rs \in SUBSET Results
  PROVE  /\ Push(rs) \in StepsTo({"goes"})
         /\ "nothing" \notin rs => Push(rs) \in Sure
<1>1. [r \in rs |-> {"goes"}] \in [rs -> SUBSET {"goes"}] /\ rs \in SUBSET Cases /\ "push" \in Acts
  BY DEF Cases, Acts
<1>2. Push(rs) \in StepsTo({"goes"})
  BY <1>1, StepTo DEF Push
<1>3. Push(rs).act = "push" /\ DOMAIN Push(rs).of = rs
  BY DEF Push, Step
<1> QED BY <1>2, <1>3 DEF Sure

LEMMA FreeStep == Free \in StepsTo({"goes"}) /\ Free.act = "free"
<1>1. {"nothing"} \in SUBSET Cases /\ "free" \in Acts
  BY DEF Cases, Results, Acts
<1>2. [r \in {"nothing"} |-> {"goes"}] \in [{"nothing"} -> SUBSET {"goes"}]
  OBVIOUS
<1>3. Free \in StepsTo({"goes"})
  BY <1>1, <1>2, StepTo DEF Free
<1> QED BY <1>3 DEF Free, Step
-----------------------------------------------------------------------------
(* The handlers.                                                            *)

(* A handler of steps of S that is sure to push something. *)
Sound(S) == {h \in Seq(S) : \E i \in DOMAIN h : h[i] \in Sure}

LEMMA SoundTuples ==
  ASSUME NEW S, NEW a \in S, NEW b \in S, NEW c \in S, NEW d \in S, NEW e \in S,
         NEW p \in S \cap Sure
  PROVE  /\ <<p>> \in Sound(S)
         /\ <<a, p>> \in Sound(S)
         /\ <<a, b, p>> \in Sound(S)
         /\ <<a, b, c, p>> \in Sound(S)
         /\ <<a, b, c, d, p>> \in Sound(S)
         /\ <<a, b, c, d, e, p>> \in Sound(S)
<1>1. <<p>> \in Seq(S) /\ 1 \in DOMAIN <<p>> /\ <<p>>[1] \in Sure
  OBVIOUS
<1>2. <<a, p>> \in Seq(S) /\ 2 \in DOMAIN <<a, p>> /\ <<a, p>>[2] \in Sure
  OBVIOUS
<1>3. <<a, b, p>> \in Seq(S) /\ 3 \in DOMAIN <<a, b, p>> /\ <<a, b, p>>[3] \in Sure
  OBVIOUS
<1>4. <<a, b, c, p>> \in Seq(S) /\ 4 \in DOMAIN <<a, b, c, p>> /\ <<a, b, c, p>>[4] \in Sure
  OBVIOUS
<1>5. /\ <<a, b, c, d, p>> \in Seq(S) /\ 5 \in DOMAIN <<a, b, c, d, p>>
      /\ <<a, b, c, d, p>>[5] \in Sure
  OBVIOUS
<1>6. /\ <<a, b, c, d, e, p>> \in Seq(S) /\ 6 \in DOMAIN <<a, b, c, d, e, p>>
      /\ <<a, b, c, d, e, p>>[6] \in Sure
  OBVIOUS
<1> QED BY <1>1, <1>2, <1>3, <1>4, <1>5, <1>6 DEF Sound

LEMMA SoundOne ==
  ASSUME NEW S, NEW p \in S \cap Sure
  PROVE  <<p>> \in Sound(S) /\ \A a \in S : <<a, p>> \in Sound(S)
BY SoundTuples

LEMMA SoundPair ==
  ASSUME NEW S, NEW a \in S, NEW p \in S \cap Sure
  PROVE  <<a, p>> \in Sound(S)
BY SoundTuples

LEMMA SoundTriple ==
  ASSUME NEW S, NEW a \in S, NEW b \in S, NEW p \in S \cap Sure
  PROVE  <<a, b, p>> \in Sound(S)
BY SoundTuples

LEMMA SoundEnd ==
  ASSUME NEW S, NEW s \in Seq(S), NEW t \in Sound(S)
  PROVE  s \o t \in Sound(S)
<1>1. t \in Seq(S) /\ s \o t \in Seq(S) /\ Len(s) \in Nat /\ Len(t) \in Nat
  BY DEF Sound
<1>2. PICK i \in DOMAIN t : t[i] \in Sure
  BY DEF Sound
<1>3. i \in 1 .. Len(t) /\ Len(s \o t) = Len(s) + Len(t)
  BY <1>1, <1>2
<1>4. Len(s) + i \in DOMAIN (s \o t)
  BY <1>1, <1>3
<1>5. (s \o t)[Len(s) + i] = t[i]
  BY <1>1, <1>3
<1> QED BY <1>1, <1>2, <1>4, <1>5 DEF Sound

(* Steps in a try block with two catch clauses, and with one. *)
LEMMA BothCaught ==
  ASSUME NEW a \in {"nil", "false"}, NEW b \in {"nil", "false"},
         NEW r \in StepsTo(Ordinary), NEW s \in StepsTo(Ordinary)
  PROVE  /\ InAll(Try(a, b), <<r>>) \in Seq(Plain)
         /\ InAll(Try(a, b), <<r, s>>) \in Seq(Plain)
         /\ \A t \in StepsTo(Ordinary) : InAll(Try(a, b), <<r, s, t>>) \in Seq(Plain)
<1>1. \A x \in StepsTo(Ordinary) : In(Try(a, b), x) \in Plain
  BY TryCatches, SetsOfOutcomes DEF Plain
<1>2. /\ <<r>> \in Seq(StepsTo(Ordinary)) /\ <<r, s>> \in Seq(StepsTo(Ordinary))
      /\ \A t \in StepsTo(Ordinary) : <<r, s, t>> \in Seq(StepsTo(Ordinary))
  OBVIOUS
<1> QED BY <1>1, <1>2, InAllType

LEMMA OneCaught ==
  ASSUME NEW a \in {"nil", "false"}, NEW r \in StepsTo(Mute), NEW s \in StepsTo(Mute)
  PROVE  /\ In(TryStd(a), r) \in Plain
         /\ InAll(TryStd(a), <<r>>) \in Seq(Plain)
         /\ InAll(TryStd(a), <<r, s>>) \in Seq(Plain)
         /\ \A t \in StepsTo(Mute) : InAll(TryStd(a), <<r, s, t>>) \in Seq(Plain)
<1>1. \A x \in StepsTo(Mute) : In(TryStd(a), x) \in Plain
  <2>1. Mute \in SUBSET (Outcomes \ {"char"})
    BY SetsOfOutcomes
  <2>2. Caught(Mute) \subseteq Plain
    BY SetsOfOutcomes, CaughtWithin DEF Plain
  <2> QED BY <2>1, <2>2, TryStdCatches
<1>2. /\ <<r>> \in Seq(StepsTo(Mute)) /\ <<r, s>> \in Seq(StepsTo(Mute))
      /\ \A t \in StepsTo(Mute) : <<r, s, t>> \in Seq(StepsTo(Mute))
  OBVIOUS
<1> QED BY <1>1, <1>2, InAllType

(* What the handlers are put together from. *)
Checks(p) == {Text(p), OptText(p), Int(p), OptInt(p), TableArg(p)}

LEMMA PlainSteps ==
  /\ \A p \in Nat : Checks(p) \subseteq Plain /\ Checks(p) \subseteq StepsTo(Mute)
                                              /\ Checks(p) \subseteq StepsTo(Ordinary)
  /\ \A p \in Nat : \A ks : Check(p, ks) \in Plain /\ Check(p, ks) \in StepsTo(Mute)
  /\ \A rs \in SUBSET Results : Push(rs) \in Plain
  /\ \A rs \in SUBSET Results : "nothing" \notin rs => Push(rs) \in Plain \cap Sure
  /\ StepsTo(Mute) \subseteq StepsTo(Ordinary)
  /\ Plain \subseteq StepsTo(Ordinary)
<1>1. /\ StepsTo({"goes", "lua"}) \subseteq Plain /\ StepsTo({"goes"}) \subseteq Plain
      /\ StepsTo({"goes", "lua"}) \subseteq StepsTo(Mute)
      /\ StepsTo(Mute) \subseteq StepsTo(Ordinary)
  BY QuietPlain, SetsOfOutcomes, StepsWithin
<1>2. \A p \in Nat : Checks(p) \subseteq StepsTo({"goes", "lua"})
  BY CheckSteps DEF Checks
<1>3. \A p \in Nat : \A ks : Check(p, ks) \in StepsTo({"goes", "lua"})
  BY CheckSteps
<1> QED BY <1>1, <1>2, <1>3, PushSteps DEF Plain, Caught

LEMMA PlainPushes ==
  /\ Push({"true"}) \in Plain \cap Sure /\ Push({"boolean"}) \in Plain \cap Sure
  /\ Push({"value"}) \in Plain \cap Sure /\ Push({"box"}) \in Plain \cap Sure
BY PlainSteps DEF Results

(* A name and steps in a try block, then the result: the shape of most methods
   of DBClient. *)
LEMMA Wrapped ==
  ASSUME NEW m \in Seq(Plain), NEW p \in Plain \cap Sure
  PROVE  /\ m \o <<p>> \in Sound(Plain)
         /\ \A a \in Plain : <<a>> \o m \o <<p>> \in Sound(Plain)
<1>1. p \in Plain /\ <<p>> \in Sound(Plain)
  BY SoundTuples
<1>2. ASSUME NEW a \in Plain PROVE <<a>> \o m \o <<p>> \in Sound(Plain)
  <2>1. <<a>> \o m \in Seq(Plain)
    OBVIOUS
  <2> QED BY <1>1, <2>1, SoundEnd
<1> QED BY <1>1, <1>2, SoundEnd

LEMMA PlainDBClient ==
  /\ CreateIndex \in Sound(Plain) /\ Count \in Sound(Plain) /\ Insert \in Sound(Plain)
  /\ InsertBatch \in Sound(Plain) /\ Remove \in Sound(Plain) /\ Update \in Sound(Plain)
  /\ DropIndexByFields \in Sound(Plain) /\ GenIndexName \in Sound(Plain)
<1> USE PlainPushes
<1>t. Text(2) \in Plain
  BY PlainSteps DEF Checks
<1>d. /\ Arg(2, Document) \in StepsTo(Ordinary) /\ Arg(3, Document) \in StepsTo(Ordinary)
      /\ Arg(4, Document) \in StepsTo(Ordinary)
      /\ Arg(3, DocumentOrQuery) \in StepsTo(Ordinary)
      /\ Arg(3, Lenient(Document)) \in StepsTo(Mute)
      /\ Arg(4, [Document EXCEPT !["nil"] = {"goes"}]) \in StepsTo(Ordinary)
  <2>1. "nil" \in Kinds
    BY DEF Kinds
  <2> QED BY <2>1, DocumentSteps
<1>w. /\ Write \in StepsTo(Mute) /\ Read \in StepsTo(Mute)
      /\ Write \in StepsTo(Ordinary) /\ Local \in StepsTo(Ordinary)
  BY DriverSteps, PlainSteps
<1>1. CreateIndex \in Sound(Plain)
  <2>1. InAll(Try("false", "false"),
              <<Arg(3, Document), Arg(4, [Document EXCEPT !["nil"] = {"goes"}])>>) \in Seq(Plain)
    BY <1>d, BothCaught
  <2>2. In(TryStd("nil"), Write) \in Plain
    BY <1>w, OneCaught
  <2>3. <<In(TryStd("nil"), Write), Push({"true"})>> \in Sound(Plain)
    BY <2>2, SoundTuples
  <2>4. <<Text(2)>> \in Seq(Plain)
    BY <1>t
  <2>5. <<Text(2)>> \o InAll(Try("false", "false"),
              <<Arg(3, Document), Arg(4, [Document EXCEPT !["nil"] = {"goes"}])>>) \in Seq(Plain)
    BY <2>1, <2>4
  <2> QED BY <2>3, <2>5, SoundEnd DEF CreateIndex
<1>2. Count \in Sound(Plain)
  <2>1. InAll(TryStd("nil"), <<Arg(3, Lenient(Document)), Read>>) \in Seq(Plain)
    BY <1>d, <1>w, OneCaught
  <2> QED BY <1>t, <2>1, Wrapped DEF Count
<1>3. Insert \in Sound(Plain) /\ DropIndexByFields \in Sound(Plain)
  <2>1. InAll(Try("false", "false"), <<Arg(3, Document), Write>>) \in Seq(Plain)
    BY <1>d, <1>w, BothCaught
  <2> QED BY <1>t, <2>1, Wrapped DEF Insert, DropIndexByFields
<1>4. InsertBatch \in Sound(Plain)
  <2>1. Element \in StepsTo(Ordinary)
    <3>1. {"goes", "badref", "undefined"} \subseteq Ordinary /\ Kinds \in SUBSET Cases
          /\ "element" \in Acts
      BY DEF Ordinary, Outcomes, Cases, Acts
    <3>2. [k \in Kinds |-> CASE k = "table" -> {"goes"} [] k = "badtable" -> {"badref"}
                             [] OTHER -> {"undefined"}] \in [Kinds -> SUBSET Ordinary]
      BY <3>1
    <3> QED BY <3>1, <3>2, StepTo DEF Element
  <2>2. InAll(Try("false", "false"), <<Element, Write>>) \in Seq(Plain)
    BY <1>w, <2>1, BothCaught
  <2>3. TableArg(3) \in Plain
    BY PlainSteps DEF Checks
  <2>4. <<Text(2), TableArg(3)>> \in Seq(Plain)
    BY <1>t, <2>3
  <2>5. <<Text(2), TableArg(3)>> \o InAll(Try("false", "false"), <<Element, Write>>) \in Seq(Plain)
    BY <2>2, <2>4
  <2> QED BY <2>5, Wrapped DEF InsertBatch
<1>5. Remove \in Sound(Plain)
  <2>1. InAll(Try("false", "false"), <<Arg(3, DocumentOrQuery), Write>>) \in Seq(Plain)
    BY <1>d, <1>w, BothCaught
  <2> QED BY <1>t, <2>1, Wrapped DEF Remove
<1>6. Update \in Sound(Plain)
  <2>1. InAll(Try("false", "false"), <<Arg(3, DocumentOrQuery), Arg(4, Document), Write>>)
          \in Seq(Plain)
    BY <1>d, <1>w, BothCaught
  <2> QED BY <1>t, <2>1, Wrapped DEF Update
<1>7. GenIndexName \in Sound(Plain)
  <2>1. InAll(Try("nil", "nil"), <<Arg(2, Document), Local>>) \in Seq(Plain)
    BY <1>d, <1>w, BothCaught
  <2> QED BY <2>1, Wrapped DEF GenIndexName
<1> QED BY <1>1, <1>2, <1>3, <1>4, <1>5, <1>6, <1>7

(* The methods that convert nothing. *)
LEMMA PlainCommands ==
  /\ IsFailed \in Sound(Plain) /\ GetServerAddress \in Sound(Plain)
  /\ DropCollection \in Sound(Plain) /\ DropIndexByName \in Sound(Plain)
  /\ DropIndexes \in Sound(Plain) /\ Reindex \in Sound(Plain)
  /\ GetDBNames \in Sound(Plain) /\ GetCollections \in Sound(Plain)
  /\ ConnectionConnect \in Sound(Plain) /\ ReplicaSetConnect \in Sound(Plain)
<1> USE PlainPushes
<1>1. Text(2) \in Plain /\ Text(3) \in Plain
  BY PlainSteps DEF Checks
<1>2. /\ In(TryStd("false"), Write) \in Plain /\ In(TryStd("nil"), Connect) \in Plain
      /\ In(Try("false", "false"), Read) \in Plain
  <2>1. Read \in StepsTo(Ordinary)
    BY DriverSteps, PlainSteps
  <2>2. In(Try("false", "false"), Read) \in Plain
    BY <2>1, TryCatches, SetsOfOutcomes DEF Plain
  <2> QED BY <2>2, DriverSteps, OneCaught
<1>3. IsFailed \in Sound(Plain) /\ GetServerAddress \in Sound(Plain)
  BY SoundOne DEF IsFailed, GetServerAddress
<1>4. DropCollection \in Sound(Plain)
  BY <1>1, <1>2, SoundTriple DEF DropCollection
<1>5. DropIndexes \in Sound(Plain)
  BY <1>1, <1>2, SoundTriple DEF DropIndexes
<1>6. Reindex \in Sound(Plain)
  BY <1>1, <1>2, SoundTriple DEF Reindex
<1>7. DropIndexByName \in Sound(Plain)
  BY <1>1, <1>2, SoundTuples DEF DropIndexByName
<1>8. GetDBNames \in Sound(Plain)
  BY <1>1, <1>2, SoundPair DEF GetDBNames
<1>9. GetCollections \in Sound(Plain)
  BY <1>1, <1>2, SoundTriple DEF GetCollections
<1>10. ConnectionConnect \in Sound(Plain)
  BY <1>1, <1>2, SoundTriple DEF ConnectionConnect
<1>11. ReplicaSetConnect \in Sound(Plain)
  BY <1>1, <1>2, SoundPair DEF ReplicaSetConnect
<1> QED BY <1>3, <1>4, <1>5, <1>6, <1>7, <1>8, <1>9, <1>10, <1>11

LEMMA PlainQuery ==
  ASSUME NEW m \in DOMAIN QueryMethods
  PROVE  QueryMethods[m] \in Sound(Plain)
<1> USE PlainPushes
<1>t. Text(2) \in Plain
  BY PlainSteps DEF Checks
<1>w. Modifier \in StepsTo(Mute) /\ Modifier \in StepsTo(Ordinary)
  BY DriverSteps, PlainSteps
<1>d. /\ Arg(2, Document) \in StepsTo(Ordinary) /\ Arg(3, Document) \in StepsTo(Ordinary)
  BY DocumentSteps
<1>m. In(TryStd("false"), Modifier) \in Plain
  BY <1>w, OneCaught
<1>1. QueryExplain \in Sound(Plain) /\ QuerySnapshot \in Sound(Plain)
  BY <1>m, SoundTuples DEF QueryExplain, QuerySnapshot
<1>2. /\ QueryHint \in Sound(Plain) /\ QueryMaxKey \in Sound(Plain)
      /\ QueryMinKey \in Sound(Plain) /\ QuerySort \in Sound(Plain)
  <2>1. InAll(Try("false", "false"), <<Arg(2, Document), Modifier>>) \in Seq(Plain)
    BY <1>d, <1>w, BothCaught
  <2> QED BY <2>1, Wrapped DEF QueryHint, QueryMaxKey, QueryMinKey, QuerySort
<1>3. QueryIsExplain \in Sound(Plain)
  BY SoundOne DEF QueryIsExplain
<1>4. QuerySortField \in Sound(Plain) /\ QueryWhere \in Sound(Plain)
  BY <1>t, <1>m, SoundTuples DEF QuerySortField, QueryWhere
<1>5. QueryWhereScope \in Sound(Plain)
  <2>1. InAll(Try("false", "nil"), <<Arg(3, Document), Modifier>>) \in Seq(Plain)
    BY <1>d, <1>w, BothCaught
  <2> QED BY <1>t, <2>1, Wrapped DEF QueryWhereScope
<1> QED BY <1>1, <1>2, <1>3, <1>4, <1>5 DEF QueryMethods

LEMMA PlainGrid ==
  /\ RemoveFile \in Sound(Plain) /\ StoreFile \in Sound(Plain) /\ StoreData \in Sound(Plain)
  /\ BuilderAppend \in Sound(Plain) /\ BuilderBuild \in Sound(Plain)
  /\ FileChunk \in Sound(Plain) /\ FileAttribute \in Sound(Plain)
  /\ FileWrite \in Sound(Plain) /\ FileData \in Sound(Plain)
  /\ ChunkAttribute \in Sound(Plain)
<1> USE PlainPushes
<1>t. /\ Text(2) \in Plain /\ OptText(3) \in Plain /\ OptText(4) \in Plain /\ Int(2) \in Plain
      /\ Text(2) \in StepsTo(Mute)
  BY PlainSteps DEF Checks
<1>w. /\ Write \in StepsTo(Mute)
      /\ In(TryStd("false"), Write) \in Plain /\ In(TryStd("nil"), Write) \in Plain
      /\ In(TryStd("false"), Read) \in Plain /\ In(TryStd("nil"), Read) \in Plain
  BY DriverSteps, OneCaught
<1>1. RemoveFile \in Sound(Plain) /\ FileWrite \in Sound(Plain)
  BY <1>t, <1>w, SoundTuples DEF RemoveFile, FileWrite
<1>2. StoreFile \in Sound(Plain) /\ StoreData \in Sound(Plain)
  BY <1>t, <1>w, SoundTuples DEF StoreFile, StoreData
<1>3. BuilderAppend \in Sound(Plain)
  <2>1. InAll(TryStd("nil"), <<Text(2), Write>>) \in Seq(Plain)
    BY <1>t, <1>w, OneCaught
  <2> QED BY <2>1, Wrapped DEF BuilderAppend
<1>4. BuilderBuild \in Sound(Plain)
  BY <1>t, <1>w, SoundTuples DEF BuilderBuild
<1>5. FileChunk \in Sound(Plain)
  BY <1>t, <1>w, SoundTuples DEF FileChunk
<1>6. FileData \in Sound(Plain)
  BY <1>w, SoundOne DEF FileData
<1>7. FileAttribute \in Sound(Plain) /\ ChunkAttribute \in Sound(Plain)
  BY SoundOne DEF FileAttribute, ChunkAttribute
<1> QED BY <1>1, <1>2, <1>3, <1>4, <1>5, <1>6, <1>7

LEMMA PlainFunctions ==
  /\ ConnectionNew \in Sound(Plain) /\ ReplicaSetNew \in Sound(Plain)
  /\ QueryNew \in Sound(Plain) /\ GridFSNew \in Sound(Plain)
  /\ BuilderNew \in Sound(Plain) /\ FromJSON \in Sound(Plain)
<1> USE PlainPushes
<1>w. /\ Local \in StepsTo(Mute) /\ Local \in StepsTo(Ordinary) /\ Read \in StepsTo(Mute)
      /\ In(TryStd("nil"), Local) \in Plain
  BY DriverSteps, PlainSteps, OneCaught
<1>1. ConnectionNew \in Sound(Plain)
  <2>1. Check(1, {"number"} \cup Omitted) \in StepsTo(Mute)
    BY PlainSteps
  <2>2. InAll(TryStd("nil"), <<Check(1, {"number"} \cup Omitted), Local>>) \in Seq(Plain)
    BY <1>w, <2>1, OneCaught
  <2> QED BY <2>2, Wrapped DEF ConnectionNew
<1>2. ReplicaSetNew \in Sound(Plain)
  <2>1. Check(1, {"text", "json"}) \in Plain /\ TableArg(2) \in Plain
    BY PlainSteps DEF Checks
  <2> QED BY <1>w, <2>1, SoundTuples DEF ReplicaSetNew
<1>3. QueryNew \in Sound(Plain)
  <2>1. Arg(1, [Document EXCEPT !["none"] = {"goes"}]) \in StepsTo(Ordinary)
    BY DocumentSteps DEF Kinds
  <2>2. InAll(Try("nil", "nil"), <<Arg(1, [Document EXCEPT !["none"] = {"goes"}]), Local>>)
          \in Seq(Plain)
    BY <1>w, <2>1, BothCaught
  <2> QED BY <2>2, Wrapped DEF QueryNew
<1>4. GridFSNew \in Sound(Plain)
  <2> DEFINE f == [k \in Kinds |-> IF k \in Strings THEN {"goes"} ELSE {"std"}]
  <2>1. {"goes", "std"} \subseteq Mute
    BY DEF Mute, Ordinary, Outcomes, Exceptions
  <2>2. f \in [Kinds -> SUBSET Mute]
    BY <2>1
  <2>3. Arg(2, f) \in StepsTo(Mute)
    BY <2>2, ArgTo
  <2>4. OptText(3) \in StepsTo(Mute)
    BY PlainSteps DEF Checks
  <2>5. InAll(TryStd("nil"), <<Arg(2, f), OptText(3), Read>>) \in Seq(Plain)
    BY <1>w, <2>3, <2>4, OneCaught
  <2> QED BY <2>5, Wrapped DEF GridFSNew
<1>5. BuilderNew \in Sound(Plain)
  BY <1>w, SoundOne DEF BuilderNew
<1>6. FromJSON \in Sound(Plain)
  <2>1. Text(1) \in Plain
    BY PlainSteps DEF Checks
  <2>2. Drive("local", [a \in {"done", "error"} |-> Throws[a]]) = Local
    BY DEF Local
  <2> QED BY <1>w, <2>1, <2>2, SoundTuples DEF FromJSON
<1> QED BY <1>1, <1>2, <1>3, <1>4, <1>5, <1>6

-----------------------------------------------------------------------------
(* The handlers that call the driver outside of a try block, end early or make
   documents with new. *)

LEMMA Unguarded ==
  /\ Auth \in Sound(StepsTo(Ordinary)) /\ Exists \in Sound(StepsTo(Ordinary))
  /\ EnumerateIndexes \in Sound(StepsTo(Ordinary))
  /\ GetLastError \in Sound(StepsTo(Ordinary))
  /\ GetLastErrorDetailed \in Sound(StepsTo(Ordinary))
  /\ GridFSList \in Sound(StepsTo(Mute)) /\ ToJSON \in Sound(StepsTo(Mute))
  /\ CursorNext \in Sound(StepsTo(Ordinary)) /\ ResultIterator \in Sound(StepsTo(Ordinary))
  /\ CursorHasMore \in Sound(StepsTo(Ordinary)) /\ CursorItCount \in Sound(StepsTo(Ordinary))
<1> DEFINE O == StepsTo(Ordinary)
<1>p. /\ Push({"true"}) \in O \cap Sure /\ Push({"boolean"}) \in O \cap Sure
      /\ Push({"value"}) \in O \cap Sure /\ Push({"box"}) \in O \cap Sure
  BY PlainPushes, PlainSteps
<1>m. Push({"value"}) \in StepsTo(Mute) \cap Sure /\ Push({"box"}) \in StepsTo(Mute) \cap Sure
  <2>1. StepsTo({"goes"}) \subseteq StepsTo(Mute)
    BY SetsOfOutcomes, StepsWithin
  <2> QED BY <2>1, PlainPushes DEF Sure
<1>t. TableArg(2) \in O /\ Text(2) \in O /\ Text(3) \in O /\ Text(4) \in O /\ Text(5) \in O
  BY PlainSteps DEF Checks
<1>r. Read \in O /\ OpenCursor \in O /\ OpenCursor \in StepsTo(Mute)
  BY DriverSteps, PlainSteps
<1>s. {"goes", "std", "nil", "badref"} \subseteq Mute /\ {"goes", "std", "nil"} \subseteq Ordinary
  BY DEF Mute, Ordinary, Outcomes, Exceptions
<1>1. Auth \in Sound(O)
  <2>1. Drive("read", [Throws EXCEPT !["error"] = {"nil"}]) \in O
    BY <1>s, ReadSteps
  <2> HIDE DEF O
  <2> QED BY <1>p, <1>t, <2>1, SoundTuples DEF Auth
<1>2. GetLastError \in Sound(O) /\ GetLastErrorDetailed \in Sound(O)
  <2>1. Drive("read", LastError) \in O
    BY <1>s, ReadSteps DEF LastError
  <2> HIDE DEF O
  <2> QED BY <1>p, <2>1, SoundTuples DEF GetLastError, GetLastErrorDetailed
<1>3. GridFSList \in Sound(StepsTo(Mute))
  <2>1. Arg(2, Lenient(Document)) \in StepsTo(Mute)
    BY DocumentSteps
  <2> QED BY <1>m, <1>r, <2>1, SoundTuples DEF GridFSList
<1>4. ToJSON \in Sound(StepsTo(Mute))
  <2> DEFINE f == [k \in Kinds |-> CASE k = "table" -> {"goes"} [] k = "badtable" -> {"badref"}
                                    [] OTHER -> {"nil"}]
  <2>1. f \in [Kinds -> SUBSET Mute]
    BY <1>s
  <2>2. Arg(1, f) \in StepsTo(Mute)
    BY <2>1, ArgTo
  <2> QED BY <1>m, <2>2, SoundTuples DEF ToJSON
<1> HIDE DEF O
<1>5. Exists \in Sound(O) /\ EnumerateIndexes \in Sound(O)
  BY <1>p, <1>t, <1>r, SoundTuples DEF Exists, EnumerateIndexes
<1>6. /\ CursorNext \in Sound(O) /\ ResultIterator \in Sound(O)
      /\ CursorHasMore \in Sound(O) /\ CursorItCount \in Sound(O)
  BY <1>p, <1>r, SoundTuples DEF CursorNext, ResultIterator, CursorHasMore, CursorItCount
<1> QED BY <1>1, <1>2, <1>3, <1>4, <1>5, <1>6 DEF O

Commander == Caught(Outcomes \ {"makes", "ends"})

LEMMA RunCommandSteps == RunCommand \in Sound(Commander)
<1> DEFINE X == Outcomes \ {"makes", "ends"}
           read == Drive("read", [Throws EXCEPT !["error"] = {"stale"}])
           arg == Arg(3, [Document EXCEPT !["table"] = {"goes", "char", "assertion"}])
<1>1. X \in SUBSET Outcomes /\ Ordinary \subseteq X /\ {"goes", "std", "stale"} \subseteq X
  BY DEF Ordinary, Outcomes, Exceptions
<1> HIDE DEF X
<1>2. read \in StepsTo(X)
  BY <1>1, ReadSteps
<1>3. arg \in StepsTo(X)
  <2>1. arg \in StepsTo(Ordinary)
    BY DocumentSteps DEF Kinds
  <2> QED BY <1>1, <2>1, StepsWithin
<1> HIDE DEF read, arg
<1>4. InAll(Try("false", "false"), <<arg, read>>) \in Seq(Caught(X))
  <2>1. \A x \in StepsTo(X) : In(Try("false", "false"), x) \in Caught(X)
    BY <1>1, TryCatches
  <2>2. <<arg, read>> \in Seq(StepsTo(X))
    BY <1>2, <1>3
  <2> QED BY <2>1, <2>2, InAllType
<1>5. Plain \subseteq Caught(X)
  BY <1>1, CaughtWithin DEF Plain
<1>6. Text(2) \in Caught(X) /\ Push({"value"}) \in Caught(X) \cap Sure
  BY <1>5, PlainSteps, PlainPushes DEF Checks
<1>7. <<Text(2)>> \o InAll(Try("false", "false"), <<arg, read>>) \in Seq(Caught(X))
  BY <1>4, <1>6
<1> QED BY <1>6, <1>7, SoundOne, SoundEnd DEF RunCommand, Commander, X, read, arg

LEMMA FindFileSteps ==
  /\ FindFile \in Seq(Caught(Mute \cup {"ends"}))
  /\ FindFileByName \in Seq(Caught(Mute \cup {"ends"}))
<1> DEFINE X == Mute \cup {"ends"}
<1>1. X \in SUBSET (Outcomes \ {"char"}) /\ {"goes", "badref", "lua", "ends"} \subseteq X
  BY DEF Mute, Ordinary, Outcomes, Exceptions
<1>2. ASSUME NEW f \in [Kinds -> SUBSET {"goes", "badref", "lua"}]
      PROVE  InAll(TryStd("nil"), <<Arg(2, Named(f)), Read>>) \o <<Push({"box"})>>
               \in Seq(Caught(X))
  <2>1. Named(f) \in [Kinds -> SUBSET X]
    BY <1>1 DEF Named
  <2>2. Arg(2, Named(f)) \in StepsTo(X)
    BY <2>1, ArgTo
  <2>3. Read \in StepsTo(X)
    BY DriverSteps, StepsWithin
  <2>4. <<Arg(2, Named(f)), Read>> \in Seq(StepsTo(X))
    BY <2>2, <2>3
  <2>5. \A x \in StepsTo(X) : In(TryStd("nil"), x) \in Caught(X)
    BY <1>1, TryStdCatches
  <2>6. InAll(TryStd("nil"), <<Arg(2, Named(f)), Read>>) \in Seq(Caught(X))
    BY <2>4, <2>5, InAllType
  <2>7. Push({"box"}) \in Caught(X)
    <3>1. StepsTo({"goes"}) \subseteq StepsTo(X) /\ Push({"box"}) \in StepsTo({"goes"})
      BY <1>1, StepsWithin, PlainPushes DEF Sure
    <3> QED BY <3>1, PlainPushes DEF Plain, Caught
  <2>8. <<Push({"box"})>> \in Seq(Caught(X))
    BY <2>7
  <2> HIDE DEF X
  <2> QED BY <2>6, <2>8
<1>3. [k \in Kinds |-> CASE k \in Strings \cup {"table"} -> {"goes"}
                        [] k = "badtable" -> {"badref"}
                        [] OTHER -> {"lua"}] \in [Kinds -> SUBSET {"goes", "badref", "lua"}]
  OBVIOUS
<1>4. Text(2).of \in [Kinds -> SUBSET {"goes", "badref", "lua"}]
  BY DEF Text, Check, Arg, Step
<1> QED BY <1>2, <1>3, <1>4 DEF FindFile, FindFileByName

LEMMA FieldSteps == FileField \in Seq(Plain)
<1>1. Text(2) \in Plain /\ Push({"value", "nothing"}) \in Plain
  BY PlainSteps DEF Checks, Results
<1> QED BY <1>1 DEF FileField

LEMMA MapReduceSteps == MapReduce \in Sound(StepsTo(Ordinary))
<1> DEFINE O == StepsTo(Ordinary)
           arg == In(Try("nil", "nil"), Arg(5, Optional(Document)))
<1>1. Text(2) \in O /\ Text(3) \in O /\ Text(4) \in O /\ OptText(6) \in O
  BY PlainSteps DEF Checks
<1>2. arg \in O
  <2>1. Try("nil", "nil") \in Tries
    BY TriesType
  <2> QED BY <2>1, DocumentSteps, InTo
<1>3. Read \in O
  BY DriverSteps, PlainSteps
<1>4. Push({"value"}) \in O \cap Sure
  BY PlainPushes, PlainSteps
<1> HIDE DEF O, arg
<1>5. <<Read, Push({"value"})>> \in Sound(O)
  BY <1>3, <1>4, SoundOne
<1>6. <<Text(2), Text(3), Text(4), OptText(6), arg>> \in Seq(O)
  BY <1>1, <1>2
<1>7. MapReduce = <<Text(2), Text(3), Text(4), OptText(6), arg>> \o <<Read, Push({"value"})>>
  BY DEF MapReduce, arg
<1> QED BY <1>5, <1>6, <1>7, SoundEnd DEF O

(* The three handlers that make documents. *)
Maker == StepsTo(Ordinary \cup {"makes"})

LEMMA MakerSteps ==
  /\ StepsTo({"goes", "lua"}) \subseteq Maker /\ StepsTo({"goes"}) \subseteq Maker
  /\ StepsTo(Mute) \subseteq Maker /\ StepsTo(Ordinary) \subseteq Maker
BY SetsOfOutcomes, StepsWithin DEF Maker

LEMMA QuerySteps ==
  /\ Query \in Sound(Maker)
  /\ \A i \in DOMAIN Query : MadeBefore(Query, i) /\ ~Query[i].tidy =>
       \A o : Leads(Query[i], o) => o \in {"goes", "lua"}
<1> DEFINE arg == In(Try("nil", "nil"), Arg(3, Optional(DocumentOrQuery)))
           selector == Arg(6, Optional(HeapDocument))
           read == Tidy(In(TryStd("nil"), OpenCursor))
<1>1. arg \in StepsTo(Ordinary)
  <2>1. Try("nil", "nil") \in Tries
    BY TriesType
  <2> QED BY <2>1, DocumentSteps, InTo
<1>2. selector \in Maker
  BY DocumentSteps DEF Maker
<1>3. read \in StepsTo(Mute) /\ read.tidy = TRUE
  <2>1. TryStd("nil") \in Tries
    BY TriesType
  <2>2. In(TryStd("nil"), OpenCursor) \in StepsTo(Mute)
    BY <2>1, DriverSteps, InTo
  <2> QED BY <2>1, <2>2, InTo
<1>4. /\ Text(2) \in StepsTo({"goes", "lua"})
      /\ OptInt(4) \in StepsTo({"goes", "lua"}) /\ OptInt(5) \in StepsTo({"goes", "lua"})
      /\ OptInt(7) \in StepsTo({"goes", "lua"}) /\ OptInt(8) \in StepsTo({"goes", "lua"})
  BY CheckSteps
<1>5. Push({"box"}) \in StepsTo({"goes"}) \cap Sure /\ Free \in StepsTo({"goes"})
  BY PlainPushes, FreeStep DEF Sure
<1> HIDE DEF arg, selector, read
<1>6. Query = <<Text(2), arg, OptInt(4), OptInt(5), selector, OptInt(7), OptInt(8), read,
                Push({"box"}), Free>>
  BY DEF Query, arg, selector, read
<1>7. Query \in Sound(Maker)
  <2>1. <<Text(2), arg, OptInt(4), OptInt(5), selector>> \in Seq(Maker)
    BY <1>1, <1>2, <1>4, MakerSteps
  <2>2. <<OptInt(7), OptInt(8), read, Push({"box"}), Free>> \in Seq(Maker)
    BY <1>3, <1>4, <1>5, MakerSteps
  <2>3. <<OptInt(7), OptInt(8), read, Push({"box"}), Free>> \in Sound(Maker)
    BY <1>5, <2>2 DEF Sound
  <2>4. Query = <<Text(2), arg, OptInt(4), OptInt(5), selector>>
                  \o <<OptInt(7), OptInt(8), read, Push({"box"}), Free>>
    BY <1>6
  <2> QED BY <2>1, <2>3, <2>4, SoundEnd
<1>8. ASSUME NEW i \in DOMAIN Query, MadeBefore(Query, i), ~Query[i].tidy,
             NEW o, Leads(Query[i], o)
      PROVE  o \in {"goes", "lua"}
  <2>1. DOMAIN Query = 1 .. 10
    BY <1>6
  <2>2. \A x \in StepsTo(Ordinary) : ~Leads(x, "makes")
    BY LeadsWithin, SetsOfOutcomes
  <2>3. /\ Query[1] \in StepsTo(Ordinary) /\ Query[2] \in StepsTo(Ordinary)
        /\ Query[3] \in StepsTo(Ordinary) /\ Query[4] \in StepsTo(Ordinary)
    <3>1. StepsTo({"goes", "lua"}) \subseteq StepsTo(Ordinary)
      BY SetsOfOutcomes, StepsWithin
    <3> QED BY <1>1, <1>4, <1>6, <3>1
  <2>4. PICK j \in 1 .. 10 : j < i /\ Leads(Query[j], "makes")
    BY <1>8, <2>1 DEF MadeBefore
  <2>5. j \notin {1, 2, 3, 4}
    BY <2>2, <2>3, <2>4
  <2>6. i \in {6, 7, 8, 9, 10}
    BY <2>1, <2>4, <2>5
  <2>7. Query[8] = read
    BY <1>6
  <2>8. i \in {6, 7, 9, 10}
    BY <1>3, <1>8, <2>6, <2>7
  <2>9. Query[i] \in StepsTo({"goes", "lua"}) \cup StepsTo({"goes"})
    BY <1>4, <1>5, <1>6, <2>8
  <2> QED BY <1>8, <2>9, LeadsWithin
<1> QED BY <1>7, <1>8

LEMMA FindOneSteps ==
  /\ FindOne \in Sound(Maker)
  /\ \A i \in DOMAIN FindOne : MadeBefore(FindOne, i) /\ ~FindOne[i].tidy =>
       \A o : Leads(FindOne[i], o) => o \in {"goes", "lua"}
<1> DEFINE arg == In(Try("nil", "nil"), Arg(3, Optional(DocumentOrQuery)))
           selector == Arg(4, Optional(HeapDocument))
           answers == [Throws EXCEPT !["error"] = {"assertion"},
                                     !["broken"] = {"assertion", "std"}]
           read == Tidy(In(TryAssertion("nil"), Drive("read", answers)))
<1>1. arg \in StepsTo(Ordinary)
  <2>1. Try("nil", "nil") \in Tries
    BY TriesType
  <2> QED BY <2>1, DocumentSteps, InTo
<1>2. selector \in Maker
  BY DocumentSteps DEF Maker
<1>3. read \in StepsTo(Mute) /\ read.tidy = TRUE
  <2>1. {"goes", "std", "assertion"} \subseteq Mute /\ "read" \in Acts
    BY DEF Mute, Ordinary, Outcomes, Exceptions, Acts
  <2>2. Throws \in [Answers -> SUBSET Mute]
    BY <2>1, ThrowsType
  <2>3. answers \in [Answers -> SUBSET Mute]
    BY <2>1, <2>2
  <2>4. Drive("read", answers) \in StepsTo(Mute)
    BY <2>1, <2>3, DriveTo
  <2>5. TryAssertion("nil") \in Tries
    BY TriesType
  <2>6. In(TryAssertion("nil"), Drive("read", answers)) \in StepsTo(Mute)
    BY <2>4, <2>5, InTo
  <2> QED BY <2>5, <2>6, InTo
<1>4. Text(2) \in StepsTo({"goes", "lua"}) /\ OptInt(5) \in StepsTo({"goes", "lua"})
  BY CheckSteps
<1>5. Push({"value"}) \in StepsTo({"goes"}) \cap Sure /\ Free \in StepsTo({"goes"})
  BY PlainPushes, FreeStep DEF Sure
<1>6. FindOne = <<Text(2), arg, selector, OptInt(5), read, Push({"value"}), Free>>
  BY DEF FindOne
<1> HIDE DEF arg, selector, answers, read
<1>7. FindOne \in Sound(Maker)
  <2>1. <<Text(2), arg, selector, OptInt(5)>> \in Seq(Maker)
    BY <1>1, <1>2, <1>4, MakerSteps
  <2>2. <<read, Push({"value"}), Free>> \in Seq(Maker)
    BY <1>3, <1>5, MakerSteps
  <2>3. <<read, Push({"value"}), Free>> \in Sound(Maker)
    BY <1>5, <2>2 DEF Sound
  <2>4. FindOne = <<Text(2), arg, selector, OptInt(5)>> \o <<read, Push({"value"}), Free>>
    BY <1>6
  <2> QED BY <2>1, <2>3, <2>4, SoundEnd
<1>8. ASSUME NEW i \in DOMAIN FindOne, MadeBefore(FindOne, i), ~FindOne[i].tidy,
             NEW o, Leads(FindOne[i], o)
      PROVE  o \in {"goes", "lua"}
  <2>1. DOMAIN FindOne = 1 .. 7
    BY <1>6
  <2>2. \A x \in StepsTo(Ordinary) : ~Leads(x, "makes")
    BY LeadsWithin, SetsOfOutcomes
  <2>3. FindOne[1] \in StepsTo(Ordinary) /\ FindOne[2] \in StepsTo(Ordinary)
    <3>1. StepsTo({"goes", "lua"}) \subseteq StepsTo(Ordinary)
      BY SetsOfOutcomes, StepsWithin
    <3> QED BY <1>1, <1>4, <1>6, <3>1
  <2>4. PICK j \in 1 .. 7 : j < i /\ Leads(FindOne[j], "makes")
    BY <1>8, <2>1 DEF MadeBefore
  <2>5. j \notin {1, 2}
    BY <2>2, <2>3, <2>4
  <2>6. i \in {4, 5, 6, 7}
    BY <2>1, <2>4, <2>5
  <2>7. FindOne[5] = read
    BY <1>6
  <2>8. i \in {4, 6, 7}
    BY <1>3, <1>8, <2>6, <2>7
  <2>9. FindOne[i] \in StepsTo({"goes", "lua"}) \cup StepsTo({"goes"})
    BY <1>4, <1>5, <1>6, <2>8
  <2> QED BY <1>8, <2>9, LeadsWithin
<1> QED BY <1>7, <1>8

LEMMA EvalSteps ==
  /\ Eval \in Seq(Maker)
  /\ \A i \in DOMAIN Eval : MadeBefore(Eval, i) =>
       /\ Eval[i].try = NoTry
       /\ \A o : Leads(Eval[i], o) => o \in {"goes", "std", "false"}
<1> DEFINE arg == In(Try("nil", "nil"), Arg(4, Optional(HeapDocument)))
           read == Drive("read", [Throws EXCEPT !["error"] = {"false"}])
<1>1. arg \in Maker
  <2>1. Try("nil", "nil") \in Tries
    BY TriesType
  <2> QED BY <2>1, DocumentSteps, InTo DEF Maker
<1>2. read \in StepsTo({"goes", "std", "false"}) /\ read.try = NoTry
  BY ReadSteps DEF Drive, Step
<1>3. Text(2) \in StepsTo({"goes", "lua"}) /\ Text(3) \in StepsTo({"goes", "lua"})
  BY CheckSteps
<1>4. /\ Push({"value", "nothing"}) \in StepsTo({"goes"}) /\ Free \in StepsTo({"goes"})
      /\ Push({"value", "nothing"}).try = NoTry /\ Free.try = NoTry
  BY PushSteps, FreeStep DEF Results, Push, Free, Step
<1> HIDE DEF arg, read
<1>5. Eval = <<Text(2), Text(3), arg, read, Free, Push({"value", "nothing"})>>
  BY DEF Eval, arg, read
<1>6. Eval \in Seq(Maker)
  <2>1. StepsTo({"goes", "std", "false"}) \subseteq Maker
    BY StepsWithin DEF Maker, Ordinary, Outcomes, Exceptions
  <2> QED BY <1>1, <1>2, <1>3, <1>4, <1>5, <2>1, MakerSteps
<1>7. ASSUME NEW i \in DOMAIN Eval, MadeBefore(Eval, i)
      PROVE  /\ Eval[i].try = NoTry
             /\ Eval[i] \in StepsTo({"goes", "std", "false"}) \cup StepsTo({"goes"})
  <2>1. DOMAIN Eval = 1 .. 6
    BY <1>5
  <2>2. \A x \in StepsTo({"goes", "lua"}) : ~Leads(x, "makes")
    BY LeadsWithin
  <2>3. PICK j \in 1 .. 6 : j < i /\ Leads(Eval[j], "makes")
    BY <1>7, <2>1 DEF MadeBefore
  <2>4. Eval[1] \in StepsTo({"goes", "lua"}) /\ Eval[2] \in StepsTo({"goes", "lua"})
    BY <1>3, <1>5
  <2>5. j \notin {1, 2}
    BY <2>2, <2>3, <2>4
  <2>6. i \in {4, 5, 6}
    BY <2>1, <2>3, <2>5
  <2> QED BY <1>2, <1>4, <1>5, <2>6
<1>8. \A x \in StepsTo({"goes", "std", "false"}) \cup StepsTo({"goes"}) :
        \A o : Leads(x, o) => o \in {"goes", "std", "false"}
  BY LeadsWithin
<1> QED BY <1>6, <1>7, <1>8

-----------------------------------------------------------------------------
(* The handlers with arguments in brackets.                                 *)

(* A step that refuses nobody for not passing the arguments at P. *)
Lax(P) == {s \in StepsTo(Outcomes) : \A p \in P : \A k \in Omitted : ~Refuses(s, p, k)}

LEMMA OtherActLax ==
  ASSUME NEW P, NEW s \in StepsTo(Outcomes), s.act # "arg"
  PROVE  s \in Lax(P)
BY DEF Lax, Refuses

LEMMA OtherPositionLax ==
  ASSUME NEW P, NEW p \in Nat \ P, NEW of \in [Kinds -> SUBSET Outcomes]
  PROVE  Arg(p, of) \in Lax(P)
<1>1. Arg(p, of) \in StepsTo(Outcomes) /\ Arg(p, of).pos = p
  BY ArgTo DEF Arg, Step
<1> QED BY <1>1 DEF Lax, Refuses

LEMMA OptionalLax ==
  ASSUME NEW P, NEW p \in Nat, NEW of \in [Kinds -> SUBSET Outcomes],
         \A k \in Omitted : of[k] = {"goes"}
  PROVE  Arg(p, of) \in Lax(P)
<1>1. Arg(p, of) \in StepsTo(Outcomes) /\ Arg(p, of).of = of
  BY ArgTo DEF Arg, Step
<1> QED BY <1>1 DEF Lax, Refuses, Going

LEMMA InLax ==
  ASSUME NEW P, NEW s \in Lax(P), NEW t \in Tries
  PROVE  In(t, s) \in Lax(P)
<1>1. In(t, s) \in StepsTo(Outcomes) /\ In(t, s).pos = s.pos
      /\ In(t, s).of = s.of /\ In(t, s).act = s.act
  BY InTo DEF Lax, In, StepsTo
<1> QED BY <1>1 DEF Lax, Refuses

LEMMA CheckLax ==
  ASSUME NEW P, NEW p \in Nat
  PROVE  /\ p \notin P => Text(p) \in Lax(P)
         /\ OptText(p) \in Lax(P)
<1>1. \A ks : [k \in Kinds |-> IF k \in ks THEN {"goes"} ELSE {"lua"}]
                \in [Kinds -> SUBSET Outcomes]
  BY DEF Outcomes
<1>2. ASSUME p \notin P PROVE Text(p) \in Lax(P)
  BY <1>1, <1>2, OtherPositionLax DEF Text, Check
<1>3. OptText(p) \in Lax(P)
  <2> DEFINE of == [k \in Kinds |-> IF k \in Strings \cup Omitted THEN {"goes"} ELSE {"lua"}]
  <2>1. \A k \in Omitted : of[k] = {"goes"}
    BY DEF Omitted, Kinds
  <2>2. of \in [Kinds -> SUBSET Outcomes]
    BY <1>1
  <2>3. OptText(p) = Arg(p, of)
    BY DEF OptText, Check
  <2> HIDE DEF of
  <2> QED BY <2>1, <2>2, <2>3, OptionalLax
<1> QED BY <1>2, <1>3

LEMMA ChainLax ==
  ASSUME NEW P, NEW p \in Nat
  PROVE  /\ Arg(p, Optional(Document)) \in Lax(P)
         /\ Arg(p, Optional(HeapDocument)) \in Lax(P)
         /\ Arg(p, Lenient(Document)) \in Lax(P)
<1>1. {"assertion", "goes", "badref", "char", "makes"} \subseteq Outcomes /\ "goes" \in Outcomes
  BY DEF Outcomes, Exceptions
<1>2. /\ Document \in [Kinds -> SUBSET Outcomes] /\ HeapDocument \in [Kinds -> SUBSET Outcomes]
      /\ Lenient(Document) \in [Kinds -> SUBSET Outcomes]
  BY <1>1, Documents
<1>3. /\ Optional(Document) \in [Kinds -> SUBSET Outcomes]
      /\ Optional(HeapDocument) \in [Kinds -> SUBSET Outcomes]
  BY <1>1, <1>2, OptionalType
<1>4. \A k \in Omitted : /\ Optional(Document)[k] = {"goes"}
                        /\ Optional(HeapDocument)[k] = {"goes"}
                        /\ Lenient(Document)[k] = {"goes"}
  BY DEF Optional, Lenient, Document, Omitted, Kinds
<1> QED BY <1>2, <1>3, <1>4, OptionalLax

LEMMA WorkLax ==
  ASSUME NEW P
  PROVE  /\ Read \in Lax(P) /\ In(TryStd("nil"), Write) \in Lax(P) /\ Free \in Lax(P)
         /\ OpenCursor \in Lax(P)
         /\ Drive("read", [Throws EXCEPT !["error"] = {"false"}]) \in Lax(P)
         /\ Push({"value"}) \in Lax(P) /\ Push({"value", "nothing"}) \in Lax(P)
         /\ Push({"box"}) \in Lax(P)
<1>1. /\ StepsTo(Mute) \subseteq StepsTo(Outcomes) /\ StepsTo({"goes"}) \subseteq StepsTo(Outcomes)
      /\ {"goes", "std", "false"} \subseteq Mute
  BY SetsOfOutcomes, StepsWithin DEF Mute, Ordinary, Outcomes, Exceptions
<1>2. Read \in Lax(P) /\ Write \in Lax(P) /\ OpenCursor \in Lax(P)
  <2>1. Read.act # "arg" /\ Write.act # "arg" /\ OpenCursor.act # "arg"
    BY DEF Read, Write, OpenCursor, Drive, Step
  <2> QED BY <1>1, <2>1, DriverSteps, OtherActLax
<1>3. In(TryStd("nil"), Write) \in Lax(P)
  BY <1>2, TriesType, InLax
<1>4. Drive("read", [Throws EXCEPT !["error"] = {"false"}]) \in Lax(P)
  <2> DEFINE read == Drive("read", [Throws EXCEPT !["error"] = {"false"}])
  <2>1. read.act # "arg"
    BY DEF Drive, Step
  <2>2. read \in StepsTo(Mute)
    BY <1>1, ReadSteps
  <2> QED BY <1>1, <2>1, <2>2, OtherActLax
<1>5. \A rs \in SUBSET Results : Push(rs) \in Lax(P)
  <2> SUFFICES ASSUME NEW rs \in SUBSET Results PROVE Push(rs) \in Lax(P)
    OBVIOUS
  <2>1. Push(rs).act # "arg"
    BY DEF Push, Step
  <2> QED BY <1>1, <2>1, PushSteps, OtherActLax
<1>6. Free \in Lax(P)
  BY <1>1, FreeStep, OtherActLax
<1>7. Push({"value"}) \in Lax(P) /\ Push({"value", "nothing"}) \in Lax(P) /\ Push({"box"}) \in Lax(P)
  BY <1>5 DEF Results
<1> QED BY <1>2, <1>3, <1>4, <1>6, <1>7

LEMMA LaxHandlers ==
  /\ Eval \in Seq(Lax({4})) /\ MapReduce \in Seq(Lax({5, 6})) /\ GridFSList \in Seq(Lax({2}))
  /\ StoreFile \in Seq(Lax({3, 4})) /\ StoreData \in Seq(Lax({3, 4}))
  /\ BuilderBuild \in Seq(Lax({3})) /\ GridFSNew \in Seq(Lax({3}))
<1>1. Try("nil", "nil") \in Tries /\ TryStd("nil") \in Tries
  BY TriesType
<1>2. Eval \in Seq(Lax({4}))
  <2>1. In(Try("nil", "nil"), Arg(4, Optional(HeapDocument))) \in Lax({4})
    BY <1>1, ChainLax, InLax
  <2>2. Text(2) \in Lax({4}) /\ Text(3) \in Lax({4})
    BY CheckLax
  <2>3. /\ Drive("read", [Throws EXCEPT !["error"] = {"false"}]) \in Lax({4})
        /\ Free \in Lax({4}) /\ Push({"value", "nothing"}) \in Lax({4})
    BY WorkLax
  <2> QED BY <2>1, <2>2, <2>3 DEF Eval
<1>3. MapReduce \in Seq(Lax({5, 6}))
  <2>1. In(Try("nil", "nil"), Arg(5, Optional(Document))) \in Lax({5, 6})
    BY <1>1, ChainLax, InLax
  <2>2. /\ Text(2) \in Lax({5, 6}) /\ Text(3) \in Lax({5, 6}) /\ Text(4) \in Lax({5, 6})
        /\ OptText(6) \in Lax({5, 6})
    BY CheckLax
  <2> QED BY <2>1, <2>2, WorkLax DEF MapReduce
<1>4. GridFSList \in Seq(Lax({2}))
  BY ChainLax, WorkLax DEF GridFSList
<1>5. StoreFile \in Seq(Lax({3, 4})) /\ StoreData \in Seq(Lax({3, 4}))
  <2>1. Text(2) \in Lax({3, 4}) /\ OptText(3) \in Lax({3, 4}) /\ OptText(4) \in Lax({3, 4})
    BY CheckLax
  <2> QED BY <2>1, WorkLax DEF StoreFile, StoreData
<1>6. BuilderBuild \in Seq(Lax({3}))
  <2>1. Text(2) \in Lax({3}) /\ OptText(3) \in Lax({3})
    BY CheckLax
  <2> QED BY <2>1, WorkLax DEF BuilderBuild
<1>7. GridFSNew \in Seq(Lax({3}))
  <2> DEFINE f == [k \in Kinds |-> IF k \in Strings THEN {"goes"} ELSE {"std"}]
             L == Lax({3})
  <2>1. f \in [Kinds -> SUBSET Outcomes]
    BY DEF Outcomes, Exceptions
  <2>2. Arg(2, f) \in L /\ OptText(3) \in L /\ Read \in L /\ Push({"box"}) \in L
    BY <2>1, OtherPositionLax, CheckLax, WorkLax
  <2>3. \A x \in L : In(TryStd("nil"), x) \in L
    BY <1>1, InLax
  <2> HIDE DEF L
  <2>4. <<Arg(2, f), OptText(3), Read>> \in Seq(L)
    BY <2>2
  <2>5. InAll(TryStd("nil"), <<Arg(2, f), OptText(3), Read>>) \in Seq(L)
    BY <2>3, <2>4, InAllType
  <2>6. InAll(TryStd("nil"), <<Arg(2, f), OptText(3), Read>>) \o <<Push({"box"})>> \in Seq(L)
    BY <2>2, <2>5
  <2> QED BY <2>6 DEF GridFSNew, L
<1> QED BY <1>2, <1>3, <1>4, <1>5, <1>6, <1>7

-----------------------------------------------------------------------------
(* The registration tables.                                                 *)

LEMMA DBClientTable ==
  ASSUME NEW m \in DOMAIN DBClientMethods
  PROVE  \/ DBClientMethods[m] \in Sound(Plain)
         \/ /\ m \in {"auth", "exists", "enumerate_indexes", "mapreduce", "get_last_error",
                     "get_last_error_detailed"}
            /\ DBClientMethods[m] \in Sound(StepsTo(Ordinary))
         \/ m = "run_command" /\ DBClientMethods[m] = RunCommand
         \/ m = "query" /\ DBClientMethods[m] = Query
         \/ m = "find_one" /\ DBClientMethods[m] = FindOne
         \/ m = "eval" /\ DBClientMethods[m] = Eval
BY PlainDBClient, PlainCommands, Unguarded, MapReduceSteps DEF DBClientMethods

LEMMA GridTable ==
  ASSUME NEW m \in DOMAIN GridMethods
  PROVE  \/ GridMethods[m] \in Sound(Plain)
         \/ m = "list" /\ GridMethods[m] \in Sound(StepsTo(Mute))
         \/ /\ m \in {"find_file", "find_file_by_name"}
            /\ GridMethods[m] \in Seq(Caught(Mute \cup {"ends"}))
         \/ m = "field" /\ GridMethods[m] \in Seq(Plain)
BY PlainGrid, Unguarded, FindFileSteps, FieldSteps DEF GridMethods

LEMMA FunctionTable ==
  ASSUME NEW m \in DOMAIN ModuleFunctions
  PROVE  \/ ModuleFunctions[m] \in Sound(Plain)
         \/ m = "tojson" /\ ModuleFunctions[m] \in Sound(StepsTo(Mute))
BY PlainFunctions, Unguarded DEF ModuleFunctions

LEMMA CursorTable ==
  ASSUME NEW m \in DOMAIN CursorMethods
  PROVE  \/ CursorMethods[m] \in Sound(Plain)
         \/ /\ m \in {"next", "iterator", "has_more", "itcount"}
            /\ CursorMethods[m] \in Sound(StepsTo(Ordinary))
<1>1. CursorAtHand \in Sound(Plain)
  <2>1. {"value", "boolean"} \in SUBSET Results /\ "nothing" \notin {"value", "boolean"}
    BY DEF Results
  <2>2. Push({"value", "boolean"}) \in Plain \cap Sure
    BY <2>1, PlainSteps
  <2> QED BY <2>2, SoundOne DEF CursorAtHand
<1> QED BY <1>1, Unguarded DEF CursorMethods

LEMMA JoinedTables ==
  ASSUME NEW f, NEW g, NEW x \in DOMAIN Joined(f, g)
  PROVE  \/ x \in DOMAIN f /\ Joined(f, g)[x] = f[x]
         \/ x \in DOMAIN g /\ Joined(f, g)[x] = g[x]
BY DEF Joined

LEMMA Registered ==
  ASSUME NEW m \in DOMAIN Luamongo
  PROVE  \/ m \in DOMAIN DBClientMethods /\ Luamongo[m] = DBClientMethods[m]
         \/ m \in DOMAIN QueryMethods /\ Luamongo[m] = QueryMethods[m]
         \/ m \in DOMAIN CursorMethods /\ Luamongo[m] = CursorMethods[m]
         \/ m \in DOMAIN GridMethods /\ Luamongo[m] = GridMethods[m]
         \/ m \in DOMAIN ModuleFunctions /\ Luamongo[m] = ModuleFunctions[m]
BY JoinedTables DEF Luamongo

LEMMA LaxTable ==
  \A m \in DOMAIN OptionalPositions \ {"create_index"} :
    Luamongo[m] \in Seq(Lax(OptionalPositions[m]))
<1> DEFINE A == Joined(DBClientMethods, Joined(QueryMethods, CursorMethods))
           B == Joined(GridMethods, ModuleFunctions)
<1>1. /\ "eval" \in DOMAIN A /\ A["eval"] = Eval
      /\ "mapreduce" \in DOMAIN A /\ A["mapreduce"] = MapReduce
  <2>1. /\ "eval" \in DOMAIN DBClientMethods /\ DBClientMethods["eval"] = Eval
        /\ "mapreduce" \in DOMAIN DBClientMethods /\ DBClientMethods["mapreduce"] = MapReduce
    BY DEF DBClientMethods
  <2> QED BY <2>1 DEF Joined
<1>2. \A m \in {"list", "store_file", "store_data", "build", "gridfs_new"} : m \notin DOMAIN A
  <2>1. \A m \in {"list", "store_file", "store_data", "build", "gridfs_new"} :
          /\ m \notin DOMAIN DBClientMethods /\ m \notin DOMAIN QueryMethods
          /\ m \notin DOMAIN CursorMethods
    BY DEF DBClientMethods, QueryMethods, CursorMethods
  <2> QED BY <2>1 DEF Joined
<1>3. /\ "list" \in DOMAIN B /\ B["list"] = GridFSList
      /\ "store_file" \in DOMAIN B /\ B["store_file"] = StoreFile
      /\ "store_data" \in DOMAIN B /\ B["store_data"] = StoreData
      /\ "build" \in DOMAIN B /\ B["build"] = BuilderBuild
      /\ "gridfs_new" \in DOMAIN B /\ B["gridfs_new"] = GridFSNew
  <2>1. /\ "list" \in DOMAIN GridMethods /\ GridMethods["list"] = GridFSList
        /\ "store_file" \in DOMAIN GridMethods /\ GridMethods["store_file"] = StoreFile
        /\ "store_data" \in DOMAIN GridMethods /\ GridMethods["store_data"] = StoreData
        /\ "build" \in DOMAIN GridMethods /\ GridMethods["build"] = BuilderBuild
        /\ "gridfs_new" \notin DOMAIN GridMethods
    BY DEF GridMethods
  <2>2. "gridfs_new" \in DOMAIN ModuleFunctions /\ ModuleFunctions["gridfs_new"] = GridFSNew
    BY DEF ModuleFunctions
  <2> QED BY <2>1, <2>2 DEF Joined
<1>4. Luamongo = Joined(A, B)
  BY DEF Luamongo
<1> HIDE DEF A, B
<1>5. /\ Luamongo["eval"] = Eval /\ Luamongo["mapreduce"] = MapReduce
      /\ Luamongo["list"] = GridFSList /\ Luamongo["store_file"] = StoreFile
      /\ Luamongo["store_data"] = StoreData /\ Luamongo["build"] = BuilderBuild
      /\ Luamongo["gridfs_new"] = GridFSNew
  BY <1>1, <1>2, <1>3, <1>4 DEF Joined
<1>6. /\ DOMAIN OptionalPositions \ {"create_index"}
             = {"eval", "mapreduce", "list", "store_file", "store_data", "build", "gridfs_new"}
      /\ OptionalPositions["eval"] = {4} /\ OptionalPositions["mapreduce"] = {5, 6}
      /\ OptionalPositions["list"] = {2} /\ OptionalPositions["build"] = {3}
      /\ OptionalPositions["store_file"] = {3, 4} /\ OptionalPositions["store_data"] = {3, 4}
      /\ OptionalPositions["gridfs_new"] = {3}
  BY DEF OptionalPositions
<1> QED BY <1>5, <1>6, LaxHandlers

-----------------------------------------------------------------------------
(* What the handlers have in common, but for those named.                   *)

LEMMA SeqWithin ==
  ASSUME NEW S, NEW T, S \subseteq T
  PROVE  Seq(S) \subseteq Seq(T) /\ Sound(S) \subseteq Sound(T) /\ Sound(S) \subseteq Seq(T)
<1>1. \A s \in Seq(S) : s \in Seq(T)
  OBVIOUS
<1> QED BY <1>1 DEF Sound

LEMMA StepSets ==
  /\ Plain \subseteq StepsTo(Outcomes \ {"makes"}) /\ Plain \subseteq StepsTo(Outcomes \ {"stale"})
  /\ Plain \subseteq StepsTo(Outcomes \ {"ends"})
  /\ StepsTo(Ordinary) \subseteq StepsTo(Outcomes \ {"makes"})
  /\ StepsTo(Ordinary) \subseteq StepsTo(Outcomes \ {"stale"})
  /\ StepsTo(Ordinary) \subseteq StepsTo(Outcomes \ {"ends"})
  /\ StepsTo(Mute) \subseteq StepsTo(Ordinary)
  /\ Commander \subseteq StepsTo(Outcomes \ {"makes"})
  /\ Commander \subseteq StepsTo(Outcomes \ {"ends"})
  /\ Caught(Mute \cup {"ends"}) \subseteq StepsTo(Outcomes \ {"makes"})
  /\ Caught(Mute \cup {"ends"}) \subseteq StepsTo(Outcomes \ {"stale"})
  /\ Maker \subseteq StepsTo(Outcomes \ {"stale"}) /\ Maker \subseteq StepsTo(Outcomes \ {"ends"})
<1>1. /\ Ordinary \subseteq Outcomes \ {"makes"} /\ Ordinary \subseteq Outcomes \ {"stale"}
      /\ Ordinary \subseteq Outcomes \ {"ends"} /\ Mute \subseteq Ordinary
      /\ Outcomes \ {"makes", "ends"} \subseteq Outcomes \ {"makes"}
      /\ Outcomes \ {"makes", "ends"} \subseteq Outcomes \ {"ends"}
      /\ Mute \cup {"ends"} \subseteq Outcomes \ {"makes"}
      /\ Mute \cup {"ends"} \subseteq Outcomes \ {"stale"}
      /\ Ordinary \cup {"makes"} \subseteq Outcomes \ {"stale"}
      /\ Ordinary \cup {"makes"} \subseteq Outcomes \ {"ends"}
  BY DEF Mute, Ordinary, Outcomes
<1> QED BY <1>1, StepsWithin DEF Plain, Caught, Maker, Commander

LEMMA Protected ==
  ASSUME NEW m \in DOMAIN Luamongo, m \notin Unprotected
  PROVE  \E X : Luamongo[m] \in Seq(Caught(X))
<1>1. \A S : \A h \in Sound(S) : h \in Seq(S)
  BY DEF Sound
<1>2. CASE Luamongo[m] \in Sound(Plain)
  BY <1>1, <1>2 DEF Plain
<1>3. CASE Luamongo[m] = RunCommand
  BY <1>1, <1>3, RunCommandSteps DEF Commander
<1>4. CASE Luamongo[m] \in Seq(Caught(Mute \cup {"ends"}))
  BY <1>4
<1>5. CASE Luamongo[m] \in Seq(Plain)
  BY <1>5 DEF Plain
<1> QED BY <1>2, <1>3, <1>4, <1>5, Registered, DBClientTable, PlainQuery, CursorTable,
        GridTable, FunctionTable DEF Unprotected

LEMMA NothingMade ==
  ASSUME NEW m \in DOMAIN Luamongo, m \notin {"query", "find_one", "eval"}
  PROVE  ~Has(Luamongo[m], "makes")
<1> DEFINE T == StepsTo(Outcomes \ {"makes"})
<1>1. /\ Sound(Plain) \subseteq Seq(T) /\ Seq(Plain) \subseteq Seq(T)
      /\ Sound(StepsTo(Ordinary)) \subseteq Seq(T)
      /\ Sound(StepsTo(Mute)) \subseteq Sound(StepsTo(Ordinary))
      /\ Sound(Commander) \subseteq Seq(T)
      /\ Seq(Caught(Mute \cup {"ends"})) \subseteq Seq(T)
  BY StepSets, SeqWithin
<1> HIDE DEF T
<1>2. Luamongo[m] \in Seq(T)
  <2>1. CASE m \in DOMAIN DBClientMethods /\ Luamongo[m] = DBClientMethods[m]
    BY <1>1, <2>1, DBClientTable, RunCommandSteps
  <2>2. CASE m \in DOMAIN QueryMethods /\ Luamongo[m] = QueryMethods[m]
    BY <1>1, <2>2, PlainQuery
  <2>5. CASE m \in DOMAIN CursorMethods /\ Luamongo[m] = CursorMethods[m]
    BY <1>1, <2>5, CursorTable
  <2>3. CASE m \in DOMAIN GridMethods /\ Luamongo[m] = GridMethods[m]
    BY <1>1, <2>3, GridTable
  <2>4. CASE m \in DOMAIN ModuleFunctions /\ Luamongo[m] = ModuleFunctions[m]
    BY <1>1, <2>4, FunctionTable
  <2> QED BY <2>1, <2>2, <2>3, <2>4, <2>5, Registered
<1>3. \A i \in DOMAIN Luamongo[m] : Luamongo[m][i] \in T
  BY <1>2
<1> QED BY <1>3, LeadsWithin DEF Has, T

LEMMA NothingStale ==
  ASSUME NEW m \in DOMAIN Luamongo, m # "run_command"
  PROVE  ~Has(Luamongo[m], "stale")
<1> DEFINE T == StepsTo(Outcomes \ {"stale"})
<1>1. /\ Sound(Plain) \subseteq Seq(T) /\ Seq(Plain) \subseteq Seq(T)
      /\ Sound(StepsTo(Ordinary)) \subseteq Seq(T)
      /\ Sound(StepsTo(Mute)) \subseteq Sound(StepsTo(Ordinary))
      /\ Seq(Caught(Mute \cup {"ends"})) \subseteq Seq(T)
      /\ Sound(Maker) \subseteq Seq(T) /\ Seq(Maker) \subseteq Seq(T)
  BY StepSets, SeqWithin
<1> HIDE DEF T
<1>2. Luamongo[m] \in Seq(T)
  <2>1. CASE m \in DOMAIN DBClientMethods /\ Luamongo[m] = DBClientMethods[m]
    BY <1>1, <2>1, DBClientTable, QuerySteps, FindOneSteps, EvalSteps
  <2>2. CASE m \in DOMAIN QueryMethods /\ Luamongo[m] = QueryMethods[m]
    BY <1>1, <2>2, PlainQuery
  <2>5. CASE m \in DOMAIN CursorMethods /\ Luamongo[m] = CursorMethods[m]
    BY <1>1, <2>5, CursorTable
  <2>3. CASE m \in DOMAIN GridMethods /\ Luamongo[m] = GridMethods[m]
    BY <1>1, <2>3, GridTable
  <2>4. CASE m \in DOMAIN ModuleFunctions /\ Luamongo[m] = ModuleFunctions[m]
    BY <1>1, <2>4, FunctionTable
  <2> QED BY <2>1, <2>2, <2>3, <2>4, <2>5, Registered
<1>3. \A i \in DOMAIN Luamongo[m] : Luamongo[m][i] \in T
  BY <1>2
<1> QED BY <1>3, LeadsWithin DEF Has, T

LEMMA SureToPush ==
  ASSUME NEW m \in DOMAIN Luamongo,
         m \notin {"find_file", "find_file_by_name", "field", "eval"}
  PROVE  /\ ~Has(Luamongo[m], "ends")
         /\ \E i \in DOMAIN Luamongo[m] : Luamongo[m][i] \in Sure
<1> DEFINE T == StepsTo(Outcomes \ {"ends"})
<1>1. /\ Sound(Plain) \subseteq Sound(T)
      /\ Sound(StepsTo(Ordinary)) \subseteq Sound(T)
      /\ Sound(StepsTo(Mute)) \subseteq Sound(StepsTo(Ordinary))
      /\ Sound(Commander) \subseteq Sound(T)
      /\ Sound(Maker) \subseteq Sound(T)
  BY StepSets, SeqWithin
<1> HIDE DEF T
<1>2. Luamongo[m] \in Sound(T)
  <2>1. CASE m \in DOMAIN DBClientMethods /\ Luamongo[m] = DBClientMethods[m]
    BY <1>1, <2>1, DBClientTable, QuerySteps, FindOneSteps, RunCommandSteps
  <2>2. CASE m \in DOMAIN QueryMethods /\ Luamongo[m] = QueryMethods[m]
    BY <1>1, <2>2, PlainQuery
  <2>5. CASE m \in DOMAIN CursorMethods /\ Luamongo[m] = CursorMethods[m]
    BY <1>1, <2>5, CursorTable
  <2>3. CASE m \in DOMAIN GridMethods /\ Luamongo[m] = GridMethods[m]
    BY <1>1, <2>3, GridTable
  <2>4. CASE m \in DOMAIN ModuleFunctions /\ Luamongo[m] = ModuleFunctions[m]
    BY <1>1, <2>4, FunctionTable
  <2> QED BY <2>1, <2>2, <2>3, <2>4, <2>5, Registered
<1>3. \A i \in DOMAIN Luamongo[m] : Luamongo[m][i] \in T
  BY <1>2 DEF Sound
<1> QED BY <1>2, <1>3, LeadsWithin DEF Has, T, Sound

-----------------------------------------------------------------------------
(* The properties.                                                          *)

LEMMA NamedHandlers ==
  Luamongo["query"] = Query /\ Luamongo["find_one"] = FindOne /\ Luamongo["eval"] = Eval
<1>1. \A m \in {"query", "find_one", "eval"} :
        m \in DOMAIN DBClientMethods /\ m \notin DOMAIN GridMethods
        /\ m \notin DOMAIN QueryMethods /\ m \notin DOMAIN ModuleFunctions
        /\ m \notin DOMAIN CursorMethods
  BY DEF DBClientMethods, GridMethods, QueryMethods, CursorMethods, ModuleFunctions
<1>2. /\ DBClientMethods["query"] = Query /\ DBClientMethods["find_one"] = FindOne
      /\ DBClientMethods["eval"] = Eval
  BY DEF DBClientMethods
<1> QED BY <1>1, <1>2 DEF Luamongo, Joined

LEMMA MethodsOfLuamongo ==
  ASSUME TypeOK
  PROVE  /\ method \in DOMAIN Luamongo /\ Handler[method] = Luamongo[method]
         /\ DOMAIN Handler[method] = 1 .. Len(Handler[method]) /\ Len(Handler[method]) \in Nat
BY LuamongoAssumption, HandlerAssumption DEF TypeOK, Methods

(* Only a handler that calls the driver or a conversion outside of its try
   blocks can end the process, but for a batch called with an argument too many. *)
THEOREM OnlyUnprotectedEscape == Spec => []KnownEscapes
<1>1. IInv /\ Traced => KnownEscapes
  <2> SUFFICES ASSUME TypeOK, Ended, phase = "dead", ~swapped, method \notin Unprotected
               PROVE  FALSE
    BY DEF IInv, Traced, KnownEscapes
  <2>1. pc \in DOMAIN Luamongo[method] /\ Uncaught(Luamongo[method][pc])
    BY MethodsOfLuamongo DEF Ended, Current
  <2>2. PICK X : Luamongo[method] \in Seq(Caught(X))
    BY MethodsOfLuamongo, Protected
  <2>3. Luamongo[method][pc] \in Caught(X)
    BY <2>1, <2>2
  <2> QED BY <2>1, <2>3 DEF Caught
<1> QED BY <1>1, CallsAreTraced, PTL

(* Documents made with new are lost only by an eval the server refused and by a
   Lua error behind the field selector of query and find_one. *)
THEOREM OnlyKnownLeaks == Spec => []KnownLeaks
<1>1. IInv /\ Traced => KnownLeaks
  <2> SUFFICES ASSUME TypeOK, Making, phase = "over", temps > 0
               PROVE  \/ method = "eval" /\ result = <<"false", "message">>
                      \/ method \in {"query", "find_one"} /\ result = <<>>
    BY DEF IInv, Traced, KnownLeaks
  <2> DEFINE h == Luamongo[method]
  <2>1. /\ method \in DOMAIN Luamongo /\ pc \in DOMAIN h /\ MadeBefore(h, pc)
        /\ Current = h[pc]
    BY MethodsOfLuamongo DEF Making, Current
  <2>2. PICK o \in Outcomes : Leaving(o)
    BY DEF Making
  <2>3. Leads(h[pc], o)
    BY <2>1, <2>2 DEF Leaving
  <2>4. Has(h, "makes")
    BY <2>1 DEF MadeBefore, Has
  <2>5. method \in {"query", "find_one", "eval"}
    BY <2>1, <2>4, NothingMade
  <2>6. CASE method \in {"query", "find_one"}
    <3>1. h \in {Query, FindOne}
      BY <2>6, NamedHandlers
    <3>2. SUFFICES ASSUME result # <<>> PROVE FALSE
      BY <2>6
    <3>3. Reported(o) /\ ~h[pc].tidy
      BY <2>1, <2>2, <3>2 DEF Leaving
    <3>4. o \in {"goes", "lua"}
      BY <2>1, <2>3, <3>1, <3>3, QuerySteps, FindOneSteps
    <3> QED BY <3>3, <3>4 DEF Reported, Going
  <2>7. CASE method = "eval"
    <3>1. h = Eval
      BY <2>7, NamedHandlers
    <3>2. /\ h[pc].try = NoTry /\ o \in {"goes", "std", "false"}
      BY <2>1, <2>3, <3>1, EvalSteps
    <3>3. Reported(o) /\ result = <<Verdict(o), IF o = "stale" THEN "stale" ELSE "message">>
      BY <2>2, <3>2 DEF Leaving
    <3>4. o = "false"
      <4>1. o # "goes"
        BY <3>3 DEF Reported, Going
      <4>2. o # "std"
        <5>1. SUFFICES ASSUME o = "std" PROVE Verdict(o) = "escapes"
          BY <3>3 DEF Reported
        <5>2. Thrown(o) = "std" /\ NoTry["std"] = "escapes"
          BY <5>1 DEF Thrown, NoTry, Exceptions
        <5> QED BY <2>1, <3>2, <5>1, <5>2 DEF Verdict
      <4> QED BY <3>2, <4>1, <4>2
    <3>5. Verdict(o) = "false"
      BY <3>4 DEF Verdict
    <3> QED BY <2>7, <3>3, <3>4, <3>5
  <2> QED BY <2>5, <2>6, <2>7
<1> QED BY <1>1, CallsAreTraced, PTL

(* A call that did not end in a Lua error returned a value of its own or an error
   and a message, apart from the methods named. *)
THEOREM CallsReturnTheirOwn == Spec => []OwnResults
<1>1. IInv /\ Traced => OwnResults
  <2> SUFFICES ASSUME TypeOK, Stale, Pushing, phase = "over", result # <<>>
               PROVE  /\ result[1] = "argument" =>
                           method \in {"find_file", "find_file_by_name", "field", "eval"}
                      /\ "stale" \in Elements(result) => method = "run_command"
    BY DEF IInv, Traced, OwnResults
  <2>1. "stale" \in Elements(result) => method = "run_command"
    BY MethodsOfLuamongo, NothingStale DEF Stale
  <2>2. ASSUME result[1] = "argument",
               method \notin {"find_file", "find_file_by_name", "field", "eval"}
        PROVE  FALSE
    <3>1. result = <<"argument">>
      BY <2>2 DEF TypeOK
    <3>2. ~Has(Handler[method], "ends")
      BY <2>2, MethodsOfLuamongo, SureToPush
    <3>3. Silent(Handler[method], Len(Handler[method]) + 1)
      BY <3>1, <3>2 DEF Pushing
    <3>4. PICK i \in DOMAIN Handler[method] : Handler[method][i] \in Sure
      BY <2>2, MethodsOfLuamongo, SureToPush
    <3>5. i < Len(Handler[method]) + 1
      BY MethodsOfLuamongo
    <3> QED BY <3>3, <3>4, <3>5 DEF Silent, Sure
  <2> QED BY <2>1, <2>2
<1> QED BY <1>1, CallsAreTraced, PTL

(* No call of a method but create_index is refused, by whatever error, for an
   argument in brackets that was not passed or is nil. *)
THEOREM OmittedArgumentsAreTaken == Spec => []OmittedArguments
<1>1. IInv /\ Traced => OmittedArguments
  <2> SUFFICES ASSUME TypeOK, Refused, refusal # <<>>, method \in DOMAIN OptionalPositions,
                      refusal[2] \in Omitted, method # "create_index",
                      refusal[1] \in OptionalPositions[method]
               PROVE  FALSE
    BY DEF IInv, Traced, OmittedArguments, BracketsAreOptional
  <2>1. PICK i \in DOMAIN Luamongo[method] :
          Refuses(Luamongo[method][i], refusal[1], refusal[2])
    BY MethodsOfLuamongo DEF Refused
  <2>2. Luamongo[method] \in Seq(Lax(OptionalPositions[method]))
    BY LaxTable
  <2>3. Luamongo[method][i] \in Lax(OptionalPositions[method])
    BY <2>1, <2>2
  <2> QED BY <2>1, <2>3 DEF Lax
<1> QED BY <1>1, CallsAreTraced, PTL
=============================================================================
