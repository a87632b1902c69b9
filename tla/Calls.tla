------------------------------- MODULE Calls -------------------------------
(***************************************************************************)
(* A script that calls methods one after the other over one connection.    *)
(*                                                                         *)
(* Handler gives the steps of every method (module Handlers holds those of *)
(* luamongo).  A call takes its steps in order: each can lead on, end the  *)
(* call with a failure that is returned, raise a Lua error, which leaves   *)
(* the handler without running C++ destructors or the code behind, or end  *)
(* the process, when an exception finds no catch clause and meets the C    *)
(* frames of Lua.                                                          *)
(*                                                                         *)
(* What a script wants written is a set of writes: documents to insert,    *)
(* updates, removals, modifiers of a query.  It may ask for the same write *)
(* again, which is what a script does whose write was reported as failed.  *)
(* Server and driver are external: a write they answered is executed, one  *)
(* whose connection broke may have been, and a batch is executed in order  *)
(* up to the first document that fails.                                    *)
(***************************************************************************)
EXTENDS CallSteps, FiniteSets

CONSTANTS
  Handler,    \* the steps of each method, a function from names
  Batching,   \* the methods whose write is a sequence
  Writes,     \* what the script wants written
  MaxCalls    \* how many calls it makes

Methods == DOMAIN Handler

ASSUME HandlerAssumption ==
  /\ Methods # {}
  /\ \A m \in Methods :
       /\ Len(Handler[m]) \in Nat
       /\ DOMAIN Handler[m] = 1 .. Len(Handler[m])
       /\ \A i \in DOMAIN Handler[m] : IsStep(Handler[m][i])
ASSUME MaxCallsAssumption == MaxCalls \in Nat

Changes == {"write", "modify"}
Going == {"goes", "makes", "ends", "undefined"}

(***************************************************************************)
(* The shape all handlers have: at most one step changes anything; it is   *)
(* passed when the driver has answered and not otherwise, and followed by  *)
(* nothing but pushing and freeing.  What is made with new is freed        *)
(* further on, by a handler that has no way round.                         *)
(***************************************************************************)
Leads(s, o) == \E c \in DOMAIN s.of : o \in s.of[c]
Has(h, o) == \E i \in DOMAIN h : Leads(h[i], o)
Changing == {m \in Methods : \E i \in DOMAIN Handler[m] : Handler[m][i].act \in Changes}

Shaped(h, i) ==
  /\ h[i].act \in Changes =>
       /\ \A j \in (i + 1) .. Len(h) : h[j].act \in {"push", "free"}
       /\ "done" \in DOMAIN h[i].of /\ h[i].of["done"] = {"goes"}
       /\ \A a \in DOMAIN h[i].of \ {"done"} : h[i].of[a] \cap (Going \cup {"lua"}) = {}
       /\ ~Has(h, "ends")
  /\ Leads(h[i], "makes") =>
       /\ h[i].act = "arg"
       /\ \E j \in (i + 1) .. Len(h) : h[j].act = "free"
       /\ ~Has(h, "ends")
  /\ h[i].act = "push" => DOMAIN h[i].of \subseteq Results
  /\ Leads(h[i], "undefined") => h[i].act = "element"

ASSUME ShapeAssumption ==
  /\ Batching \subseteq Changing
  /\ \A m \in Methods : \A i \in DOMAIN Handler[m] : Shaped(Handler[m], i)

VARIABLES
  phase,       \* "idle", "running", "over" or "dead": the process has ended
  method,      \* the method called
  pc,          \* the step it is at
  batch,       \* the writes it was asked for
  executed,    \* how many of them have been executed
  swapped,     \* an argument too many took the place of the batch
  temps,       \* temporaries made with new and not deleted
  refs,        \* registry references taken and not given back
  pushed,      \* what the handler has pushed
  result,      \* what the call returned
  refusal,     \* position and kind of the argument that was refused, whether
               \* by an error that is returned, thrown or raised in Lua
  auto,        \* auto_reconnect of the connection
  failed,      \* the driver's failed flag
  connections, \* history: how often a connection was made
  count,       \* history: executions of each write
  garbled,     \* history: calls for each write that were swapped and reported success
  success,     \* history: calls for each write that reported success
  failure,     \* history: and failure
  doubts,      \* history: calls that failed although something was executed
  cuts,        \* history: those of them on a healthy connection
  calls

callVars == <<phase, method, pc, batch, executed, temps, refs, pushed, result, refusal>>
netVars == <<failed, connections, count>>
reportVars == <<success, failure, garbled, doubts, cuts>>
vars == <<callVars, netVars, reportVars, swapped, auto, calls>>

Zero == [w \in Writes |-> 0]
Elements(s) == {s[i] : i \in DOMAIN s}
Bumped(f, s) == [w \in DOMAIN f |-> IF w \in Elements(s) THEN f[w] + 1 ELSE f[w]]

Init ==
  /\ phase = "idle"
  /\ method = CHOOSE m \in Methods : TRUE
  /\ pc = 1
  /\ batch = <<>>
  /\ executed = 0
  /\ swapped = FALSE
  /\ temps = 0
  /\ refs = 0
  /\ pushed = <<>>
  /\ result = <<>>
  /\ refusal = <<>>
  /\ auto \in BOOLEAN
  /\ failed = FALSE
  /\ connections = 1
  /\ count = Zero
  /\ garbled = Zero
  /\ success = Zero
  /\ failure = Zero
  /\ doubts = 0
  /\ cuts = 0
  /\ calls = 0

(***************************************************************************)
(* What a method may be asked to write.                                    *)
(***************************************************************************)
Requests(m) ==
  IF m \in Batching
  THEN {<<v, w>> : v, w \in Writes} \ {<<w, w>> : w \in Writes}
  ELSE IF m \in Changing THEN {<<w>> : w \in Writes} ELSE {<<>>}

Begin(m, b) ==
  /\ phase \in {"idle", "over"}
  /\ calls < MaxCalls
  /\ b \in Requests(m)
  /\ phase' = "running"
  /\ method' = m
  /\ pc' = 1
  /\ batch' = b
  /\ executed' = 0
  /\ temps' = 0
  /\ refs' = 0
  /\ pushed' = <<>>
  /\ result' = <<>>
  /\ refusal' = <<>>
  /\ swapped' = FALSE
  /\ calls' = calls + 1
  /\ UNCHANGED <<netVars, reportVars, auto>>

Current == Handler[method][pc]
At(acts) == phase = "running" /\ pc \in DOMAIN Handler[method] /\ Current.act \in acts

(***************************************************************************)
(* Where an outcome leads.  n is how many of the batch have been executed  *)
(* with this step.                                                         *)
(***************************************************************************)
Thrown(o) == IF o = "badref" THEN "assertion" ELSE o
Verdict(o) == CASE o \in {"nil", "false"} -> o
                [] o = "stale" -> "false"
                [] OTHER -> Current.try[Thrown(o)]
Reported(o) == o \notin Going \cup {"lua"} /\ Verdict(o) # "escapes"

\* Mutant: a step is skipped.
GoesOnTwo(o) ==
  /\ o \in Going
  /\ pc' = pc + 2
  /\ temps' = IF o = "makes" THEN temps + 1 ELSE temps
  /\ UNCHANGED <<phase, refs, result, reportVars>>

\* Mutant: a catch clause pushes its message and does not return.
GoesOnAfterCatch(o) ==
  /\ o \in Going \/ Reported(o)
  /\ pc' = IF o = "ends" THEN Len(Handler[method]) + 1 ELSE pc + 1
  /\ temps' = IF o = "makes" THEN temps + 1 ELSE temps
  /\ UNCHANGED <<phase, refs, result, reportVars>>

GoesOn(o) ==
  /\ o \in Going
  /\ pc' = IF o = "ends" THEN Len(Handler[method]) + 1 ELSE pc + 1
  /\ temps' = IF o = "makes" THEN temps + 1 ELSE temps
  /\ UNCHANGED <<phase, refs, result, reportVars>>

\* A failure that the script is told: two values are returned.
Fails(o, n) ==
  /\ Reported(o)
  /\ phase' = "over"
  /\ result' = <<Verdict(o), IF o = "stale" THEN "stale" ELSE "message">>
  /\ temps' = IF Current.tidy THEN 0 ELSE temps
  /\ refs' = IF o = "badref" THEN refs + 1 ELSE refs
  /\ failure' = Bumped(failure, batch)
  /\ doubts' = IF n > 0 THEN doubts + 1 ELSE doubts
  /\ cuts' = IF n > 0 /\ ~failed' THEN cuts + 1 ELSE cuts
  /\ UNCHANGED <<pc, success, garbled>>

\* luaL_error: a longjmp out of the handler.
LuaError(o) ==
  /\ o = "lua"
  /\ phase' = "over"
  /\ UNCHANGED <<pc, temps, refs, result, reportVars>>

\* No catch clause takes the exception.
Escapes(o) ==
  /\ o \notin Going \cup {"lua"}
  /\ Verdict(o) = "escapes"
  /\ phase' = "dead"
  /\ refs' = IF o = "badref" THEN refs + 1 ELSE refs
  /\ UNCHANGED <<pc, temps, result, reportVars>>

Follow(o, n) ==
  /\ GoesOn(o) \/ Fails(o, n) \/ LuaError(o) \/ Escapes(o)
  /\ executed' = n
  /\ UNCHANGED <<method, batch, auto, calls>>

(***************************************************************************)
(* The steps of a handler.                                                 *)
(***************************************************************************)
TakeArgument ==
  /\ At({"arg"})
  /\ UNCHANGED <<pushed, swapped, netVars>>
  /\ \E k \in DOMAIN Current.of : \E o \in Current.of[k] :
       /\ refusal' = IF o \in Going THEN refusal ELSE <<Current.pos, k>>
       /\ Follow(o, executed)

\* The loop of insert_batch: with an argument too many the loop converts that
\* argument each time.  lua_next on what is no table is undefined behaviour: the
\* process ends or something else is stored.
TakeElements ==
  /\ At({"element"})
  /\ UNCHANGED <<pushed, refusal, netVars>>
  /\ \E k \in DOMAIN Current.of, surplus \in BOOLEAN : \E o \in Current.of[k] :
       /\ swapped' = (surplus \/ o = "undefined")
       /\ Follow(o, executed)

ReadsGarbage ==
  /\ At({"element"})
  /\ \E k \in DOMAIN Current.of : "undefined" \in Current.of[k]
  /\ phase' = "dead"
  /\ swapped' = TRUE
  /\ UNCHANGED <<method, pc, batch, executed, temps, refs, pushed, result, refusal,
                 netVars, reportVars, auto, calls>>

\* The answers a connection can still give: one that broke gives none unless it is
\* made again, which the driver does only with auto_reconnect.
Available == IF ~failed THEN Answers \ {"down"} ELSE IF auto THEN Answers ELSE {"down"}

\* Mutant: a broken connection is used again without being made again.
ReachesOverBroken(a) ==
  /\ a \in DOMAIN Current.of \cap (Answers \ {"down"})
  /\ failed' = (a = "broken")
  /\ UNCHANGED connections

Reaches(a) ==
  /\ a \in DOMAIN Current.of \cap Available
  /\ failed' = (a \in {"broken", "down"})
  /\ connections' = IF failed /\ a # "down" THEN connections + 1 ELSE connections

ReadsServer ==
  /\ At({"read"})
  /\ \E a \in Answers :
       /\ Reaches(a)
       /\ \E o \in Current.of[a] : Follow(o, executed)
  /\ UNCHANGED <<pushed, refusal, swapped, count>>

Executes(n) == count' = IF swapped THEN count ELSE Bumped(count, SubSeq(batch, 1, n))

\* How much of the batch an answer leaves executed.
Extent(a) == CASE a = "done" -> {Len(batch)}
               [] a = "error" -> {n \in 0 .. Len(batch) : n < Len(batch)}
               [] a = "broken" -> 0 .. Len(batch)
               [] OTHER -> {0}

WritesServer ==
  /\ At({"write"})
  /\ \E a \in Answers :
       /\ Reaches(a)
       /\ \E n \in Extent(a), o \in Current.of[a] :
            /\ Executes(n)
            /\ Follow(o, n)
  /\ UNCHANGED <<pushed, refusal, swapped>>

Connects ==
  /\ At({"connect"})
  /\ \E a \in DOMAIN Current.of :
       /\ failed' = (a # "done")
       /\ connections' = IF a = "done" THEN connections + 1 ELSE connections
       /\ \E o \in Current.of[a] : Follow(o, executed)
  /\ UNCHANGED <<pushed, refusal, swapped, count>>

ComputesLocally ==
  /\ At({"local"})
  /\ UNCHANGED <<pushed, refusal, swapped, netVars>>
  /\ \E a \in DOMAIN Current.of : \E o \in Current.of[a] : Follow(o, executed)

\* A modifier of a query is in memory: it is there, or an exception was thrown.
ModifiesQuery ==
  /\ At({"modify"})
  /\ UNCHANGED <<pushed, refusal, swapped, failed, connections>>
  /\ \E a \in DOMAIN Current.of : \E o \in Current.of[a] :
       LET n == IF a = "done" THEN Len(batch) ELSE 0 IN
         /\ Executes(n)
         /\ Follow(o, n)

PushesResult ==
  /\ At({"push"})
  /\ \E r \in DOMAIN Current.of :
       pushed' = IF r = "nothing" THEN pushed ELSE Append(pushed, r)
  /\ Follow("goes", executed)
  /\ UNCHANGED <<refusal, swapped, netVars>>

FreesTemporaries ==
  /\ At({"free"})
  /\ phase' = phase
  /\ pc' = pc + 1
  /\ temps' = 0
  /\ UNCHANGED <<method, batch, executed, refs, pushed, result, refusal, netVars,
                 reportVars, swapped, auto, calls>>

\* return 1: what is on top of the stack, an argument if nothing was pushed.
Returns ==
  /\ phase = "running"
  /\ pc > Len(Handler[method])
  /\ phase' = "over"
  /\ result' = <<IF pushed = <<>> THEN "argument" ELSE pushed[Len(pushed)]>>
  /\ success' = Bumped(success, batch)
  /\ garbled' = IF swapped THEN Bumped(garbled, batch) ELSE garbled
  /\ UNCHANGED <<method, pc, batch, executed, temps, refs, pushed, refusal, netVars,
                 failure, doubts, cuts, swapped, auto, calls>>

Next ==
  \/ \E m \in Methods : \E b \in Requests(m) : Begin(m, b)
  \/ TakeArgument \/ TakeElements \/ ReadsGarbage
  \/ ReadsServer \/ WritesServer \/ Connects \/ ComputesLocally \/ ModifiesQuery
  \/ PushesResult \/ FreesTemporaries \/ Returns

Spec == Init /\ [][Next]_vars

-----------------------------------------------------------------------------
TypeOK ==
  /\ phase \in {"idle", "running", "over", "dead"}
  /\ method \in Methods
  /\ pc \in 1 .. Len(Handler[method]) + 1
  /\ batch \in Requests(method) \cup {<<>>}
  /\ executed \in 0 .. Len(batch)
  /\ temps \in Nat /\ refs \in Nat
  /\ pushed \in Seq(Results)
  /\ result \in {<<>>} \cup {<<r>> : r \in Results \cup {"argument"}}
               \cup ({"nil", "false"} \X {"message", "stale"})
  /\ refusal \in {<<>>} \cup (Nat \X Cases)
  /\ swapped \in BOOLEAN /\ auto \in BOOLEAN /\ failed \in BOOLEAN
  /\ connections \in Nat /\ doubts \in Nat /\ cuts \in Nat /\ calls \in Nat
  /\ count \in [Writes -> Nat]
  /\ garbled \in [Writes -> Nat]
  /\ success \in [Writes -> Nat]
  /\ failure \in [Writes -> Nat]

(***************************************************************************)
(* A write is executed for every time its success was reported, and never  *)
(* more often than calls asked for it: no handler says true for what the   *)
(* driver did not answer or carries a write out twice.  One more may be    *)
(* executed by the call in progress, or by the call the process died in;   *)
(* a batch called with an argument too many reports success for nothing.   *)
(***************************************************************************)
ReportsMatchExecutions ==
  \A w \in Writes :
    /\ success[w] <= count[w] + garbled[w]
    /\ count[w] <= success[w] + failure[w] + (IF phase \in {"running", "dead"} THEN 1 ELSE 0)

(***************************************************************************)
(* What a script that repeats failed writes may come to: each connection   *)
(* leaves at most one write in doubt, apart from batches that were cut.    *)
(* With neither auto_reconnect nor a second connect() and with single      *)
(* documents, a write is executed at most once without a report.           *)
(***************************************************************************)
OneDoubtPerConnection ==
  /\ doubts + (IF failed THEN 0 ELSE 1) <= connections + cuts
  /\ phase = "over" => \A w \in Writes : count[w] <= success[w] + doubts

(***************************************************************************)
(* A call that returned what it was asked for has freed what it made on    *)
(* the way and left nothing in the registry (query, find_one and eval,     *)
(* which make documents with new).                                         *)
(***************************************************************************)
Succeeded == phase = "over" /\ Len(result) = 1
SuccessLeavesNothing == Succeeded => temps = 0 /\ refs = 0
=============================================================================
