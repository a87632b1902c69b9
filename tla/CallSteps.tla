----------------------------- MODULE CallSteps -----------------------------
(***************************************************************************)
(* What the handlers of luamongo are built from.  Every method a script    *)
(* calls is a C++ function of one shape: it looks at its arguments one     *)
(* after the other, converts some of them, calls the driver, pushes a      *)
(* result and returns.  A handler is therefore a sequence of steps, and a  *)
(* step says what each case of what it meets leads to, and what becomes of *)
(* an exception that is thrown while it is being taken.                    *)
(*                                                                         *)
(* Handlers gives the steps of every method, Calls runs them.              *)
(***************************************************************************)
EXTENDS Naturals, Sequences

(***************************************************************************)
(* What a script may have passed at a position of the stack.               *)
(***************************************************************************)
Kinds == {"none", "nil", "number",
          "text",       \* a string that is no JSON
          "json",       \* a string that is JSON
          "table",      \* a table that lua_to_bson converts
          "badtable",   \* one with an ObjectId the driver does not take
          "query",      \* the userdata of a Query
          "userdata"}   \* any other userdata

(***************************************************************************)
(* How a call of the driver ends, on a healthy connection or on one that   *)
(* an earlier call found broken.                                           *)
(***************************************************************************)
Answers == {"done",     \* executed, and the answer arrived
            "error",    \* the server refused it, the connection is fine
            "broken",   \* the connection broke under it, before or after
            "down"}     \* the connection was broken already

Exceptions == {"assertion",   \* mongo::AssertionException
               "std",         \* another std::exception
               "char"}        \* throw of a const char *

(***************************************************************************)
(* Where a step can lead.                                                  *)
(***************************************************************************)
Outcomes == Exceptions \cup
  {"goes",       \* on to the next step
   "makes",      \* the same, with a BSONObj allocated by new
   "badref",     \* an assertion thrown under lua_to_bson, past its luaL_unref
   "lua",        \* luaL_error: Lua unwinds the stack, C++ does not
   "ends",       \* on to the return, nothing is pushed
   "nil",        \* nil and a message are returned
   "false",      \* false and a message are returned
   "stale",      \* false and a message in memory that was given back
   "undefined"}  \* lua_next on what is no table

Results == {"true", "boolean", "value", "box", "nothing"}

(***************************************************************************)
(* What a try block makes of each exception: the first of the two results  *)
(* it returns, or "escapes" if no catch clause takes it.                   *)
(***************************************************************************)
Tries == [Exceptions -> {"nil", "false", "escapes"}]

NoTry == [e \in Exceptions |-> "escapes"]
Try(std, char) == [assertion |-> std, std |-> std, char |-> char]
TryStd(std) == Try(std, "escapes")
TryAssertion(v) == [NoTry EXCEPT !["assertion"] = v]

Acts == {"arg", "element", "read", "write", "connect", "local", "modify", "push", "free"}
Cases == Kinds \cup Answers \cup Results

(***************************************************************************)
(* A step: what it does, the stack position it looks at (0 for none), what *)
(* each case may lead to, its try block, and whether the handler frees its *)
(* temporaries after a failure that is reported from here.                 *)
(***************************************************************************)
IsStep(s) ==
  /\ DOMAIN s = {"act", "pos", "of", "try", "tidy"}
  /\ s.act \in Acts
  /\ s.pos \in Nat
  /\ DOMAIN s.of \subseteq Cases
  /\ \A c \in DOMAIN s.of : s.of[c] \subseteq Outcomes
  /\ s.try \in Tries
  /\ s.tidy \in BOOLEAN

Step(act, pos, of, try) ==
  [act |-> act, pos |-> pos, of |-> of, try |-> try, tidy |-> FALSE]

In(try, step) == [step EXCEPT !.try = try]
Tidy(step) == [step EXCEPT !.tidy = TRUE]

Arg(p, of) == Step("arg", p, of, NoTry)

(***************************************************************************)
(* luaL_checkstring, luaL_checkint, luaL_checktype and the luaL_opt forms: *)
(* a Lua error unless the argument is one of those.                        *)
(***************************************************************************)
Check(p, ks) == Arg(p, [k \in Kinds |-> IF k \in ks THEN {"goes"} ELSE {"lua"}])

Omitted == {"none", "nil"}
Strings == {"text", "json", "number"}
Text(p) == Check(p, Strings)
OptText(p) == Check(p, Strings \cup Omitted)
Int(p) == Check(p, {"number"})
OptInt(p) == Check(p, {"number"} \cup Omitted)
TableArg(p) == Check(p, {"table", "badtable"})

(***************************************************************************)
(* The chain of lua_type tests that turns an argument into a document: a   *)
(* string through fromjson, a table through lua_to_bson, anything else is  *)
(* refused with a const char *.                                            *)
(***************************************************************************)
Document == [k \in Kinds |->
               CASE k = "text" -> {"assertion"}
                 [] k \in {"json", "table"} -> {"goes"}
                 [] k = "badtable" -> {"badref"}
                 [] OTHER -> {"char"}]

\* The chain that also takes a Query; another userdata is luaL_checkudata's.
DocumentOrQuery == [Document EXCEPT !["query"] = {"goes"}, !["userdata"] = {"lua"}]

\* The chain that makes a BSONObj with new: of the bytes of a string, which the
\* driver takes for BSON if their first four are a plausible length.
HeapDocument == [Document EXCEPT !["text"] = {"makes", "assertion"},
                                 !["json"] = {"makes", "assertion"},
                                 !["table"] = {"makes"}]

\* The same chains behind a test of lua_isnoneornil, and without an else branch.
Optional(of) == [k \in Kinds |-> IF k \in Omitted THEN {"goes"} ELSE of[k]]
Lenient(of) == [k \in Kinds |-> IF of[k] = {"char"} THEN {"goes"} ELSE of[k]]

(***************************************************************************)
(* Calls of the driver.                                                    *)
(***************************************************************************)
Throws == [a \in Answers |-> IF a = "done" THEN {"goes"} ELSE {"std"}]
Drive(act, of) == Step(act, 0, of, NoTry)
Read == Drive("read", Throws)
Write == Drive("write", Throws)
Connect == Drive("connect", [a \in Answers \ {"down"} |-> Throws[a]])
Local == Drive("local", [a \in {"done", "error"} |-> Throws[a]])
\* A call that returns a cursor gives a null pointer on some failures.
OpenCursor == Drive("read", [Throws EXCEPT !["broken"] = {"nil", "std"},
                                           !["down"] = {"nil", "std"}])

Push(results) == Step("push", 0, [r \in results |-> {"goes"}], NoTry)
Free == Step("free", 0, [r \in {"nothing"} |-> {"goes"}], NoTry)
=============================================================================
