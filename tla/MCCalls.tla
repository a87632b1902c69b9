------------------------------ MODULE MCCalls ------------------------------
(***************************************************************************)
(* Calls with the handlers of luamongo, and what is particular to them.    *)
(***************************************************************************)
EXTENDS Calls, Handlers

\* The methods whose write is a batch.
Batches == {"insert_batch"}

ASSUME LuamongoAssumption == Handler = Luamongo /\ Batching = Batches

(***************************************************************************)
(* A call that did not end in a Lua error returned what the comment above  *)
(* its handler says: one value of its own, or nil or false and a message.  *)
(* The exceptions: find_file and find_file_by_name without a name, field   *)
(* for a field the file does not have and eval of what has no form in Lua  *)
(* return an argument, and the message of a failed run_command is read     *)
(* from memory that was given back.                                        *)
(***************************************************************************)
OwnResults ==
  phase = "over" /\ result # <<>> =>
    /\ result[1] = "argument" => method \in {"find_file", "find_file_by_name", "field", "eval"}
    /\ "stale" \in Elements(result) => method = "run_command"

(***************************************************************************)
(* What a handler made with new is lost by an eval the server refused and  *)
(* by a Lua error about an argument behind the field selector, and by      *)
(* nothing else.                                                           *)
(***************************************************************************)
KnownLeaks ==
  phase = "over" /\ temps > 0 =>
    \/ method = "eval" /\ result = <<"false", "message">>
    \/ method \in {"query", "find_one"} /\ result = <<>>

(***************************************************************************)
(* An exception of the driver, or of a conversion, ends the process only   *)
(* in the handlers that call them outside of every try block.              *)
(***************************************************************************)
Unprotected ==
  {"auth", "query", "find_one", "eval", "exists", "enumerate_indexes", "mapreduce",
   "get_last_error", "get_last_error_detailed", "list", "tojson",
   "next", "iterator", "has_more", "itcount"}

KnownEscapes == phase = "dead" => method \in Unprotected \/ swapped

(***************************************************************************)
(* The arguments that the comments above the handlers put in brackets.     *)
(***************************************************************************)
OptionalPositions ==
  [create_index |-> {4}, eval |-> {4}, mapreduce |-> {5, 6}, list |-> {2},
   store_file |-> {3, 4}, store_data |-> {3, 4}, build |-> {3}, gridfs_new |-> {3}]

(***************************************************************************)
(* What those comments say: an argument in brackets that is left out, or   *)
(* nil for the sake of a later one, is not what a call is refused for,     *)
(* neither by an error that is returned or thrown nor by a Lua error.      *)
(***************************************************************************)
BracketsAreOptional ==
  refusal # <<>> /\ method \in DOMAIN OptionalPositions /\ refusal[2] \in Omitted =>
    refusal[1] \notin OptionalPositions[method]

(***************************************************************************)
(* It is so of every method but create_index, where the switch on the type *)
(* of the options has a case for nil and none for what was not passed.     *)
(***************************************************************************)
OmittedArguments == method # "create_index" => BracketsAreOptional

(***************************************************************************)
(* The handlers whose comment promises an error value beside the result.   *)
(***************************************************************************)
ErrDocumented ==
  {"auth", "count", "insert", "query", "find_one", "remove", "update", "drop_collection",
   "drop_index_by_fields", "drop_index_by_name", "drop_indexes", "enumerate_indexes",
   "mapreduce", "reindex", "run_command", "get_dbnames", "get_collections", "list"}

(***************************************************************************)
(* What those comments say of a failure: it is returned.                   *)
(***************************************************************************)
FailuresReturned == phase = "dead" => method \notin ErrDocumented
=============================================================================
