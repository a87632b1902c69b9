----------------------------- MODULE NativeOrder -----------------------------
(***************************************************************************)
(* What the C++ objects behind the Lua userdata need, with no Lua in sight.*)
(* A native object may hold a raw pointer to one other native: a cursor or *)
(* a GridFS to its DBClientBase, a GridFile or a GridFileBuilder to its    *)
(* GridFS.  Such a pointer is never counted, so the pointee must be there  *)
(* when the object is constructed and must outlive it: a destructor may    *)
(* still follow the pointer.                                               *)
(*                                                                         *)
(* Module Userdata refines this specification when the script and the      *)
(* collector behave as its operator Safe says.                             *)
(***************************************************************************)
EXTENDS Naturals

CONSTANT MaxObjects      \* how many objects are ever constructed

Objects == 1 .. MaxObjects
Nil == 0                 \* no pointee

VARIABLES
  state,                 \* "none" before construction, then "alive", then "freed"
  pointee                \* the object the native points to, or Nil

vars == <<state, pointee>>

Init ==
  /\ state = [o \in Objects |-> "none"]
  /\ pointee = [o \in Objects |-> Nil]

(* An object is constructed over a live pointee, or over none. *)
Construct(o, p) ==
  /\ state[o] = "none"
  /\ p # Nil => state[p] = "alive"
  /\ state' = [state EXCEPT ![o] = "alive"]
  /\ pointee' = [pointee EXCEPT ![o] = p]

(* An object is destroyed once, after everything that points to it. *)
Destroy(o) ==
  /\ state[o] = "alive"
  /\ \A c \in Objects : pointee[c] = o => state[c] # "alive"
  /\ state' = [state EXCEPT ![o] = "freed"]
  /\ UNCHANGED pointee

Next ==
  \/ \E o \in Objects, p \in Objects \cup {Nil} : Construct(o, p)
  \/ \E o \in Objects : Destroy(o)

Spec == Init /\ [][Next]_vars

==============================================================================
