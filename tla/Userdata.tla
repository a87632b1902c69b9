------------------------------ MODULE Userdata ------------------------------
(***************************************************************************)
(* Ownership and lifetime of the C++ objects that luamongo hands to Lua.   *)
(*                                                                         *)
(* Every object is a full userdata (a "box") that holds one pointer to a   *)
(* native object; the metatable's __gc deletes the native.  Natives keep   *)
(* raw pointers to one another (`parent`) that the Lua collector does not  *)
(* know: no binding stores a reference from the child's box to the         *)
(* parent's.  This module models the constructors, the methods (by the     *)
(* natives they dereference), the script's references, Lua's collector     *)
(* (incremental marking, finalizers of one cycle newest box first, cycles  *)
(* first come first served) and lua_close.                                 *)
(*                                                                         *)
(* Boxes are numbered in creation order.  A handler is one step: the boxes *)
(* it reads are on its stack, so a collection inside it has the effect of  *)
(* one just before it.  Out of memory is not modelled.                     *)
(***************************************************************************)
EXTENDS Naturals

CONSTANTS
  MaxObjects,    \* bound: how many boxes are ever allocated
  Scripts        \* what a script promises about dropping references, and
                 \* whether its collection cycles are spread over script steps

ASSUME MaxObjectsAssumption == MaxObjects \in Nat
ASSUME ScriptsAssumption ==
  Scripts \subseteq [discipline : {"none", "ordered", "kept"}, incremental : BOOLEAN]

Objects == 1 .. MaxObjects
Nil == 0

(* The two classes userdata_to_dbclient accepts, and all of them. *)
DBClients == {"Connection", "ReplicaSet"}
Classes == DBClients \cup
  {"Cursor", "Query", "GridFS", "GridFile", "GridFSChunk", "GridFileBuilder"}

VARIABLES
  script,     \* the script that runs: one of Scripts
  n,          \* boxes allocated so far
  class,      \* each box's class, "none" before it is allocated
  parent,     \* the native that the box's native points to, or Nil
  native,     \* "none" (never constructed), "alive" or "freed"
  tagged,     \* boxes whose metatable is set: the collector finalizes these only
  held,       \* boxes the script holds in a variable
  iter,       \* cursors that a result_iterator closure holds as its upvalue
  marked,     \* boxes marked black in the running collection cycle
  stamp,      \* the cycle that found the box unreachable, 0 if none did
  cycle,      \* collection cycles that found something
  dangling,   \* history: freed natives that were dereferenced
  phase       \* "running", then lua_close is "closing", then "closed"

boxVars == <<n, class, parent, native, tagged>>
gcVars == <<marked, stamp, cycle>>
vars == <<script, n, class, parent, native, tagged, held, iter, marked, stamp, cycle,
          dangling, phase>>

Reachable == held \cup iter

(* Boxes waiting for their finalizer. *)
Pending == {o \in Objects : stamp[o] # 0 /\ native[o] = "alive"}

Up(o) == IF o = Nil THEN Nil ELSE parent[o]

(* o and what a call reaches from it: the longest chain of raw pointers is
   GridFile (or GridFileBuilder) -> GridFS -> DBClient. *)
Chain(o) == {o, Up(o), Up(Up(o))} \ {Nil}

(* A call dereferences the natives in S. *)
Touch(S) == dangling' = dangling \cup {o \in S : native[o] = "freed"}

-----------------------------------------------------------------------------

Init ==
  /\ script \in Scripts
  /\ n = 0
  /\ class = [o \in Objects |-> "none"]
  /\ parent = [o \in Objects |-> Nil]
  /\ native = [o \in Objects |-> "none"]
  /\ tagged = {}
  /\ held = {}
  /\ iter = {}
  /\ marked = {}
  /\ stamp = [o \in Objects |-> 0]
  /\ cycle = 0
  /\ dangling = {}
  /\ phase = "running"

-----------------------------------------------------------------------------
(* Constructors.  A box returned to the script has its native and, last of
   all, its metatable.  When the native's constructor throws, the box stays
   behind without either, and the script gets nil and a message.  A call that
   fails before it allocates anything changes nothing.                      *)

Boxed(k, p) ==
  /\ n < MaxObjects
  /\ n' = n + 1
  /\ class' = [class EXCEPT ![n + 1] = k]
  /\ parent' = [parent EXCEPT ![n + 1] = p]
  /\ native' = [native EXCEPT ![n + 1] = "alive"]
  /\ tagged' = tagged \cup {n + 1}
  /\ held' = held \cup {n + 1}

Abandoned(k) ==
  /\ n < MaxObjects
  /\ n' = n + 1
  /\ class' = [class EXCEPT ![n + 1] = k]
  /\ UNCHANGED <<parent, native, tagged, held>>

(* A method call by the running script on a held box of class k. *)
Receiver(o, K) == phase = "running" /\ o \in held /\ class[o] \in K

(* Handlers that allocate the box before the native. *)
BoxFirst(k, p) == Boxed(k, p) \/ Abandoned(k)

(* Handlers whose native (or the exception) comes before the box. *)
NativeFirst(k, p) == Boxed(k, p) \/ UNCHANGED <<boxVars, held>>

ConnectionNew ==
  /\ phase = "running"
  /\ BoxFirst("Connection", Nil)
  /\ UNCHANGED <<iter, gcVars, dangling, phase>>

ReplicaSetNew ==
  /\ phase = "running"
  /\ BoxFirst("ReplicaSet", Nil)
  /\ UNCHANGED <<iter, gcVars, dangling, phase>>

QueryNew ==
  /\ phase = "running"
  /\ BoxFirst("Query", Nil)
  /\ UNCHANGED <<iter, gcVars, dangling, phase>>

(* cursor_create, behind db:query. *)
CursorCreate(d) ==
  /\ Receiver(d, DBClients)
  /\ NativeFirst("Cursor", d)
  /\ Touch({d})
  /\ UNCHANGED <<iter, gcVars, phase>>

(* Mutant: the cursor of enumerate_indexes is boxed without its metatable. *)
EnumerateIndexesUntagged(d) ==
  /\ Receiver(d, DBClients)
  /\ n < MaxObjects
  /\ n' = n + 1
  /\ class' = [class EXCEPT ![n + 1] = "Cursor"]
  /\ parent' = [parent EXCEPT ![n + 1] = d]
  /\ native' = [native EXCEPT ![n + 1] = "alive"]
  /\ held' = held \cup {n + 1}
  /\ Touch({d})
  /\ UNCHANGED <<tagged, iter, gcVars, phase>>

(* db:enumerate_indexes boxes its cursor itself. *)
EnumerateIndexes(d) ==
  /\ Receiver(d, DBClients)
  /\ NativeFirst("Cursor", d)
  /\ Touch({d})
  /\ UNCHANGED <<iter, gcVars, phase>>

GridFSNew(d) ==
  /\ Receiver(d, DBClients)
  /\ BoxFirst("GridFS", d)
  /\ Touch({d})
  /\ UNCHANGED <<iter, gcVars, phase>>

(* Mutant: the file's box gets a metatable of another name. *)
FindFileMisnamed(g) ==
  /\ Receiver(g, {"GridFS"})
  /\ NativeFirst("GridFSFile", g)
  /\ Touch(Chain(g))
  /\ UNCHANGED <<iter, gcVars, phase>>

(* find_file and find_file_by_name: gridfile_create copies the GridFile, and
   with it the pointer to the GridFS. *)
FindFile(g) ==
  /\ Receiver(g, {"GridFS"})
  /\ NativeFirst("GridFile", g)
  /\ Touch(Chain(g))
  /\ UNCHANGED <<iter, gcVars, phase>>

(* gridfs:list queries through the GridFS's client: the cursor points to the
   client, not to the GridFS. *)
GridFSList(g) ==
  /\ Receiver(g, {"GridFS"})
  /\ NativeFirst("Cursor", parent[g])
  /\ Touch(Chain(g))
  /\ UNCHANGED <<iter, gcVars, phase>>

BuilderNew(g) ==
  /\ Receiver(g, {"GridFS"})
  /\ BoxFirst("GridFileBuilder", g)
  /\ Touch({g})
  /\ UNCHANGED <<iter, gcVars, phase>>

(* A chunk is a copy of its document and points to nothing. *)
GridFileChunk(f) ==
  /\ Receiver(f, {"GridFile"})
  /\ NativeFirst("GridFSChunk", Nil)
  /\ Touch(Chain(f))
  /\ UNCHANGED <<iter, gcVars, phase>>

-----------------------------------------------------------------------------
(* Methods.  What matters here is which natives they dereference.           *)

(* insert, update, remove, query, run_command, ... on a client. *)
DBClientCall(d) ==
  /\ Receiver(d, DBClients)
  /\ Touch({d})
  /\ UNCHANGED <<boxVars, held, iter, gcVars, phase>>

(* store_file, store_data, remove_file; append and build of a builder; write
   and data of a file: all go through the GridFS to its client. *)
GridFSTransfer(o) ==
  /\ Receiver(o, {"GridFS", "GridFile", "GridFileBuilder"})
  /\ Touch(Chain(o))
  /\ UNCHANGED <<boxVars, held, iter, gcVars, phase>>

(* Methods that read or change the receiver's own native: all of Query and
   GridFSChunk, the accessors of GridFile and Cursor. *)
LocalUse(o) ==
  /\ Receiver(o, {"Query", "GridFSChunk", "GridFile", "Cursor"})
  /\ Touch({o})
  /\ UNCHANGED <<boxVars, held, iter, gcVars, phase>>

(* cursor:results() does not look at the native: it wraps the box in a
   closure, which keeps the box reachable from then on. *)
CursorResults(c) ==
  /\ Receiver(c, {"Cursor"})
  /\ iter' = iter \cup {c}
  /\ UNCHANGED <<boxVars, held, gcVars, dangling, phase>>

(* next, has_more and itcount on the box, or a call of the iterator closure:
   when the batch is used up, the driver asks the client for another. *)
CursorAdvance(c) ==
  /\ phase = "running"
  /\ c \in iter \/ (c \in held /\ class[c] = "Cursor")
  /\ \E getMore \in BOOLEAN : Touch(IF getMore THEN Chain(c) ELSE {c})
  /\ UNCHANGED <<boxVars, held, iter, gcVars, phase>>

-----------------------------------------------------------------------------
(* The script.                                                              *)

(* May the script let go of o?  "ordered": it has let go of every object it
   made from o.  "kept": those objects have been finalized, too. *)
DropAllowed(o) ==
  \A c \in Objects : parent[c] = o =>
    CASE script.discipline = "none"    -> TRUE
      [] script.discipline = "ordered" -> c \notin Reachable
      [] script.discipline = "kept"    -> native[c] = "freed"

Drop(o) ==
  /\ phase = "running"
  /\ o \in held
  /\ DropAllowed(o)
  /\ held' = held \ {o}
  /\ UNCHANGED <<boxVars, iter, gcVars, dangling, phase>>

DropIterator(c) ==
  /\ phase = "running"
  /\ c \in iter
  /\ iter' = iter \ {c}
  /\ UNCHANGED <<boxVars, held, gcVars, dangling, phase>>

-----------------------------------------------------------------------------
(* Lua's collector.                                                         *)

(* A cycle blackens a box that is reachable at that moment; the script may
   let go of it before the cycle ends. *)
Mark(o) ==
  /\ phase = "running"
  /\ script.incremental
  /\ o \in Reachable \ marked
  /\ marked' = marked \cup {o}
  /\ UNCHANGED <<boxVars, held, iter, stamp, cycle, dangling, phase>>

(* Every tagged box in S is put in the queue of finalizers as one cycle. *)
Enqueue(S) ==
  /\ cycle' = cycle + 1
  /\ stamp' = [o \in Objects |->
                IF o \in (S \cap tagged) /\ stamp[o] = 0 THEN cycle + 1 ELSE stamp[o]]
  /\ marked' = {}

(* The atomic end of a mark phase: what is neither black nor reachable. *)
Separate ==
  /\ phase = "running"
  /\ \E o \in tagged \ (Reachable \cup marked) : stamp[o] = 0
  /\ Enqueue(Objects \ (Reachable \cup marked))
  /\ UNCHANGED <<boxVars, held, iter, dangling, phase>>

(* Mutant: in a cycle, the oldest box goes first. *)
FirstPendingOldest(o) ==
  /\ o \in Pending
  /\ \A q \in Pending : stamp[o] < stamp[q] \/ (stamp[o] = stamp[q] /\ q >= o)

(* Oldest cycle first; in a cycle, the newest box first. *)
FirstPending(o) ==
  /\ o \in Pending
  /\ \A q \in Pending : stamp[o] < stamp[q] \/ (stamp[o] = stamp[q] /\ q <= o)

(* What a destructor dereferences besides its object: that of DBClientCursor
   may tell the server, through the client, to kill the cursor. *)
DestructorReach(o) == IF class[o] = "Cursor" THEN Chain(o) ELSE {o}

(* Mutant: a finalizer deletes what its native points to as well. *)
GcOwnsParent(o) ==
  /\ phase \in {"running", "closing"}
  /\ FirstPending(o)
  /\ native' = [q \in Objects |-> IF q \in {o, parent[o]} THEN "freed" ELSE native[q]]
  /\ Touch(DestructorReach(o))
  /\ UNCHANGED <<n, class, parent, tagged, held, iter, gcVars, phase>>

(* __gc of every class: delete the native. *)
Gc(o) ==
  /\ phase \in {"running", "closing"}
  /\ FirstPending(o)
  /\ native' = [native EXCEPT ![o] = "freed"]
  /\ Touch(DestructorReach(o))
  /\ UNCHANGED <<n, class, parent, tagged, held, iter, gcVars, phase>>

(* lua_close: the script is over, every box is garbage. *)
LuaClose ==
  /\ phase = "running"
  /\ phase' = "closing"
  /\ held' = {}
  /\ iter' = {}
  /\ Enqueue(Objects)
  /\ UNCHANGED <<boxVars, dangling>>

Closed ==
  /\ phase = "closing"
  /\ Pending = {}
  /\ phase' = "closed"
  /\ UNCHANGED <<boxVars, held, iter, gcVars, dangling>>

-----------------------------------------------------------------------------

Step ==
  \/ ConnectionNew
  \/ ReplicaSetNew
  \/ QueryNew
  \/ \E o \in Objects : CursorCreate(o)
  \/ \E o \in Objects : EnumerateIndexes(o)
  \/ \E o \in Objects : GridFSNew(o)
  \/ \E o \in Objects : FindFile(o)
  \/ \E o \in Objects : GridFSList(o)
  \/ \E o \in Objects : BuilderNew(o)
  \/ \E o \in Objects : GridFileChunk(o)
  \/ \E o \in Objects : DBClientCall(o)
  \/ \E o \in Objects : GridFSTransfer(o)
  \/ \E o \in Objects : LocalUse(o)
  \/ \E o \in Objects : CursorResults(o)
  \/ \E o \in Objects : CursorAdvance(o)
  \/ \E o \in Objects : Drop(o)
  \/ \E o \in Objects : DropIterator(o)
  \/ \E o \in Objects : Mark(o)
  \/ Separate
  \/ \E o \in Objects : Gc(o)
  \/ LuaClose
  \/ Closed

Next == Step /\ UNCHANGED script

Spec == Init /\ [][Next]_vars

-----------------------------------------------------------------------------
(* Properties.                                                              *)

(* Every variable has its type. *)
TypeOK ==
  /\ script \in Scripts
  /\ n \in 0 .. MaxObjects
  /\ class \in [Objects -> Classes \cup {"none"}]
  /\ parent \in [Objects -> Objects \cup {Nil}]
  /\ native \in [Objects -> {"none", "alive", "freed"}]
  /\ tagged \subseteq Objects
  /\ held \subseteq Objects
  /\ iter \subseteq Objects
  /\ marked \subseteq Objects
  /\ stamp \in [Objects -> Nat]
  /\ cycle \in Nat
  /\ dangling \subseteq Objects
  /\ phase \in {"running", "closing", "closed"}

(* When the script is careful enough for the raw pointers: it keeps what an
   object was made from until that object is finalized; or it lets go of the
   object first and no collection cycle is spread over script steps (a box
   that was black when its reference went outlives the cycle). *)
Safe ==
  script.discipline = "kept" \/ (script.discipline = "ordered" /\ ~script.incremental)

(* No handler, driver call or destructor ever follows a pointer to a deleted
   native: what the FIXME of mongo_gridfs.cpp and mongo_gridfilebuilder.cpp
   asks of the binding. *)
NoDanglingUse == dangling = {}

(* The same, as a promise to a script that is Safe. *)
SafeScriptNoDanglingUse == Safe => NoDanglingUse

(* A finalizer never meets a box without a native: each constructor sets the
   metatable last, after all that can throw. *)
ConstructedBeforeTagged == \A o \in tagged : native[o] # "none"

(* Every native that was constructed has been deleted when lua_close is done:
   no path of a constructor leaves one outside the reach of __gc. *)
NoLeakAtClose == phase = "closed" => \A o \in Objects : native[o] # "alive"

(* Finalizers and natives match: none without the other, whichever step of a
   constructor throws. *)
FinalizersMatch == ConstructedBeforeTagged /\ NoLeakAtClose

(* The native of a box that the script can still reach is never deleted, not
   by its own finalizer nor by another object's. *)
ReceiverAlive == \A o \in Reachable : native[o] = "alive"

(* The collector alone never deletes a pointee before what points to it: it
   did so only if an earlier cycle than the pointer's found the pointee. *)
DanglingNeedsEarlierCycle ==
  \A c \in Objects :
    (parent[c] # Nil /\ native[c] = "alive" /\ native[parent[c]] = "freed") =>
      /\ stamp[parent[c]] # 0
      /\ stamp[c] = 0 \/ stamp[c] > stamp[parent[c]]

(* For a Safe script the natives are built and destroyed in an order that
   module NativeOrder allows: a pointee outlives what points to it. *)
Natives == INSTANCE NativeOrder WITH
             state <- IF Safe THEN native ELSE [o \in Objects |-> "none"],
             pointee <- IF Safe THEN parent ELSE [o \in Objects |-> Nil]
NativesInOrder == Natives!Spec

==============================================================================
