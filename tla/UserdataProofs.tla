--------------------------- MODULE UserdataProofs ---------------------------
(***************************************************************************)
(* Proofs about module Userdata, for every number of boxes.                *)
(*                                                                         *)
(* Many handlers change the same state, so each step of Next is first put  *)
(* into one of a few shapes (lemma StepShape); the invariants are then     *)
(* proved shape by shape.                                                  *)
(***************************************************************************)
EXTENDS Userdata, TLAPS

-----------------------------------------------------------------------------
(* Shapes of steps.                                                         *)

(* What a new native may point to: nothing, a held box's native, or what a
   held box's native points to. *)
ParentFor(p) == p = Nil \/ p \in held \/ \E g \in held : p = parent[g]

BuildStep(k, p) ==
  /\ phase = "running"
  /\ k \in Classes
  /\ p \in Objects \cup {Nil}
  /\ ParentFor(p)
  /\ Boxed(k, p)
  /\ UNCHANGED <<iter, gcVars, phase>>

FailStep(k) ==
  /\ phase = "running"
  /\ k \in Classes
  /\ Abandoned(k)
  /\ UNCHANGED <<iter, gcVars, phase>>

(* All but `dangling` stays as it is. *)
QuietStep == UNCHANGED <<boxVars, held, iter, gcVars, phase>>

ShapedStep ==
  \/ \E k \in Classes, p \in Objects \cup {Nil} : BuildStep(k, p)
  \/ \E k \in Classes : FailStep(k)
  \/ QuietStep
  \/ \E o \in Objects : CursorResults(o)
  \/ \E o \in Objects : Drop(o)
  \/ \E o \in Objects : DropIterator(o)
  \/ \E o \in Objects : Mark(o)
  \/ Separate
  \/ \E o \in Objects : Gc(o)
  \/ LuaClose
  \/ Closed

(* Every step of Next, and every stutter, has one of these shapes. *)
LEMMA StepShape ==
  ASSUME TypeOK, [Next]_vars
  PROVE  ShapedStep
<1> USE DEF Receiver, Classes, DBClients
<1>1. ASSUME NEW k \in Classes, NEW p \in Objects \cup {Nil}, phase = "running",
             ParentFor(p), BoxFirst(k, p), UNCHANGED <<iter, gcVars, phase>>
      PROVE  ShapedStep
  BY <1>1 DEF BoxFirst, BuildStep, FailStep, ShapedStep
<1>2. ASSUME NEW k \in Classes, NEW p \in Objects \cup {Nil}, phase = "running",
             ParentFor(p), NativeFirst(k, p), UNCHANGED <<iter, gcVars, phase>>
      PROVE  ShapedStep
  BY <1>2 DEF NativeFirst, BuildStep, QuietStep, ShapedStep
<1>3. CASE ConnectionNew
  <2>1. ParentFor(Nil) /\ Nil \in Objects \cup {Nil}
    BY DEF ParentFor
  <2> QED BY <1>1, <1>3, <2>1 DEF ConnectionNew
<1>4. CASE ReplicaSetNew
  <2>1. ParentFor(Nil) /\ Nil \in Objects \cup {Nil}
    BY DEF ParentFor
  <2> QED BY <1>1, <1>4, <2>1 DEF ReplicaSetNew
<1>5. CASE QueryNew
  <2>1. ParentFor(Nil) /\ Nil \in Objects \cup {Nil}
    BY DEF ParentFor
  <2> QED BY <1>1, <1>5, <2>1 DEF QueryNew
<1>6. ASSUME NEW o \in Objects, CursorCreate(o) PROVE ShapedStep
  <2>1. ParentFor(o)
    BY <1>6 DEF CursorCreate, ParentFor
  <2> QED BY <1>2, <1>6, <2>1 DEF CursorCreate
<1>7. ASSUME NEW o \in Objects, EnumerateIndexes(o) PROVE ShapedStep
  <2>1. ParentFor(o)
    BY <1>7 DEF EnumerateIndexes, ParentFor
  <2> QED BY <1>2, <1>7, <2>1 DEF EnumerateIndexes
<1>8. ASSUME NEW o \in Objects, GridFSNew(o) PROVE ShapedStep
  <2>1. ParentFor(o)
    BY <1>8 DEF GridFSNew, ParentFor
  <2> QED BY <1>1, <1>8, <2>1 DEF GridFSNew
<1>9. ASSUME NEW o \in Objects, FindFile(o) PROVE ShapedStep
  <2>1. ParentFor(o)
    BY <1>9 DEF FindFile, ParentFor
  <2> QED BY <1>2, <1>9, <2>1 DEF FindFile
<1>10. ASSUME NEW o \in Objects, GridFSList(o) PROVE ShapedStep
  <2>1. ParentFor(parent[o])
    BY <1>10 DEF GridFSList, ParentFor
  <2>2. parent[o] \in Objects \cup {Nil}
    BY DEF TypeOK
  <2> QED BY <1>2, <1>10, <2>1, <2>2 DEF GridFSList
<1>11. ASSUME NEW o \in Objects, BuilderNew(o) PROVE ShapedStep
  <2>1. ParentFor(o)
    BY <1>11 DEF BuilderNew, ParentFor
  <2> QED BY <1>1, <1>11, <2>1 DEF BuilderNew
<1>12. ASSUME NEW o \in Objects, GridFileChunk(o) PROVE ShapedStep
  <2>1. ParentFor(Nil) /\ Nil \in Objects \cup {Nil}
    BY DEF ParentFor
  <2> QED BY <1>2, <1>12, <2>1 DEF GridFileChunk
<1>13. ASSUME NEW o \in Objects,
              \/ DBClientCall(o) \/ GridFSTransfer(o)
              \/ LocalUse(o) \/ CursorAdvance(o)
       PROVE  ShapedStep
  BY <1>13 DEF DBClientCall, GridFSTransfer, LocalUse, CursorAdvance,
               QuietStep, ShapedStep
<1>14. CASE UNCHANGED vars
  BY <1>14 DEF vars, boxVars, gcVars, QuietStep, ShapedStep
<1> QED
  BY <1>3, <1>4, <1>5, <1>6, <1>7, <1>8, <1>9, <1>10, <1>11, <1>12, <1>13,
     <1>14 DEF Next, Step, ShapedStep

(* A step dereferences natives on the chain of one object, which the script
   can reach or whose finalizer runs. *)
TouchingStep ==
  \E o \in Reachable \cup Pending : \E S \in SUBSET Chain(o) : Touch(S)

LEMMA ChainHead == ASSUME NEW o \in Objects PROVE o \in Chain(o)
  BY DEF Chain, Objects, Nil

LEMMA StepTouch ==
  ASSUME [Next]_vars
  PROVE  dangling' = dangling \/ TouchingStep
<1> USE DEF Receiver, Reachable
<1>1. ASSUME NEW o \in Objects, o \in held, Touch({o}) PROVE TouchingStep
  BY <1>1, ChainHead DEF TouchingStep
<1>2. ASSUME NEW o \in Objects, o \in held, Touch(Chain(o)) PROVE TouchingStep
  BY <1>2 DEF TouchingStep
<1>3. ASSUME NEW o \in Objects,
             \/ CursorCreate(o) \/ EnumerateIndexes(o) \/ GridFSNew(o)
             \/ BuilderNew(o) \/ DBClientCall(o) \/ LocalUse(o)
      PROVE  TouchingStep
  BY <1>1, <1>3 DEF CursorCreate, EnumerateIndexes, GridFSNew, BuilderNew,
                    DBClientCall, LocalUse
<1>4. ASSUME NEW o \in Objects,
             FindFile(o) \/ GridFSList(o) \/ GridFileChunk(o) \/ GridFSTransfer(o)
      PROVE  TouchingStep
  BY <1>2, <1>4 DEF FindFile, GridFSList, GridFileChunk, GridFSTransfer
<1>5. ASSUME NEW o \in Objects, CursorAdvance(o) PROVE TouchingStep
  <2>1. PICK getMore \in BOOLEAN : Touch(IF getMore THEN Chain(o) ELSE {o})
    BY <1>5 DEF CursorAdvance
  <2>2. (IF getMore THEN Chain(o) ELSE {o}) \in SUBSET Chain(o)
    BY ChainHead
  <2>3. o \in Reachable
    BY <1>5 DEF CursorAdvance
  <2> QED
    BY <2>1, <2>2, <2>3 DEF TouchingStep
<1>6. ASSUME NEW o \in Objects, Gc(o) PROVE TouchingStep
  <2>1. DestructorReach(o) \in SUBSET Chain(o)
    BY ChainHead DEF DestructorReach
  <2>2. o \in Pending /\ Touch(DestructorReach(o))
    BY <1>6 DEF Gc, FirstPending
  <2> QED
    BY <2>1, <2>2 DEF TouchingStep
<1>7. ASSUME \/ ConnectionNew \/ ReplicaSetNew \/ QueryNew
             \/ \E o \in Objects : \/ CursorResults(o) \/ Drop(o)
                                   \/ DropIterator(o) \/ Mark(o)
             \/ Separate \/ LuaClose \/ Closed \/ UNCHANGED vars
      PROVE  dangling' = dangling
  BY <1>7 DEF ConnectionNew, ReplicaSetNew, QueryNew, CursorResults, Drop,
              DropIterator, Mark, Separate, LuaClose, Closed, vars
<1> QED
  BY <1>3, <1>4, <1>5, <1>6, <1>7 DEF Next, Step

-----------------------------------------------------------------------------
(* Type correctness.                                                        *)

LEMMA TypeInit == Init => TypeOK
  BY MaxObjectsAssumption DEF Init, TypeOK, Objects

LEMMA TypeEnqueue ==
  ASSUME TypeOK, NEW S, Enqueue(S)
  PROVE  cycle' \in Nat /\ stamp' \in [Objects -> Nat] /\ marked' = {}
  BY DEF TypeOK, Enqueue

(* The script of a run is given. *)
LEMMA ScriptStays ==
  ASSUME [Next]_vars
  PROVE  script' = script /\ Safe' = Safe
<1>1. script' = script
  BY DEF Next, vars
<1> QED
  BY <1>1 DEF Safe

LEMMA TypeStep == TypeOK /\ [Next]_vars => TypeOK'
<1> SUFFICES ASSUME TypeOK, [Next]_vars PROVE TypeOK'
  OBVIOUS
<1>0. script' = script
  BY ScriptStays
<1> USE <1>0, MaxObjectsAssumption DEF boxVars, gcVars
<1>1. dangling' \subseteq Objects
  <2>1. ASSUME NEW o \in Reachable \cup Pending PROVE Chain(o) \subseteq Objects
    BY <2>1 DEF TypeOK, Reachable, Pending, Chain, Up
  <2> QED
    BY <2>1, StepTouch DEF TouchingStep, Touch, TypeOK
<1>2. ASSUME NEW k \in Classes, NEW p \in Objects \cup {Nil}, BuildStep(k, p)
      PROVE  TypeOK'
  BY <1>1, <1>2 DEF TypeOK, BuildStep, Boxed, Objects
<1>3. ASSUME NEW k \in Classes, FailStep(k) PROVE TypeOK'
  BY <1>1, <1>3 DEF TypeOK, FailStep, Abandoned, Objects
<1>4. CASE QuietStep
  BY <1>1, <1>4 DEF TypeOK, QuietStep
<1>5. ASSUME NEW o \in Objects,
             CursorResults(o) \/ Drop(o) \/ DropIterator(o) \/ Mark(o)
      PROVE  TypeOK'
  BY <1>1, <1>5 DEF TypeOK, CursorResults, Drop, DropIterator, Mark, Reachable
<1>6. CASE Separate
  BY <1>1, <1>6, TypeEnqueue DEF TypeOK, Separate
<1>7. ASSUME NEW o \in Objects, Gc(o) PROVE TypeOK'
  BY <1>1, <1>7 DEF TypeOK, Gc
<1>8. CASE LuaClose
  BY <1>1, <1>8, TypeEnqueue DEF TypeOK, LuaClose
<1>9. CASE Closed
  BY <1>1, <1>9 DEF TypeOK, Closed
<1> QED
  BY StepShape, <1>2, <1>3, <1>4, <1>5, <1>6, <1>7, <1>8, <1>9 DEF ShapedStep

(* Every variable keeps its type, whatever the script does. *)
THEOREM TypeCorrect == Spec => []TypeOK
  BY TypeInit, TypeStep, PTL DEF Spec

-----------------------------------------------------------------------------
(* What holds whatever the script does.                                     *)

(* Numbers above n are not in use. *)
FreshAbove == \A o \in Objects : o > n => native[o] = "none"

(* The metatable and the native come together. *)
TaggedIffConstructed == \A o \in Objects : o \in tagged <=> native[o] # "none"

(* What an object points to was constructed before it. *)
ParentOlder ==
  \A o \in Objects : parent[o] # Nil =>
    /\ parent[o] < o
    /\ native[o] # "none"
    /\ native[parent[o]] # "none"

(* A box that the script can reach is in use and no finalizer awaits it. *)
ReachableAlive == \A o \in Reachable : native[o] = "alive" /\ stamp[o] = 0

(* The collector stamps a box before its native goes, by a cycle that has been. *)
StampFirst ==
  \A o \in Objects :
    /\ native[o] = "freed" => stamp[o] # 0
    /\ stamp[o] # 0 => native[o] # "none"
    /\ stamp[o] <= cycle

(* When the script is over, every box is garbage; when lua_close is, every
   finalizer has run. *)
CloseStampsAll ==
  /\ phase # "running" => Reachable = {} /\ \A o \in tagged : stamp[o] # 0
  /\ phase = "closed" => Pending = {}

Lifetimes ==
  /\ TypeOK
  /\ FreshAbove
  /\ TaggedIffConstructed
  /\ ParentOlder
  /\ ReachableAlive
  /\ StampFirst
  /\ CloseStampsAll
  /\ DanglingNeedsEarlierCycle

LEMMA LifetimesInit == Init => Lifetimes
  BY TypeInit, MaxObjectsAssumption
  DEF Init, Lifetimes, FreshAbove, TaggedIffConstructed, ParentOlder,
      ReachableAlive, StampFirst, CloseStampsAll, DanglingNeedsEarlierCycle,
      Reachable, Pending, Objects, Nil

(* A new native and what it points to. *)
LEMMA LifetimesBuild ==
  ASSUME Lifetimes, NEW k \in Classes, NEW p \in Objects \cup {Nil},
         BuildStep(k, p), TypeOK'
  PROVE  Lifetimes'
<1> DEFINE b == n + 1
<1>1. b \in Objects /\ b > n /\ native[b] = "none" /\ stamp[b] = 0
  BY MaxObjectsAssumption
  DEF BuildStep, Boxed, Lifetimes, TypeOK, FreshAbove, StampFirst, Objects
<1>2. p # Nil => p \in Objects /\ p # b /\ native[p] # "none" /\ p < b
  <2>1. ASSUME p # Nil PROVE p \in Objects /\ native[p] # "none"
    BY <2>1 DEF BuildStep, ParentFor, Lifetimes, ReachableAlive, ParentOlder,
                Reachable, TypeOK
  <2> QED
    BY <1>1, <2>1 DEF Lifetimes, FreshAbove, TypeOK, Objects
<1>3. \A o \in Objects : o # b => native'[o] = native[o] /\ parent'[o] = parent[o]
  BY <1>1 DEF BuildStep, Boxed, Lifetimes, TypeOK
<1>4. native'[b] = "alive" /\ parent'[b] = p /\ stamp' = stamp /\ cycle' = cycle
  BY <1>1 DEF BuildStep, Boxed, gcVars, Lifetimes, TypeOK
<1>5. FreshAbove' /\ TaggedIffConstructed'
  BY <1>1, <1>3, <1>4
  DEF BuildStep, Boxed, Lifetimes, TypeOK, FreshAbove, TaggedIffConstructed, Objects
<1>6. ParentOlder'
  BY <1>1, <1>2, <1>3, <1>4 DEF Lifetimes, ParentOlder, TypeOK
<1>7. ReachableAlive'
  BY <1>1, <1>3, <1>4
  DEF BuildStep, Boxed, Lifetimes, TypeOK, ReachableAlive, Reachable
<1>8. StampFirst'
  BY <1>1, <1>3, <1>4 DEF Lifetimes, TypeOK, StampFirst
<1>9. CloseStampsAll'
  BY DEF BuildStep, CloseStampsAll
<1>10. DanglingNeedsEarlierCycle'
  <2> SUFFICES ASSUME NEW c \in Objects, parent'[c] # Nil, native'[c] = "alive",
                      native'[parent'[c]] = "freed"
               PROVE  /\ stamp'[parent'[c]] # 0
                      /\ stamp'[c] = 0 \/ stamp'[c] > stamp'[parent'[c]]
    BY DEF DanglingNeedsEarlierCycle
  <2>1. CASE c = b
    BY <1>1, <1>2, <1>3, <1>4, <2>1 DEF Lifetimes, StampFirst
  <2>2. CASE c # b
    BY <1>1, <1>3, <1>4, <2>2 DEF Lifetimes, DanglingNeedsEarlierCycle, TypeOK
  <2> QED BY <2>1, <2>2
<1> QED
  BY <1>5, <1>6, <1>7, <1>8, <1>9, <1>10 DEF Lifetimes

(* The boxes of S that no cycle found before join the queue as one cycle. *)
LEMMA LifetimesEnqueue ==
  ASSUME Lifetimes, NEW S, Enqueue(S), UNCHANGED boxVars, TypeOK',
         Reachable' \cap S = {}, Reachable' \subseteq Reachable
  PROVE  /\ FreshAbove' /\ TaggedIffConstructed' /\ ParentOlder'
         /\ ReachableAlive' /\ StampFirst' /\ DanglingNeedsEarlierCycle'
<1> USE DEF Lifetimes
<1>1. \A o \in Objects : \/ stamp'[o] = stamp[o]
                         \/ stamp[o] = 0 /\ stamp'[o] = cycle + 1 /\ o \in S \cap tagged
  BY DEF Enqueue, TypeOK
<1>2. UNCHANGED <<n, class, parent, native, tagged>> /\ cycle' = cycle + 1
  BY DEF Enqueue, boxVars
<1>3. FreshAbove' /\ TaggedIffConstructed' /\ ParentOlder'
  BY <1>2 DEF FreshAbove, TaggedIffConstructed, ParentOlder
<1>4. ReachableAlive'
  BY <1>1, <1>2 DEF ReachableAlive, Reachable, TypeOK
<1>5. StampFirst'
  BY <1>1, <1>2 DEF StampFirst, TaggedIffConstructed, TypeOK
<1>6. DanglingNeedsEarlierCycle'
  BY <1>1, <1>2 DEF DanglingNeedsEarlierCycle, StampFirst, TypeOK
<1> QED
  BY <1>3, <1>4, <1>5, <1>6

(* When the first box of the queue is finalized, nothing in the queue points
   to it: what does is newer, and would have gone first. *)
LEMMA FirstPendingLast ==
  ASSUME Lifetimes, NEW o \in Objects, FirstPending(o),
         NEW c \in Objects, parent[c] = o, native[c] = "alive", stamp[c] # 0
  PROVE  stamp[c] > stamp[o]
<1>1. c \in Pending /\ c > o
  BY DEF Pending, Lifetimes, ParentOlder, Objects, Nil, TypeOK
<1>2. stamp[c] \in Nat /\ stamp[o] \in Nat /\ c \in Nat /\ o \in Nat
  BY MaxObjectsAssumption DEF Lifetimes, TypeOK, Objects
<1> QED
  BY <1>1, <1>2 DEF FirstPending

LEMMA LifetimesGc ==
  ASSUME Lifetimes, NEW o \in Objects, Gc(o), TypeOK'
  PROVE  Lifetimes'
<1> USE DEF Lifetimes
<1>1. /\ native[o] = "alive" /\ stamp[o] # 0
      /\ native'[o] = "freed"
      /\ \A q \in Objects : q # o => native'[q] = native[q]
      /\ UNCHANGED <<n, class, parent, tagged, held, iter, gcVars, phase>>
  BY DEF Gc, FirstPending, Pending, TypeOK
<1>2. FreshAbove' /\ TaggedIffConstructed' /\ ParentOlder' /\ StampFirst'
  BY <1>1 DEF FreshAbove, TaggedIffConstructed, ParentOlder, StampFirst, gcVars, TypeOK
<1>3. ReachableAlive'
  BY <1>1 DEF ReachableAlive, Reachable, gcVars, TypeOK
<1>4. CloseStampsAll'
  BY <1>1 DEF Gc, CloseStampsAll, Reachable, gcVars
<1>5. DanglingNeedsEarlierCycle'
  <2> SUFFICES ASSUME NEW c \in Objects, parent[c] # Nil, native'[c] = "alive",
                      native'[parent[c]] = "freed"
               PROVE  /\ stamp[parent[c]] # 0
                      /\ stamp[c] = 0 \/ stamp[c] > stamp[parent[c]]
    BY <1>1 DEF DanglingNeedsEarlierCycle, gcVars
  <2>1. c # o /\ native[c] = "alive" /\ parent[c] \in Objects
    BY <1>1 DEF TypeOK
  <2>2. CASE parent[c] = o
    BY <1>1, <2>1, <2>2, FirstPendingLast DEF Gc
  <2>3. CASE parent[c] # o
    BY <1>1, <2>1, <2>3 DEF DanglingNeedsEarlierCycle
  <2> QED BY <2>2, <2>3
<1> QED
  BY <1>2, <1>3, <1>4, <1>5

LEMMA LifetimesStep == Lifetimes /\ [Next]_vars => Lifetimes'
<1> SUFFICES ASSUME Lifetimes, [Next]_vars PROVE Lifetimes'
  OBVIOUS
<1>0. TypeOK' /\ ShapedStep
  BY TypeStep, StepShape DEF Lifetimes
<1>1. ASSUME NEW k \in Classes, NEW p \in Objects \cup {Nil}, BuildStep(k, p)
      PROVE  Lifetimes'
  BY <1>0, <1>1, LifetimesBuild
<1>2. ASSUME NEW k \in Classes, FailStep(k) PROVE Lifetimes'
  <2>1. FreshAbove'
    BY <1>2 DEF FailStep, Abandoned, Lifetimes, FreshAbove, TypeOK, Objects
  <2> QED
    BY <1>0, <1>2, <2>1
    DEF FailStep, Abandoned, Lifetimes, TaggedIffConstructed, ParentOlder,
        ReachableAlive, StampFirst, CloseStampsAll, DanglingNeedsEarlierCycle,
        Reachable, Pending, gcVars
<1>3. CASE QuietStep
  BY <1>0, <1>3
  DEF QuietStep, boxVars, gcVars, Lifetimes, FreshAbove, TaggedIffConstructed,
      ParentOlder, ReachableAlive, StampFirst, CloseStampsAll,
      DanglingNeedsEarlierCycle, Reachable, Pending
<1>4. ASSUME NEW o \in Objects,
             CursorResults(o) \/ Drop(o) \/ DropIterator(o) \/ Mark(o)
      PROVE  Lifetimes'
  <2>1. /\ UNCHANGED <<n, class, parent, native, tagged, stamp, cycle, phase>>
        /\ phase = "running" /\ Reachable' \subseteq Reachable
    BY <1>4 DEF CursorResults, Drop, DropIterator, Mark, Receiver, Reachable,
                boxVars, gcVars
  <2> QED
    BY <1>0, <2>1
    DEF Lifetimes, FreshAbove, TaggedIffConstructed, ParentOlder,
        ReachableAlive, StampFirst, CloseStampsAll, DanglingNeedsEarlierCycle
<1>5. CASE Separate
  <2>1. UNCHANGED boxVars /\ Reachable' = Reachable /\ phase' = "running"
    BY <1>5 DEF Separate, Reachable
  <2>2. CloseStampsAll'
    BY <2>1 DEF CloseStampsAll
  <2> QED
    BY <1>0, <1>5, <2>1, <2>2, LifetimesEnqueue DEF Separate, Lifetimes
<1>6. ASSUME NEW o \in Objects, Gc(o) PROVE Lifetimes'
  BY <1>0, <1>6, LifetimesGc
<1>7. CASE LuaClose
  <2>1. UNCHANGED boxVars /\ Reachable' = {} /\ phase' = "closing"
    BY <1>7 DEF LuaClose, Reachable
  <2>2. CloseStampsAll'
    BY <1>7, <2>1 DEF LuaClose, Enqueue, CloseStampsAll, Lifetimes, TypeOK, boxVars
  <2> QED
    BY <1>0, <1>7, <2>1, <2>2, LifetimesEnqueue DEF LuaClose, Lifetimes
<1>8. CASE Closed
  BY <1>0, <1>8
  DEF Closed, boxVars, gcVars, Lifetimes, FreshAbove, TaggedIffConstructed,
      ParentOlder, ReachableAlive, StampFirst, CloseStampsAll,
      DanglingNeedsEarlierCycle, Reachable, Pending
<1> QED
  BY <1>0, <1>1, <1>2, <1>3, <1>4, <1>5, <1>6, <1>7, <1>8 DEF ShapedStep

THEOREM LifetimesInvariant == Spec => []Lifetimes
  BY LifetimesInit, LifetimesStep, PTL DEF Spec

(* A finalizer never meets a box without a native: every constructor sets the
   metatable last. *)
THEOREM NoTagWithoutNative == Spec => []ConstructedBeforeTagged
<1>1. Lifetimes => ConstructedBeforeTagged
  BY DEF Lifetimes, TypeOK, TaggedIffConstructed, ConstructedBeforeTagged
<1> QED
  BY <1>1, LifetimesInvariant, PTL

(* After lua_close no native that a handler constructed is left alive. *)
THEOREM NothingLeaks == Spec => []NoLeakAtClose
<1>1. Lifetimes => NoLeakAtClose
  BY DEF Lifetimes, TaggedIffConstructed, CloseStampsAll, Pending, NoLeakAtClose
<1> QED
  BY <1>1, LifetimesInvariant, PTL

(* Between a constructor and lua_close, a metatable and a native come and go
   together: no finalizer meets an empty box, and no native is left behind. *)
THEOREM FinalizersMatchNatives == Spec => []FinalizersMatch
BY NoTagWithoutNative, NothingLeaks, PTL DEF FinalizersMatch

(* The receiver of a method is always alive, even when the script is careless
   about what its native points to. *)
THEOREM ReceiverIsAlive == Spec => []ReceiverAlive
<1>1. Lifetimes => ReceiverAlive
  BY DEF Lifetimes, ReachableAlive, ReceiverAlive
<1> QED
  BY <1>1, LifetimesInvariant, PTL

(* The collector deletes a pointee before its pointer only when it found the
   pointee in an earlier cycle: within a cycle the order is right. *)
THEOREM OrderWithinACycle == Spec => []DanglingNeedsEarlierCycle
  BY LifetimesInvariant, PTL DEF Lifetimes

-----------------------------------------------------------------------------
(* What holds when the script is Safe.                                      *)

(* A live native's pointee is alive, and its finalizer is not due before. *)
PointeeOutlives ==
  \A c \in Objects : (parent[c] # Nil /\ native[c] = "alive") =>
    /\ native[parent[c]] = "alive"
    /\ stamp[parent[c]] # 0 => stamp[c] # 0 /\ stamp[c] <= stamp[parent[c]]

(* The script holds what its objects point to: while it can reach the object
   or, if it keeps it, until the object is finalized. *)
PointeeHeld ==
  phase = "running" =>
    \A c \in Objects :
      /\ parent[c] # Nil
      /\ native[c] = "alive"
      /\ script.discipline = "kept" \/ c \in Reachable
      => parent[c] \in held

NoMarks == ~script.incremental => marked = {}

Careful ==
  /\ Safe
  /\ Lifetimes
  /\ PointeeOutlives
  /\ PointeeHeld
  /\ NoMarks
  /\ NoDanglingUse

LEMMA CarefulInit == Safe /\ Init => Careful
  BY LifetimesInit
  DEF Init, Careful, PointeeOutlives, PointeeHeld, NoMarks, NoDanglingUse

(* A call on a live object finds the whole chain of pointers alive. *)
LEMMA ChainAlive ==
  ASSUME Lifetimes, PointeeOutlives, NEW o \in Objects, native[o] = "alive"
  PROVE  \A q \in Chain(o) : native[q] = "alive"
<1>1. Up(o) # Nil => Up(o) \in Objects /\ native[Up(o)] = "alive"
  BY DEF Up, PointeeOutlives, Lifetimes, TypeOK
<1>2. Up(Up(o)) # Nil => native[Up(Up(o))] = "alive"
  BY <1>1 DEF Up, PointeeOutlives, Lifetimes, TypeOK
<1> QED
  BY <1>1, <1>2 DEF Chain

LEMMA CarefulTouch ==
  ASSUME Careful, [Next]_vars
  PROVE  NoDanglingUse'
<1> USE DEF Careful
<1>1. CASE dangling' = dangling
  BY <1>1 DEF NoDanglingUse
<1>2. CASE TouchingStep
  <2>1. PICK o \in Reachable \cup Pending :
          \E S \in SUBSET Chain(o) : Touch(S)
    BY <1>2 DEF TouchingStep
  <2>2. o \in Objects /\ native[o] = "alive"
    BY <2>1 DEF Lifetimes, ReachableAlive, TypeOK, Reachable, Pending
  <2> QED
    BY <2>1, <2>2, ChainAlive DEF Touch, NoDanglingUse
<1> QED
  BY <1>1, <1>2, StepTouch

LEMMA CarefulBuild ==
  ASSUME Careful, NEW k \in Classes, NEW p \in Objects \cup {Nil},
         BuildStep(k, p), Lifetimes', script' = script
  PROVE  PointeeOutlives' /\ PointeeHeld'
<1> DEFINE b == n + 1
<1> USE DEF Careful
<1>1. b \in Objects /\ b > n /\ native[b] = "none" /\ stamp[b] = 0
  BY MaxObjectsAssumption
  DEF BuildStep, Boxed, Lifetimes, TypeOK, FreshAbove, StampFirst, Objects
<1>2. p # Nil => p \in held
  BY DEF BuildStep, ParentFor, PointeeHeld, Lifetimes, ReachableAlive, Reachable, TypeOK
<1>3. \A o \in Objects : o # b => native'[o] = native[o] /\ parent'[o] = parent[o]
  BY <1>1 DEF BuildStep, Boxed, Lifetimes, TypeOK
<1>4. /\ native'[b] = "alive" /\ parent'[b] = p
      /\ stamp' = stamp /\ phase = "running"
      /\ held' = held \cup {b} /\ Reachable' = Reachable \cup {b}
  BY <1>1 DEF BuildStep, Boxed, gcVars, Lifetimes, TypeOK, Reachable
<1>5. \A o \in held : native[o] = "alive" /\ stamp[o] = 0 /\ o \in Objects /\ o # b
  BY <1>1 DEF Lifetimes, ReachableAlive, Reachable, TypeOK
<1>6. PointeeOutlives'
  <2> SUFFICES ASSUME NEW c \in Objects, parent'[c] # Nil, native'[c] = "alive"
               PROVE  /\ native'[parent'[c]] = "alive"
                      /\ stamp[parent'[c]] # 0 =>
                           stamp[c] # 0 /\ stamp[c] <= stamp[parent'[c]]
    BY <1>4 DEF PointeeOutlives
  <2>1. CASE c = b
    BY <1>1, <1>2, <1>3, <1>4, <1>5, <2>1
  <2>2. CASE c # b
    BY <1>1, <1>3, <1>4, <2>2 DEF PointeeOutlives, Lifetimes, TypeOK
  <2> QED BY <2>1, <2>2
<1>7. PointeeHeld'
  BY <1>1, <1>2, <1>3, <1>4 DEF PointeeHeld, Lifetimes, TypeOK
<1> QED
  BY <1>6, <1>7

(* The script lets go of a box, or of an iterator. *)
LEMMA CarefulDrop ==
  ASSUME Careful, NEW o \in Objects, Drop(o) \/ DropIterator(o), script' = script
  PROVE  PointeeHeld'
<1> USE DEF Careful
<1>1. UNCHANGED <<parent, native, phase>> /\ Reachable' \subseteq Reachable
  BY DEF Drop, DropIterator, Reachable, boxVars
<1>2. CASE Drop(o)
  <2> SUFFICES ASSUME NEW c \in Objects, parent[c] # Nil, native[c] = "alive",
                      script.discipline = "kept" \/ c \in Reachable', phase = "running"
               PROVE  parent[c] \in held'
    BY <1>1 DEF PointeeHeld
  <2>1. parent[c] \in held
    BY <1>1 DEF PointeeHeld
  <2>2. parent[c] # o
    BY <1>1, <1>2 DEF Drop, DropAllowed, Safe
  <2> QED
    BY <1>2, <2>1, <2>2 DEF Drop
<1>3. CASE DropIterator(o)
  BY <1>1, <1>3 DEF DropIterator, PointeeHeld
<1> QED
  BY <1>2, <1>3

(* A collection cycle that finds a pointee finds what points to it, too. *)
LEMMA CarefulEnqueue ==
  ASSUME Careful, NEW S, Enqueue(S), UNCHANGED boxVars,
         \A c \in Objects :
           (parent[c] # Nil /\ native[c] = "alive" /\ parent[c] \in S) => c \in S
  PROVE  PointeeOutlives'
<1> USE DEF Careful
<1> SUFFICES ASSUME NEW c \in Objects, parent[c] # Nil, native[c] = "alive"
             PROVE  /\ native[parent[c]] = "alive"
                    /\ stamp'[parent[c]] # 0 =>
                         stamp'[c] # 0 /\ stamp'[c] <= stamp'[parent[c]]
  BY DEF PointeeOutlives, boxVars
<1>1. parent[c] \in Objects /\ native[parent[c]] = "alive" /\ c \in tagged
  BY DEF PointeeOutlives, Lifetimes, TypeOK, TaggedIffConstructed
<1>2. /\ stamp[c] \in Nat /\ stamp[parent[c]] \in Nat /\ cycle \in Nat
      /\ stamp[c] <= cycle /\ stamp[parent[c]] <= cycle
  BY <1>1 DEF Lifetimes, TypeOK, StampFirst
<1>3. \A o \in Objects :
        stamp'[o] = IF o \in (S \cap tagged) /\ stamp[o] = 0 THEN cycle + 1 ELSE stamp[o]
  BY DEF Enqueue
<1>4. stamp[parent[c]] # 0 => stamp[c] # 0 /\ stamp[c] <= stamp[parent[c]]
  BY DEF PointeeOutlives
<1> QED
  BY <1>1, <1>2, <1>3, <1>4

LEMMA CarefulStep == Careful /\ [Next]_vars => Careful'
<1> SUFFICES ASSUME Careful, [Next]_vars PROVE Careful'
  OBVIOUS
<1>0. Lifetimes' /\ ShapedStep /\ NoDanglingUse' /\ Safe' /\ script' = script
  BY LifetimesStep, StepShape, CarefulTouch, ScriptStays DEF Careful, Lifetimes
<1> SUFFICES PointeeOutlives' /\ PointeeHeld' /\ NoMarks'
  BY <1>0 DEF Careful
<1> USE <1>0 DEF Careful
<1>1. ASSUME NEW k \in Classes, NEW p \in Objects \cup {Nil}, BuildStep(k, p)
      PROVE  PointeeOutlives' /\ PointeeHeld' /\ NoMarks'
  BY <1>0, <1>1, CarefulBuild DEF BuildStep, gcVars, NoMarks
<1>2. ASSUME NEW k \in Classes, FailStep(k)
      PROVE  PointeeOutlives' /\ PointeeHeld' /\ NoMarks'
  BY <1>2 DEF FailStep, Abandoned, gcVars, PointeeOutlives, PointeeHeld, NoMarks,
              Reachable
<1>3. CASE QuietStep
  BY <1>3 DEF QuietStep, boxVars, gcVars, PointeeOutlives, PointeeHeld, NoMarks,
              Reachable
<1>4. ASSUME NEW o \in Objects, CursorResults(o) \/ Mark(o)
      PROVE  PointeeOutlives' /\ PointeeHeld' /\ NoMarks'
  BY <1>4 DEF CursorResults, Mark, Receiver, boxVars, gcVars, PointeeOutlives,
              PointeeHeld, NoMarks, Reachable
<1>5. ASSUME NEW o \in Objects, Drop(o) \/ DropIterator(o)
      PROVE  PointeeOutlives' /\ PointeeHeld' /\ NoMarks'
  <2>1. PointeeOutlives' /\ NoMarks'
    BY <1>5 DEF Drop, DropIterator, boxVars, gcVars, PointeeOutlives, NoMarks
  <2> QED
    BY <1>5, <2>1, CarefulDrop
<1>6. CASE Separate
  <2>1. /\ Enqueue(Objects \ (Reachable \cup marked)) /\ UNCHANGED boxVars
        /\ UNCHANGED <<held, phase>> /\ Reachable' = Reachable
        /\ phase = "running" /\ marked' = {}
    BY <1>6 DEF Separate, Enqueue, Reachable
  <2>2. ASSUME NEW c \in Objects, parent[c] # Nil, native[c] = "alive",
               parent[c] \in Objects \ (Reachable \cup marked)
        PROVE  c \in Objects \ (Reachable \cup marked)
    BY <2>1, <2>2 DEF PointeeHeld, NoMarks, Safe, Reachable
  <2>3. PointeeOutlives'
    BY <2>1, <2>2, CarefulEnqueue
  <2>4. PointeeHeld' /\ NoMarks'
    BY <2>1 DEF PointeeHeld, NoMarks, boxVars
  <2> QED BY <2>3, <2>4
<1>7. ASSUME NEW o \in Objects, Gc(o)
      PROVE  PointeeOutlives' /\ PointeeHeld' /\ NoMarks'
  <2>1. /\ native[o] = "alive" /\ stamp[o] # 0
        /\ native'[o] = "freed"
        /\ \A q \in Objects : q # o => native'[q] = native[q]
        /\ UNCHANGED <<parent, held, iter, gcVars, phase>>
    BY <1>7 DEF Gc, FirstPending, Pending, Lifetimes, TypeOK
  <2>2. ASSUME NEW c \in Objects, parent[c] # Nil, native'[c] = "alive"
        PROVE  parent[c] # o /\ native[c] = "alive"
    <3>1. native[c] = "alive"
      BY <2>1, <2>2
    <3>2. parent[c] = o => stamp[c] # 0 /\ stamp[c] <= stamp[o] /\ stamp[c] > stamp[o]
      BY <1>7, <2>1, <2>2, <3>1, FirstPendingLast DEF Gc, PointeeOutlives
    <3>3. stamp[c] \in Nat /\ stamp[o] \in Nat
      BY DEF Lifetimes, TypeOK
    <3> QED BY <3>1, <3>2, <3>3
  <2>3. PointeeOutlives'
    BY <2>1, <2>2 DEF PointeeOutlives, gcVars, Lifetimes, TypeOK
  <2>4. PointeeHeld' /\ NoMarks'
    BY <2>1, <2>2 DEF PointeeHeld, NoMarks, gcVars, Reachable
  <2> QED BY <2>3, <2>4
<1>8. CASE LuaClose
  <2>1. /\ Enqueue(Objects) /\ UNCHANGED boxVars /\ phase' = "closing" /\ marked' = {}
    BY <1>8 DEF LuaClose, Enqueue
  <2>2. PointeeOutlives'
    BY <2>1, CarefulEnqueue
  <2> QED
    BY <2>1, <2>2 DEF PointeeHeld, NoMarks
<1>9. CASE Closed
  BY <1>9 DEF Closed, boxVars, gcVars, PointeeOutlives, PointeeHeld, NoMarks
<1> QED
  BY <1>0, <1>1, <1>2, <1>3, <1>4, <1>5, <1>6, <1>7, <1>8, <1>9 DEF ShapedStep

THEOREM CarefulInvariant == Spec => [](Safe => Careful)
<1>1. Init => (Safe => Careful)
  BY CarefulInit
<1>2. (Safe => Careful) /\ [Next]_vars => (Safe => Careful)'
  BY CarefulStep, ScriptStays
<1> QED
  BY <1>1, <1>2, PTL DEF Spec

(* What the FIXMEs ask for, for a Safe script: no call and no destructor ever
   follows a pointer to a deleted native. *)
THEOREM NoDanglingUseIfSafe == Spec => []SafeScriptNoDanglingUse
<1>1. (Safe => Careful) => SafeScriptNoDanglingUse
  BY DEF Careful, SafeScriptNoDanglingUse
<1> QED
  BY <1>1, CarefulInvariant, PTL

-----------------------------------------------------------------------------
(* Refinement.                                                              *)

LEMMA NativesInit == Init => Natives!Init
  BY DEF Init, Natives!Init, Natives!Objects, Natives!Nil, Objects, Nil

(* The steps of NativeOrder, said of native and parent themselves. *)
Constructs(o, p) ==
  /\ native[o] = "none"
  /\ p # Nil => native[p] = "alive"
  /\ native' = [native EXCEPT ![o] = "alive"]
  /\ parent' = [parent EXCEPT ![o] = p]

Destroys(o) ==
  /\ native[o] = "alive"
  /\ \A c \in Objects : parent[c] = o => native[c] # "alive"
  /\ native' = [native EXCEPT ![o] = "freed"]
  /\ UNCHANGED parent

LEMMA NativesBuild ==
  ASSUME Careful, NEW k \in Classes, NEW p \in Objects \cup {Nil}, BuildStep(k, p)
  PROVE  Constructs(n + 1, p) /\ n + 1 \in Objects
<1> USE DEF Careful
<1>1. n + 1 \in Objects /\ native[n + 1] = "none"
  BY MaxObjectsAssumption DEF BuildStep, Boxed, Lifetimes, TypeOK, FreshAbove, Objects
<1>2. p # Nil => native[p] = "alive"
  BY DEF BuildStep, ParentFor, PointeeHeld, Lifetimes, ReachableAlive, Reachable, TypeOK
<1> QED
  BY <1>1, <1>2 DEF BuildStep, Boxed, Constructs, Nil

LEMMA NativesGc ==
  ASSUME Careful, NEW o \in Objects, Gc(o)
  PROVE  Destroys(o)
<1> USE DEF Careful
<1>1. native[o] = "alive" /\ stamp[o] # 0 /\ FirstPending(o)
  BY DEF Gc, FirstPending, Pending
<1>2. ASSUME NEW c \in Objects, parent[c] = o, native[c] = "alive"
      PROVE  FALSE
  <2>1. parent[c] # Nil
    BY <1>2 DEF Objects, Nil
  <2>2. stamp[c] # 0 /\ stamp[c] <= stamp[o]
    BY <1>1, <1>2, <2>1 DEF PointeeOutlives
  <2>3. stamp[c] > stamp[o]
    BY <1>1, <1>2, <2>2, FirstPendingLast
  <2> QED
    BY <2>2, <2>3 DEF Lifetimes, TypeOK
<1> QED
  BY <1>1, <1>2 DEF Gc, Destroys, boxVars

LEMMA NativesStep == (Safe => Careful) /\ [Next]_vars => [Natives!Next]_(Natives!vars)
<1> SUFFICES ASSUME Safe => Careful, [Next]_vars PROVE [Natives!Next]_(Natives!vars)
  OBVIOUS
<1>0. Safe' = Safe
  BY ScriptStays
<1>1. CASE ~Safe
  BY <1>0, <1>1 DEF Natives!vars
<1>2. CASE Safe
  <2>0. Careful /\ ShapedStep
    BY <1>2, StepShape DEF Careful, Lifetimes
  <2>1. ASSUME NEW k \in Classes, NEW p \in Objects \cup {Nil}, BuildStep(k, p)
        PROVE  Natives!Next
    <3>1. Constructs(n + 1, p) /\ n + 1 \in Objects
      BY <2>0, <2>1, NativesBuild
    <3>2. Natives!Construct(n + 1, p)
      BY <1>0, <1>2, <3>1 DEF Constructs, Natives!Construct, Natives!Nil, Nil
    <3> QED
      BY <3>1, <3>2 DEF Natives!Next, Natives!Objects, Natives!Nil, Objects, Nil
  <2>2. ASSUME NEW o \in Objects, Gc(o) PROVE Natives!Next
    <3>1. Destroys(o)
      BY <2>0, <2>2, NativesGc
    <3>2. Natives!Destroy(o)
      BY <1>0, <1>2, <3>1 DEF Destroys, Natives!Destroy, Natives!Objects, Objects
    <3> QED
      BY <3>2 DEF Natives!Next, Natives!Objects, Objects
  <2>3. ASSUME \/ \E k \in Classes : FailStep(k)
               \/ QuietStep \/ Separate \/ LuaClose \/ Closed
               \/ \E o \in Objects : \/ CursorResults(o) \/ Drop(o)
                                     \/ DropIterator(o) \/ Mark(o)
        PROVE  UNCHANGED Natives!vars
    <3>1. UNCHANGED <<native, parent>>
      BY <2>3 DEF FailStep, Abandoned, QuietStep, Separate, LuaClose, Closed,
                  CursorResults, Drop, DropIterator, Mark, boxVars
    <3> QED
      BY <1>0, <3>1 DEF Natives!vars
  <2> QED
    BY <2>0, <2>1, <2>2, <2>3 DEF ShapedStep
<1> QED
  BY <1>1, <1>2

(* For a Safe script the natives are built and destroyed as NativeOrder says:
   what a native points to is there before it and after it. *)
THEOREM UserdataImplementsNativeOrder == Spec => NativesInOrder
  BY NativesInit, NativesStep, CarefulInvariant, PTL
  DEF Spec, NativesInOrder, Natives!Spec

==============================================================================
