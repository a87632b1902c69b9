---------------------------- MODULE GridFSProofs ----------------------------
(***************************************************************************)
(* Proofs about GridFS, for every number of clients, names, chunks, files  *)
(* and broken requests, and for all that the scripts may do (Roles).       *)
(*                                                                         *)
(* There is a lemma for each way a handler or a request may go.  It states *)
(* first what changes (<1>0), and then that each part of the invariant is  *)
(* kept, what the step means for a file's presence (UploadStep,            *)
(* RemoveStep), and which step of FileStore it is (StoreStep).             *)
(***************************************************************************)
EXTENDS GridFS, FiniteSetTheorems, TLAPS

-----------------------------------------------------------------------------
(* The inductive invariant.                                                 *)

\* The files that a client is uploading.
Holds(c) == {f \in Files : builder[c] = f \/ (op[c] = "store" /\ on[c] = f)}

\* Nothing is known of an id that was not given out.
Fresh ==
  \A f \in Files : f > made =>
    /\ content[f] = <<>> /\ stored[f] = 0 /\ chunks[f] = {}
    /\ f \notin published
    /\ f \notin abandoned

\* A call has no result yet, and only uploads and removals work on a file.
Quiet ==
  \A c \in Clients :
    /\ op[c] # "none" => result[c] = "none"
    /\ op[c] \in {"none", "write", "data"} => on[c] = None
    /\ op[c] # "remove" => todo[c] = {} /\ found[c] = {}

\* A file is uploaded by one client at most, which has neither failed nor ended.
Owned ==
  /\ \A c \in Clients :
       /\ \A f \in Holds(c) : f <= made /\ f \notin published /\ f \notin abandoned
       /\ op[c] = "store" => on[c] # None /\ on[c] # builder[c]
       /\ op[c] \in {"append", "build"} => on[c] # None /\ on[c] = builder[c]
  /\ \A c, d \in Clients : c # d => Holds(c) \cap Holds(d) = {}

\* The chunks on the server are pieces of the content, and those sent so far.
Sent ==
  \A f \in Files :
    /\ stored[f] <= Len(content[f])
    /\ chunks[f] \subseteq Numbered(f, Len(content[f]))
    /\ f \notin published /\ f \notin abandoned => chunks[f] = Numbered(f, stored[f])

\* An entry is there only after, and with, all the chunks.
Complete == Visible \subseteq published /\ VisibleComplete

\* What a removal has done so far.
Removing ==
  \A c \in Clients :
    /\ todo[c] \subseteq found[c] /\ found[c] \subseteq published
    /\ (found[c] \ todo[c]) \cap Visible = {}
    /\ op[c] = "remove" /\ on[c] # None => on[c] \in todo[c] /\ on[c] \notin Visible

\* A GridFile is a copy of an entry there was.
BoxKnown ==
  \A c \in Clients :
    box[c] # None => box[c] \in published /\ size[c] = Len(content[box[c]])

\* What was read so far, and what was given.
Reading ==
  \A c \in Clients :
    /\ op[c] \in {"write", "data"} =>
         IF box[c] = None THEN out[c] = <<>> ELSE IsBeginning(out[c], content[box[c]])
    /\ result[c] = "given" => box[c] # None /\ out[c] = content[box[c]]

IInv ==
  /\ TypeOK /\ Fresh /\ Quiet /\ Owned /\ Sent /\ Complete /\ Removing /\ BoxKnown
  /\ Reading /\ LocalFileIsPrefix /\ OrphansExplained

LEMMA ContentForms ==
  ASSUME NEW s
  PROVE  s \in Contents <=> s \in Seq(Pieces) /\ Len(s) \in 0 .. MaxChunks
<1>1. ASSUME s \in Contents PROVE s \in Seq(Pieces) /\ Len(s) \in 0 .. MaxChunks
  <2>1. PICK k \in 0 .. MaxChunks : s \in [1 .. k -> Pieces]
    BY <1>1 DEF Contents
  <2> QED
    BY <2>1, BoundsAssumption
<1>2. ASSUME s \in Seq(Pieces), Len(s) \in 0 .. MaxChunks PROVE s \in Contents
  <2>1. s \in [1 .. Len(s) -> Pieces]
    BY <1>2
  <2> QED
    BY <1>2, <2>1 DEF Contents
<1> QED
  BY <1>1, <1>2


LEMMA Fault ==
  ASSUME IInv, Breaks
  PROVE  ~Answered /\ faults' \in 0 .. MaxFaults
  BY BoundsAssumption DEF IInv, TypeOK, Breaks, Answered

LEMMA NothingFits == <<>> \in Contents
<1>1. <<>> \in Seq(Pieces) /\ Len(<<>>) = 0
  OBVIOUS
<1>2. Len(<<>>) \in 0 .. MaxChunks
  BY <1>1, BoundsAssumption
<1> QED
  BY <1>1, <1>2, ContentForms

-----------------------------------------------------------------------------
(* What a step may do.                                                      *)

UploadStep ==
  /\ \A c \in Clients :
       op[c] \in {"store", "build"} /\ result'[c] = "done" => on[c] \in Visible'
  /\ \A f \in Visible \ Visible' : \E c \in Clients : f \in found[c]

RemoveStep ==
  \A c \in Clients :
    op[c] = "remove" /\ result'[c] = "done" => found[c] \cap Visible' = {}

\* The state of the FileStore that a state of GridFS stands for, and its steps.
TextOf == [f \in Files |-> IF f \in published THEN {content[f]} ELSE {}]
GivenTo == [c \in Clients |-> IF result[c] = "given" THEN {out[c]} ELSE {}]

StoreStep ==
  \/ \E f \in Files, t \in Contents :
       /\ TextOf[f] = {}
       /\ TextOf' = [TextOf EXCEPT ![f] = {t}]
       /\ Visible' = Visible \cup {f}
       /\ box' = box /\ GivenTo' = GivenTo
  \/ \E f \in Files :
       Visible' = Visible \ {f} /\ TextOf' = TextOf /\ box' = box /\ GivenTo' = GivenTo
  \/ \E c \in Clients, f \in Visible \cup {None} :
       /\ box' = [box EXCEPT ![c] = f]
       /\ GivenTo' = [GivenTo EXCEPT ![c] = {}]
       /\ TextOf' = TextOf /\ Visible' = Visible
  \/ \E c \in Clients :
       /\ box[c] # None
       /\ GivenTo' = [GivenTo EXCEPT ![c] = TextOf[box[c]]]
       /\ TextOf' = TextOf /\ Visible' = Visible /\ box' = box
  \/ \E c \in Clients :
       /\ GivenTo' = [GivenTo EXCEPT ![c] = {}]
       /\ TextOf' = TextOf /\ Visible' = Visible /\ box' = box
  \/ TextOf' = TextOf /\ Visible' = Visible /\ box' = box /\ GivenTo' = GivenTo

StepInv == IInv' /\ UploadStep /\ RemoveStep /\ StoreStep

LEMMA GivenForget ==
  ASSUME TypeOK, NEW c \in Clients, NEW r, r # "given",
         result' = [result EXCEPT ![c] = r],
         \A d \in Clients : d # c => out'[d] = out[d]
  PROVE  GivenTo' = [GivenTo EXCEPT ![c] = {}]
  BY DEF GivenTo, TypeOK

LEMMA GivenNow ==
  ASSUME TypeOK, NEW c \in Clients, result' = [result EXCEPT ![c] = "given"], out' = out
  PROVE  GivenTo' = [GivenTo EXCEPT ![c] = {out[c]}]
  BY DEF GivenTo, TypeOK

LEMMA GivenSame ==
  ASSUME IInv, NEW c \in Clients, op[c] # "none",
         result'[c] # "given",
         \A d \in Clients : d # c => result'[d] = result[d] /\ out'[d] = out[d]
  PROVE  GivenTo' = GivenTo
  BY DEF GivenTo, IInv, Quiet

-----------------------------------------------------------------------------
(* Every action keeps the invariant.                                         *)


LEMMA Storing ==
  ASSUME IInv, NEW c \in Clients,
         NEW nm \in Names, NEW text \in Texts, StoreData(c, nm, text)
  PROVE  StepInv
<1>0. /\ made < MaxFiles
      /\ op[c] = "none"
      /\ op' = [op EXCEPT ![c] = "store"]
      /\ result' = [result EXCEPT ![c] = "none"]
      /\ made' = made + 1
      /\ content' = [content EXCEPT ![made + 1] = text]
      /\ on' = [on EXCEPT ![c] = made + 1]
      /\ name' = [name EXCEPT ![c] = nm]
      /\ UNCHANGED <<entry, num, chunks, published, stored, builder, abandoned, todo,
                    found, box, size, out, faults>>
  BY DEF StoreData, Begins, serverVars, uploadVars, givenVars, removeVars, readVars
<1>1. TypeOK'
  <2>0. TypeOK
    BY DEF IInv
  <2>1. (made \in 0 .. MaxFiles)'
    BY <1>0, <2>0, BoundsAssumption DEF TypeOK, Files, None, Uploads, Visible
  <2>2. (content \in [Files -> Contents])'
    BY <1>0, <2>0, ContentForms, TextsAssumption, BoundsAssumption DEF TypeOK, Files, None,
       Uploads, Visible
  <2>3. (op \in [Clients -> {"none", "store", "append", "build", "remove", "write",
    "data"}])'
    BY <1>0, <2>0, BoundsAssumption DEF TypeOK, Files, None, Uploads, Visible
  <2>4. (on \in [Clients -> Files \cup {None}])'
    BY <1>0, <2>0, BoundsAssumption DEF TypeOK, Files, None, Uploads, Visible
  <2>5. (name \in [Clients -> Names])'
    BY <1>0, <2>0, BoundsAssumption DEF TypeOK, Files, None, Uploads, Visible
  <2>6. (result \in [Clients -> {"none", "done", "given", "failed"}])'
    BY <1>0, <2>0, BoundsAssumption DEF TypeOK, Files, None, Uploads, Visible
  <2> QED
    BY <1>0, <2>0, <2>1, <2>2, <2>3, <2>4, <2>5, <2>6 DEF TypeOK
<1>2. Fresh'
  BY <1>0 DEF IInv, Fresh, Owned, Holds, Removing, Complete, TypeOK, Files, None, Uploads
<1>3. Quiet'
  BY <1>0 DEF IInv, Quiet, TypeOK, Uploads, None
<1>4. Owned'
  <2>1. made + 1 \in Files /\ made \in Nat /\ made + 1 # None
    BY <1>0, BoundsAssumption DEF IInv, TypeOK, Files, None
  <2>2. \A d \in Clients : made + 1 \notin Holds(d) /\ builder[d] # made + 1
    BY <2>1 DEF IInv, Owned, Holds
  <2>3. Holds(c)' = Holds(c) \cup {made + 1}
    BY <1>0, <2>1 DEF IInv, TypeOK, Holds
  <2>4. \A d \in Clients : d # c => Holds(d)' = Holds(d)
    BY <1>0 DEF IInv, TypeOK, Holds
  <2>5. made + 1 \notin published /\ made + 1 \notin abandoned
    BY <2>1 DEF IInv, Fresh
  <2>6. ASSUME NEW d \in Clients, NEW f \in Holds(d)'
        PROVE  f <= made' /\ f \notin published' /\ f \notin abandoned'
    <3>1. CASE f = made + 1
      BY <1>0, <2>1, <2>5, <3>1
    <3>2. CASE f # made + 1
      <4>1. f \in Holds(d)
        BY <2>3, <2>4, <3>2
      <4>2. f \in Nat /\ f <= made /\ f \notin published /\ f \notin abandoned
        BY <4>1 DEF IInv, Owned, Holds, Files
      <4> QED
        BY <1>0, <2>1, <4>2
    <3> QED
      BY <3>1, <3>2
  <2>7. \A d, e \in Clients : d # e => Holds(d)' \cap Holds(e)' = {}
    <3>1. \A d, e \in Clients : d # e => Holds(d) \cap Holds(e) = {}
      BY DEF IInv, Owned
    <3> QED
      BY <2>2, <2>3, <2>4, <3>1
  <2>8. ASSUME NEW d \in Clients
        PROVE  /\ op'[d] = "store" => on'[d] # None /\ on'[d] # builder'[d]
               /\ op'[d] \in {"append", "build"} => on'[d] # None /\ on'[d] = builder'[d]
    BY <1>0, <2>1, <2>2 DEF IInv, Owned, TypeOK
  <2> QED
    BY <2>6, <2>7, <2>8 DEF Owned
<1>5. Sent'
  <2> SUFFICES ASSUME NEW f \in Files
               PROVE  /\ stored'[f] <= Len(content'[f])
                      /\ chunks'[f] \subseteq Numbered(f, Len(content[f]))'
                      /\ f \notin published' /\ f \notin abandoned' =>
                           chunks'[f] = Numbered(f, stored[f])'
    BY DEF Sent
  <2>1. CASE f = made + 1
    <3>1. stored'[f] = 0 /\ chunks'[f] = {} /\ content'[f] = text
      BY <1>0, <2>1 DEF IInv, TypeOK, Fresh
    <3>2. text \in Contents
      BY TextsAssumption
    <3>3. Numbered(f, stored[f])' = {}
      BY <3>1 DEF Numbered
    <3> QED
      BY <3>1, <3>2, <3>3, ContentForms
  <2>2. CASE f # made + 1
    <3>1. stored'[f] = stored[f] /\ content'[f] = content[f] /\ chunks'[f] = chunks[f]
      BY <1>0, <2>2 DEF IInv, TypeOK
    <3>2. Numbered(f, Len(content[f]))' = Numbered(f, Len(content[f]))
      BY <3>1 DEF Numbered
    <3>3. Numbered(f, stored[f])' = Numbered(f, stored[f])
      BY <3>1 DEF Numbered
    <3> QED
      BY <1>0, <3>1, <3>2, <3>3 DEF IInv, Sent
  <2> QED
    BY <2>1, <2>2
<1>6. Complete'
  <2>0. Visible' \subseteq published'
    BY <1>0, NamesAssumption DEF IInv, Complete, Visible, TypeOK
  <2> SUFFICES ASSUME NEW f \in Visible'
               PROVE  /\ num'[f] = Len(content'[f])
                      /\ chunks'[f] = Numbered(f, Len(content[f]))'
    BY <2>0 DEF Complete, VisibleComplete
  <2>2. f # made + 1
    <3>1. f \in Files /\ f \in published
      BY <1>0, <2>0 DEF Visible
    <3>2. ~(f > made)
      BY <3>1 DEF IInv, Fresh
    <3>3. made \in Nat
      BY BoundsAssumption DEF IInv, TypeOK
    <3> QED
      BY <3>2, <3>3
  <2>3. f \in Visible /\ num'[f] = num[f] /\ content'[f] = content[f] /\ chunks'[f] = chunks[f]
    BY <1>0, <2>2 DEF IInv, TypeOK, Visible
  <2>4. Numbered(f, Len(content[f]))' = Numbered(f, Len(content[f]))
    BY <2>3 DEF Numbered
  <2> QED
    BY <2>3, <2>4 DEF IInv, Complete, VisibleComplete
<1>7. Removing'
  BY <1>0, NamesAssumption DEF IInv, Removing, Complete, Visible, Owned, Holds, Quiet,
     TypeOK, Files, None, Uploads
<1>8. BoxKnown'
  BY <1>0 DEF IInv, BoxKnown, Complete, VisibleComplete, Visible, Owned, Holds, Fresh,
     TypeOK, Files, None, Uploads
<1>9. Reading'
  BY <1>0 DEF IInv, Reading, BoxKnown, IsBeginning, Owned, Holds, Fresh, TypeOK, Files,
     None, Uploads
<1>10. LocalFileIsPrefix'
  BY <1>0 DEF IInv, LocalFileIsPrefix, Reading, BoxKnown, IsBeginning, Owned, Holds, Fresh,
     TypeOK, Files, None, Uploads
<1>11. OrphansExplained'
  BY <1>0, NamesAssumption DEF IInv, OrphansExplained, InProgress, Visible, Complete, Sent,
     Numbered, Owned, Holds, Fresh, Quiet, Removing, TypeOK, Files, None, Uploads
<1>12. UploadStep
  <2>1. Visible' = Visible
    BY <1>0 DEF Visible
  <2>2. \A d \in Clients : ~(op[d] \in {"store", "build"} /\ result'[d] = "done")
    BY <1>0 DEF IInv, Quiet, TypeOK, Uploads
  <2> QED
    BY <2>1, <2>2 DEF UploadStep
<1>13. RemoveStep
  <2>1. \A d \in Clients : ~(op[d] = "remove" /\ result'[d] = "done")
    BY <1>0 DEF IInv, Quiet, TypeOK, Uploads
  <2> QED
    BY <2>1 DEF RemoveStep
<1>14. StoreStep
  <2>1. TextOf' = TextOf
    <3>1. made + 1 \notin published
      BY <1>0, BoundsAssumption DEF IInv, Fresh, Owned, Holds, TypeOK, Files, None
    <3>2. \A f \in published : content'[f] = content[f]
      BY <1>0, <3>1 DEF IInv, TypeOK
    <3> QED
      BY <1>0, <3>2 DEF TextOf
  <2>2. Visible' = Visible
    BY <1>0 DEF Visible
  <2>3. GivenTo' = [GivenTo EXCEPT ![c] = {}]
    BY <1>0, GivenForget DEF IInv, TypeOK
  <2> QED
    BY <1>0, <2>1, <2>2, <2>3 DEF StoreStep
<1> QED
  BY <1>1, <1>2, <1>3, <1>4, <1>5, <1>6, <1>7, <1>8, <1>9, <1>10, <1>11, <1>12, <1>13,
     <1>14 DEF IInv, StepInv

LEMMA Opening ==
  ASSUME IInv, NEW c \in Clients,
         BuilderNew(c)
  PROVE  StepInv
<1>0. /\ op[c] = "none"
      /\ builder[c] = None
      /\ made < MaxFiles
      /\ made' = made + 1
      /\ builder' = [builder EXCEPT ![c] = made + 1]
      /\ result' = [result EXCEPT ![c] = "done"]
      /\ UNCHANGED <<entry, num, chunks, published, content, stored, abandoned, todo,
                    found, box, size, out, op, on, name, faults>>
  BY DEF BuilderNew, serverVars, uploadVars, givenVars, removeVars, readVars
<1>1. Sent' /\ Complete' /\ Removing'
  BY <1>0 DEF IInv, Sent, Numbered, Complete, VisibleComplete, Visible, Removing
<1>2. BoxKnown' /\ LocalFileIsPrefix'
  BY <1>0 DEF IInv, BoxKnown, LocalFileIsPrefix, IsBeginning
<1>3. TypeOK'
  <2>0. TypeOK
    BY DEF IInv
  <2>1. (made \in 0 .. MaxFiles)'
    BY <1>0, <2>0, BoundsAssumption DEF TypeOK, Files, None, Uploads, Visible
  <2>2. (builder \in [Clients -> Files \cup {None}])'
    BY <1>0, <2>0, BoundsAssumption DEF TypeOK, Files, None, Uploads, Visible
  <2>3. (result \in [Clients -> {"none", "done", "given", "failed"}])'
    BY <1>0, <2>0, BoundsAssumption DEF TypeOK, Files, None, Uploads, Visible
  <2> QED
    BY <1>0, <2>0, <2>1, <2>2, <2>3 DEF TypeOK
<1>4. Fresh'
  BY <1>0 DEF IInv, Fresh, Owned, Holds, Removing, Complete, TypeOK, Files, None, Uploads
<1>5. Quiet'
  BY <1>0 DEF IInv, Quiet, TypeOK, Uploads, None
<1>6. Owned'
  BY <1>0 DEF IInv, Owned, Holds, Fresh, Quiet, Removing, TypeOK, Files, None, Uploads
<1>7. Reading'
  BY <1>0 DEF IInv, Reading, BoxKnown, IsBeginning, Owned, Holds, Fresh, TypeOK, Files,
     None, Uploads
<1>8. OrphansExplained'
  <2> SUFFICES ASSUME NEW f \in Files \ Visible', chunks'[f] # {}, f \notin abandoned'
               PROVE  InProgress(f)'
    BY DEF OrphansExplained
  <2>1. f \in Files \ Visible /\ chunks[f] # {} /\ f \notin abandoned
    BY <1>0, NamesAssumption DEF IInv, TypeOK, Visible, Files, None
  <2>2. PICK d \in Clients : \/ op[d] # "none" /\ (on[d] = f \/ f \in todo[d])
                             \/ builder[d] = f
    BY <2>1 DEF IInv, OrphansExplained, InProgress
  <2>3. CASE d # c
    <3>1. op'[d] = op[d] /\ on'[d] = on[d] /\ todo'[d] = todo[d] /\ builder'[d] = builder[d]
      BY <1>0, <2>3 DEF IInv, TypeOK
    <3> QED
      BY <2>2, <3>1 DEF InProgress
  <2>4. CASE d = c
    BY <1>0, <2>1, <2>2, <2>4, NamesAssumption DEF IInv, InProgress, Visible, Owned, Quiet,
       TypeOK, Files, None, Uploads
  <2> QED
    BY <2>3, <2>4
<1>9. UploadStep
  <2>1. Visible' = Visible
    BY <1>0 DEF Visible
  <2>2. \A d \in Clients : ~(op[d] \in {"store", "build"} /\ result'[d] = "done")
    BY <1>0 DEF IInv, Quiet, TypeOK, Uploads
  <2> QED
    BY <2>1, <2>2 DEF UploadStep
<1>10. RemoveStep
  <2>1. \A d \in Clients : ~(op[d] = "remove" /\ result'[d] = "done")
    BY <1>0 DEF IInv, Quiet, TypeOK, Uploads
  <2> QED
    BY <2>1 DEF RemoveStep
<1>11. StoreStep
  <2>1. TextOf' = TextOf
    BY <1>0 DEF TextOf
  <2>2. Visible' = Visible
    BY <1>0 DEF Visible
  <2>3. GivenTo' = [GivenTo EXCEPT ![c] = {}]
    BY <1>0, GivenForget DEF IInv, TypeOK
  <2> QED
    BY <1>0, <2>1, <2>2, <2>3 DEF StoreStep
<1> QED
  BY <1>1, <1>2, <1>3, <1>4, <1>5, <1>6, <1>7, <1>8, <1>9, <1>10, <1>11 DEF IInv, StepInv

LEMMA Appending ==
  ASSUME IInv, NEW c \in Clients,
         NEW text \in Contents, BuilderAppend(c, text)
  PROVE  StepInv
<1>0. /\ op[c] = "none"
      /\ builder[c] # None
      /\ content[builder[c]] \o text \in Contents
      /\ op' = [op EXCEPT ![c] = "append"]
      /\ result' = [result EXCEPT ![c] = "none"]
      /\ on' = [on EXCEPT ![c] = builder[c]]
      /\ content' = [content EXCEPT ![builder[c]] = content[builder[c]] \o text]
      /\ UNCHANGED <<entry, num, chunks, published, made, stored, builder, abandoned, todo,
                    found, box, size, out, name, faults>>
  BY DEF BuilderAppend, Begins, serverVars, uploadVars, givenVars, removeVars, readVars
<1>1. TypeOK'
  <2>0. TypeOK
    BY DEF IInv
  <2>1. (content \in [Files -> Contents])'
    BY <1>0, <2>0, ContentForms, TextsAssumption, BoundsAssumption DEF TypeOK, Files, None,
       Uploads, Visible
  <2>2. (op \in [Clients -> {"none", "store", "append", "build", "remove", "write",
    "data"}])'
    BY <1>0, <2>0, BoundsAssumption DEF TypeOK, Files, None, Uploads, Visible
  <2>3. (on \in [Clients -> Files \cup {None}])'
    BY <1>0, <2>0, BoundsAssumption DEF TypeOK, Files, None, Uploads, Visible
  <2>4. (result \in [Clients -> {"none", "done", "given", "failed"}])'
    BY <1>0, <2>0, BoundsAssumption DEF TypeOK, Files, None, Uploads, Visible
  <2> QED
    BY <1>0, <2>0, <2>1, <2>2, <2>3, <2>4 DEF TypeOK
<1>2. Fresh'
  BY <1>0 DEF IInv, Fresh, Owned, Holds, Removing, Complete, TypeOK, Files, None, Uploads
<1>3. Quiet'
  BY <1>0 DEF IInv, Quiet, TypeOK, Uploads, None
<1>4. Owned'
  BY <1>0 DEF IInv, Owned, Holds, Fresh, Quiet, Removing, TypeOK, Files, None, Uploads
<1>5. Sent'
  <2> SUFFICES ASSUME NEW f \in Files
               PROVE  /\ stored'[f] <= Len(content'[f])
                      /\ chunks'[f] \subseteq Numbered(f, Len(content[f]))'
                      /\ f \notin published' /\ f \notin abandoned' =>
                           chunks'[f] = Numbered(f, stored[f])'
    BY DEF Sent
  <2>1. CASE f = builder[c]
    <3>1. content[f] \in Seq(Pieces) /\ content'[f] \in Seq(Pieces)
      BY <1>0, <2>1, ContentForms DEF IInv, TypeOK
    <3>2. content'[f] = content[f] \o text /\ text \in Seq(Pieces)
      BY <1>0, <2>1, ContentForms DEF IInv, TypeOK
    <3>3. Len(content[f]) <= Len(content'[f])
      BY <3>1, <3>2
    <3>4. \A n \in 1 .. Len(content[f]) : content'[f][n] = content[f][n]
      BY <3>1, <3>2
    <3>5. stored[f] \in Nat /\ stored'[f] = stored[f] /\ stored[f] <= Len(content[f])
      BY <1>0, BoundsAssumption DEF IInv, TypeOK, Sent
    <3>6. Numbered(f, stored[f])' = Numbered(f, stored[f])
      <4>1. \A n \in 0 .. stored[f] - 1 : content'[f][n + 1] = content[f][n + 1]
        BY <3>1, <3>4, <3>5
      <4> QED
        BY <3>5, <4>1 DEF Numbered
    <3>7. Numbered(f, Len(content[f])) \subseteq Numbered(f, Len(content[f]))'
      <4>1. \A n \in 0 .. Len(content[f]) - 1 :
              n \in 0 .. Len(content'[f]) - 1 /\ content'[f][n + 1] = content[f][n + 1]
        BY <3>1, <3>3, <3>4
      <4> QED
        BY <4>1 DEF Numbered
    <3>8. Len(content[f]) \in Nat /\ Len(content'[f]) \in Nat
      BY <3>1
    <3>9. stored'[f] <= Len(content'[f])
      BY <3>3, <3>5, <3>8
    <3> QED
      BY <1>0, <3>6, <3>7, <3>9 DEF IInv, Sent
  <2>2. CASE f # builder[c]
    <3>1. stored'[f] = stored[f] /\ content'[f] = content[f] /\ chunks'[f] = chunks[f]
      BY <1>0, <2>2 DEF IInv, TypeOK
    <3>2. Numbered(f, Len(content[f]))' = Numbered(f, Len(content[f]))
      BY <3>1 DEF Numbered
    <3>3. Numbered(f, stored[f])' = Numbered(f, stored[f])
      BY <3>1 DEF Numbered
    <3> QED
      BY <1>0, <3>1, <3>2, <3>3 DEF IInv, Sent
  <2> QED
    BY <2>1, <2>2
<1>6. Complete'
  <2>0. Visible' \subseteq published'
    BY <1>0, NamesAssumption DEF IInv, Complete, Visible, TypeOK
  <2> SUFFICES ASSUME NEW f \in Visible'
               PROVE  /\ num'[f] = Len(content'[f])
                      /\ chunks'[f] = Numbered(f, Len(content[f]))'
    BY <2>0 DEF Complete, VisibleComplete
  <2>2. f # builder[c]
    BY <1>0 DEF IInv, Complete, Fresh, Owned, Holds, TypeOK, Visible, Files, None
  <2>3. f \in Visible /\ num'[f] = num[f] /\ content'[f] = content[f] /\ chunks'[f] = chunks[f]
    BY <1>0, <2>2 DEF IInv, TypeOK, Visible
  <2>4. Numbered(f, Len(content[f]))' = Numbered(f, Len(content[f]))
    BY <2>3 DEF Numbered
  <2> QED
    BY <2>3, <2>4 DEF IInv, Complete, VisibleComplete
<1>7. Removing'
  BY <1>0, NamesAssumption DEF IInv, Removing, Complete, Visible, Owned, Holds, Quiet,
     TypeOK, Files, None, Uploads
<1>8. BoxKnown'
  BY <1>0 DEF IInv, BoxKnown, Complete, VisibleComplete, Visible, Owned, Holds, Fresh,
     TypeOK, Files, None, Uploads
<1>9. Reading'
  BY <1>0 DEF IInv, Reading, BoxKnown, IsBeginning, Owned, Holds, Fresh, TypeOK, Files,
     None, Uploads
<1>10. LocalFileIsPrefix'
  BY <1>0 DEF IInv, LocalFileIsPrefix, Reading, BoxKnown, IsBeginning, Owned, Holds, Fresh,
     TypeOK, Files, None, Uploads
<1>11. OrphansExplained'
  BY <1>0, NamesAssumption DEF IInv, OrphansExplained, InProgress, Visible, Complete, Sent,
     Numbered, Owned, Holds, Fresh, Quiet, Removing, TypeOK, Files, None, Uploads
<1>12. UploadStep
  <2>1. Visible' = Visible
    BY <1>0 DEF Visible
  <2>2. \A d \in Clients : ~(op[d] \in {"store", "build"} /\ result'[d] = "done")
    BY <1>0 DEF IInv, Quiet, TypeOK, Uploads
  <2> QED
    BY <2>1, <2>2 DEF UploadStep
<1>13. RemoveStep
  <2>1. \A d \in Clients : ~(op[d] = "remove" /\ result'[d] = "done")
    BY <1>0 DEF IInv, Quiet, TypeOK, Uploads
  <2> QED
    BY <2>1 DEF RemoveStep
<1>14. StoreStep
  <2>1. TextOf' = TextOf
    <3>1. builder[c] \notin published
      BY <1>0, BoundsAssumption DEF IInv, Fresh, Owned, Holds, TypeOK, Files, None
    <3>2. \A f \in published : content'[f] = content[f]
      BY <1>0, <3>1 DEF IInv, TypeOK
    <3> QED
      BY <1>0, <3>2 DEF TextOf
  <2>2. Visible' = Visible
    BY <1>0 DEF Visible
  <2>3. GivenTo' = [GivenTo EXCEPT ![c] = {}]
    BY <1>0, GivenForget DEF IInv, TypeOK
  <2> QED
    BY <1>0, <2>1, <2>2, <2>3 DEF StoreStep
<1> QED
  BY <1>1, <1>2, <1>3, <1>4, <1>5, <1>6, <1>7, <1>8, <1>9, <1>10, <1>11, <1>12, <1>13,
     <1>14 DEF IInv, StepInv

LEMMA Building ==
  ASSUME IInv, NEW c \in Clients,
         NEW nm \in Names, BuilderBuild(c, nm)
  PROVE  StepInv
<1>0. /\ op[c] = "none"
      /\ builder[c] # None
      /\ op' = [op EXCEPT ![c] = "build"]
      /\ result' = [result EXCEPT ![c] = "none"]
      /\ on' = [on EXCEPT ![c] = builder[c]]
      /\ name' = [name EXCEPT ![c] = nm]
      /\ UNCHANGED <<entry, num, chunks, published, made, content, stored, builder,
                    abandoned, todo, found, box, size, out, faults>>
  BY DEF BuilderBuild, Begins, serverVars, uploadVars, givenVars, removeVars, readVars
<1>1. Fresh' /\ Sent' /\ Complete'
  BY <1>0 DEF IInv, Fresh, Sent, Numbered, Complete, VisibleComplete, Visible
<1>2. BoxKnown' /\ LocalFileIsPrefix'
  BY <1>0 DEF IInv, BoxKnown, LocalFileIsPrefix, IsBeginning
<1>3. TypeOK'
  <2>0. TypeOK
    BY DEF IInv
  <2>1. (op \in [Clients -> {"none", "store", "append", "build", "remove", "write",
    "data"}])'
    BY <1>0, <2>0, BoundsAssumption DEF TypeOK, Files, None, Uploads, Visible
  <2>2. (on \in [Clients -> Files \cup {None}])'
    BY <1>0, <2>0, BoundsAssumption DEF TypeOK, Files, None, Uploads, Visible
  <2>3. (name \in [Clients -> Names])'
    BY <1>0, <2>0, BoundsAssumption DEF TypeOK, Files, None, Uploads, Visible
  <2>4. (result \in [Clients -> {"none", "done", "given", "failed"}])'
    BY <1>0, <2>0, BoundsAssumption DEF TypeOK, Files, None, Uploads, Visible
  <2> QED
    BY <1>0, <2>0, <2>1, <2>2, <2>3, <2>4 DEF TypeOK
<1>4. Quiet'
  BY <1>0 DEF IInv, Quiet, TypeOK, Uploads, None
<1>5. Owned'
  BY <1>0 DEF IInv, Owned, Holds, Fresh, Quiet, Removing, TypeOK, Files, None, Uploads
<1>6. Removing'
  BY <1>0, NamesAssumption DEF IInv, Removing, Complete, Visible, Owned, Holds, Quiet,
     TypeOK, Files, None, Uploads
<1>7. Reading'
  BY <1>0 DEF IInv, Reading, BoxKnown, IsBeginning, Owned, Holds, Fresh, TypeOK, Files,
     None, Uploads
<1>8. OrphansExplained'
  BY <1>0, NamesAssumption DEF IInv, OrphansExplained, InProgress, Visible, Complete, Sent,
     Numbered, Owned, Holds, Fresh, Quiet, Removing, TypeOK, Files, None, Uploads
<1>9. UploadStep
  <2>1. Visible' = Visible
    BY <1>0 DEF Visible
  <2>2. \A d \in Clients : ~(op[d] \in {"store", "build"} /\ result'[d] = "done")
    BY <1>0 DEF IInv, Quiet, TypeOK, Uploads
  <2> QED
    BY <2>1, <2>2 DEF UploadStep
<1>10. RemoveStep
  <2>1. \A d \in Clients : ~(op[d] = "remove" /\ result'[d] = "done")
    BY <1>0 DEF IInv, Quiet, TypeOK, Uploads
  <2> QED
    BY <2>1 DEF RemoveStep
<1>11. StoreStep
  <2>1. TextOf' = TextOf
    BY <1>0 DEF TextOf
  <2>2. Visible' = Visible
    BY <1>0 DEF Visible
  <2>3. GivenTo' = [GivenTo EXCEPT ![c] = {}]
    BY <1>0, GivenForget DEF IInv, TypeOK
  <2> QED
    BY <1>0, <2>1, <2>2, <2>3 DEF StoreStep
<1> QED
  BY <1>1, <1>2, <1>3, <1>4, <1>5, <1>6, <1>7, <1>8, <1>9, <1>10, <1>11 DEF IInv, StepInv

LEMMA Collecting ==
  ASSUME IInv, NEW c \in Clients,
         BuilderGc(c)
  PROVE  StepInv
<1>0. /\ op[c] = "none"
      /\ builder[c] # None
      /\ builder' = [builder EXCEPT ![c] = None]
      /\ abandoned' = abandoned \cup {builder[c]}
      /\ UNCHANGED <<entry, num, chunks, published, made, content, stored, todo, found,
                    box, size, out, op, on, name, result, faults>>
  BY DEF BuilderGc, serverVars, uploadVars, givenVars, removeVars, readVars
<1>1. Quiet' /\ Complete' /\ Removing'
  BY <1>0 DEF IInv, Quiet, Complete, VisibleComplete, Visible, Numbered, Removing
<1>2. BoxKnown' /\ Reading' /\ LocalFileIsPrefix'
  BY <1>0 DEF IInv, BoxKnown, Reading, IsBeginning, LocalFileIsPrefix
<1>3. TypeOK'
  <2>0. TypeOK
    BY DEF IInv
  <2>1. (builder \in [Clients -> Files \cup {None}])'
    BY <1>0, <2>0, BoundsAssumption DEF TypeOK, Files, None, Uploads, Visible
  <2>2. (abandoned \subseteq Files)'
    BY <1>0, <2>0, BoundsAssumption DEF TypeOK, Files, None, Uploads, Visible
  <2> QED
    BY <1>0, <2>0, <2>1, <2>2 DEF TypeOK
<1>4. Fresh'
  BY <1>0 DEF IInv, Fresh, Owned, Holds, Removing, Complete, TypeOK, Files, None, Uploads
<1>5. Owned'
  BY <1>0 DEF IInv, Owned, Holds, Fresh, Quiet, Removing, TypeOK, Files, None, Uploads
<1>6. Sent'
  <2>1. \A f \in Files : /\ Numbered(f, Len(content[f]))' = Numbered(f, Len(content[f]))
                        /\ Numbered(f, stored[f])' = Numbered(f, stored[f])
    BY <1>0 DEF Numbered
  <2>2. stored' = stored /\ content' = content /\ chunks' = chunks
    BY <1>0
  <2>3. published \subseteq published' /\ abandoned \subseteq abandoned'
    BY <1>0
  <2> QED
    BY <2>1, <2>2, <2>3 DEF IInv, Sent
<1>7. OrphansExplained'
  BY <1>0, NamesAssumption DEF IInv, OrphansExplained, InProgress, Visible, Complete, Sent,
     Numbered, Owned, Holds, Fresh, Quiet, Removing, TypeOK, Files, None, Uploads
<1>8. UploadStep
  <2>1. Visible' = Visible
    BY <1>0 DEF Visible
  <2>2. \A d \in Clients : ~(op[d] \in {"store", "build"} /\ result'[d] = "done")
    BY <1>0 DEF IInv, Quiet, TypeOK, Uploads
  <2> QED
    BY <2>1, <2>2 DEF UploadStep
<1>9. RemoveStep
  <2>1. \A d \in Clients : ~(op[d] = "remove" /\ result'[d] = "done")
    BY <1>0 DEF IInv, Quiet, TypeOK, Uploads
  <2> QED
    BY <2>1 DEF RemoveStep
<1>10. StoreStep
  <2>1. TextOf' = TextOf
    BY <1>0 DEF TextOf
  <2>2. Visible' = Visible
    BY <1>0 DEF Visible
  <2>3. GivenTo' = GivenTo
    BY <1>0 DEF GivenTo
  <2> QED
    BY <1>0, <2>1, <2>2, <2>3 DEF StoreStep
<1> QED
  BY <1>1, <1>2, <1>3, <1>4, <1>5, <1>6, <1>7, <1>8, <1>9, <1>10 DEF IInv, StepInv

LEMMA ChunkSent ==
  ASSUME IInv, NEW c \in Clients,
         InsertChunk(c), ~Breaks
  PROVE  StepInv
<1>0. /\ op[c] \in Uploads
      /\ stored[on[c]] < Len(content[on[c]])
      /\ chunks' = [chunks EXCEPT ![on[c]] = chunks[on[c]] \cup {<<stored[on[c]],
        content[on[c]][stored[on[c]] + 1]>>}]
      /\ stored' = [stored EXCEPT ![on[c]] = stored[on[c]] + 1]
      /\ UNCHANGED <<entry, num, published, made, content, builder, abandoned, todo, found,
                    box, size, out, op, on, name, result, faults>>
  BY DEF InsertChunk, PutChunk, GoesOn, Answered, UploadFails, serverVars, uploadVars,
     givenVars, removeVars, readVars
<1>1. Quiet' /\ Owned' /\ Removing'
  BY <1>0 DEF IInv, Quiet, Owned, Holds, Removing, Visible
<1>2. BoxKnown' /\ Reading' /\ LocalFileIsPrefix'
  BY <1>0 DEF IInv, BoxKnown, Reading, IsBeginning, LocalFileIsPrefix
<1>3. TypeOK'
  <2>0. TypeOK
    BY DEF IInv
  <2>1. (chunks \in [Files -> SUBSET ((0 .. MaxChunks) \X Pieces)])'
    <3>1. on[c] \in Files
      BY <1>0 DEF IInv, TypeOK, Owned, Uploads
    <3>2. content[on[c]] \in Seq(Pieces) /\ Len(content[on[c]]) \in 0 .. MaxChunks
      BY <2>0, <3>1, ContentForms DEF TypeOK
    <3>3. stored[on[c]] \in 0 .. MaxChunks
      BY <2>0, <3>1 DEF TypeOK
    <3>4. <<stored[on[c]],
      content[on[c]][stored[on[c]] + 1]>> \in (0 .. MaxChunks) \X Pieces
      <4>1. stored[on[c]] + 1 \in 1 .. Len(content[on[c]])
        BY <1>0, <3>2, <3>3, BoundsAssumption
      <4>2. content[on[c]][stored[on[c]] + 1] \in Pieces
        BY <3>2, <4>1
      <4> QED
        BY <3>3, <4>2
    <3> QED
      BY <1>0, <2>0, <3>1, <3>4 DEF TypeOK
  <2>2. (stored \in [Files -> 0 .. MaxChunks])'
    <3>1. on[c] \in Files
      BY <1>0 DEF IInv, TypeOK, Owned, Uploads
    <3>2. Len(content[on[c]]) \in 0 .. MaxChunks /\ stored[on[c]] \in 0 .. MaxChunks
      BY <2>0, <3>1, ContentForms DEF TypeOK
    <3>3. stored[on[c]] + 1 \in 0 .. MaxChunks
      BY <1>0, <3>2, BoundsAssumption
    <3> QED
      BY <1>0, <2>0, <3>3 DEF TypeOK
  <2> QED
    BY <1>0, <2>0, <2>1, <2>2 DEF TypeOK
<1>4. Fresh'
  BY <1>0 DEF IInv, Fresh, Owned, Holds, Removing, Complete, TypeOK, Files, None, Uploads
<1>5. Sent'
  <2> SUFFICES ASSUME NEW f \in Files
               PROVE  /\ stored'[f] <= Len(content'[f])
                      /\ chunks'[f] \subseteq Numbered(f, Len(content[f]))'
                      /\ f \notin published' /\ f \notin abandoned' =>
                           chunks'[f] = Numbered(f, stored[f])'
    BY DEF Sent
  <2>1. CASE f = on[c]
    <3>1. content[f] \in Seq(Pieces) /\ stored[f] \in Nat /\ Len(content[f]) \in Nat
      BY <2>1, ContentForms, BoundsAssumption DEF IInv, TypeOK
    <3>2. content' = content /\ chunks'[f] = chunks[f] \cup {<<stored[f],
      content[f][stored[f] + 1]>>}
      BY <1>0, <2>1 DEF IInv, TypeOK
    <3>3. Numbered(f, Len(content[f]))' = Numbered(f, Len(content[f]))
      BY <3>2 DEF Numbered
    <3>4. <<stored[f], content[f][stored[f] + 1]>> \in Numbered(f, Len(content[f]))
      BY <1>0, <2>1, <3>1 DEF Numbered
    <3>5. stored'[f] = stored[f] + 1
      BY <1>0, <2>1 DEF IInv, TypeOK
    <3>6. f \notin published /\ f \notin abandoned
      BY <1>0, <2>1 DEF IInv, Owned, Holds, Uploads
    <3>7. chunks[f] = Numbered(f, stored[f])
      BY <3>6 DEF IInv, Sent
    <3>8. Numbered(f, stored[f])' = Numbered(f, stored[f]) \cup {<<stored[f],
      content[f][stored[f] + 1]>>}
      <4>1. 0 .. (stored[f] + 1) - 1 = (0 .. stored[f] - 1) \cup {stored[f]}
        BY <3>1
      <4> QED
        BY <3>2, <3>5, <4>1 DEF Numbered
    <3>9. stored'[f] <= Len(content'[f])
      BY <1>0, <2>1, <3>1, <3>2, <3>5
    <3>10. chunks[f] \subseteq Numbered(f, Len(content[f]))
      BY DEF IInv, Sent
    <3> QED
      BY <3>2, <3>3, <3>4, <3>7, <3>8, <3>9, <3>10
  <2>2. CASE f # on[c]
    <3>1. stored'[f] = stored[f] /\ content'[f] = content[f] /\ chunks'[f] = chunks[f]
      BY <1>0, <2>2 DEF IInv, TypeOK
    <3>2. Numbered(f, Len(content[f]))' = Numbered(f, Len(content[f]))
      BY <3>1 DEF Numbered
    <3>3. Numbered(f, stored[f])' = Numbered(f, stored[f])
      BY <3>1 DEF Numbered
    <3> QED
      BY <1>0, <3>1, <3>2, <3>3 DEF IInv, Sent
  <2> QED
    BY <2>1, <2>2
<1>6. Complete'
  <2>0. Visible' \subseteq published'
    BY <1>0, NamesAssumption DEF IInv, Complete, Visible, TypeOK
  <2> SUFFICES ASSUME NEW f \in Visible'
               PROVE  /\ num'[f] = Len(content'[f])
                      /\ chunks'[f] = Numbered(f, Len(content[f]))'
    BY <2>0 DEF Complete, VisibleComplete
  <2>2. f # on[c]
    BY <1>0 DEF IInv, Complete, Fresh, Owned, Holds, Uploads, TypeOK, Visible, Files, None
  <2>3. f \in Visible /\ num'[f] = num[f] /\ content'[f] = content[f] /\ chunks'[f] = chunks[f]
    BY <1>0, <2>2 DEF IInv, TypeOK, Visible
  <2>4. Numbered(f, Len(content[f]))' = Numbered(f, Len(content[f]))
    BY <2>3 DEF Numbered
  <2> QED
    BY <2>3, <2>4 DEF IInv, Complete, VisibleComplete
<1>7. OrphansExplained'
  <2> SUFFICES ASSUME NEW f \in Files \ Visible', chunks'[f] # {}, f \notin abandoned'
               PROVE  InProgress(f)'
    BY DEF OrphansExplained
  <2>1. CASE f = on[c]
    BY <1>0, <2>1 DEF IInv, InProgress, Owned, Quiet, Removing, TypeOK, Files, None, Uploads
  <2>2. CASE f # on[c]
    <3>1. f \in Files \ Visible /\ chunks[f] # {} /\ f \notin abandoned
      BY <1>0, <2>2, NamesAssumption DEF IInv, TypeOK, Visible, Files, None
    <3>2. PICK d \in Clients : \/ op[d] # "none" /\ (on[d] = f \/ f \in todo[d])
                               \/ builder[d] = f
      BY <3>1 DEF IInv, OrphansExplained, InProgress
    <3>3. CASE d # c
      <4>1. op'[d] = op[d] /\ on'[d] = on[d] /\ todo'[d] = todo[d] /\ builder'[d] = builder[d]
        BY <1>0, <3>3 DEF IInv, TypeOK
      <4> QED
        BY <3>2, <4>1 DEF InProgress
    <3>4. CASE d = c
      BY <1>0, <2>2, <3>1, <3>2, <3>4, NamesAssumption DEF IInv, InProgress, Visible,
         Owned, Quiet, Removing, TypeOK, Files, None, Uploads
    <3> QED
      BY <3>3, <3>4
  <2> QED
    BY <2>1, <2>2
<1>8. UploadStep
  <2>1. Visible' = Visible
    BY <1>0 DEF Visible
  <2>2. \A d \in Clients : ~(op[d] \in {"store", "build"} /\ result'[d] = "done")
    BY <1>0 DEF IInv, Quiet, TypeOK, Uploads
  <2> QED
    BY <2>1, <2>2 DEF UploadStep
<1>9. RemoveStep
  <2>1. \A d \in Clients : ~(op[d] = "remove" /\ result'[d] = "done")
    BY <1>0 DEF IInv, Quiet, TypeOK, Uploads
  <2> QED
    BY <2>1 DEF RemoveStep
<1>10. StoreStep
  <2>1. TextOf' = TextOf
    BY <1>0 DEF TextOf
  <2>2. Visible' = Visible
    BY <1>0 DEF Visible
  <2>3. GivenTo' = GivenTo
    <3>1. op[c] # "none" /\ result[c] = "none"
      BY <1>0 DEF IInv, Quiet, Uploads
    <3> QED
      BY <1>0, <3>1, GivenSame DEF IInv, TypeOK
  <2> QED
    BY <1>0, <2>1, <2>2, <2>3 DEF StoreStep
<1> QED
  BY <1>1, <1>2, <1>3, <1>4, <1>5, <1>6, <1>7, <1>8, <1>9, <1>10 DEF IInv, StepInv

LEMMA ChunkBreaks ==
  ASSUME IInv, NEW c \in Clients,
         InsertChunk(c), Breaks, PutChunk(on[c])
  PROVE  StepInv
<1>0. /\ op[c] \in Uploads
      /\ stored[on[c]] < Len(content[on[c]])
      /\ chunks' = [chunks EXCEPT ![on[c]] = chunks[on[c]] \cup {<<stored[on[c]],
        content[on[c]][stored[on[c]] + 1]>>}]
      /\ op' = [op EXCEPT ![c] = "none"]
      /\ on' = [on EXCEPT ![c] = None]
      /\ todo' = [todo EXCEPT ![c] = {}]
      /\ found' = [found EXCEPT ![c] = {}]
      /\ result' = [result EXCEPT ![c] = "failed"]
      /\ faults' \in 0 .. MaxFaults
      /\ builder' = [builder EXCEPT ![c] = IF op[c] = "store" THEN builder[c] ELSE None]
      /\ abandoned' = abandoned \cup {on[c]}
      /\ UNCHANGED <<entry, num, published, made, content, stored, box, size, out, name>>
  BY Fault DEF InsertChunk, PutChunk, UploadFails, Ends, serverVars, uploadVars, givenVars,
     removeVars, readVars
<1>1. BoxKnown' /\ LocalFileIsPrefix'
  BY <1>0 DEF IInv, BoxKnown, LocalFileIsPrefix, IsBeginning
<1>2. TypeOK'
  <2>0. TypeOK
    BY DEF IInv
  <2>1. (chunks \in [Files -> SUBSET ((0 .. MaxChunks) \X Pieces)])'
    <3>1. on[c] \in Files
      BY <1>0 DEF IInv, TypeOK, Owned, Uploads
    <3>2. content[on[c]] \in Seq(Pieces) /\ Len(content[on[c]]) \in 0 .. MaxChunks
      BY <2>0, <3>1, ContentForms DEF TypeOK
    <3>3. stored[on[c]] \in 0 .. MaxChunks
      BY <2>0, <3>1 DEF TypeOK
    <3>4. <<stored[on[c]],
      content[on[c]][stored[on[c]] + 1]>> \in (0 .. MaxChunks) \X Pieces
      <4>1. stored[on[c]] + 1 \in 1 .. Len(content[on[c]])
        BY <1>0, <3>2, <3>3, BoundsAssumption
      <4>2. content[on[c]][stored[on[c]] + 1] \in Pieces
        BY <3>2, <4>1
      <4> QED
        BY <3>3, <4>2
    <3> QED
      BY <1>0, <2>0, <3>1, <3>4 DEF TypeOK
  <2>2. (op \in [Clients -> {"none", "store", "append", "build", "remove", "write",
    "data"}])'
    BY <1>0, <2>0, BoundsAssumption DEF TypeOK, Files, None, Uploads, Visible
  <2>3. (on \in [Clients -> Files \cup {None}])'
    BY <1>0, <2>0, BoundsAssumption DEF TypeOK, Files, None, Uploads, Visible
  <2>4. (todo \in [Clients -> SUBSET Files])'
    BY <1>0, <2>0, BoundsAssumption DEF TypeOK, Files, None, Uploads, Visible
  <2>5. (builder \in [Clients -> Files \cup {None}])'
    BY <1>0, <2>0, BoundsAssumption DEF TypeOK, Files, None, Uploads, Visible
  <2>6. (result \in [Clients -> {"none", "done", "given", "failed"}])'
    BY <1>0, <2>0, BoundsAssumption DEF TypeOK, Files, None, Uploads, Visible
  <2>7. (faults \in 0 .. MaxFaults)'
    BY <1>0, <2>0, BoundsAssumption DEF TypeOK, Files, None, Uploads, Visible
  <2>8. (abandoned \subseteq Files)'
    <3>1. on[c] \in Files
      BY <1>0 DEF IInv, TypeOK, Owned, Uploads
    <3> QED
      BY <1>0, <2>0, <3>1, ContentForms, BoundsAssumption DEF TypeOK, Files
  <2>9. (found \in [Clients -> SUBSET Files])'
    BY <1>0, <2>0, BoundsAssumption DEF TypeOK, Files, None, Uploads, Visible
  <2> QED
    BY <1>0, <2>0, <2>1, <2>2, <2>3, <2>4, <2>5, <2>6, <2>7, <2>8, <2>9 DEF TypeOK
<1>3. Fresh'
  BY <1>0 DEF IInv, Fresh, Owned, Holds, Removing, Complete, TypeOK, Files, None, Uploads
<1>4. Quiet'
  BY <1>0 DEF IInv, Quiet, TypeOK, Uploads, None
<1>5. Owned'
  <2>1. on'[c] = None /\ op'[c] = "none"
    BY <1>0 DEF IInv, TypeOK
  <2>2. \A d \in Clients : d # c => Holds(d)' = Holds(d)
    BY <1>0 DEF IInv, TypeOK, Holds
  <2>3. Holds(c)' \subseteq Holds(c) /\ on[c] \in Holds(c) /\ on[c] \notin Holds(c)'
    BY <1>0 DEF IInv, TypeOK, Holds, Owned, Uploads, Files, None
  <2>4. \A d \in Clients : d # c => on[c] \notin Holds(d)
    BY <2>3 DEF IInv, Owned
  <2>5. \A d \in Clients : on[c] \notin Holds(d)' /\ Holds(d)' \subseteq Holds(d)
    BY <2>2, <2>3, <2>4
  <2>6. \A d \in Clients : \A f \in Holds(d)' : f <= made' /\ f \notin published' /\ f \notin abandoned'
    BY <1>0, <2>5 DEF IInv, Owned
  <2>7. \A d, e \in Clients : d # e => Holds(d)' \cap Holds(e)' = {}
    BY <2>5 DEF IInv, Owned
  <2>8. ASSUME NEW d \in Clients
        PROVE  /\ op'[d] = "store" => on'[d] # None /\ on'[d] # builder'[d]
               /\ op'[d] \in {"append", "build"} => on'[d] # None /\ on'[d] = builder'[d]
    BY <1>0, <2>1 DEF IInv, Owned, TypeOK
  <2> QED
    BY <2>6, <2>7, <2>8 DEF Owned
<1>6. Sent'
  <2> SUFFICES ASSUME NEW f \in Files
               PROVE  /\ stored'[f] <= Len(content'[f])
                      /\ chunks'[f] \subseteq Numbered(f, Len(content[f]))'
                      /\ f \notin published' /\ f \notin abandoned' =>
                           chunks'[f] = Numbered(f, stored[f])'
    BY DEF Sent
  <2>1. CASE f = on[c]
    <3>1. content[f] \in Seq(Pieces) /\ stored[f] \in Nat /\ Len(content[f]) \in Nat
      BY <2>1, ContentForms, BoundsAssumption DEF IInv, TypeOK
    <3>2. content' = content /\ chunks'[f] = chunks[f] \cup {<<stored[f],
      content[f][stored[f] + 1]>>}
      BY <1>0, <2>1 DEF IInv, TypeOK
    <3>3. Numbered(f, Len(content[f]))' = Numbered(f, Len(content[f]))
      BY <3>2 DEF Numbered
    <3>4. <<stored[f], content[f][stored[f] + 1]>> \in Numbered(f, Len(content[f]))
      BY <1>0, <2>1, <3>1 DEF Numbered
    <3>5. f \in abandoned' /\ stored' = stored
      BY <1>0, <2>1
    <3> QED
      BY <3>2, <3>3, <3>4, <3>5 DEF IInv, Sent
  <2>2. CASE f # on[c]
    <3>1. stored'[f] = stored[f] /\ content'[f] = content[f] /\ chunks'[f] = chunks[f]
      BY <1>0, <2>2 DEF IInv, TypeOK
    <3>2. Numbered(f, Len(content[f]))' = Numbered(f, Len(content[f]))
      BY <3>1 DEF Numbered
    <3>3. Numbered(f, stored[f])' = Numbered(f, stored[f])
      BY <3>1 DEF Numbered
    <3> QED
      BY <1>0, <3>1, <3>2, <3>3 DEF IInv, Sent
  <2> QED
    BY <2>1, <2>2
<1>7. Complete'
  <2>0. Visible' \subseteq published'
    BY <1>0, NamesAssumption DEF IInv, Complete, Visible, TypeOK
  <2> SUFFICES ASSUME NEW f \in Visible'
               PROVE  /\ num'[f] = Len(content'[f])
                      /\ chunks'[f] = Numbered(f, Len(content[f]))'
    BY <2>0 DEF Complete, VisibleComplete
  <2>2. f # on[c]
    BY <1>0 DEF IInv, Complete, Fresh, Owned, Holds, Uploads, TypeOK, Visible, Files, None
  <2>3. f \in Visible /\ num'[f] = num[f] /\ content'[f] = content[f] /\ chunks'[f] = chunks[f]
    BY <1>0, <2>2 DEF IInv, TypeOK, Visible
  <2>4. Numbered(f, Len(content[f]))' = Numbered(f, Len(content[f]))
    BY <2>3 DEF Numbered
  <2> QED
    BY <2>3, <2>4 DEF IInv, Complete, VisibleComplete
<1>8. Removing'
  BY <1>0, NamesAssumption DEF IInv, Removing, Complete, Visible, Owned, Holds, Quiet,
     TypeOK, Files, None, Uploads
<1>9. Reading'
  BY <1>0 DEF IInv, Reading, BoxKnown, IsBeginning, Owned, Holds, Fresh, TypeOK, Files,
     None, Uploads
<1>10. OrphansExplained'
  <2> SUFFICES ASSUME NEW f \in Files \ Visible', chunks'[f] # {}, f \notin abandoned'
               PROVE  InProgress(f)'
    BY DEF OrphansExplained
  <2>1. CASE f = on[c]
    BY <1>0, <2>1 DEF IInv, InProgress, Owned, Quiet, Removing, TypeOK, Files, None, Uploads
  <2>2. CASE f # on[c]
    <3>1. f \in Files \ Visible /\ chunks[f] # {} /\ f \notin abandoned
      BY <1>0, <2>2, NamesAssumption DEF IInv, TypeOK, Visible, Files, None
    <3>2. PICK d \in Clients : \/ op[d] # "none" /\ (on[d] = f \/ f \in todo[d])
                               \/ builder[d] = f
      BY <3>1 DEF IInv, OrphansExplained, InProgress
    <3>3. CASE d # c
      <4>1. op'[d] = op[d] /\ on'[d] = on[d] /\ todo'[d] = todo[d] /\ builder'[d] = builder[d]
        BY <1>0, <3>3 DEF IInv, TypeOK
      <4> QED
        BY <3>2, <4>1 DEF InProgress
    <3>4. CASE d = c
      <4>1. builder[c] = f
        BY <1>0, <2>2, <3>2, <3>4 DEF IInv, Quiet, Uploads
      <4>2. op[c] = "store"
        BY <1>0, <2>2, <4>1 DEF IInv, Owned, Uploads
      <4>3. builder'[c] = f
        BY <1>0, <4>1, <4>2 DEF IInv, TypeOK
      <4> QED
        BY <3>4, <4>3 DEF InProgress
    <3> QED
      BY <3>3, <3>4
  <2> QED
    BY <2>1, <2>2
<1>11. UploadStep
  <2>1. Visible' = Visible
    BY <1>0 DEF Visible
  <2>2. \A d \in Clients : ~(op[d] \in {"store", "build"} /\ result'[d] = "done")
    BY <1>0 DEF IInv, Quiet, TypeOK, Uploads
  <2> QED
    BY <2>1, <2>2 DEF UploadStep
<1>12. RemoveStep
  <2>1. \A d \in Clients : ~(op[d] = "remove" /\ result'[d] = "done")
    BY <1>0 DEF IInv, Quiet, TypeOK, Uploads
  <2> QED
    BY <2>1 DEF RemoveStep
<1>13. StoreStep
  <2>1. TextOf' = TextOf
    BY <1>0 DEF TextOf
  <2>2. Visible' = Visible
    BY <1>0 DEF Visible
  <2>3. GivenTo' = GivenTo
    <3>1. op[c] # "none" /\ result[c] = "none"
      BY <1>0 DEF IInv, Quiet, Uploads
    <3> QED
      BY <1>0, <3>1, GivenSame DEF IInv, TypeOK
  <2> QED
    BY <1>0, <2>1, <2>2, <2>3 DEF StoreStep
<1> QED
  BY <1>1, <1>2, <1>3, <1>4, <1>5, <1>6, <1>7, <1>8, <1>9, <1>10, <1>11, <1>12,
     <1>13 DEF IInv, StepInv

LEMMA ChunkLost ==
  ASSUME IInv, NEW c \in Clients,
         InsertChunk(c), Breaks, UNCHANGED chunks
  PROVE  StepInv
<1>0. /\ op[c] \in Uploads
      /\ stored[on[c]] < Len(content[on[c]])
      /\ op' = [op EXCEPT ![c] = "none"]
      /\ on' = [on EXCEPT ![c] = None]
      /\ todo' = [todo EXCEPT ![c] = {}]
      /\ found' = [found EXCEPT ![c] = {}]
      /\ result' = [result EXCEPT ![c] = "failed"]
      /\ faults' \in 0 .. MaxFaults
      /\ builder' = [builder EXCEPT ![c] = IF op[c] = "store" THEN builder[c] ELSE None]
      /\ abandoned' = abandoned \cup {on[c]}
      /\ UNCHANGED <<entry, num, chunks, published, made, content, stored, box, size, out,
                    name>>
  BY Fault DEF InsertChunk, UploadFails, Ends, serverVars, uploadVars, givenVars,
     removeVars, readVars
<1>1. Complete' /\ BoxKnown' /\ LocalFileIsPrefix'
  BY <1>0 DEF IInv, Complete, VisibleComplete, Visible, Numbered, BoxKnown,
     LocalFileIsPrefix, IsBeginning
<1>2. TypeOK'
  <2>0. TypeOK
    BY DEF IInv
  <2>1. (op \in [Clients -> {"none", "store", "append", "build", "remove", "write",
    "data"}])'
    BY <1>0, <2>0, BoundsAssumption DEF TypeOK, Files, None, Uploads, Visible
  <2>2. (on \in [Clients -> Files \cup {None}])'
    BY <1>0, <2>0, BoundsAssumption DEF TypeOK, Files, None, Uploads, Visible
  <2>3. (todo \in [Clients -> SUBSET Files])'
    BY <1>0, <2>0, BoundsAssumption DEF TypeOK, Files, None, Uploads, Visible
  <2>4. (builder \in [Clients -> Files \cup {None}])'
    BY <1>0, <2>0, BoundsAssumption DEF TypeOK, Files, None, Uploads, Visible
  <2>5. (result \in [Clients -> {"none", "done", "given", "failed"}])'
    BY <1>0, <2>0, BoundsAssumption DEF TypeOK, Files, None, Uploads, Visible
  <2>6. (faults \in 0 .. MaxFaults)'
    BY <1>0, <2>0, BoundsAssumption DEF TypeOK, Files, None, Uploads, Visible
  <2>7. (abandoned \subseteq Files)'
    <3>1. on[c] \in Files
      BY <1>0 DEF IInv, TypeOK, Owned, Uploads
    <3> QED
      BY <1>0, <2>0, <3>1, ContentForms, BoundsAssumption DEF TypeOK, Files
  <2>8. (found \in [Clients -> SUBSET Files])'
    BY <1>0, <2>0, BoundsAssumption DEF TypeOK, Files, None, Uploads, Visible
  <2> QED
    BY <1>0, <2>0, <2>1, <2>2, <2>3, <2>4, <2>5, <2>6, <2>7, <2>8 DEF TypeOK
<1>3. Fresh'
  BY <1>0 DEF IInv, Fresh, Owned, Holds, Removing, Complete, TypeOK, Files, None, Uploads
<1>4. Quiet'
  BY <1>0 DEF IInv, Quiet, TypeOK, Uploads, None
<1>5. Owned'
  <2>1. on'[c] = None /\ op'[c] = "none"
    BY <1>0 DEF IInv, TypeOK
  <2>2. \A d \in Clients : d # c => Holds(d)' = Holds(d)
    BY <1>0 DEF IInv, TypeOK, Holds
  <2>3. Holds(c)' \subseteq Holds(c) /\ on[c] \in Holds(c) /\ on[c] \notin Holds(c)'
    BY <1>0 DEF IInv, TypeOK, Holds, Owned, Uploads, Files, None
  <2>4. \A d \in Clients : d # c => on[c] \notin Holds(d)
    BY <2>3 DEF IInv, Owned
  <2>5. \A d \in Clients : on[c] \notin Holds(d)' /\ Holds(d)' \subseteq Holds(d)
    BY <2>2, <2>3, <2>4
  <2>6. \A d \in Clients : \A f \in Holds(d)' : f <= made' /\ f \notin published' /\ f \notin abandoned'
    BY <1>0, <2>5 DEF IInv, Owned
  <2>7. \A d, e \in Clients : d # e => Holds(d)' \cap Holds(e)' = {}
    BY <2>5 DEF IInv, Owned
  <2>8. ASSUME NEW d \in Clients
        PROVE  /\ op'[d] = "store" => on'[d] # None /\ on'[d] # builder'[d]
               /\ op'[d] \in {"append", "build"} => on'[d] # None /\ on'[d] = builder'[d]
    BY <1>0, <2>1 DEF IInv, Owned, TypeOK
  <2> QED
    BY <2>6, <2>7, <2>8 DEF Owned
<1>6. Sent'
  <2> SUFFICES ASSUME NEW f \in Files
               PROVE  /\ stored'[f] <= Len(content'[f])
                      /\ chunks'[f] \subseteq Numbered(f, Len(content[f]))'
                      /\ f \notin published' /\ f \notin abandoned' =>
                           chunks'[f] = Numbered(f, stored[f])'
    BY DEF Sent
  <2>1. CASE f = on[c]
    <3>1. f \in abandoned'
      BY <1>0, <2>1
    <3>2. Numbered(f, Len(content[f]))' = Numbered(f, Len(content[f]))
      BY <1>0 DEF Numbered
    <3> QED
      BY <1>0, <3>1, <3>2 DEF IInv, Sent
  <2>2. CASE f # on[c]
    <3>1. stored'[f] = stored[f] /\ content'[f] = content[f] /\ chunks'[f] = chunks[f]
      BY <1>0, <2>2 DEF IInv, TypeOK
    <3>2. Numbered(f, Len(content[f]))' = Numbered(f, Len(content[f]))
      BY <3>1 DEF Numbered
    <3>3. Numbered(f, stored[f])' = Numbered(f, stored[f])
      BY <3>1 DEF Numbered
    <3> QED
      BY <1>0, <3>1, <3>2, <3>3 DEF IInv, Sent
  <2> QED
    BY <2>1, <2>2
<1>7. Removing'
  BY <1>0, NamesAssumption DEF IInv, Removing, Complete, Visible, Owned, Holds, Quiet,
     TypeOK, Files, None, Uploads
<1>8. Reading'
  BY <1>0 DEF IInv, Reading, BoxKnown, IsBeginning, Owned, Holds, Fresh, TypeOK, Files,
     None, Uploads
<1>9. OrphansExplained'
  <2> SUFFICES ASSUME NEW f \in Files \ Visible', chunks'[f] # {}, f \notin abandoned'
               PROVE  InProgress(f)'
    BY DEF OrphansExplained
  <2>1. CASE f = on[c]
    BY <1>0, <2>1 DEF IInv, InProgress, Owned, Quiet, Removing, TypeOK, Files, None, Uploads
  <2>2. CASE f # on[c]
    <3>1. f \in Files \ Visible /\ chunks[f] # {} /\ f \notin abandoned
      BY <1>0, <2>2, NamesAssumption DEF IInv, TypeOK, Visible, Files, None
    <3>2. PICK d \in Clients : \/ op[d] # "none" /\ (on[d] = f \/ f \in todo[d])
                               \/ builder[d] = f
      BY <3>1 DEF IInv, OrphansExplained, InProgress
    <3>3. CASE d # c
      <4>1. op'[d] = op[d] /\ on'[d] = on[d] /\ todo'[d] = todo[d] /\ builder'[d] = builder[d]
        BY <1>0, <3>3 DEF IInv, TypeOK
      <4> QED
        BY <3>2, <4>1 DEF InProgress
    <3>4. CASE d = c
      <4>1. builder[c] = f
        BY <1>0, <2>2, <3>2, <3>4 DEF IInv, Quiet, Uploads
      <4>2. op[c] = "store"
        BY <1>0, <2>2, <4>1 DEF IInv, Owned, Uploads
      <4>3. builder'[c] = f
        BY <1>0, <4>1, <4>2 DEF IInv, TypeOK
      <4> QED
        BY <3>4, <4>3 DEF InProgress
    <3> QED
      BY <3>3, <3>4
  <2> QED
    BY <2>1, <2>2
<1>10. UploadStep
  <2>1. Visible' = Visible
    BY <1>0 DEF Visible
  <2>2. \A d \in Clients : ~(op[d] \in {"store", "build"} /\ result'[d] = "done")
    BY <1>0 DEF IInv, Quiet, TypeOK, Uploads
  <2> QED
    BY <2>1, <2>2 DEF UploadStep
<1>11. RemoveStep
  <2>1. \A d \in Clients : ~(op[d] = "remove" /\ result'[d] = "done")
    BY <1>0 DEF IInv, Quiet, TypeOK, Uploads
  <2> QED
    BY <2>1 DEF RemoveStep
<1>12. StoreStep
  <2>1. TextOf' = TextOf
    BY <1>0 DEF TextOf
  <2>2. Visible' = Visible
    BY <1>0 DEF Visible
  <2>3. GivenTo' = GivenTo
    <3>1. op[c] # "none" /\ result[c] = "none"
      BY <1>0 DEF IInv, Quiet, Uploads
    <3> QED
      BY <1>0, <3>1, GivenSame DEF IInv, TypeOK
  <2> QED
    BY <1>0, <2>1, <2>2, <2>3 DEF StoreStep
<1> QED
  BY <1>1, <1>2, <1>3, <1>4, <1>5, <1>6, <1>7, <1>8, <1>9, <1>10, <1>11, <1>12 DEF IInv,
     StepInv

LEMMA AppendEnds ==
  ASSUME IInv, NEW c \in Clients,
         AppendReturns(c)
  PROVE  StepInv
<1>0. /\ op[c] = "append"
      /\ op' = [op EXCEPT ![c] = "none"]
      /\ on' = [on EXCEPT ![c] = None]
      /\ todo' = [todo EXCEPT ![c] = {}]
      /\ found' = [found EXCEPT ![c] = {}]
      /\ result' = [result EXCEPT ![c] = "done"]
      /\ UNCHANGED <<entry, num, chunks, published, made, content, stored, builder,
                    abandoned, box, size, out, name, faults>>
  BY DEF AppendReturns, Ends, serverVars, uploadVars, givenVars, removeVars, readVars
<1>1. Fresh' /\ Sent' /\ Complete'
  BY <1>0 DEF IInv, Fresh, Sent, Numbered, Complete, VisibleComplete, Visible
<1>2. BoxKnown' /\ LocalFileIsPrefix'
  BY <1>0 DEF IInv, BoxKnown, LocalFileIsPrefix, IsBeginning
<1>3. TypeOK'
  <2>0. TypeOK
    BY DEF IInv
  <2>1. (op \in [Clients -> {"none", "store", "append", "build", "remove", "write",
    "data"}])'
    BY <1>0, <2>0, BoundsAssumption DEF TypeOK, Files, None, Uploads, Visible
  <2>2. (on \in [Clients -> Files \cup {None}])'
    BY <1>0, <2>0, BoundsAssumption DEF TypeOK, Files, None, Uploads, Visible
  <2>3. (todo \in [Clients -> SUBSET Files])'
    BY <1>0, <2>0, BoundsAssumption DEF TypeOK, Files, None, Uploads, Visible
  <2>4. (result \in [Clients -> {"none", "done", "given", "failed"}])'
    BY <1>0, <2>0, BoundsAssumption DEF TypeOK, Files, None, Uploads, Visible
  <2>5. (found \in [Clients -> SUBSET Files])'
    BY <1>0, <2>0, BoundsAssumption DEF TypeOK, Files, None, Uploads, Visible
  <2> QED
    BY <1>0, <2>0, <2>1, <2>2, <2>3, <2>4, <2>5 DEF TypeOK
<1>4. Quiet'
  BY <1>0 DEF IInv, Quiet, TypeOK, Uploads, None
<1>5. Owned'
  BY <1>0 DEF IInv, Owned, Holds, Fresh, Quiet, Removing, TypeOK, Files, None, Uploads
<1>6. Removing'
  BY <1>0, NamesAssumption DEF IInv, Removing, Complete, Visible, Owned, Holds, Quiet,
     TypeOK, Files, None, Uploads
<1>7. Reading'
  BY <1>0 DEF IInv, Reading, BoxKnown, IsBeginning, Owned, Holds, Fresh, TypeOK, Files,
     None, Uploads
<1>8. OrphansExplained'
  <2> SUFFICES ASSUME NEW f \in Files \ Visible', chunks'[f] # {}, f \notin abandoned'
               PROVE  InProgress(f)'
    BY DEF OrphansExplained
  <2>1. f \in Files \ Visible /\ chunks[f] # {} /\ f \notin abandoned
    BY <1>0, NamesAssumption DEF IInv, TypeOK, Visible, Files, None
  <2>2. PICK d \in Clients : \/ op[d] # "none" /\ (on[d] = f \/ f \in todo[d])
                             \/ builder[d] = f
    BY <2>1 DEF IInv, OrphansExplained, InProgress
  <2>3. CASE d # c
    <3>1. op'[d] = op[d] /\ on'[d] = on[d] /\ todo'[d] = todo[d] /\ builder'[d] = builder[d]
      BY <1>0, <2>3 DEF IInv, TypeOK
    <3> QED
      BY <2>2, <3>1 DEF InProgress
  <2>4. CASE d = c
    BY <1>0, <2>1, <2>2, <2>4, NamesAssumption DEF IInv, InProgress, Visible, Owned, Quiet,
       TypeOK, Files, None, Uploads
  <2> QED
    BY <2>3, <2>4
<1>9. UploadStep
  <2>1. Visible' = Visible
    BY <1>0 DEF Visible
  <2>2. \A d \in Clients : ~(op[d] \in {"store", "build"} /\ result'[d] = "done")
    BY <1>0 DEF IInv, Quiet, TypeOK, Uploads
  <2> QED
    BY <2>1, <2>2 DEF UploadStep
<1>10. RemoveStep
  <2>1. \A d \in Clients : ~(op[d] = "remove" /\ result'[d] = "done")
    BY <1>0 DEF IInv, Quiet, TypeOK, Uploads
  <2> QED
    BY <2>1 DEF RemoveStep
<1>11. StoreStep
  <2>1. TextOf' = TextOf
    BY <1>0 DEF TextOf
  <2>2. Visible' = Visible
    BY <1>0 DEF Visible
  <2>3. GivenTo' = GivenTo
    <3>1. op[c] # "none" /\ result[c] = "none"
      BY <1>0 DEF IInv, Quiet, Uploads
    <3> QED
      BY <1>0, <3>1, GivenSame DEF IInv, TypeOK
  <2> QED
    BY <1>0, <2>1, <2>2, <2>3 DEF StoreStep
<1> QED
  BY <1>1, <1>2, <1>3, <1>4, <1>5, <1>6, <1>7, <1>8, <1>9, <1>10, <1>11 DEF IInv, StepInv

LEMMA EntryPut ==
  ASSUME IInv, NEW c \in Clients,
         InsertEntry(c), ~Breaks
  PROVE  StepInv
<1>0. /\ op[c] \in {"store", "build"}
      /\ stored[on[c]] = Len(content[on[c]])
      /\ entry' = [entry EXCEPT ![on[c]] = name[c]]
      /\ num' = [num EXCEPT ![on[c]] = stored[on[c]]]
      /\ published' = published \cup {on[c]}
      /\ op' = [op EXCEPT ![c] = "none"]
      /\ on' = [on EXCEPT ![c] = None]
      /\ todo' = [todo EXCEPT ![c] = {}]
      /\ found' = [found EXCEPT ![c] = {}]
      /\ result' = [result EXCEPT ![c] = "done"]
      /\ builder' = [builder EXCEPT ![c] = IF op[c] = "build" THEN None ELSE builder[c]]
      /\ UNCHANGED <<chunks, made, content, stored, abandoned, box, size, out, name,
                    faults>>
  BY DEF InsertEntry, PutEntry, UploadFails, Answered, Ends, serverVars, uploadVars,
     givenVars, removeVars, readVars
<1>1. TypeOK'
  <2>0. TypeOK
    BY DEF IInv
  <2>1. (entry \in [Files -> Names \cup {None}])'
    BY <1>0, <2>0, BoundsAssumption DEF TypeOK, Files, None, Uploads, Visible
  <2>2. (num \in [Files -> 0 .. MaxChunks])'
    BY <1>0, <2>0, BoundsAssumption DEF TypeOK, Files, None, Uploads, Visible
  <2>3. (op \in [Clients -> {"none", "store", "append", "build", "remove", "write",
    "data"}])'
    BY <1>0, <2>0, BoundsAssumption DEF TypeOK, Files, None, Uploads, Visible
  <2>4. (on \in [Clients -> Files \cup {None}])'
    BY <1>0, <2>0, BoundsAssumption DEF TypeOK, Files, None, Uploads, Visible
  <2>5. (todo \in [Clients -> SUBSET Files])'
    BY <1>0, <2>0, BoundsAssumption DEF TypeOK, Files, None, Uploads, Visible
  <2>6. (builder \in [Clients -> Files \cup {None}])'
    BY <1>0, <2>0, BoundsAssumption DEF TypeOK, Files, None, Uploads, Visible
  <2>7. (result \in [Clients -> {"none", "done", "given", "failed"}])'
    BY <1>0, <2>0, BoundsAssumption DEF TypeOK, Files, None, Uploads, Visible
  <2>8. (published \subseteq Files)'
    <3>1. on[c] \in Files
      BY <1>0 DEF IInv, TypeOK, Owned, Uploads
    <3> QED
      BY <1>0, <2>0, <3>1, ContentForms, BoundsAssumption DEF TypeOK, Files
  <2>9. (found \in [Clients -> SUBSET Files])'
    BY <1>0, <2>0, BoundsAssumption DEF TypeOK, Files, None, Uploads, Visible
  <2> QED
    BY <1>0, <2>0, <2>1, <2>2, <2>3, <2>4, <2>5, <2>6, <2>7, <2>8, <2>9 DEF TypeOK
<1>2. Fresh'
  BY <1>0 DEF IInv, Fresh, Owned, Holds, Removing, Complete, TypeOK, Files, None, Uploads
<1>3. Quiet'
  BY <1>0 DEF IInv, Quiet, TypeOK, Uploads, None
<1>4. Owned'
  BY <1>0 DEF IInv, Owned, Holds, Fresh, Quiet, Removing, TypeOK, Files, None, Uploads
<1>5. Sent'
  <2>1. \A f \in Files : /\ Numbered(f, Len(content[f]))' = Numbered(f, Len(content[f]))
                        /\ Numbered(f, stored[f])' = Numbered(f, stored[f])
    BY <1>0 DEF Numbered
  <2>2. stored' = stored /\ content' = content /\ chunks' = chunks
    BY <1>0
  <2>3. published \subseteq published' /\ abandoned \subseteq abandoned'
    BY <1>0
  <2> QED
    BY <2>1, <2>2, <2>3 DEF IInv, Sent
<1>6. Complete'
  <2>0. Visible' \subseteq published'
    BY <1>0, NamesAssumption DEF IInv, Complete, Visible, TypeOK
  <2> SUFFICES ASSUME NEW f \in Visible'
               PROVE  /\ num'[f] = Len(content'[f])
                      /\ chunks'[f] = Numbered(f, Len(content[f]))'
    BY <2>0 DEF Complete, VisibleComplete
  <2>1. CASE f = on[c]
    <3>1. num'[f] = stored[f] /\ chunks'[f] = chunks[f] /\ content'[f] = content[f]
      BY <1>0, <2>1 DEF IInv, TypeOK, Visible
    <3>2. f \in Files /\ f \notin published /\ f \notin abandoned
      BY <1>0, <2>1 DEF IInv, Owned, Holds, TypeOK, Visible
    <3>3. chunks[f] = Numbered(f, stored[f])
      BY <3>2 DEF IInv, Sent
    <3>4. Numbered(f, Len(content[f]))' = Numbered(f, Len(content[f]))
      BY <3>1 DEF Numbered
    <3> QED
      BY <1>0, <2>1, <3>1, <3>3, <3>4
  <2>2. CASE f # on[c]
    <3>1. f \in Visible /\ num'[f] = num[f] /\ content'[f] = content[f] /\ chunks'[f] = chunks[f]
      BY <1>0, <2>2 DEF IInv, TypeOK, Visible
    <3>2. Numbered(f, Len(content[f]))' = Numbered(f, Len(content[f]))
      BY <3>1 DEF Numbered
    <3> QED
      BY <3>1, <3>2 DEF IInv, Complete, VisibleComplete
  <2> QED
    BY <2>1, <2>2
<1>7. Removing'
  BY <1>0, NamesAssumption DEF IInv, Removing, Complete, Visible, Owned, Holds, Quiet,
     TypeOK, Files, None, Uploads
<1>8. BoxKnown'
  BY <1>0 DEF IInv, BoxKnown, Complete, VisibleComplete, Visible, Owned, Holds, Fresh,
     TypeOK, Files, None, Uploads
<1>9. Reading'
  BY <1>0 DEF IInv, Reading, BoxKnown, IsBeginning, Owned, Holds, Fresh, TypeOK, Files,
     None, Uploads
<1>10. LocalFileIsPrefix'
  BY <1>0 DEF IInv, LocalFileIsPrefix, Reading, BoxKnown, IsBeginning, Owned, Holds, Fresh,
     TypeOK, Files, None, Uploads
<1>11. OrphansExplained'
  <2> SUFFICES ASSUME NEW f \in Files \ Visible', chunks'[f] # {}, f \notin abandoned'
               PROVE  InProgress(f)'
    BY DEF OrphansExplained
  <2>1. CASE f = on[c]
    <3>1. entry'[f] = name[c] /\ name[c] # None
      BY <1>0, <2>1, NamesAssumption DEF IInv, TypeOK
    <3> QED
      BY <3>1 DEF Visible
  <2>2. CASE f # on[c]
    <3>1. f \in Files \ Visible /\ chunks[f] # {} /\ f \notin abandoned
      BY <1>0, <2>2, NamesAssumption DEF IInv, TypeOK, Visible, Files, None
    <3>2. PICK d \in Clients : \/ op[d] # "none" /\ (on[d] = f \/ f \in todo[d])
                               \/ builder[d] = f
      BY <3>1 DEF IInv, OrphansExplained, InProgress
    <3>3. CASE d # c
      <4>1. op'[d] = op[d] /\ on'[d] = on[d] /\ todo'[d] = todo[d] /\ builder'[d] = builder[d]
        BY <1>0, <3>3 DEF IInv, TypeOK
      <4> QED
        BY <3>2, <4>1 DEF InProgress
    <3>4. CASE d = c
      <4>1. builder[c] = f
        BY <1>0, <2>2, <3>2, <3>4 DEF IInv, Quiet, Uploads
      <4>2. op[c] = "store"
        BY <1>0, <2>2, <4>1 DEF IInv, Owned, Uploads
      <4>3. builder'[c] = f
        BY <1>0, <4>1, <4>2 DEF IInv, TypeOK
      <4> QED
        BY <3>4, <4>3 DEF InProgress
    <3> QED
      BY <3>3, <3>4
  <2> QED
    BY <2>1, <2>2
<1>12. UploadStep
  <2>1. on[c] \in Files /\ name[c] # None
    BY <1>0, NamesAssumption DEF IInv, Owned, TypeOK
  <2>2. on[c] \in Visible' /\ Visible \subseteq Visible'
    BY <1>0, <2>1 DEF IInv, TypeOK, Visible
  <2>3. ASSUME NEW d \in Clients, op[d] \in {"store", "build"}, result'[d] = "done"
        PROVE  d = c
    BY <1>0, <2>3 DEF IInv, Quiet, TypeOK
  <2> QED
    BY <2>2, <2>3 DEF UploadStep
<1>13. RemoveStep
  <2>1. \A d \in Clients : ~(op[d] = "remove" /\ result'[d] = "done")
    BY <1>0 DEF IInv, Quiet, TypeOK, Uploads
  <2> QED
    BY <2>1 DEF RemoveStep
<1>14. StoreStep
  <2>1. on[c] \in Files /\ on[c] \notin published
    BY <1>0 DEF IInv, Owned, Holds, TypeOK, Uploads
  <2>2. TextOf[on[c]] = {} /\ TextOf' = [TextOf EXCEPT ![on[c]] = {content[on[c]]}]
    BY <1>0, <2>1 DEF TextOf
  <2>3. Visible' = Visible \cup {on[c]}
    BY <1>0, <2>1, NamesAssumption DEF IInv, TypeOK, Visible
  <2>4. GivenTo' = GivenTo
    BY <1>0, GivenSame DEF IInv, TypeOK
  <2>5. content[on[c]] \in Contents
    BY <2>1 DEF IInv, TypeOK
  <2> QED
    BY <1>0, <2>1, <2>2, <2>3, <2>4, <2>5 DEF StoreStep
<1> QED
  BY <1>1, <1>2, <1>3, <1>4, <1>5, <1>6, <1>7, <1>8, <1>9, <1>10, <1>11, <1>12, <1>13,
     <1>14 DEF IInv, StepInv

LEMMA EntryBreaks ==
  ASSUME IInv, NEW c \in Clients,
         InsertEntry(c), Breaks, PutEntry(on[c], name[c])
  PROVE  StepInv
<1>0. /\ op[c] \in {"store", "build"}
      /\ stored[on[c]] = Len(content[on[c]])
      /\ entry' = [entry EXCEPT ![on[c]] = name[c]]
      /\ num' = [num EXCEPT ![on[c]] = stored[on[c]]]
      /\ published' = published \cup {on[c]}
      /\ op' = [op EXCEPT ![c] = "none"]
      /\ on' = [on EXCEPT ![c] = None]
      /\ todo' = [todo EXCEPT ![c] = {}]
      /\ found' = [found EXCEPT ![c] = {}]
      /\ result' = [result EXCEPT ![c] = "failed"]
      /\ faults' \in 0 .. MaxFaults
      /\ builder' = [builder EXCEPT ![c] = IF op[c] = "store" THEN builder[c] ELSE None]
      /\ abandoned' = abandoned \cup {on[c]}
      /\ UNCHANGED <<chunks, made, content, stored, box, size, out, name>>
  BY Fault DEF InsertEntry, PutEntry, UploadFails, Ends, serverVars, uploadVars, givenVars,
     removeVars, readVars
<1>1. TypeOK'
  <2>0. TypeOK
    BY DEF IInv
  <2>1. (entry \in [Files -> Names \cup {None}])'
    BY <1>0, <2>0, BoundsAssumption DEF TypeOK, Files, None, Uploads, Visible
  <2>2. (num \in [Files -> 0 .. MaxChunks])'
    BY <1>0, <2>0, BoundsAssumption DEF TypeOK, Files, None, Uploads, Visible
  <2>3. (op \in [Clients -> {"none", "store", "append", "build", "remove", "write",
    "data"}])'
    BY <1>0, <2>0, BoundsAssumption DEF TypeOK, Files, None, Uploads, Visible
  <2>4. (on \in [Clients -> Files \cup {None}])'
    BY <1>0, <2>0, BoundsAssumption DEF TypeOK, Files, None, Uploads, Visible
  <2>5. (todo \in [Clients -> SUBSET Files])'
    BY <1>0, <2>0, BoundsAssumption DEF TypeOK, Files, None, Uploads, Visible
  <2>6. (builder \in [Clients -> Files \cup {None}])'
    BY <1>0, <2>0, BoundsAssumption DEF TypeOK, Files, None, Uploads, Visible
  <2>7. (result \in [Clients -> {"none", "done", "given", "failed"}])'
    BY <1>0, <2>0, BoundsAssumption DEF TypeOK, Files, None, Uploads, Visible
  <2>8. (faults \in 0 .. MaxFaults)'
    BY <1>0, <2>0, BoundsAssumption DEF TypeOK, Files, None, Uploads, Visible
  <2>9. (published \subseteq Files)'
    <3>1. on[c] \in Files
      BY <1>0 DEF IInv, TypeOK, Owned, Uploads
    <3> QED
      BY <1>0, <2>0, <3>1, ContentForms, BoundsAssumption DEF TypeOK, Files
  <2>10. (abandoned \subseteq Files)'
    <3>1. on[c] \in Files
      BY <1>0 DEF IInv, TypeOK, Owned, Uploads
    <3> QED
      BY <1>0, <2>0, <3>1, ContentForms, BoundsAssumption DEF TypeOK, Files
  <2>11. (found \in [Clients -> SUBSET Files])'
    BY <1>0, <2>0, BoundsAssumption DEF TypeOK, Files, None, Uploads, Visible
  <2> QED
    BY <1>0, <2>0, <2>1, <2>2, <2>3, <2>4, <2>5, <2>6, <2>7, <2>8, <2>9, <2>10,
       <2>11 DEF TypeOK
<1>2. Fresh'
  BY <1>0 DEF IInv, Fresh, Owned, Holds, Removing, Complete, TypeOK, Files, None, Uploads
<1>3. Quiet'
  BY <1>0 DEF IInv, Quiet, TypeOK, Uploads, None
<1>4. Owned'
  <2>1. on'[c] = None /\ op'[c] = "none"
    BY <1>0 DEF IInv, TypeOK
  <2>2. \A d \in Clients : d # c => Holds(d)' = Holds(d)
    BY <1>0 DEF IInv, TypeOK, Holds
  <2>3. Holds(c)' \subseteq Holds(c) /\ on[c] \in Holds(c) /\ on[c] \notin Holds(c)'
    BY <1>0 DEF IInv, TypeOK, Holds, Owned, Uploads, Files, None
  <2>4. \A d \in Clients : d # c => on[c] \notin Holds(d)
    BY <2>3 DEF IInv, Owned
  <2>5. \A d \in Clients : on[c] \notin Holds(d)' /\ Holds(d)' \subseteq Holds(d)
    BY <2>2, <2>3, <2>4
  <2>6. \A d \in Clients : \A f \in Holds(d)' : f <= made' /\ f \notin published' /\ f \notin abandoned'
    BY <1>0, <2>5 DEF IInv, Owned
  <2>7. \A d, e \in Clients : d # e => Holds(d)' \cap Holds(e)' = {}
    BY <2>5 DEF IInv, Owned
  <2>8. ASSUME NEW d \in Clients
        PROVE  /\ op'[d] = "store" => on'[d] # None /\ on'[d] # builder'[d]
               /\ op'[d] \in {"append", "build"} => on'[d] # None /\ on'[d] = builder'[d]
    BY <1>0, <2>1 DEF IInv, Owned, TypeOK
  <2> QED
    BY <2>6, <2>7, <2>8 DEF Owned
<1>5. Sent'
  <2>1. \A f \in Files : /\ Numbered(f, Len(content[f]))' = Numbered(f, Len(content[f]))
                        /\ Numbered(f, stored[f])' = Numbered(f, stored[f])
    BY <1>0 DEF Numbered
  <2>2. stored' = stored /\ content' = content /\ chunks' = chunks
    BY <1>0
  <2>3. published \subseteq published' /\ abandoned \subseteq abandoned'
    BY <1>0
  <2> QED
    BY <2>1, <2>2, <2>3 DEF IInv, Sent
<1>6. Complete'
  <2>0. Visible' \subseteq published'
    BY <1>0, NamesAssumption DEF IInv, Complete, Visible, TypeOK
  <2> SUFFICES ASSUME NEW f \in Visible'
               PROVE  /\ num'[f] = Len(content'[f])
                      /\ chunks'[f] = Numbered(f, Len(content[f]))'
    BY <2>0 DEF Complete, VisibleComplete
  <2>1. CASE f = on[c]
    <3>1. num'[f] = stored[f] /\ chunks'[f] = chunks[f] /\ content'[f] = content[f]
      BY <1>0, <2>1 DEF IInv, TypeOK, Visible
    <3>2. f \in Files /\ f \notin published /\ f \notin abandoned
      BY <1>0, <2>1 DEF IInv, Owned, Holds, TypeOK, Visible
    <3>3. chunks[f] = Numbered(f, stored[f])
      BY <3>2 DEF IInv, Sent
    <3>4. Numbered(f, Len(content[f]))' = Numbered(f, Len(content[f]))
      BY <3>1 DEF Numbered
    <3> QED
      BY <1>0, <2>1, <3>1, <3>3, <3>4
  <2>2. CASE f # on[c]
    <3>1. f \in Visible /\ num'[f] = num[f] /\ content'[f] = content[f] /\ chunks'[f] = chunks[f]
      BY <1>0, <2>2 DEF IInv, TypeOK, Visible
    <3>2. Numbered(f, Len(content[f]))' = Numbered(f, Len(content[f]))
      BY <3>1 DEF Numbered
    <3> QED
      BY <3>1, <3>2 DEF IInv, Complete, VisibleComplete
  <2> QED
    BY <2>1, <2>2
<1>7. Removing'
  BY <1>0, NamesAssumption DEF IInv, Removing, Complete, Visible, Owned, Holds, Quiet,
     TypeOK, Files, None, Uploads
<1>8. BoxKnown'
  BY <1>0 DEF IInv, BoxKnown, Complete, VisibleComplete, Visible, Owned, Holds, Fresh,
     TypeOK, Files, None, Uploads
<1>9. Reading'
  BY <1>0 DEF IInv, Reading, BoxKnown, IsBeginning, Owned, Holds, Fresh, TypeOK, Files,
     None, Uploads
<1>10. LocalFileIsPrefix'
  BY <1>0 DEF IInv, LocalFileIsPrefix, Reading, BoxKnown, IsBeginning, Owned, Holds, Fresh,
     TypeOK, Files, None, Uploads
<1>11. OrphansExplained'
  <2> SUFFICES ASSUME NEW f \in Files \ Visible', chunks'[f] # {}, f \notin abandoned'
               PROVE  InProgress(f)'
    BY DEF OrphansExplained
  <2>1. CASE f = on[c]
    BY <1>0, <2>1
  <2>2. CASE f # on[c]
    <3>1. f \in Files \ Visible /\ chunks[f] # {} /\ f \notin abandoned
      BY <1>0, <2>2, NamesAssumption DEF IInv, TypeOK, Visible, Files, None
    <3>2. PICK d \in Clients : \/ op[d] # "none" /\ (on[d] = f \/ f \in todo[d])
                               \/ builder[d] = f
      BY <3>1 DEF IInv, OrphansExplained, InProgress
    <3>3. CASE d # c
      <4>1. op'[d] = op[d] /\ on'[d] = on[d] /\ todo'[d] = todo[d] /\ builder'[d] = builder[d]
        BY <1>0, <3>3 DEF IInv, TypeOK
      <4> QED
        BY <3>2, <4>1 DEF InProgress
    <3>4. CASE d = c
      <4>1. builder[c] = f
        BY <1>0, <2>2, <3>2, <3>4 DEF IInv, Quiet, Uploads
      <4>2. op[c] = "store"
        BY <1>0, <2>2, <4>1 DEF IInv, Owned, Uploads
      <4>3. builder'[c] = f
        BY <1>0, <4>1, <4>2 DEF IInv, TypeOK
      <4> QED
        BY <3>4, <4>3 DEF InProgress
    <3> QED
      BY <3>3, <3>4
  <2> QED
    BY <2>1, <2>2
<1>12. UploadStep
  <2>1. on[c] \in Files /\ name[c] # None
    BY <1>0, NamesAssumption DEF IInv, Owned, TypeOK
  <2>2. on[c] \in Visible' /\ Visible \subseteq Visible'
    BY <1>0, <2>1 DEF IInv, TypeOK, Visible
  <2>3. ASSUME NEW d \in Clients, op[d] \in {"store", "build"}, result'[d] = "done"
        PROVE  d = c
    BY <1>0, <2>3 DEF IInv, Quiet, TypeOK
  <2> QED
    BY <2>2, <2>3 DEF UploadStep
<1>13. RemoveStep
  <2>1. \A d \in Clients : ~(op[d] = "remove" /\ result'[d] = "done")
    BY <1>0 DEF IInv, Quiet, TypeOK, Uploads
  <2> QED
    BY <2>1 DEF RemoveStep
<1>14. StoreStep
  <2>1. on[c] \in Files /\ on[c] \notin published
    BY <1>0 DEF IInv, Owned, Holds, TypeOK, Uploads
  <2>2. TextOf[on[c]] = {} /\ TextOf' = [TextOf EXCEPT ![on[c]] = {content[on[c]]}]
    BY <1>0, <2>1 DEF TextOf
  <2>3. Visible' = Visible \cup {on[c]}
    BY <1>0, <2>1, NamesAssumption DEF IInv, TypeOK, Visible
  <2>4. GivenTo' = GivenTo
    BY <1>0, GivenSame DEF IInv, TypeOK
  <2>5. content[on[c]] \in Contents
    BY <2>1 DEF IInv, TypeOK
  <2> QED
    BY <1>0, <2>1, <2>2, <2>3, <2>4, <2>5 DEF StoreStep
<1> QED
  BY <1>1, <1>2, <1>3, <1>4, <1>5, <1>6, <1>7, <1>8, <1>9, <1>10, <1>11, <1>12, <1>13,
     <1>14 DEF IInv, StepInv

LEMMA EntryLost ==
  ASSUME IInv, NEW c \in Clients,
         InsertEntry(c), Breaks, UNCHANGED <<entry, num, published>>
  PROVE  StepInv
<1>0. /\ op[c] \in {"store", "build"}
      /\ stored[on[c]] = Len(content[on[c]])
      /\ op' = [op EXCEPT ![c] = "none"]
      /\ on' = [on EXCEPT ![c] = None]
      /\ todo' = [todo EXCEPT ![c] = {}]
      /\ found' = [found EXCEPT ![c] = {}]
      /\ result' = [result EXCEPT ![c] = "failed"]
      /\ faults' \in 0 .. MaxFaults
      /\ builder' = [builder EXCEPT ![c] = IF op[c] = "store" THEN builder[c] ELSE None]
      /\ abandoned' = abandoned \cup {on[c]}
      /\ UNCHANGED <<entry, num, chunks, published, made, content, stored, box, size, out,
                    name>>
  BY Fault DEF InsertEntry, UploadFails, Ends, serverVars, uploadVars, givenVars,
     removeVars, readVars
<1>1. Complete' /\ BoxKnown' /\ LocalFileIsPrefix'
  BY <1>0 DEF IInv, Complete, VisibleComplete, Visible, Numbered, BoxKnown,
     LocalFileIsPrefix, IsBeginning
<1>2. TypeOK'
  <2>0. TypeOK
    BY DEF IInv
  <2>1. (op \in [Clients -> {"none", "store", "append", "build", "remove", "write",
    "data"}])'
    BY <1>0, <2>0, BoundsAssumption DEF TypeOK, Files, None, Uploads, Visible
  <2>2. (on \in [Clients -> Files \cup {None}])'
    BY <1>0, <2>0, BoundsAssumption DEF TypeOK, Files, None, Uploads, Visible
  <2>3. (todo \in [Clients -> SUBSET Files])'
    BY <1>0, <2>0, BoundsAssumption DEF TypeOK, Files, None, Uploads, Visible
  <2>4. (builder \in [Clients -> Files \cup {None}])'
    BY <1>0, <2>0, BoundsAssumption DEF TypeOK, Files, None, Uploads, Visible
  <2>5. (result \in [Clients -> {"none", "done", "given", "failed"}])'
    BY <1>0, <2>0, BoundsAssumption DEF TypeOK, Files, None, Uploads, Visible
  <2>6. (faults \in 0 .. MaxFaults)'
    BY <1>0, <2>0, BoundsAssumption DEF TypeOK, Files, None, Uploads, Visible
  <2>7. (abandoned \subseteq Files)'
    <3>1. on[c] \in Files
      BY <1>0 DEF IInv, TypeOK, Owned, Uploads
    <3> QED
      BY <1>0, <2>0, <3>1, ContentForms, BoundsAssumption DEF TypeOK, Files
  <2>8. (found \in [Clients -> SUBSET Files])'
    BY <1>0, <2>0, BoundsAssumption DEF TypeOK, Files, None, Uploads, Visible
  <2> QED
    BY <1>0, <2>0, <2>1, <2>2, <2>3, <2>4, <2>5, <2>6, <2>7, <2>8 DEF TypeOK
<1>3. Fresh'
  BY <1>0 DEF IInv, Fresh, Owned, Holds, Removing, Complete, TypeOK, Files, None, Uploads
<1>4. Quiet'
  BY <1>0 DEF IInv, Quiet, TypeOK, Uploads, None
<1>5. Owned'
  <2>1. on'[c] = None /\ op'[c] = "none"
    BY <1>0 DEF IInv, TypeOK
  <2>2. \A d \in Clients : d # c => Holds(d)' = Holds(d)
    BY <1>0 DEF IInv, TypeOK, Holds
  <2>3. Holds(c)' \subseteq Holds(c) /\ on[c] \in Holds(c) /\ on[c] \notin Holds(c)'
    BY <1>0 DEF IInv, TypeOK, Holds, Owned, Uploads, Files, None
  <2>4. \A d \in Clients : d # c => on[c] \notin Holds(d)
    BY <2>3 DEF IInv, Owned
  <2>5. \A d \in Clients : on[c] \notin Holds(d)' /\ Holds(d)' \subseteq Holds(d)
    BY <2>2, <2>3, <2>4
  <2>6. \A d \in Clients : \A f \in Holds(d)' : f <= made' /\ f \notin published' /\ f \notin abandoned'
    BY <1>0, <2>5 DEF IInv, Owned
  <2>7. \A d, e \in Clients : d # e => Holds(d)' \cap Holds(e)' = {}
    BY <2>5 DEF IInv, Owned
  <2>8. ASSUME NEW d \in Clients
        PROVE  /\ op'[d] = "store" => on'[d] # None /\ on'[d] # builder'[d]
               /\ op'[d] \in {"append", "build"} => on'[d] # None /\ on'[d] = builder'[d]
    BY <1>0, <2>1 DEF IInv, Owned, TypeOK
  <2> QED
    BY <2>6, <2>7, <2>8 DEF Owned
<1>6. Sent'
  <2>1. \A f \in Files : /\ Numbered(f, Len(content[f]))' = Numbered(f, Len(content[f]))
                        /\ Numbered(f, stored[f])' = Numbered(f, stored[f])
    BY <1>0 DEF Numbered
  <2>2. stored' = stored /\ content' = content /\ chunks' = chunks
    BY <1>0
  <2>3. published \subseteq published' /\ abandoned \subseteq abandoned'
    BY <1>0
  <2> QED
    BY <2>1, <2>2, <2>3 DEF IInv, Sent
<1>7. Removing'
  BY <1>0, NamesAssumption DEF IInv, Removing, Complete, Visible, Owned, Holds, Quiet,
     TypeOK, Files, None, Uploads
<1>8. Reading'
  BY <1>0 DEF IInv, Reading, BoxKnown, IsBeginning, Owned, Holds, Fresh, TypeOK, Files,
     None, Uploads
<1>9. OrphansExplained'
  <2> SUFFICES ASSUME NEW f \in Files \ Visible', chunks'[f] # {}, f \notin abandoned'
               PROVE  InProgress(f)'
    BY DEF OrphansExplained
  <2>1. CASE f = on[c]
    BY <1>0, <2>1 DEF IInv, InProgress, Owned, Quiet, Removing, TypeOK, Files, None,
       Uploads, Visible
  <2>2. CASE f # on[c]
    <3>1. f \in Files \ Visible /\ chunks[f] # {} /\ f \notin abandoned
      BY <1>0, <2>2, NamesAssumption DEF IInv, TypeOK, Visible, Files, None
    <3>2. PICK d \in Clients : \/ op[d] # "none" /\ (on[d] = f \/ f \in todo[d])
                               \/ builder[d] = f
      BY <3>1 DEF IInv, OrphansExplained, InProgress
    <3>3. CASE d # c
      <4>1. op'[d] = op[d] /\ on'[d] = on[d] /\ todo'[d] = todo[d] /\ builder'[d] = builder[d]
        BY <1>0, <3>3 DEF IInv, TypeOK
      <4> QED
        BY <3>2, <4>1 DEF InProgress
    <3>4. CASE d = c
      <4>1. builder[c] = f
        BY <1>0, <2>2, <3>2, <3>4 DEF IInv, Quiet, Uploads
      <4>2. op[c] = "store"
        BY <1>0, <2>2, <4>1 DEF IInv, Owned, Uploads
      <4>3. builder'[c] = f
        BY <1>0, <4>1, <4>2 DEF IInv, TypeOK
      <4> QED
        BY <3>4, <4>3 DEF InProgress
    <3> QED
      BY <3>3, <3>4
  <2> QED
    BY <2>1, <2>2
<1>10. UploadStep
  <2>1. Visible' = Visible
    BY <1>0 DEF Visible
  <2>2. \A d \in Clients : ~(op[d] \in {"store", "build"} /\ result'[d] = "done")
    BY <1>0 DEF IInv, Quiet, TypeOK, Uploads
  <2> QED
    BY <2>1, <2>2 DEF UploadStep
<1>11. RemoveStep
  <2>1. \A d \in Clients : ~(op[d] = "remove" /\ result'[d] = "done")
    BY <1>0 DEF IInv, Quiet, TypeOK, Uploads
  <2> QED
    BY <2>1 DEF RemoveStep
<1>12. StoreStep
  <2>1. TextOf' = TextOf
    BY <1>0 DEF TextOf
  <2>2. Visible' = Visible
    BY <1>0 DEF Visible
  <2>3. GivenTo' = GivenTo
    <3>1. op[c] # "none" /\ result[c] = "none"
      BY <1>0 DEF IInv, Quiet, Uploads
    <3> QED
      BY <1>0, <3>1, GivenSame DEF IInv, TypeOK
  <2> QED
    BY <1>0, <2>1, <2>2, <2>3 DEF StoreStep
<1> QED
  BY <1>1, <1>2, <1>3, <1>4, <1>5, <1>6, <1>7, <1>8, <1>9, <1>10, <1>11, <1>12 DEF IInv,
     StepInv

LEMMA Asking ==
  ASSUME IInv, NEW c \in Clients,
         NEW nm \in Names, RemoveFile(c, nm)
  PROVE  StepInv
<1>0. /\ op[c] = "none"
      /\ op' = [op EXCEPT ![c] = "remove"]
      /\ result' = [result EXCEPT ![c] = "none"]
      /\ name' = [name EXCEPT ![c] = nm]
      /\ on' = [on EXCEPT ![c] = None]
      /\ todo' = [todo EXCEPT ![c] = {f \in Visible : entry[f] = nm}]
      /\ found' = [found EXCEPT ![c] = {f \in Visible : entry[f] = nm}]
      /\ UNCHANGED <<entry, num, chunks, published, made, content, stored, builder,
                    abandoned, box, size, out, faults>>
  BY DEF RemoveFile, Begins, serverVars, uploadVars, givenVars, removeVars, readVars
<1>1. Fresh' /\ Sent' /\ Complete'
  BY <1>0 DEF IInv, Fresh, Sent, Numbered, Complete, VisibleComplete, Visible
<1>2. BoxKnown' /\ LocalFileIsPrefix'
  BY <1>0 DEF IInv, BoxKnown, LocalFileIsPrefix, IsBeginning
<1>3. TypeOK'
  <2>0. TypeOK
    BY DEF IInv
  <2>1. (op \in [Clients -> {"none", "store", "append", "build", "remove", "write",
    "data"}])'
    BY <1>0, <2>0, BoundsAssumption DEF TypeOK, Files, None, Uploads, Visible
  <2>2. (on \in [Clients -> Files \cup {None}])'
    BY <1>0, <2>0, BoundsAssumption DEF TypeOK, Files, None, Uploads, Visible
  <2>3. (name \in [Clients -> Names])'
    BY <1>0, <2>0, BoundsAssumption DEF TypeOK, Files, None, Uploads, Visible
  <2>4. (todo \in [Clients -> SUBSET Files])'
    BY <1>0, <2>0, BoundsAssumption DEF TypeOK, Files, None, Uploads, Visible
  <2>5. (result \in [Clients -> {"none", "done", "given", "failed"}])'
    BY <1>0, <2>0, BoundsAssumption DEF TypeOK, Files, None, Uploads, Visible
  <2>6. (found \in [Clients -> SUBSET Files])'
    BY <1>0, <2>0, BoundsAssumption DEF TypeOK, Files, None, Uploads, Visible
  <2> QED
    BY <1>0, <2>0, <2>1, <2>2, <2>3, <2>4, <2>5, <2>6 DEF TypeOK
<1>4. Quiet'
  BY <1>0 DEF IInv, Quiet, TypeOK, Uploads, None
<1>5. Owned'
  BY <1>0 DEF IInv, Owned, Holds, Fresh, Quiet, Removing, TypeOK, Files, None, Uploads
<1>6. Removing'
  BY <1>0, NamesAssumption DEF IInv, Removing, Complete, Visible, Owned, Holds, Quiet,
     TypeOK, Files, None, Uploads
<1>7. Reading'
  BY <1>0 DEF IInv, Reading, BoxKnown, IsBeginning, Owned, Holds, Fresh, TypeOK, Files,
     None, Uploads
<1>8. OrphansExplained'
  BY <1>0, NamesAssumption DEF IInv, OrphansExplained, InProgress, Visible, Complete, Sent,
     Numbered, Owned, Holds, Fresh, Quiet, Removing, TypeOK, Files, None, Uploads
<1>9. UploadStep
  <2>1. Visible' = Visible
    BY <1>0 DEF Visible
  <2>2. \A d \in Clients : ~(op[d] \in {"store", "build"} /\ result'[d] = "done")
    BY <1>0 DEF IInv, Quiet, TypeOK, Uploads
  <2> QED
    BY <2>1, <2>2 DEF UploadStep
<1>10. RemoveStep
  <2>1. \A d \in Clients : ~(op[d] = "remove" /\ result'[d] = "done")
    BY <1>0 DEF IInv, Quiet, TypeOK, Uploads
  <2> QED
    BY <2>1 DEF RemoveStep
<1>11. StoreStep
  <2>1. TextOf' = TextOf
    BY <1>0 DEF TextOf
  <2>2. Visible' = Visible
    BY <1>0 DEF Visible
  <2>3. GivenTo' = [GivenTo EXCEPT ![c] = {}]
    BY <1>0, GivenForget DEF IInv, TypeOK
  <2> QED
    BY <1>0, <2>1, <2>2, <2>3 DEF StoreStep
<1> QED
  BY <1>1, <1>2, <1>3, <1>4, <1>5, <1>6, <1>7, <1>8, <1>9, <1>10, <1>11 DEF IInv, StepInv

LEMMA EntryTaken ==
  ASSUME IInv, NEW c \in Clients,
         NEW g \in Files, RemoveEntry(c, g), ~Breaks
  PROVE  StepInv
<1>0. /\ op[c] = "remove"
      /\ on[c] = None
      /\ g \in todo[c]
      /\ entry' = [entry EXCEPT ![g] = None]
      /\ num' = [num EXCEPT ![g] = 0]
      /\ on' = [on EXCEPT ![c] = g]
      /\ UNCHANGED <<chunks, published, made, content, stored, builder, abandoned, todo,
                    found, box, size, out, op, name, result, faults>>
  BY DEF RemoveEntry, TakeEntry, RemoveFails, Answered, GoesOn, serverVars, uploadVars,
     givenVars, removeVars, readVars
<1>1. Fresh' /\ Sent' /\ BoxKnown'
  BY <1>0 DEF IInv, Fresh, Sent, Numbered, BoxKnown
<1>2. Reading' /\ LocalFileIsPrefix'
  BY <1>0 DEF IInv, Reading, IsBeginning, LocalFileIsPrefix
<1>3. TypeOK'
  <2>0. TypeOK
    BY DEF IInv
  <2>1. (entry \in [Files -> Names \cup {None}])'
    BY <1>0, <2>0, BoundsAssumption DEF TypeOK, Files, None, Uploads, Visible
  <2>2. (num \in [Files -> 0 .. MaxChunks])'
    BY <1>0, <2>0, BoundsAssumption DEF TypeOK, Files, None, Uploads, Visible
  <2>3. (on \in [Clients -> Files \cup {None}])'
    BY <1>0, <2>0, BoundsAssumption DEF TypeOK, Files, None, Uploads, Visible
  <2> QED
    BY <1>0, <2>0, <2>1, <2>2, <2>3 DEF TypeOK
<1>4. Quiet'
  BY <1>0 DEF IInv, Quiet, TypeOK, Uploads, None
<1>5. Owned'
  BY <1>0 DEF IInv, Owned, Holds, Fresh, Quiet, Removing, TypeOK, Files, None, Uploads
<1>6. Complete'
  <2>1. Visible' \subseteq Visible \ {g}
    BY <1>0 DEF IInv, TypeOK, Visible
  <2> SUFFICES ASSUME NEW f \in Visible'
               PROVE  /\ f \in published'
                      /\ num'[f] = Len(content'[f])
                      /\ chunks'[f] = Numbered(f, Len(content[f]))'
    BY DEF Complete, VisibleComplete
  <2>2. f \in Visible /\ num'[f] = num[f]
    BY <1>0, <2>1 DEF IInv, TypeOK, Visible
  <2>3. Numbered(f, Len(content[f]))' = Numbered(f, Len(content[f]))
    BY <1>0 DEF Numbered
  <2> QED
    BY <1>0, <2>2, <2>3 DEF IInv, Complete, VisibleComplete
<1>7. Removing'
  BY <1>0, NamesAssumption DEF IInv, Removing, Complete, Visible, Owned, Holds, Quiet,
     TypeOK, Files, None, Uploads
<1>8. OrphansExplained'
  <2> SUFFICES ASSUME NEW f \in Files \ Visible', chunks'[f] # {}, f \notin abandoned'
               PROVE  InProgress(f)'
    BY DEF OrphansExplained
  <2>1. CASE f = g
    BY <1>0, <2>1 DEF IInv, InProgress, Owned, Quiet, TypeOK, Files, None, Uploads
  <2>2. CASE f # g
    <3>1. f \in Files \ Visible /\ chunks[f] # {} /\ f \notin abandoned
      BY <1>0, <2>2, NamesAssumption DEF IInv, TypeOK, Visible, Files, None
    <3>2. PICK d \in Clients : \/ op[d] # "none" /\ (on[d] = f \/ f \in todo[d])
                               \/ builder[d] = f
      BY <3>1 DEF IInv, OrphansExplained, InProgress
    <3>3. CASE d # c
      <4>1. op'[d] = op[d] /\ on'[d] = on[d] /\ todo'[d] = todo[d] /\ builder'[d] = builder[d]
        BY <1>0, <3>3 DEF IInv, TypeOK
      <4> QED
        BY <3>2, <4>1 DEF InProgress
    <3>4. CASE d = c
      BY <1>0, <2>2, <3>1, <3>2, <3>4, NamesAssumption DEF IInv, InProgress, Visible,
         Owned, Quiet, TypeOK, Files, None, Uploads
    <3> QED
      BY <3>3, <3>4
  <2> QED
    BY <2>1, <2>2
<1>9. UploadStep
  <2>1. Visible \ Visible' \subseteq {g}
    BY <1>0 DEF IInv, TypeOK, Visible
  <2>2. g \in found[c]
    BY <1>0 DEF IInv, Removing
  <2>3. \A d \in Clients : ~(op[d] \in {"store", "build"} /\ result'[d] = "done")
    BY <1>0 DEF IInv, Quiet, TypeOK
  <2> QED
    BY <2>1, <2>2, <2>3 DEF UploadStep
<1>10. RemoveStep
  <2>1. \A d \in Clients : ~(op[d] = "remove" /\ result'[d] = "done")
    BY <1>0 DEF IInv, Quiet, TypeOK, Uploads
  <2> QED
    BY <2>1 DEF RemoveStep
<1>11. StoreStep
  <2>1. TextOf' = TextOf
    BY <1>0 DEF TextOf
  <2>2. Visible' = Visible \ {g}
    BY <1>0 DEF IInv, TypeOK, Visible
  <2>3. GivenTo' = GivenTo
    <3>1. op[c] # "none" /\ result[c] = "none"
      BY <1>0 DEF IInv, Quiet, Uploads
    <3> QED
      BY <1>0, <3>1, GivenSame DEF IInv, TypeOK
  <2> QED
    BY <1>0, <2>1, <2>2, <2>3 DEF StoreStep
<1> QED
  BY <1>1, <1>2, <1>3, <1>4, <1>5, <1>6, <1>7, <1>8, <1>9, <1>10, <1>11 DEF IInv, StepInv

LEMMA TakingBreaks ==
  ASSUME IInv, NEW c \in Clients,
         NEW g \in Files, RemoveEntry(c, g), Breaks, TakeEntry(g)
  PROVE  StepInv
<1>0. /\ op[c] = "remove"
      /\ on[c] = None
      /\ g \in todo[c]
      /\ entry' = [entry EXCEPT ![g] = None]
      /\ num' = [num EXCEPT ![g] = 0]
      /\ op' = [op EXCEPT ![c] = "none"]
      /\ on' = [on EXCEPT ![c] = None]
      /\ todo' = [todo EXCEPT ![c] = {}]
      /\ found' = [found EXCEPT ![c] = {}]
      /\ result' = [result EXCEPT ![c] = "failed"]
      /\ faults' \in 0 .. MaxFaults
      /\ abandoned' = abandoned \cup todo[c]
      /\ UNCHANGED <<chunks, published, made, content, stored, builder, box, size, out,
                    name>>
  BY Fault DEF RemoveEntry, TakeEntry, RemoveFails, Ends, serverVars, uploadVars,
     givenVars, removeVars, readVars
<1>1. BoxKnown' /\ LocalFileIsPrefix'
  BY <1>0 DEF IInv, BoxKnown, LocalFileIsPrefix, IsBeginning
<1>2. TypeOK'
  <2>0. TypeOK
    BY DEF IInv
  <2>1. (entry \in [Files -> Names \cup {None}])'
    BY <1>0, <2>0, BoundsAssumption DEF TypeOK, Files, None, Uploads, Visible
  <2>2. (num \in [Files -> 0 .. MaxChunks])'
    BY <1>0, <2>0, BoundsAssumption DEF TypeOK, Files, None, Uploads, Visible
  <2>3. (op \in [Clients -> {"none", "store", "append", "build", "remove", "write",
    "data"}])'
    BY <1>0, <2>0, BoundsAssumption DEF TypeOK, Files, None, Uploads, Visible
  <2>4. (on \in [Clients -> Files \cup {None}])'
    BY <1>0, <2>0, BoundsAssumption DEF TypeOK, Files, None, Uploads, Visible
  <2>5. (todo \in [Clients -> SUBSET Files])'
    BY <1>0, <2>0, BoundsAssumption DEF TypeOK, Files, None, Uploads, Visible
  <2>6. (result \in [Clients -> {"none", "done", "given", "failed"}])'
    BY <1>0, <2>0, BoundsAssumption DEF TypeOK, Files, None, Uploads, Visible
  <2>7. (faults \in 0 .. MaxFaults)'
    BY <1>0, <2>0, BoundsAssumption DEF TypeOK, Files, None, Uploads, Visible
  <2>8. (abandoned \subseteq Files)'
    BY <1>0, <2>0, BoundsAssumption DEF TypeOK, Files, None, Uploads, Visible
  <2>9. (found \in [Clients -> SUBSET Files])'
    BY <1>0, <2>0, BoundsAssumption DEF TypeOK, Files, None, Uploads, Visible
  <2> QED
    BY <1>0, <2>0, <2>1, <2>2, <2>3, <2>4, <2>5, <2>6, <2>7, <2>8, <2>9 DEF TypeOK
<1>3. Fresh'
  BY <1>0 DEF IInv, Fresh, Owned, Holds, Removing, Complete, TypeOK, Files, None, Uploads
<1>4. Quiet'
  BY <1>0 DEF IInv, Quiet, TypeOK, Uploads, None
<1>5. Owned'
  BY <1>0 DEF IInv, Owned, Holds, Fresh, Quiet, Removing, TypeOK, Files, None, Uploads
<1>6. Sent'
  <2>1. \A f \in Files : /\ Numbered(f, Len(content[f]))' = Numbered(f, Len(content[f]))
                        /\ Numbered(f, stored[f])' = Numbered(f, stored[f])
    BY <1>0 DEF Numbered
  <2>2. stored' = stored /\ content' = content /\ chunks' = chunks
    BY <1>0
  <2>3. published \subseteq published' /\ abandoned \subseteq abandoned'
    BY <1>0
  <2> QED
    BY <2>1, <2>2, <2>3 DEF IInv, Sent
<1>7. Complete'
  <2>1. Visible' \subseteq Visible \ {g}
    BY <1>0 DEF IInv, TypeOK, Visible
  <2> SUFFICES ASSUME NEW f \in Visible'
               PROVE  /\ f \in published'
                      /\ num'[f] = Len(content'[f])
                      /\ chunks'[f] = Numbered(f, Len(content[f]))'
    BY DEF Complete, VisibleComplete
  <2>2. f \in Visible /\ num'[f] = num[f]
    BY <1>0, <2>1 DEF IInv, TypeOK, Visible
  <2>3. Numbered(f, Len(content[f]))' = Numbered(f, Len(content[f]))
    BY <1>0 DEF Numbered
  <2> QED
    BY <1>0, <2>2, <2>3 DEF IInv, Complete, VisibleComplete
<1>8. Removing'
  BY <1>0, NamesAssumption DEF IInv, Removing, Complete, Visible, Owned, Holds, Quiet,
     TypeOK, Files, None, Uploads
<1>9. Reading'
  BY <1>0 DEF IInv, Reading, BoxKnown, IsBeginning, Owned, Holds, Fresh, TypeOK, Files,
     None, Uploads
<1>10. OrphansExplained'
  <2> SUFFICES ASSUME NEW f \in Files \ Visible', chunks'[f] # {}, f \notin abandoned'
               PROVE  InProgress(f)'
    BY DEF OrphansExplained
  <2>1. CASE f = g
    BY <1>0, <2>1 DEF IInv, InProgress, Owned, Quiet, TypeOK, Files, None, Uploads
  <2>2. CASE f # g
    <3>1. f \in Files \ Visible /\ chunks[f] # {} /\ f \notin abandoned
      BY <1>0, <2>2, NamesAssumption DEF IInv, TypeOK, Visible, Files, None
    <3>2. PICK d \in Clients : \/ op[d] # "none" /\ (on[d] = f \/ f \in todo[d])
                               \/ builder[d] = f
      BY <3>1 DEF IInv, OrphansExplained, InProgress
    <3>3. CASE d # c
      <4>1. op'[d] = op[d] /\ on'[d] = on[d] /\ todo'[d] = todo[d] /\ builder'[d] = builder[d]
        BY <1>0, <3>3 DEF IInv, TypeOK
      <4> QED
        BY <3>2, <4>1 DEF InProgress
    <3>4. CASE d = c
      BY <1>0, <2>2, <3>1, <3>2, <3>4, NamesAssumption DEF IInv, InProgress, Visible,
         Owned, Quiet, TypeOK, Files, None, Uploads
    <3> QED
      BY <3>3, <3>4
  <2> QED
    BY <2>1, <2>2
<1>11. UploadStep
  <2>1. Visible \ Visible' \subseteq {g}
    BY <1>0 DEF IInv, TypeOK, Visible
  <2>2. g \in found[c]
    BY <1>0 DEF IInv, Removing
  <2>3. \A d \in Clients : ~(op[d] \in {"store", "build"} /\ result'[d] = "done")
    BY <1>0 DEF IInv, Quiet, TypeOK
  <2> QED
    BY <2>1, <2>2, <2>3 DEF UploadStep
<1>12. RemoveStep
  <2>1. \A d \in Clients : ~(op[d] = "remove" /\ result'[d] = "done")
    BY <1>0 DEF IInv, Quiet, TypeOK, Uploads
  <2> QED
    BY <2>1 DEF RemoveStep
<1>13. StoreStep
  <2>1. TextOf' = TextOf
    BY <1>0 DEF TextOf
  <2>2. Visible' = Visible \ {g}
    BY <1>0 DEF IInv, TypeOK, Visible
  <2>3. GivenTo' = GivenTo
    <3>1. op[c] # "none" /\ result[c] = "none"
      BY <1>0 DEF IInv, Quiet, Uploads
    <3> QED
      BY <1>0, <3>1, GivenSame DEF IInv, TypeOK
  <2> QED
    BY <1>0, <2>1, <2>2, <2>3 DEF StoreStep
<1> QED
  BY <1>1, <1>2, <1>3, <1>4, <1>5, <1>6, <1>7, <1>8, <1>9, <1>10, <1>11, <1>12,
     <1>13 DEF IInv, StepInv

LEMMA TakingLost ==
  ASSUME IInv, NEW c \in Clients,
         NEW g \in Files, RemoveEntry(c, g), Breaks, UNCHANGED <<entry, num>>
  PROVE  StepInv
<1>0. /\ op[c] = "remove"
      /\ on[c] = None
      /\ g \in todo[c]
      /\ op' = [op EXCEPT ![c] = "none"]
      /\ on' = [on EXCEPT ![c] = None]
      /\ todo' = [todo EXCEPT ![c] = {}]
      /\ found' = [found EXCEPT ![c] = {}]
      /\ result' = [result EXCEPT ![c] = "failed"]
      /\ faults' \in 0 .. MaxFaults
      /\ abandoned' = abandoned \cup todo[c]
      /\ UNCHANGED <<entry, num, chunks, published, made, content, stored, builder, box,
                    size, out, name>>
  BY Fault DEF RemoveEntry, RemoveFails, Ends, serverVars, uploadVars, givenVars,
     removeVars, readVars
<1>1. Complete' /\ BoxKnown' /\ LocalFileIsPrefix'
  BY <1>0 DEF IInv, Complete, VisibleComplete, Visible, Numbered, BoxKnown,
     LocalFileIsPrefix, IsBeginning
<1>2. TypeOK'
  <2>0. TypeOK
    BY DEF IInv
  <2>1. (op \in [Clients -> {"none", "store", "append", "build", "remove", "write",
    "data"}])'
    BY <1>0, <2>0, BoundsAssumption DEF TypeOK, Files, None, Uploads, Visible
  <2>2. (on \in [Clients -> Files \cup {None}])'
    BY <1>0, <2>0, BoundsAssumption DEF TypeOK, Files, None, Uploads, Visible
  <2>3. (todo \in [Clients -> SUBSET Files])'
    BY <1>0, <2>0, BoundsAssumption DEF TypeOK, Files, None, Uploads, Visible
  <2>4. (result \in [Clients -> {"none", "done", "given", "failed"}])'
    BY <1>0, <2>0, BoundsAssumption DEF TypeOK, Files, None, Uploads, Visible
  <2>5. (faults \in 0 .. MaxFaults)'
    BY <1>0, <2>0, BoundsAssumption DEF TypeOK, Files, None, Uploads, Visible
  <2>6. (abandoned \subseteq Files)'
    BY <1>0, <2>0, BoundsAssumption DEF TypeOK, Files, None, Uploads, Visible
  <2>7. (found \in [Clients -> SUBSET Files])'
    BY <1>0, <2>0, BoundsAssumption DEF TypeOK, Files, None, Uploads, Visible
  <2> QED
    BY <1>0, <2>0, <2>1, <2>2, <2>3, <2>4, <2>5, <2>6, <2>7 DEF TypeOK
<1>3. Fresh'
  BY <1>0 DEF IInv, Fresh, Owned, Holds, Removing, Complete, TypeOK, Files, None, Uploads
<1>4. Quiet'
  BY <1>0 DEF IInv, Quiet, TypeOK, Uploads, None
<1>5. Owned'
  BY <1>0 DEF IInv, Owned, Holds, Fresh, Quiet, Removing, TypeOK, Files, None, Uploads
<1>6. Sent'
  <2>1. \A f \in Files : /\ Numbered(f, Len(content[f]))' = Numbered(f, Len(content[f]))
                        /\ Numbered(f, stored[f])' = Numbered(f, stored[f])
    BY <1>0 DEF Numbered
  <2>2. stored' = stored /\ content' = content /\ chunks' = chunks
    BY <1>0
  <2>3. published \subseteq published' /\ abandoned \subseteq abandoned'
    BY <1>0
  <2> QED
    BY <2>1, <2>2, <2>3 DEF IInv, Sent
<1>7. Removing'
  BY <1>0, NamesAssumption DEF IInv, Removing, Complete, Visible, Owned, Holds, Quiet,
     TypeOK, Files, None, Uploads
<1>8. Reading'
  BY <1>0 DEF IInv, Reading, BoxKnown, IsBeginning, Owned, Holds, Fresh, TypeOK, Files,
     None, Uploads
<1>9. OrphansExplained'
  <2> SUFFICES ASSUME NEW f \in Files \ Visible', chunks'[f] # {}, f \notin abandoned'
               PROVE  InProgress(f)'
    BY DEF OrphansExplained
  <2>1. CASE f = g
    BY <1>0, <2>1 DEF IInv, InProgress, Owned, Quiet, TypeOK, Files, None, Uploads
  <2>2. CASE f # g
    <3>1. f \in Files \ Visible /\ chunks[f] # {} /\ f \notin abandoned
      BY <1>0, <2>2, NamesAssumption DEF IInv, TypeOK, Visible, Files, None
    <3>2. PICK d \in Clients : \/ op[d] # "none" /\ (on[d] = f \/ f \in todo[d])
                               \/ builder[d] = f
      BY <3>1 DEF IInv, OrphansExplained, InProgress
    <3>3. CASE d # c
      <4>1. op'[d] = op[d] /\ on'[d] = on[d] /\ todo'[d] = todo[d] /\ builder'[d] = builder[d]
        BY <1>0, <3>3 DEF IInv, TypeOK
      <4> QED
        BY <3>2, <4>1 DEF InProgress
    <3>4. CASE d = c
      BY <1>0, <2>2, <3>1, <3>2, <3>4, NamesAssumption DEF IInv, InProgress, Visible,
         Owned, Quiet, TypeOK, Files, None, Uploads
    <3> QED
      BY <3>3, <3>4
  <2> QED
    BY <2>1, <2>2
<1>10. UploadStep
  <2>1. Visible' = Visible
    BY <1>0 DEF Visible
  <2>2. \A d \in Clients : ~(op[d] \in {"store", "build"} /\ result'[d] = "done")
    BY <1>0 DEF IInv, Quiet, TypeOK, Uploads
  <2> QED
    BY <2>1, <2>2 DEF UploadStep
<1>11. RemoveStep
  <2>1. \A d \in Clients : ~(op[d] = "remove" /\ result'[d] = "done")
    BY <1>0 DEF IInv, Quiet, TypeOK, Uploads
  <2> QED
    BY <2>1 DEF RemoveStep
<1>12. StoreStep
  <2>1. TextOf' = TextOf
    BY <1>0 DEF TextOf
  <2>2. Visible' = Visible
    BY <1>0 DEF Visible
  <2>3. GivenTo' = GivenTo
    <3>1. op[c] # "none" /\ result[c] = "none"
      BY <1>0 DEF IInv, Quiet, Uploads
    <3> QED
      BY <1>0, <3>1, GivenSame DEF IInv, TypeOK
  <2> QED
    BY <1>0, <2>1, <2>2, <2>3 DEF StoreStep
<1> QED
  BY <1>1, <1>2, <1>3, <1>4, <1>5, <1>6, <1>7, <1>8, <1>9, <1>10, <1>11, <1>12 DEF IInv,
     StepInv

LEMMA ChunksTaken ==
  ASSUME IInv, NEW c \in Clients,
         RemoveChunks(c), ~Breaks
  PROVE  StepInv
<1>0. /\ op[c] = "remove"
      /\ on[c] # None
      /\ chunks' = [chunks EXCEPT ![on[c]] = {}]
      /\ on' = [on EXCEPT ![c] = None]
      /\ todo' = [todo EXCEPT ![c] = todo[c] \ {on[c]}]
      /\ UNCHANGED <<entry, num, published, made, content, stored, builder, abandoned,
                    found, box, size, out, op, name, result, faults>>
  BY DEF RemoveChunks, RemoveFails, Answered, GoesOn, serverVars, uploadVars, givenVars,
     removeVars, readVars
<1>1. BoxKnown' /\ Reading' /\ LocalFileIsPrefix'
  BY <1>0 DEF IInv, BoxKnown, Reading, IsBeginning, LocalFileIsPrefix
<1>2. TypeOK'
  <2>0. TypeOK
    BY DEF IInv
  <2>1. (chunks \in [Files -> SUBSET ((0 .. MaxChunks) \X Pieces)])'
    BY <1>0, <2>0, BoundsAssumption DEF TypeOK, Files, None, Uploads, Visible
  <2>2. (on \in [Clients -> Files \cup {None}])'
    BY <1>0, <2>0, BoundsAssumption DEF TypeOK, Files, None, Uploads, Visible
  <2>3. (todo \in [Clients -> SUBSET Files])'
    BY <1>0, <2>0, BoundsAssumption DEF TypeOK, Files, None, Uploads, Visible
  <2> QED
    BY <1>0, <2>0, <2>1, <2>2, <2>3 DEF TypeOK
<1>3. Fresh'
  BY <1>0 DEF IInv, Fresh, Owned, Holds, Removing, Complete, TypeOK, Files, None, Uploads
<1>4. Quiet'
  BY <1>0 DEF IInv, Quiet, TypeOK, Uploads, None
<1>5. Owned'
  BY <1>0 DEF IInv, Owned, Holds, Fresh, Quiet, Removing, TypeOK, Files, None, Uploads
<1>6. Sent'
  <2> SUFFICES ASSUME NEW f \in Files
               PROVE  /\ stored'[f] <= Len(content'[f])
                      /\ chunks'[f] \subseteq Numbered(f, Len(content[f]))'
                      /\ f \notin published' /\ f \notin abandoned' =>
                           chunks'[f] = Numbered(f, stored[f])'
    BY DEF Sent
  <2>1. CASE f = on[c]
    <3>1. chunks'[f] = {} /\ f \in published'
      BY <1>0, <2>1 DEF IInv, TypeOK, Removing
    <3> QED
      BY <1>0, <3>1 DEF IInv, Sent
  <2>2. CASE f # on[c]
    <3>1. stored'[f] = stored[f] /\ content'[f] = content[f] /\ chunks'[f] = chunks[f]
      BY <1>0, <2>2 DEF IInv, TypeOK
    <3>2. Numbered(f, Len(content[f]))' = Numbered(f, Len(content[f]))
      BY <3>1 DEF Numbered
    <3>3. Numbered(f, stored[f])' = Numbered(f, stored[f])
      BY <3>1 DEF Numbered
    <3> QED
      BY <1>0, <3>1, <3>2, <3>3 DEF IInv, Sent
  <2> QED
    BY <2>1, <2>2
<1>7. Complete'
  BY <1>0, NamesAssumption DEF IInv, Complete, VisibleComplete, Visible, Numbered, Sent,
     Owned, Holds, Fresh, Removing, TypeOK, Files, None, Uploads
<1>8. Removing'
  BY <1>0, NamesAssumption DEF IInv, Removing, Complete, Visible, Owned, Holds, Quiet,
     TypeOK, Files, None, Uploads
<1>9. OrphansExplained'
  <2> SUFFICES ASSUME NEW f \in Files \ Visible', chunks'[f] # {}, f \notin abandoned'
               PROVE  InProgress(f)'
    BY DEF OrphansExplained
  <2>1. CASE f = on[c]
    BY <1>0, <2>1 DEF IInv, InProgress, Owned, Quiet, Removing, TypeOK, Files, None, Uploads
  <2>2. CASE f # on[c]
    <3>1. f \in Files \ Visible /\ chunks[f] # {} /\ f \notin abandoned
      BY <1>0, <2>2, NamesAssumption DEF IInv, TypeOK, Visible, Files, None
    <3>2. PICK d \in Clients : \/ op[d] # "none" /\ (on[d] = f \/ f \in todo[d])
                               \/ builder[d] = f
      BY <3>1 DEF IInv, OrphansExplained, InProgress
    <3>3. CASE d # c
      <4>1. op'[d] = op[d] /\ on'[d] = on[d] /\ todo'[d] = todo[d] /\ builder'[d] = builder[d]
        BY <1>0, <3>3 DEF IInv, TypeOK
      <4> QED
        BY <3>2, <4>1 DEF InProgress
    <3>4. CASE d = c
      BY <1>0, <2>2, <3>1, <3>2, <3>4, NamesAssumption DEF IInv, InProgress, Visible,
         Owned, Quiet, Removing, TypeOK, Files, None, Uploads
    <3> QED
      BY <3>3, <3>4
  <2> QED
    BY <2>1, <2>2
<1>10. UploadStep
  <2>1. Visible' = Visible
    BY <1>0 DEF Visible
  <2>2. \A d \in Clients : ~(op[d] \in {"store", "build"} /\ result'[d] = "done")
    BY <1>0 DEF IInv, Quiet, TypeOK, Uploads
  <2> QED
    BY <2>1, <2>2 DEF UploadStep
<1>11. RemoveStep
  <2>1. \A d \in Clients : ~(op[d] = "remove" /\ result'[d] = "done")
    BY <1>0 DEF IInv, Quiet, TypeOK, Uploads
  <2> QED
    BY <2>1 DEF RemoveStep
<1>12. StoreStep
  <2>1. TextOf' = TextOf
    BY <1>0 DEF TextOf
  <2>2. Visible' = Visible
    BY <1>0 DEF Visible
  <2>3. GivenTo' = GivenTo
    <3>1. op[c] # "none" /\ result[c] = "none"
      BY <1>0 DEF IInv, Quiet, Uploads
    <3> QED
      BY <1>0, <3>1, GivenSame DEF IInv, TypeOK
  <2> QED
    BY <1>0, <2>1, <2>2, <2>3 DEF StoreStep
<1> QED
  BY <1>1, <1>2, <1>3, <1>4, <1>5, <1>6, <1>7, <1>8, <1>9, <1>10, <1>11, <1>12 DEF IInv,
     StepInv

LEMMA ChunksBreak ==
  ASSUME IInv, NEW c \in Clients,
         RemoveChunks(c), Breaks, chunks' = [chunks EXCEPT ![on[c]] = {}]
  PROVE  StepInv
<1>0. /\ op[c] = "remove"
      /\ on[c] # None
      /\ chunks' = [chunks EXCEPT ![on[c]] = {}]
      /\ op' = [op EXCEPT ![c] = "none"]
      /\ on' = [on EXCEPT ![c] = None]
      /\ todo' = [todo EXCEPT ![c] = {}]
      /\ found' = [found EXCEPT ![c] = {}]
      /\ result' = [result EXCEPT ![c] = "failed"]
      /\ faults' \in 0 .. MaxFaults
      /\ abandoned' = abandoned \cup todo[c]
      /\ UNCHANGED <<entry, num, published, made, content, stored, builder, box, size, out,
                    name>>
  BY Fault DEF RemoveChunks, RemoveFails, Ends, serverVars, uploadVars, givenVars,
     removeVars, readVars
<1>1. BoxKnown' /\ LocalFileIsPrefix'
  BY <1>0 DEF IInv, BoxKnown, LocalFileIsPrefix, IsBeginning
<1>2. TypeOK'
  <2>0. TypeOK
    BY DEF IInv
  <2>1. (chunks \in [Files -> SUBSET ((0 .. MaxChunks) \X Pieces)])'
    BY <1>0, <2>0, BoundsAssumption DEF TypeOK, Files, None, Uploads, Visible
  <2>2. (op \in [Clients -> {"none", "store", "append", "build", "remove", "write",
    "data"}])'
    BY <1>0, <2>0, BoundsAssumption DEF TypeOK, Files, None, Uploads, Visible
  <2>3. (on \in [Clients -> Files \cup {None}])'
    BY <1>0, <2>0, BoundsAssumption DEF TypeOK, Files, None, Uploads, Visible
  <2>4. (todo \in [Clients -> SUBSET Files])'
    BY <1>0, <2>0, BoundsAssumption DEF TypeOK, Files, None, Uploads, Visible
  <2>5. (result \in [Clients -> {"none", "done", "given", "failed"}])'
    BY <1>0, <2>0, BoundsAssumption DEF TypeOK, Files, None, Uploads, Visible
  <2>6. (faults \in 0 .. MaxFaults)'
    BY <1>0, <2>0, BoundsAssumption DEF TypeOK, Files, None, Uploads, Visible
  <2>7. (abandoned \subseteq Files)'
    BY <1>0, <2>0, BoundsAssumption DEF TypeOK, Files, None, Uploads, Visible
  <2>8. (found \in [Clients -> SUBSET Files])'
    BY <1>0, <2>0, BoundsAssumption DEF TypeOK, Files, None, Uploads, Visible
  <2> QED
    BY <1>0, <2>0, <2>1, <2>2, <2>3, <2>4, <2>5, <2>6, <2>7, <2>8 DEF TypeOK
<1>3. Fresh'
  BY <1>0 DEF IInv, Fresh, Owned, Holds, Removing, Complete, TypeOK, Files, None, Uploads
<1>4. Quiet'
  BY <1>0 DEF IInv, Quiet, TypeOK, Uploads, None
<1>5. Owned'
  BY <1>0 DEF IInv, Owned, Holds, Fresh, Quiet, Removing, TypeOK, Files, None, Uploads
<1>6. Sent'
  <2> SUFFICES ASSUME NEW f \in Files
               PROVE  /\ stored'[f] <= Len(content'[f])
                      /\ chunks'[f] \subseteq Numbered(f, Len(content[f]))'
                      /\ f \notin published' /\ f \notin abandoned' =>
                           chunks'[f] = Numbered(f, stored[f])'
    BY DEF Sent
  <2>1. CASE f = on[c]
    <3>1. chunks'[f] = {} /\ f \in published'
      BY <1>0, <2>1 DEF IInv, TypeOK, Removing
    <3> QED
      BY <1>0, <3>1 DEF IInv, Sent
  <2>2. CASE f # on[c]
    <3>1. stored'[f] = stored[f] /\ content'[f] = content[f] /\ chunks'[f] = chunks[f]
      BY <1>0, <2>2 DEF IInv, TypeOK
    <3>2. Numbered(f, Len(content[f]))' = Numbered(f, Len(content[f]))
      BY <3>1 DEF Numbered
    <3>3. Numbered(f, stored[f])' = Numbered(f, stored[f])
      BY <3>1 DEF Numbered
    <3> QED
      BY <1>0, <3>1, <3>2, <3>3 DEF IInv, Sent
  <2> QED
    BY <2>1, <2>2
<1>7. Complete'
  BY <1>0, NamesAssumption DEF IInv, Complete, VisibleComplete, Visible, Numbered, Sent,
     Owned, Holds, Fresh, Removing, TypeOK, Files, None, Uploads
<1>8. Removing'
  BY <1>0, NamesAssumption DEF IInv, Removing, Complete, Visible, Owned, Holds, Quiet,
     TypeOK, Files, None, Uploads
<1>9. Reading'
  BY <1>0 DEF IInv, Reading, BoxKnown, IsBeginning, Owned, Holds, Fresh, TypeOK, Files,
     None, Uploads
<1>10. OrphansExplained'
  <2> SUFFICES ASSUME NEW f \in Files \ Visible', chunks'[f] # {}, f \notin abandoned'
               PROVE  InProgress(f)'
    BY DEF OrphansExplained
  <2>1. CASE f = on[c]
    BY <1>0, <2>1 DEF IInv, InProgress, Owned, Quiet, Removing, TypeOK, Files, None, Uploads
  <2>2. CASE f # on[c]
    <3>1. f \in Files \ Visible /\ chunks[f] # {} /\ f \notin abandoned
      BY <1>0, <2>2, NamesAssumption DEF IInv, TypeOK, Visible, Files, None
    <3>2. PICK d \in Clients : \/ op[d] # "none" /\ (on[d] = f \/ f \in todo[d])
                               \/ builder[d] = f
      BY <3>1 DEF IInv, OrphansExplained, InProgress
    <3>3. CASE d # c
      <4>1. op'[d] = op[d] /\ on'[d] = on[d] /\ todo'[d] = todo[d] /\ builder'[d] = builder[d]
        BY <1>0, <3>3 DEF IInv, TypeOK
      <4> QED
        BY <3>2, <4>1 DEF InProgress
    <3>4. CASE d = c
      BY <1>0, <2>2, <3>1, <3>2, <3>4, NamesAssumption DEF IInv, InProgress, Visible,
         Owned, Quiet, Removing, TypeOK, Files, None, Uploads
    <3> QED
      BY <3>3, <3>4
  <2> QED
    BY <2>1, <2>2
<1>11. UploadStep
  <2>1. Visible' = Visible
    BY <1>0 DEF Visible
  <2>2. \A d \in Clients : ~(op[d] \in {"store", "build"} /\ result'[d] = "done")
    BY <1>0 DEF IInv, Quiet, TypeOK, Uploads
  <2> QED
    BY <2>1, <2>2 DEF UploadStep
<1>12. RemoveStep
  <2>1. \A d \in Clients : ~(op[d] = "remove" /\ result'[d] = "done")
    BY <1>0 DEF IInv, Quiet, TypeOK, Uploads
  <2> QED
    BY <2>1 DEF RemoveStep
<1>13. StoreStep
  <2>1. TextOf' = TextOf
    BY <1>0 DEF TextOf
  <2>2. Visible' = Visible
    BY <1>0 DEF Visible
  <2>3. GivenTo' = GivenTo
    <3>1. op[c] # "none" /\ result[c] = "none"
      BY <1>0 DEF IInv, Quiet, Uploads
    <3> QED
      BY <1>0, <3>1, GivenSame DEF IInv, TypeOK
  <2> QED
    BY <1>0, <2>1, <2>2, <2>3 DEF StoreStep
<1> QED
  BY <1>1, <1>2, <1>3, <1>4, <1>5, <1>6, <1>7, <1>8, <1>9, <1>10, <1>11, <1>12,
     <1>13 DEF IInv, StepInv

LEMMA ChunksLost ==
  ASSUME IInv, NEW c \in Clients,
         RemoveChunks(c), Breaks, UNCHANGED chunks
  PROVE  StepInv
<1>0. /\ op[c] = "remove"
      /\ on[c] # None
      /\ op' = [op EXCEPT ![c] = "none"]
      /\ on' = [on EXCEPT ![c] = None]
      /\ todo' = [todo EXCEPT ![c] = {}]
      /\ found' = [found EXCEPT ![c] = {}]
      /\ result' = [result EXCEPT ![c] = "failed"]
      /\ faults' \in 0 .. MaxFaults
      /\ abandoned' = abandoned \cup todo[c]
      /\ UNCHANGED <<entry, num, chunks, published, made, content, stored, builder, box,
                    size, out, name>>
  BY Fault DEF RemoveChunks, RemoveFails, Ends, serverVars, uploadVars, givenVars,
     removeVars, readVars
<1>1. Complete' /\ BoxKnown' /\ LocalFileIsPrefix'
  BY <1>0 DEF IInv, Complete, VisibleComplete, Visible, Numbered, BoxKnown,
     LocalFileIsPrefix, IsBeginning
<1>2. TypeOK'
  <2>0. TypeOK
    BY DEF IInv
  <2>1. (op \in [Clients -> {"none", "store", "append", "build", "remove", "write",
    "data"}])'
    BY <1>0, <2>0, BoundsAssumption DEF TypeOK, Files, None, Uploads, Visible
  <2>2. (on \in [Clients -> Files \cup {None}])'
    BY <1>0, <2>0, BoundsAssumption DEF TypeOK, Files, None, Uploads, Visible
  <2>3. (todo \in [Clients -> SUBSET Files])'
    BY <1>0, <2>0, BoundsAssumption DEF TypeOK, Files, None, Uploads, Visible
  <2>4. (result \in [Clients -> {"none", "done", "given", "failed"}])'
    BY <1>0, <2>0, BoundsAssumption DEF TypeOK, Files, None, Uploads, Visible
  <2>5. (faults \in 0 .. MaxFaults)'
    BY <1>0, <2>0, BoundsAssumption DEF TypeOK, Files, None, Uploads, Visible
  <2>6. (abandoned \subseteq Files)'
    BY <1>0, <2>0, BoundsAssumption DEF TypeOK, Files, None, Uploads, Visible
  <2>7. (found \in [Clients -> SUBSET Files])'
    BY <1>0, <2>0, BoundsAssumption DEF TypeOK, Files, None, Uploads, Visible
  <2> QED
    BY <1>0, <2>0, <2>1, <2>2, <2>3, <2>4, <2>5, <2>6, <2>7 DEF TypeOK
<1>3. Fresh'
  BY <1>0 DEF IInv, Fresh, Owned, Holds, Removing, Complete, TypeOK, Files, None, Uploads
<1>4. Quiet'
  BY <1>0 DEF IInv, Quiet, TypeOK, Uploads, None
<1>5. Owned'
  BY <1>0 DEF IInv, Owned, Holds, Fresh, Quiet, Removing, TypeOK, Files, None, Uploads
<1>6. Sent'
  <2>1. \A f \in Files : /\ Numbered(f, Len(content[f]))' = Numbered(f, Len(content[f]))
                        /\ Numbered(f, stored[f])' = Numbered(f, stored[f])
    BY <1>0 DEF Numbered
  <2>2. stored' = stored /\ content' = content /\ chunks' = chunks
    BY <1>0
  <2>3. published \subseteq published' /\ abandoned \subseteq abandoned'
    BY <1>0
  <2> QED
    BY <2>1, <2>2, <2>3 DEF IInv, Sent
<1>7. Removing'
  BY <1>0, NamesAssumption DEF IInv, Removing, Complete, Visible, Owned, Holds, Quiet,
     TypeOK, Files, None, Uploads
<1>8. Reading'
  BY <1>0 DEF IInv, Reading, BoxKnown, IsBeginning, Owned, Holds, Fresh, TypeOK, Files,
     None, Uploads
<1>9. OrphansExplained'
  <2> SUFFICES ASSUME NEW f \in Files \ Visible', chunks'[f] # {}, f \notin abandoned'
               PROVE  InProgress(f)'
    BY DEF OrphansExplained
  <2>1. CASE f = on[c]
    BY <1>0, <2>1 DEF IInv, InProgress, Owned, Quiet, Removing, TypeOK, Files, None, Uploads
  <2>2. CASE f # on[c]
    <3>1. f \in Files \ Visible /\ chunks[f] # {} /\ f \notin abandoned
      BY <1>0, <2>2, NamesAssumption DEF IInv, TypeOK, Visible, Files, None
    <3>2. PICK d \in Clients : \/ op[d] # "none" /\ (on[d] = f \/ f \in todo[d])
                               \/ builder[d] = f
      BY <3>1 DEF IInv, OrphansExplained, InProgress
    <3>3. CASE d # c
      <4>1. op'[d] = op[d] /\ on'[d] = on[d] /\ todo'[d] = todo[d] /\ builder'[d] = builder[d]
        BY <1>0, <3>3 DEF IInv, TypeOK
      <4> QED
        BY <3>2, <4>1 DEF InProgress
    <3>4. CASE d = c
      BY <1>0, <2>2, <3>1, <3>2, <3>4, NamesAssumption DEF IInv, InProgress, Visible,
         Owned, Quiet, Removing, TypeOK, Files, None, Uploads
    <3> QED
      BY <3>3, <3>4
  <2> QED
    BY <2>1, <2>2
<1>10. UploadStep
  <2>1. Visible' = Visible
    BY <1>0 DEF Visible
  <2>2. \A d \in Clients : ~(op[d] \in {"store", "build"} /\ result'[d] = "done")
    BY <1>0 DEF IInv, Quiet, TypeOK, Uploads
  <2> QED
    BY <2>1, <2>2 DEF UploadStep
<1>11. RemoveStep
  <2>1. \A d \in Clients : ~(op[d] = "remove" /\ result'[d] = "done")
    BY <1>0 DEF IInv, Quiet, TypeOK, Uploads
  <2> QED
    BY <2>1 DEF RemoveStep
<1>12. StoreStep
  <2>1. TextOf' = TextOf
    BY <1>0 DEF TextOf
  <2>2. Visible' = Visible
    BY <1>0 DEF Visible
  <2>3. GivenTo' = GivenTo
    <3>1. op[c] # "none" /\ result[c] = "none"
      BY <1>0 DEF IInv, Quiet, Uploads
    <3> QED
      BY <1>0, <3>1, GivenSame DEF IInv, TypeOK
  <2> QED
    BY <1>0, <2>1, <2>2, <2>3 DEF StoreStep
<1> QED
  BY <1>1, <1>2, <1>3, <1>4, <1>5, <1>6, <1>7, <1>8, <1>9, <1>10, <1>11, <1>12 DEF IInv,
     StepInv

LEMMA RemoveEnds ==
  ASSUME IInv, NEW c \in Clients,
         RemoveReturns(c)
  PROVE  StepInv
<1>0. /\ op[c] = "remove"
      /\ on[c] = None
      /\ todo[c] = {}
      /\ op' = [op EXCEPT ![c] = "none"]
      /\ on' = [on EXCEPT ![c] = None]
      /\ todo' = [todo EXCEPT ![c] = {}]
      /\ found' = [found EXCEPT ![c] = {}]
      /\ result' = [result EXCEPT ![c] = "done"]
      /\ UNCHANGED <<entry, num, chunks, published, made, content, stored, builder,
                    abandoned, box, size, out, name, faults>>
  BY DEF RemoveReturns, Ends, serverVars, uploadVars, givenVars, removeVars, readVars
<1>1. Fresh' /\ Sent' /\ Complete'
  BY <1>0 DEF IInv, Fresh, Sent, Numbered, Complete, VisibleComplete, Visible
<1>2. BoxKnown' /\ LocalFileIsPrefix'
  BY <1>0 DEF IInv, BoxKnown, LocalFileIsPrefix, IsBeginning
<1>3. TypeOK'
  <2>0. TypeOK
    BY DEF IInv
  <2>1. (op \in [Clients -> {"none", "store", "append", "build", "remove", "write",
    "data"}])'
    BY <1>0, <2>0, BoundsAssumption DEF TypeOK, Files, None, Uploads, Visible
  <2>2. (on \in [Clients -> Files \cup {None}])'
    BY <1>0, <2>0, BoundsAssumption DEF TypeOK, Files, None, Uploads, Visible
  <2>3. (todo \in [Clients -> SUBSET Files])'
    BY <1>0, <2>0, BoundsAssumption DEF TypeOK, Files, None, Uploads, Visible
  <2>4. (result \in [Clients -> {"none", "done", "given", "failed"}])'
    BY <1>0, <2>0, BoundsAssumption DEF TypeOK, Files, None, Uploads, Visible
  <2>5. (found \in [Clients -> SUBSET Files])'
    BY <1>0, <2>0, BoundsAssumption DEF TypeOK, Files, None, Uploads, Visible
  <2> QED
    BY <1>0, <2>0, <2>1, <2>2, <2>3, <2>4, <2>5 DEF TypeOK
<1>4. Quiet'
  BY <1>0 DEF IInv, Quiet, TypeOK, Uploads, None
<1>5. Owned'
  BY <1>0 DEF IInv, Owned, Holds, Fresh, Quiet, Removing, TypeOK, Files, None, Uploads
<1>6. Removing'
  BY <1>0, NamesAssumption DEF IInv, Removing, Complete, Visible, Owned, Holds, Quiet,
     TypeOK, Files, None, Uploads
<1>7. Reading'
  BY <1>0 DEF IInv, Reading, BoxKnown, IsBeginning, Owned, Holds, Fresh, TypeOK, Files,
     None, Uploads
<1>8. OrphansExplained'
  <2> SUFFICES ASSUME NEW f \in Files \ Visible', chunks'[f] # {}, f \notin abandoned'
               PROVE  InProgress(f)'
    BY DEF OrphansExplained
  <2>1. f \in Files \ Visible /\ chunks[f] # {} /\ f \notin abandoned
    BY <1>0, NamesAssumption DEF IInv, TypeOK, Visible, Files, None
  <2>2. PICK d \in Clients : \/ op[d] # "none" /\ (on[d] = f \/ f \in todo[d])
                             \/ builder[d] = f
    BY <2>1 DEF IInv, OrphansExplained, InProgress
  <2>3. CASE d # c
    <3>1. op'[d] = op[d] /\ on'[d] = on[d] /\ todo'[d] = todo[d] /\ builder'[d] = builder[d]
      BY <1>0, <2>3 DEF IInv, TypeOK
    <3> QED
      BY <2>2, <3>1 DEF InProgress
  <2>4. CASE d = c
    BY <1>0, <2>1, <2>2, <2>4, NamesAssumption DEF IInv, InProgress, Visible, Owned, Quiet,
       TypeOK, Files, None, Uploads
  <2> QED
    BY <2>3, <2>4
<1>9. UploadStep
  <2>1. Visible' = Visible
    BY <1>0 DEF Visible
  <2>2. \A d \in Clients : ~(op[d] \in {"store", "build"} /\ result'[d] = "done")
    BY <1>0 DEF IInv, Quiet, TypeOK, Uploads
  <2> QED
    BY <2>1, <2>2 DEF UploadStep
<1>10. RemoveStep
  BY <1>0 DEF IInv, RemoveStep, Quiet, Removing, Visible, TypeOK, Uploads
<1>11. StoreStep
  <2>1. TextOf' = TextOf
    BY <1>0 DEF TextOf
  <2>2. Visible' = Visible
    BY <1>0 DEF Visible
  <2>3. GivenTo' = GivenTo
    <3>1. op[c] # "none" /\ result[c] = "none"
      BY <1>0 DEF IInv, Quiet, Uploads
    <3> QED
      BY <1>0, <3>1, GivenSame DEF IInv, TypeOK
  <2> QED
    BY <1>0, <2>1, <2>2, <2>3 DEF StoreStep
<1> QED
  BY <1>1, <1>2, <1>3, <1>4, <1>5, <1>6, <1>7, <1>8, <1>9, <1>10, <1>11 DEF IInv, StepInv

LEMMA Found ==
  ASSUME IInv, NEW c \in Clients,
         NEW nm \in Names, FindFile(c, nm), ~Breaks, NEW f \in Visible,
           box' = [box EXCEPT ![c] = f], size' = [size EXCEPT ![c] = num[f]]
  PROVE  StepInv
<1>0. /\ op[c] = "none"
      /\ f \in Visible
      /\ box' = [box EXCEPT ![c] = f]
      /\ size' = [size EXCEPT ![c] = num[f]]
      /\ result' = [result EXCEPT ![c] = "done"]
      /\ UNCHANGED <<entry, num, chunks, published, made, content, stored, builder,
                    abandoned, todo, found, out, op, on, name, faults>>
  BY DEF FindFile, Answered, serverVars, uploadVars, givenVars, removeVars, readVars
<1>1. Fresh' /\ Owned' /\ Sent'
  BY <1>0 DEF IInv, Fresh, Owned, Holds, Sent, Numbered
<1>2. Complete' /\ Removing'
  BY <1>0 DEF IInv, Complete, VisibleComplete, Visible, Numbered, Removing
<1>3. LocalFileIsPrefix' /\ OrphansExplained'
  BY <1>0 DEF IInv, LocalFileIsPrefix, IsBeginning, OrphansExplained, InProgress, Visible
<1>4. TypeOK'
  <2>0. TypeOK
    BY DEF IInv
  <2>1. (box \in [Clients -> Files \cup {None}])'
    BY <1>0, <2>0, BoundsAssumption DEF TypeOK, Files, None, Uploads, Visible
  <2>2. (size \in [Clients -> 0 .. MaxChunks])'
    BY <1>0, <2>0, BoundsAssumption DEF TypeOK, Files, None, Uploads, Visible
  <2>3. (result \in [Clients -> {"none", "done", "given", "failed"}])'
    BY <1>0, <2>0, BoundsAssumption DEF TypeOK, Files, None, Uploads, Visible
  <2> QED
    BY <1>0, <2>0, <2>1, <2>2, <2>3 DEF TypeOK
<1>5. Quiet'
  BY <1>0 DEF IInv, Quiet, TypeOK, Uploads, None
<1>6. BoxKnown'
  <2>1. f \in published /\ num[f] = Len(content[f])
    BY <1>0 DEF IInv, Complete, VisibleComplete
  <2> QED
    BY <1>0, <2>1 DEF IInv, BoxKnown, TypeOK
<1>7. Reading'
  BY <1>0 DEF IInv, Reading, BoxKnown, IsBeginning, Owned, Holds, Fresh, TypeOK, Files,
     None, Uploads
<1>8. UploadStep
  <2>1. Visible' = Visible
    BY <1>0 DEF Visible
  <2>2. \A d \in Clients : ~(op[d] \in {"store", "build"} /\ result'[d] = "done")
    BY <1>0 DEF IInv, Quiet, TypeOK, Uploads
  <2> QED
    BY <2>1, <2>2 DEF UploadStep
<1>9. RemoveStep
  <2>1. \A d \in Clients : ~(op[d] = "remove" /\ result'[d] = "done")
    BY <1>0 DEF IInv, Quiet, TypeOK, Uploads
  <2> QED
    BY <2>1 DEF RemoveStep
<1>10. StoreStep
  <2>1. TextOf' = TextOf
    BY <1>0 DEF TextOf
  <2>2. Visible' = Visible
    BY <1>0 DEF Visible
  <2>3. GivenTo' = [GivenTo EXCEPT ![c] = {}]
    BY <1>0, GivenForget DEF IInv, TypeOK
  <2> QED
    BY <1>0, <2>1, <2>2, <2>3 DEF IInv, TypeOK, StoreStep
<1> QED
  BY <1>1, <1>2, <1>3, <1>4, <1>5, <1>6, <1>7, <1>8, <1>9, <1>10 DEF IInv, StepInv

LEMMA NotFound ==
  ASSUME IInv, NEW c \in Clients,
         NEW nm \in Names, FindFile(c, nm), ~Breaks, box' = [box EXCEPT ![c] = None],
           size' = [size EXCEPT ![c] = 0]
  PROVE  StepInv
<1>0. /\ op[c] = "none"
      /\ box' = [box EXCEPT ![c] = None]
      /\ size' = [size EXCEPT ![c] = 0]
      /\ result' = [result EXCEPT ![c] = "done"]
      /\ UNCHANGED <<entry, num, chunks, published, made, content, stored, builder,
                    abandoned, todo, found, out, op, on, name, faults>>
  BY DEF FindFile, Answered, serverVars, uploadVars, givenVars, removeVars, readVars
<1>1. Fresh' /\ Owned' /\ Sent'
  BY <1>0 DEF IInv, Fresh, Owned, Holds, Sent, Numbered
<1>2. Complete' /\ Removing'
  BY <1>0 DEF IInv, Complete, VisibleComplete, Visible, Numbered, Removing
<1>3. LocalFileIsPrefix' /\ OrphansExplained'
  BY <1>0 DEF IInv, LocalFileIsPrefix, IsBeginning, OrphansExplained, InProgress, Visible
<1>4. TypeOK'
  <2>0. TypeOK
    BY DEF IInv
  <2>1. (box \in [Clients -> Files \cup {None}])'
    BY <1>0, <2>0, BoundsAssumption DEF TypeOK, Files, None, Uploads, Visible
  <2>2. (size \in [Clients -> 0 .. MaxChunks])'
    BY <1>0, <2>0, BoundsAssumption DEF TypeOK, Files, None, Uploads, Visible
  <2>3. (result \in [Clients -> {"none", "done", "given", "failed"}])'
    BY <1>0, <2>0, BoundsAssumption DEF TypeOK, Files, None, Uploads, Visible
  <2> QED
    BY <1>0, <2>0, <2>1, <2>2, <2>3 DEF TypeOK
<1>5. Quiet'
  BY <1>0 DEF IInv, Quiet, TypeOK, Uploads, None
<1>6. BoxKnown'
  BY <1>0 DEF IInv, BoxKnown, Complete, VisibleComplete, Visible, Owned, Holds, Fresh,
     TypeOK, Files, None, Uploads
<1>7. Reading'
  BY <1>0 DEF IInv, Reading, BoxKnown, IsBeginning, Owned, Holds, Fresh, TypeOK, Files,
     None, Uploads
<1>8. UploadStep
  <2>1. Visible' = Visible
    BY <1>0 DEF Visible
  <2>2. \A d \in Clients : ~(op[d] \in {"store", "build"} /\ result'[d] = "done")
    BY <1>0 DEF IInv, Quiet, TypeOK, Uploads
  <2> QED
    BY <2>1, <2>2 DEF UploadStep
<1>9. RemoveStep
  <2>1. \A d \in Clients : ~(op[d] = "remove" /\ result'[d] = "done")
    BY <1>0 DEF IInv, Quiet, TypeOK, Uploads
  <2> QED
    BY <2>1 DEF RemoveStep
<1>10. StoreStep
  <2>1. TextOf' = TextOf
    BY <1>0 DEF TextOf
  <2>2. Visible' = Visible
    BY <1>0 DEF Visible
  <2>3. GivenTo' = [GivenTo EXCEPT ![c] = {}]
    BY <1>0, GivenForget DEF IInv, TypeOK
  <2> QED
    BY <1>0, <2>1, <2>2, <2>3 DEF StoreStep
<1> QED
  BY <1>1, <1>2, <1>3, <1>4, <1>5, <1>6, <1>7, <1>8, <1>9, <1>10 DEF IInv, StepInv

LEMMA FindBreaks ==
  ASSUME IInv, NEW c \in Clients,
         NEW nm \in Names, FindFile(c, nm), Breaks
  PROVE  StepInv
<1>0. /\ op[c] = "none"
      /\ result' = [result EXCEPT ![c] = "failed"]
      /\ faults' \in 0 .. MaxFaults
      /\ UNCHANGED <<entry, num, chunks, published, made, content, stored, builder,
                    abandoned, todo, found, box, size, out, op, on, name>>
  BY Fault DEF FindFile, serverVars, uploadVars, givenVars, removeVars, readVars
<1>1. Fresh' /\ Owned' /\ Sent'
  BY <1>0 DEF IInv, Fresh, Owned, Holds, Sent, Numbered
<1>2. Complete' /\ Removing' /\ BoxKnown'
  BY <1>0 DEF IInv, Complete, VisibleComplete, Visible, Numbered, Removing, BoxKnown
<1>3. LocalFileIsPrefix' /\ OrphansExplained'
  BY <1>0 DEF IInv, LocalFileIsPrefix, IsBeginning, OrphansExplained, InProgress, Visible
<1>4. TypeOK'
  <2>0. TypeOK
    BY DEF IInv
  <2>1. (result \in [Clients -> {"none", "done", "given", "failed"}])'
    BY <1>0, <2>0, BoundsAssumption DEF TypeOK, Files, None, Uploads, Visible
  <2>2. (faults \in 0 .. MaxFaults)'
    BY <1>0, <2>0, BoundsAssumption DEF TypeOK, Files, None, Uploads, Visible
  <2> QED
    BY <1>0, <2>0, <2>1, <2>2 DEF TypeOK
<1>5. Quiet'
  BY <1>0 DEF IInv, Quiet, TypeOK, Uploads, None
<1>6. Reading'
  BY <1>0 DEF IInv, Reading, BoxKnown, IsBeginning, Owned, Holds, Fresh, TypeOK, Files,
     None, Uploads
<1>7. UploadStep
  <2>1. Visible' = Visible
    BY <1>0 DEF Visible
  <2>2. \A d \in Clients : ~(op[d] \in {"store", "build"} /\ result'[d] = "done")
    BY <1>0 DEF IInv, Quiet, TypeOK, Uploads
  <2> QED
    BY <2>1, <2>2 DEF UploadStep
<1>8. RemoveStep
  <2>1. \A d \in Clients : ~(op[d] = "remove" /\ result'[d] = "done")
    BY <1>0 DEF IInv, Quiet, TypeOK, Uploads
  <2> QED
    BY <2>1 DEF RemoveStep
<1>9. StoreStep
  <2>1. TextOf' = TextOf
    BY <1>0 DEF TextOf
  <2>2. Visible' = Visible
    BY <1>0 DEF Visible
  <2>3. GivenTo' = [GivenTo EXCEPT ![c] = {}]
    BY <1>0, GivenForget DEF IInv, TypeOK
  <2> QED
    BY <1>0, <2>1, <2>2, <2>3 DEF StoreStep
<1> QED
  BY <1>1, <1>2, <1>3, <1>4, <1>5, <1>6, <1>7, <1>8, <1>9 DEF IInv, StepInv

LEMMA Writing ==
  ASSUME IInv, NEW c \in Clients,
         Write(c)
  PROVE  StepInv
<1>0. /\ op[c] = "none"
      /\ op' = [op EXCEPT ![c] = "write"]
      /\ result' = [result EXCEPT ![c] = "none"]
      /\ out' = [out EXCEPT ![c] = <<>>]
      /\ UNCHANGED <<entry, num, chunks, published, made, content, stored, builder,
                    abandoned, todo, found, box, size, on, name, faults>>
  BY DEF Write, Begins, serverVars, uploadVars, givenVars, removeVars, readVars
<1>1. Fresh' /\ Sent'
  BY <1>0 DEF IInv, Fresh, Sent, Numbered
<1>2. Complete' /\ BoxKnown'
  BY <1>0 DEF IInv, Complete, VisibleComplete, Visible, Numbered, BoxKnown
<1>3. TypeOK'
  <2>0. TypeOK
    BY DEF IInv
  <2>1. (op \in [Clients -> {"none", "store", "append", "build", "remove", "write",
    "data"}])'
    BY <1>0, <2>0, BoundsAssumption DEF TypeOK, Files, None, Uploads, Visible
  <2>2. (out \in [Clients -> Contents])'
    <3>1. <<>> \in Contents
      BY NothingFits
    <3> QED
      BY <1>0, <2>0, <3>1 DEF TypeOK
  <2>3. (result \in [Clients -> {"none", "done", "given", "failed"}])'
    BY <1>0, <2>0, BoundsAssumption DEF TypeOK, Files, None, Uploads, Visible
  <2> QED
    BY <1>0, <2>0, <2>1, <2>2, <2>3 DEF TypeOK
<1>4. Quiet'
  BY <1>0 DEF IInv, Quiet, TypeOK, Uploads, None
<1>5. Owned'
  BY <1>0 DEF IInv, Owned, Holds, Fresh, Quiet, Removing, TypeOK, Files, None, Uploads
<1>6. Removing'
  BY <1>0, NamesAssumption DEF IInv, Removing, Complete, Visible, Owned, Holds, Quiet,
     TypeOK, Files, None, Uploads
<1>7. Reading'
  BY <1>0 DEF IInv, Reading, BoxKnown, IsBeginning, Owned, Holds, Fresh, TypeOK, Files,
     None, Uploads
<1>8. LocalFileIsPrefix'
  <2> SUFFICES ASSUME NEW d \in Clients, out'[d] # <<>>
               PROVE  \E f \in published' : IsBeginning(out'[d], content'[f])
    BY DEF LocalFileIsPrefix, IsBeginning
  <2>1. d # c
    BY <1>0 DEF IInv, TypeOK
  <2>2. out'[d] = out[d]
    BY <1>0, <2>1 DEF IInv, TypeOK
  <2> QED
    BY <1>0, <2>2 DEF IInv, LocalFileIsPrefix
<1>9. OrphansExplained'
  BY <1>0, NamesAssumption DEF IInv, OrphansExplained, InProgress, Visible, Complete, Sent,
     Numbered, Owned, Holds, Fresh, Quiet, Removing, TypeOK, Files, None, Uploads
<1>10. UploadStep
  <2>1. Visible' = Visible
    BY <1>0 DEF Visible
  <2>2. \A d \in Clients : ~(op[d] \in {"store", "build"} /\ result'[d] = "done")
    BY <1>0 DEF IInv, Quiet, TypeOK, Uploads
  <2> QED
    BY <2>1, <2>2 DEF UploadStep
<1>11. RemoveStep
  <2>1. \A d \in Clients : ~(op[d] = "remove" /\ result'[d] = "done")
    BY <1>0 DEF IInv, Quiet, TypeOK, Uploads
  <2> QED
    BY <2>1 DEF RemoveStep
<1>12. StoreStep
  <2>1. TextOf' = TextOf
    BY <1>0 DEF TextOf
  <2>2. Visible' = Visible
    BY <1>0 DEF Visible
  <2>3. GivenTo' = [GivenTo EXCEPT ![c] = {}]
    BY <1>0, GivenForget DEF IInv, TypeOK
  <2> QED
    BY <1>0, <2>1, <2>2, <2>3 DEF StoreStep
<1> QED
  BY <1>1, <1>2, <1>3, <1>4, <1>5, <1>6, <1>7, <1>8, <1>9, <1>10, <1>11, <1>12 DEF IInv,
     StepInv

LEMMA Fetching ==
  ASSUME IInv, NEW c \in Clients,
         Data(c)
  PROVE  StepInv
<1>0. /\ op[c] = "none"
      /\ op' = [op EXCEPT ![c] = "data"]
      /\ result' = [result EXCEPT ![c] = "none"]
      /\ out' = [out EXCEPT ![c] = <<>>]
      /\ UNCHANGED <<entry, num, chunks, published, made, content, stored, builder,
                    abandoned, todo, found, box, size, on, name, faults>>
  BY DEF Data, Begins, serverVars, uploadVars, givenVars, removeVars, readVars
<1>1. Fresh' /\ Sent'
  BY <1>0 DEF IInv, Fresh, Sent, Numbered
<1>2. Complete' /\ BoxKnown'
  BY <1>0 DEF IInv, Complete, VisibleComplete, Visible, Numbered, BoxKnown
<1>3. TypeOK'
  <2>0. TypeOK
    BY DEF IInv
  <2>1. (op \in [Clients -> {"none", "store", "append", "build", "remove", "write",
    "data"}])'
    BY <1>0, <2>0, BoundsAssumption DEF TypeOK, Files, None, Uploads, Visible
  <2>2. (out \in [Clients -> Contents])'
    <3>1. <<>> \in Contents
      BY NothingFits
    <3> QED
      BY <1>0, <2>0, <3>1 DEF TypeOK
  <2>3. (result \in [Clients -> {"none", "done", "given", "failed"}])'
    BY <1>0, <2>0, BoundsAssumption DEF TypeOK, Files, None, Uploads, Visible
  <2> QED
    BY <1>0, <2>0, <2>1, <2>2, <2>3 DEF TypeOK
<1>4. Quiet'
  BY <1>0 DEF IInv, Quiet, TypeOK, Uploads, None
<1>5. Owned'
  BY <1>0 DEF IInv, Owned, Holds, Fresh, Quiet, Removing, TypeOK, Files, None, Uploads
<1>6. Removing'
  BY <1>0, NamesAssumption DEF IInv, Removing, Complete, Visible, Owned, Holds, Quiet,
     TypeOK, Files, None, Uploads
<1>7. Reading'
  BY <1>0 DEF IInv, Reading, BoxKnown, IsBeginning, Owned, Holds, Fresh, TypeOK, Files,
     None, Uploads
<1>8. LocalFileIsPrefix'
  <2> SUFFICES ASSUME NEW d \in Clients, out'[d] # <<>>
               PROVE  \E f \in published' : IsBeginning(out'[d], content'[f])
    BY DEF LocalFileIsPrefix, IsBeginning
  <2>1. d # c
    BY <1>0 DEF IInv, TypeOK
  <2>2. out'[d] = out[d]
    BY <1>0, <2>1 DEF IInv, TypeOK
  <2> QED
    BY <1>0, <2>2 DEF IInv, LocalFileIsPrefix
<1>9. OrphansExplained'
  BY <1>0, NamesAssumption DEF IInv, OrphansExplained, InProgress, Visible, Complete, Sent,
     Numbered, Owned, Holds, Fresh, Quiet, Removing, TypeOK, Files, None, Uploads
<1>10. UploadStep
  <2>1. Visible' = Visible
    BY <1>0 DEF Visible
  <2>2. \A d \in Clients : ~(op[d] \in {"store", "build"} /\ result'[d] = "done")
    BY <1>0 DEF IInv, Quiet, TypeOK, Uploads
  <2> QED
    BY <2>1, <2>2 DEF UploadStep
<1>11. RemoveStep
  <2>1. \A d \in Clients : ~(op[d] = "remove" /\ result'[d] = "done")
    BY <1>0 DEF IInv, Quiet, TypeOK, Uploads
  <2> QED
    BY <2>1 DEF RemoveStep
<1>12. StoreStep
  <2>1. TextOf' = TextOf
    BY <1>0 DEF TextOf
  <2>2. Visible' = Visible
    BY <1>0 DEF Visible
  <2>3. GivenTo' = [GivenTo EXCEPT ![c] = {}]
    BY <1>0, GivenForget DEF IInv, TypeOK
  <2> QED
    BY <1>0, <2>1, <2>2, <2>3 DEF StoreStep
<1> QED
  BY <1>1, <1>2, <1>3, <1>4, <1>5, <1>6, <1>7, <1>8, <1>9, <1>10, <1>11, <1>12 DEF IInv,
     StepInv

LEMMA ChunkRead ==
  ASSUME IInv, NEW c \in Clients,
         ReadChunk(c), ~ReadFails(c), NEW p \in Pieces, <<Len(out[c]),
           p>> \in chunks[box[c]], out' = [out EXCEPT ![c] = Append(out[c], p)]
  PROVE  StepInv
<1>0. /\ op[c] \in {"write", "data"}
      /\ box[c] # None
      /\ Len(out[c]) < size[c]
      /\ <<Len(out[c]), p>> \in chunks[box[c]]
      /\ out' = [out EXCEPT ![c] = Append(out[c], p)]
      /\ UNCHANGED <<entry, num, chunks, published, made, content, stored, builder,
                    abandoned, todo, found, box, size, op, on, name, result, faults>>
  BY DEF ReadChunk, GoesOn, Answered, serverVars, uploadVars, givenVars, removeVars,
     readVars
<1>1. Fresh' /\ Quiet' /\ Owned'
  BY <1>0 DEF IInv, Fresh, Quiet, Owned, Holds
<1>2. Sent' /\ Complete' /\ Removing'
  BY <1>0 DEF IInv, Sent, Numbered, Complete, VisibleComplete, Visible, Removing
<1>3. BoxKnown' /\ OrphansExplained'
  BY <1>0 DEF IInv, BoxKnown, OrphansExplained, InProgress, Visible
<1>4. TypeOK'
  <2>0. TypeOK
    BY DEF IInv
  <2>1. (out \in [Clients -> Contents])'
    <3>1. out[c] \in Seq(Pieces) /\ Len(out[c]) \in 0 .. MaxChunks
      BY <2>0, ContentForms DEF TypeOK
    <3>2. size[c] \in 0 .. MaxChunks
      BY <2>0 DEF TypeOK
    <3>3. Append(out[c], p) \in Seq(Pieces) /\ Len(Append(out[c], p)) = Len(out[c]) + 1
      BY <3>1
    <3>4. Append(out[c], p) \in Contents
      <4>1. Len(Append(out[c], p)) \in 0 .. MaxChunks
        BY <1>0, <3>1, <3>2, <3>3, BoundsAssumption
      <4> QED
        BY <3>3, <4>1, ContentForms
    <3> QED
      BY <1>0, <2>0, <3>4 DEF TypeOK
  <2> QED
    BY <1>0, <2>0, <2>1 DEF TypeOK
<1>5. Reading'
  <2>1. box[c] \in Files /\ content[box[c]] \in Seq(Pieces) /\ out[c] \in Seq(Pieces)
    BY <1>0, ContentForms DEF IInv, TypeOK
  <2>2. IsBeginning(out[c], content[box[c]]) /\ size[c] = Len(content[box[c]])
    BY <1>0 DEF IInv, Reading, BoxKnown
  <2>3. <<Len(out[c]), p>> \in Numbered(box[c], Len(content[box[c]]))
    BY <1>0, <2>1 DEF IInv, Sent
  <2>4. p = content[box[c]][Len(out[c]) + 1]
    BY <2>3 DEF Numbered
  <2>5. IsBeginning(Append(out[c], p), content[box[c]])
    BY <1>0, <2>1, <2>2, <2>4 DEF IsBeginning
  <2> SUFFICES ASSUME NEW d \in Clients
               PROVE  /\ op'[d] \in {"write", "data"} =>
                           IF box'[d] = None THEN out'[d] = <<>>
                                             ELSE IsBeginning(out'[d], content'[box'[d]])
                      /\ result'[d] = "given" =>
                           box'[d] # None /\ out'[d] = content'[box'[d]]
    BY DEF Reading, IsBeginning
  <2>6. CASE d = c
    <3>1. out'[d] = Append(out[c], p) /\ result'[d] = "none"
      BY <1>0, <2>6 DEF IInv, TypeOK, Quiet
    <3> QED
      BY <1>0, <2>5, <2>6, <3>1
  <2>7. CASE d # c
    <3>1. out'[d] = out[d]
      BY <1>0, <2>7 DEF IInv, TypeOK
    <3> QED
      BY <1>0, <3>1 DEF IInv, Reading
  <2> QED
    BY <2>6, <2>7
<1>6. LocalFileIsPrefix'
  <2>1. box[c] \in Files /\ content[box[c]] \in Seq(Pieces) /\ out[c] \in Seq(Pieces)
    BY <1>0, ContentForms DEF IInv, TypeOK
  <2>2. IsBeginning(out[c], content[box[c]]) /\ size[c] = Len(content[box[c]])
    BY <1>0 DEF IInv, Reading, BoxKnown
  <2>3. <<Len(out[c]), p>> \in Numbered(box[c], Len(content[box[c]]))
    BY <1>0, <2>1 DEF IInv, Sent
  <2>4. p = content[box[c]][Len(out[c]) + 1]
    BY <2>3 DEF Numbered
  <2>5. IsBeginning(Append(out[c], p), content[box[c]])
    BY <1>0, <2>1, <2>2, <2>4 DEF IsBeginning
  <2>6. box[c] \in published
    BY <1>0 DEF IInv, BoxKnown
  <2> SUFFICES ASSUME NEW d \in Clients, out'[d] # <<>>
               PROVE  \E f \in published' : IsBeginning(out'[d], content'[f])
    BY DEF LocalFileIsPrefix, IsBeginning
  <2>7. CASE d = c
    <3>1. out'[d] = Append(out[c], p)
      BY <1>0, <2>7 DEF IInv, TypeOK
    <3> QED
      BY <1>0, <2>5, <2>6, <3>1
  <2>8. CASE d # c
    <3>1. out'[d] = out[d]
      BY <1>0, <2>8 DEF IInv, TypeOK
    <3> QED
      BY <1>0, <3>1 DEF IInv, LocalFileIsPrefix
  <2> QED
    BY <2>7, <2>8
<1>7. UploadStep
  <2>1. Visible' = Visible
    BY <1>0 DEF Visible
  <2>2. \A d \in Clients : ~(op[d] \in {"store", "build"} /\ result'[d] = "done")
    BY <1>0 DEF IInv, Quiet, TypeOK, Uploads
  <2> QED
    BY <2>1, <2>2 DEF UploadStep
<1>8. RemoveStep
  <2>1. \A d \in Clients : ~(op[d] = "remove" /\ result'[d] = "done")
    BY <1>0 DEF IInv, Quiet, TypeOK, Uploads
  <2> QED
    BY <2>1 DEF RemoveStep
<1>9. StoreStep
  <2>1. TextOf' = TextOf
    BY <1>0 DEF TextOf
  <2>2. Visible' = Visible
    BY <1>0 DEF Visible
  <2>3. GivenTo' = GivenTo
    <3>1. op[c] # "none" /\ result[c] = "none"
      BY <1>0 DEF IInv, Quiet, Uploads
    <3> QED
      BY <1>0, <3>1, GivenSame DEF IInv, TypeOK
  <2> QED
    BY <1>0, <2>1, <2>2, <2>3 DEF StoreStep
<1> QED
  BY <1>1, <1>2, <1>3, <1>4, <1>5, <1>6, <1>7, <1>8, <1>9 DEF IInv, StepInv

LEMMA ReadBreaks ==
  ASSUME IInv, NEW c \in Clients,
         ReadFails(c), op[c] \in {"write", "data"}, faults' \in 0 .. MaxFaults,
                       UNCHANGED <<serverVars, uploadVars, box, size, name>>
  PROVE  StepInv
<1>0. /\ op[c] \in {"write", "data"}
      /\ op' = [op EXCEPT ![c] = "none"]
      /\ on' = [on EXCEPT ![c] = None]
      /\ todo' = [todo EXCEPT ![c] = {}]
      /\ found' = [found EXCEPT ![c] = {}]
      /\ result' = [result EXCEPT ![c] = "failed"]
      /\ faults' \in 0 .. MaxFaults
      /\ out' = [out EXCEPT ![c] = IF op[c] = "data" THEN <<>> ELSE out[c]]
      /\ UNCHANGED <<entry, num, chunks, published, made, content, stored, builder,
                    abandoned, box, size, name>>
  BY DEF ReadFails, Ends, serverVars, uploadVars, givenVars, removeVars, readVars
<1>1. Fresh' /\ Sent'
  BY <1>0 DEF IInv, Fresh, Sent, Numbered
<1>2. Complete' /\ BoxKnown'
  BY <1>0 DEF IInv, Complete, VisibleComplete, Visible, Numbered, BoxKnown
<1>3. TypeOK'
  <2>0. TypeOK
    BY DEF IInv
  <2>1. (op \in [Clients -> {"none", "store", "append", "build", "remove", "write",
    "data"}])'
    BY <1>0, <2>0, BoundsAssumption DEF TypeOK, Files, None, Uploads, Visible
  <2>2. (on \in [Clients -> Files \cup {None}])'
    BY <1>0, <2>0, BoundsAssumption DEF TypeOK, Files, None, Uploads, Visible
  <2>3. (todo \in [Clients -> SUBSET Files])'
    BY <1>0, <2>0, BoundsAssumption DEF TypeOK, Files, None, Uploads, Visible
  <2>4. (out \in [Clients -> Contents])'
    <3>1. <<>> \in Contents
      BY NothingFits
    <3>2. (IF op[c] = "data" THEN <<>> ELSE out[c]) \in Contents
      BY <2>0, <3>1 DEF TypeOK
    <3> QED
      BY <1>0, <2>0, <3>2 DEF TypeOK
  <2>5. (result \in [Clients -> {"none", "done", "given", "failed"}])'
    BY <1>0, <2>0, BoundsAssumption DEF TypeOK, Files, None, Uploads, Visible
  <2>6. (faults \in 0 .. MaxFaults)'
    BY <1>0, <2>0, BoundsAssumption DEF TypeOK, Files, None, Uploads, Visible
  <2>7. (found \in [Clients -> SUBSET Files])'
    BY <1>0, <2>0, BoundsAssumption DEF TypeOK, Files, None, Uploads, Visible
  <2> QED
    BY <1>0, <2>0, <2>1, <2>2, <2>3, <2>4, <2>5, <2>6, <2>7 DEF TypeOK
<1>4. Quiet'
  BY <1>0 DEF IInv, Quiet, TypeOK, Uploads, None
<1>5. Owned'
  BY <1>0 DEF IInv, Owned, Holds, Fresh, Quiet, Removing, TypeOK, Files, None, Uploads
<1>6. Removing'
  BY <1>0, NamesAssumption DEF IInv, Removing, Complete, Visible, Owned, Holds, Quiet,
     TypeOK, Files, None, Uploads
<1>7. Reading'
  BY <1>0 DEF IInv, Reading, BoxKnown, IsBeginning, Owned, Holds, Fresh, TypeOK, Files,
     None, Uploads
<1>8. LocalFileIsPrefix'
  <2> SUFFICES ASSUME NEW d \in Clients, out'[d] # <<>>
               PROVE  \E f \in published' : IsBeginning(out'[d], content'[f])
    BY DEF LocalFileIsPrefix, IsBeginning
  <2>1. out'[d] = out[d]
    <3>1. CASE d # c
      BY <1>0, <3>1 DEF IInv, TypeOK
    <3>2. CASE d = c
      BY <1>0, <3>2 DEF IInv, TypeOK
    <3> QED
      BY <3>1, <3>2
  <2> QED
    BY <1>0, <2>1 DEF IInv, LocalFileIsPrefix
<1>9. OrphansExplained'
  <2> SUFFICES ASSUME NEW f \in Files \ Visible', chunks'[f] # {}, f \notin abandoned'
               PROVE  InProgress(f)'
    BY DEF OrphansExplained
  <2>1. f \in Files \ Visible /\ chunks[f] # {} /\ f \notin abandoned
    BY <1>0, NamesAssumption DEF IInv, TypeOK, Visible, Files, None
  <2>2. PICK d \in Clients : \/ op[d] # "none" /\ (on[d] = f \/ f \in todo[d])
                             \/ builder[d] = f
    BY <2>1 DEF IInv, OrphansExplained, InProgress
  <2>3. CASE d # c
    <3>1. op'[d] = op[d] /\ on'[d] = on[d] /\ todo'[d] = todo[d] /\ builder'[d] = builder[d]
      BY <1>0, <2>3 DEF IInv, TypeOK
    <3> QED
      BY <2>2, <3>1 DEF InProgress
  <2>4. CASE d = c
    <3>1. on[c] = None /\ todo[c] = {}
      BY <1>0 DEF IInv, Quiet
    <3>2. builder'[d] = f
      BY <1>0, <2>1, <2>2, <2>4, <3>1 DEF Files, None
    <3> QED
      BY <3>2 DEF InProgress
  <2> QED
    BY <2>3, <2>4
<1>10. UploadStep
  <2>1. Visible' = Visible
    BY <1>0 DEF Visible
  <2>2. \A d \in Clients : ~(op[d] \in {"store", "build"} /\ result'[d] = "done")
    BY <1>0 DEF IInv, Quiet, TypeOK, Uploads
  <2> QED
    BY <2>1, <2>2 DEF UploadStep
<1>11. RemoveStep
  <2>1. \A d \in Clients : ~(op[d] = "remove" /\ result'[d] = "done")
    BY <1>0 DEF IInv, Quiet, TypeOK, Uploads
  <2> QED
    BY <2>1 DEF RemoveStep
<1>12. StoreStep
  <2>1. TextOf' = TextOf
    BY <1>0 DEF TextOf
  <2>2. Visible' = Visible
    BY <1>0 DEF Visible
  <2>3. GivenTo' = GivenTo
    <3>1. op[c] # "none" /\ result[c] = "none"
      BY <1>0 DEF IInv, Quiet, Uploads
    <3> QED
      BY <1>0, <3>1, GivenSame DEF IInv, TypeOK
  <2> QED
    BY <1>0, <2>1, <2>2, <2>3 DEF StoreStep
<1> QED
  BY <1>1, <1>2, <1>3, <1>4, <1>5, <1>6, <1>7, <1>8, <1>9, <1>10, <1>11, <1>12 DEF IInv,
     StepInv

LEMMA ReadEnds ==
  ASSUME IInv, NEW c \in Clients,
         ReadReturns(c)
  PROVE  StepInv
<1>0. /\ op[c] \in {"write", "data"}
      /\ box[c] # None
      /\ Len(out[c]) = size[c]
      /\ op' = [op EXCEPT ![c] = "none"]
      /\ on' = [on EXCEPT ![c] = None]
      /\ todo' = [todo EXCEPT ![c] = {}]
      /\ found' = [found EXCEPT ![c] = {}]
      /\ result' = [result EXCEPT ![c] = "given"]
      /\ UNCHANGED <<entry, num, chunks, published, made, content, stored, builder,
                    abandoned, box, size, out, name, faults>>
  BY DEF ReadReturns, Ends, serverVars, uploadVars, givenVars, removeVars, readVars
<1>1. Fresh' /\ Sent' /\ Complete'
  BY <1>0 DEF IInv, Fresh, Sent, Numbered, Complete, VisibleComplete, Visible
<1>2. BoxKnown' /\ LocalFileIsPrefix'
  BY <1>0 DEF IInv, BoxKnown, LocalFileIsPrefix, IsBeginning
<1>3. TypeOK'
  <2>0. TypeOK
    BY DEF IInv
  <2>1. (op \in [Clients -> {"none", "store", "append", "build", "remove", "write",
    "data"}])'
    BY <1>0, <2>0, BoundsAssumption DEF TypeOK, Files, None, Uploads, Visible
  <2>2. (on \in [Clients -> Files \cup {None}])'
    BY <1>0, <2>0, BoundsAssumption DEF TypeOK, Files, None, Uploads, Visible
  <2>3. (todo \in [Clients -> SUBSET Files])'
    BY <1>0, <2>0, BoundsAssumption DEF TypeOK, Files, None, Uploads, Visible
  <2>4. (result \in [Clients -> {"none", "done", "given", "failed"}])'
    BY <1>0, <2>0, BoundsAssumption DEF TypeOK, Files, None, Uploads, Visible
  <2>5. (found \in [Clients -> SUBSET Files])'
    BY <1>0, <2>0, BoundsAssumption DEF TypeOK, Files, None, Uploads, Visible
  <2> QED
    BY <1>0, <2>0, <2>1, <2>2, <2>3, <2>4, <2>5 DEF TypeOK
<1>4. Quiet'
  BY <1>0 DEF IInv, Quiet, TypeOK, Uploads, None
<1>5. Owned'
  BY <1>0 DEF IInv, Owned, Holds, Fresh, Quiet, Removing, TypeOK, Files, None, Uploads
<1>6. Removing'
  BY <1>0, NamesAssumption DEF IInv, Removing, Complete, Visible, Owned, Holds, Quiet,
     TypeOK, Files, None, Uploads
<1>7. Reading'
  <2>1. box[c] \in Files /\ content[box[c]] \in Seq(Pieces) /\ out[c] \in Seq(Pieces)
    BY <1>0, ContentForms DEF IInv, TypeOK
  <2>2. IsBeginning(out[c], content[box[c]]) /\ size[c] = Len(content[box[c]])
    BY <1>0 DEF IInv, Reading, BoxKnown
  <2>3. out[c] = content[box[c]]
    BY <1>0, <2>1, <2>2 DEF IsBeginning
  <2> SUFFICES ASSUME NEW d \in Clients
               PROVE  /\ op'[d] \in {"write", "data"} =>
                           IF box'[d] = None THEN out'[d] = <<>>
                                             ELSE IsBeginning(out'[d], content'[box'[d]])
                      /\ result'[d] = "given" =>
                           box'[d] # None /\ out'[d] = content'[box'[d]]
    BY DEF Reading, IsBeginning
  <2>4. CASE d = c
    BY <1>0, <2>3, <2>4 DEF IInv, TypeOK
  <2>5. CASE d # c
    <3>1. op'[d] = op[d] /\ result'[d] = result[d]
      BY <1>0, <2>5 DEF IInv, TypeOK
    <3> QED
      BY <1>0, <3>1 DEF IInv, Reading
  <2> QED
    BY <2>4, <2>5
<1>8. OrphansExplained'
  <2> SUFFICES ASSUME NEW f \in Files \ Visible', chunks'[f] # {}, f \notin abandoned'
               PROVE  InProgress(f)'
    BY DEF OrphansExplained
  <2>1. f \in Files \ Visible /\ chunks[f] # {} /\ f \notin abandoned
    BY <1>0, NamesAssumption DEF IInv, TypeOK, Visible, Files, None
  <2>2. PICK d \in Clients : \/ op[d] # "none" /\ (on[d] = f \/ f \in todo[d])
                             \/ builder[d] = f
    BY <2>1 DEF IInv, OrphansExplained, InProgress
  <2>3. CASE d # c
    <3>1. op'[d] = op[d] /\ on'[d] = on[d] /\ todo'[d] = todo[d] /\ builder'[d] = builder[d]
      BY <1>0, <2>3 DEF IInv, TypeOK
    <3> QED
      BY <2>2, <3>1 DEF InProgress
  <2>4. CASE d = c
    <3>1. on[c] = None /\ todo[c] = {}
      BY <1>0 DEF IInv, Quiet
    <3>2. builder'[d] = f
      BY <1>0, <2>1, <2>2, <2>4, <3>1 DEF Files, None
    <3> QED
      BY <3>2 DEF InProgress
  <2> QED
    BY <2>3, <2>4
<1>9. UploadStep
  <2>1. Visible' = Visible
    BY <1>0 DEF Visible
  <2>2. \A d \in Clients : ~(op[d] \in {"store", "build"} /\ result'[d] = "done")
    BY <1>0 DEF IInv, Quiet, TypeOK, Uploads
  <2> QED
    BY <2>1, <2>2 DEF UploadStep
<1>10. RemoveStep
  <2>1. \A d \in Clients : ~(op[d] = "remove" /\ result'[d] = "done")
    BY <1>0 DEF IInv, Quiet, TypeOK, Uploads
  <2> QED
    BY <2>1 DEF RemoveStep
<1>11. StoreStep
  <2>1. TextOf' = TextOf
    BY <1>0 DEF TextOf
  <2>2. Visible' = Visible
    BY <1>0 DEF Visible
  <2>3. GivenTo' = [GivenTo EXCEPT ![c] = {out[c]}]
    BY <1>0, GivenNow DEF IInv, TypeOK
  <2>4. box[c] \in published /\ published \subseteq Files
    BY <1>0 DEF IInv, TypeOK, BoxKnown
  <2>5. out[c] = content[box[c]]
    <3>1. result'[c] = "given" /\ out' = out /\ content' = content /\ box' = box
      BY <1>0 DEF IInv, TypeOK
    <3> QED
      BY <1>7, <3>1 DEF Reading
  <2>6. TextOf[box[c]] = {out[c]}
    BY <2>4, <2>5 DEF TextOf
  <2> QED
    BY <1>0, <2>1, <2>2, <2>3, <2>6 DEF StoreStep
<1> QED
  BY <1>1, <1>2, <1>3, <1>4, <1>5, <1>6, <1>7, <1>8, <1>9, <1>10, <1>11 DEF IInv, StepInv
-----------------------------------------------------------------------------
LEMMA Starts ==
  ASSUME Init
  PROVE  IInv
<1>1. TypeOK
  BY NothingFits, BoundsAssumption DEF Init, TypeOK
<1>2. Fresh /\ Quiet /\ Owned
  BY DEF Init, Fresh, Quiet, Owned, Holds, Files, None
<1>3. Sent
  <2>1. \A f \in Files : Numbered(f, stored[f]) = {} /\ Len(content[f]) = 0
    BY DEF Init, Numbered
  <2> QED
    BY <2>1 DEF Init, Sent
<1>4. Visible = {}
  BY DEF Init, Visible
<1>5. Complete /\ Removing /\ OrphansExplained
  BY <1>4 DEF Init, Complete, VisibleComplete, Removing, OrphansExplained
<1>6. BoxKnown /\ Reading /\ LocalFileIsPrefix
  BY DEF Init, BoxKnown, Reading, LocalFileIsPrefix
<1> QED
  BY <1>1, <1>2, <1>3, <1>5, <1>6 DEF IInv

LEMMA Continuing ==
  ASSUME IInv, NEW c \in Clients, Continue(c)
  PROVE  StepInv
<1>1. CASE InsertChunk(c)
  <2>1. CASE ~Breaks
    BY <1>1, <2>1, ChunkSent
  <2>2. CASE Breaks
    <3>1. PutChunk(on[c]) \/ UNCHANGED chunks
      BY <1>1, <2>2, Fault DEF InsertChunk
    <3> QED
      BY <1>1, <2>2, <3>1, ChunkBreaks, ChunkLost
  <2> QED
    BY <2>1, <2>2
<1>2. CASE AppendReturns(c)
  BY <1>2, AppendEnds
<1>3. CASE InsertEntry(c)
  <2>1. CASE ~Breaks
    BY <1>3, <2>1, EntryPut
  <2>2. CASE Breaks
    <3>1. PutEntry(on[c], name[c]) \/ UNCHANGED <<entry, num, published>>
      BY <1>3, <2>2, Fault DEF InsertEntry
    <3> QED
      BY <1>3, <2>2, <3>1, EntryBreaks, EntryLost
  <2> QED
    BY <2>1, <2>2
<1>4. CASE \E g \in Files : RemoveEntry(c, g)
  <2>1. PICK g \in Files : RemoveEntry(c, g)
    BY <1>4
  <2>2. CASE ~Breaks
    BY <2>1, <2>2, EntryTaken
  <2>3. CASE Breaks
    <3>1. TakeEntry(g) \/ UNCHANGED <<entry, num>>
      BY <2>1, <2>3, Fault DEF RemoveEntry
    <3> QED
      BY <2>1, <2>3, <3>1, TakingBreaks, TakingLost
  <2> QED
    BY <2>2, <2>3
<1>5. CASE RemoveChunks(c)
  <2>1. CASE ~Breaks
    BY <1>5, <2>1, ChunksTaken
  <2>2. CASE Breaks
    <3>1. chunks' = [chunks EXCEPT ![on[c]] = {}] \/ UNCHANGED chunks
      BY <1>5, <2>2, Fault DEF RemoveChunks
    <3> QED
      BY <1>5, <2>2, <3>1, ChunksBreak, ChunksLost
  <2> QED
    BY <2>1, <2>2
<1>6. CASE RemoveReturns(c)
  BY <1>6, RemoveEnds
<1>7. Answered => faults' \in 0 .. MaxFaults
  BY DEF Answered, IInv, TypeOK
<1>8. CASE ReadChunk(c)
  <2>1. CASE ReadFails(c)
    <3>1. /\ op[c] \in {"write", "data"}
          /\ faults' \in 0 .. MaxFaults
          /\ UNCHANGED <<serverVars, uploadVars, box, size, name>>
      BY <1>7, <1>8, Fault DEF ReadChunk
    <3> QED
      BY <2>1, <3>1, ReadBreaks
  <2>2. CASE ~ReadFails(c)
    <3>1. PICK p \in Pieces : /\ <<Len(out[c]), p>> \in chunks[box[c]]
                              /\ out' = [out EXCEPT ![c] = Append(out[c], p)]
      BY <1>8, <2>2 DEF ReadChunk
    <3> QED
      BY <1>8, <2>2, <3>1, ChunkRead
  <2> QED
    BY <2>1, <2>2
<1>9. CASE ReadNothing(c)
  <2>1. /\ op[c] \in {"write", "data"} /\ ReadFails(c)
        /\ faults' \in 0 .. MaxFaults
        /\ UNCHANGED <<serverVars, uploadVars, box, size, name>>
    BY <1>7, <1>9 DEF ReadNothing
  <2> QED
    BY <2>1, ReadBreaks
<1>10. CASE ReadReturns(c)
  BY <1>10, ReadEnds
<1> QED
  BY <1>1, <1>2, <1>3, <1>4, <1>5, <1>6, <1>8, <1>9, <1>10 DEF Continue

LEMMA FindFileSteps ==
  ASSUME IInv, NEW c \in Clients, NEW nm \in Names, FindFile(c, nm)
  PROVE  StepInv
<1>1. CASE Breaks
  BY <1>1, FindBreaks
<1>2. CASE ~Breaks
  <2>1. \/ \E f \in Visible : /\ box' = [box EXCEPT ![c] = f]
                              /\ size' = [size EXCEPT ![c] = num[f]]
        \/ box' = [box EXCEPT ![c] = None] /\ size' = [size EXCEPT ![c] = 0]
    BY <1>2 DEF FindFile
  <2>2. CASE \E f \in Visible : /\ box' = [box EXCEPT ![c] = f]
                                /\ size' = [size EXCEPT ![c] = num[f]]
    <3>1. PICK f \in Visible : /\ box' = [box EXCEPT ![c] = f]
                               /\ size' = [size EXCEPT ![c] = num[f]]
      BY <2>2
    <3> QED
      BY <1>2, <3>1, Found
  <2>3. CASE box' = [box EXCEPT ![c] = None] /\ size' = [size EXCEPT ![c] = 0]
    BY <1>2, <2>3, NotFound
  <2> QED
    BY <2>1, <2>2, <2>3
<1> QED
  BY <1>1, <1>2

LEMMA Steps ==
  ASSUME IInv, Next
  PROVE  StepInv
<1>1. PICK c \in Clients :
        \/ Does(c, "store") /\ \E nm \in Names, text \in Texts : StoreData(c, nm, text)
        \/ Does(c, "build") /\ (BuilderNew(c) \/ BuilderGc(c))
        \/ Does(c, "build") /\ \E part \in Parts : BuilderAppend(c, part)
        \/ Does(c, "build") /\ \E nm \in Names : BuilderBuild(c, nm)
        \/ Does(c, "remove") /\ \E nm \in Names : RemoveFile(c, nm)
        \/ Does(c, "read") /\ \E nm \in Names : FindFile(c, nm)
        \/ Does(c, "read") /\ (Write(c) \/ Data(c))
        \/ Continue(c)
  BY DEF Next
<1>2. CASE \E nm \in Names, text \in Texts : StoreData(c, nm, text)
  BY <1>2, Storing
<1>3. CASE BuilderNew(c)
  BY <1>3, Opening
<1>4. CASE BuilderGc(c)
  BY <1>4, Collecting
<1>5. CASE \E part \in Parts : BuilderAppend(c, part)
  <2>1. PICK part \in Parts : BuilderAppend(c, part)
    BY <1>5
  <2>2. part \in Contents
    BY TextsAssumption
  <2> QED
    BY <2>1, <2>2, Appending
<1>6. CASE \E nm \in Names : BuilderBuild(c, nm)
  BY <1>6, Building
<1>7. CASE \E nm \in Names : RemoveFile(c, nm)
  BY <1>7, Asking
<1>8. CASE \E nm \in Names : FindFile(c, nm)
  BY <1>8, FindFileSteps
<1>9. CASE Write(c)
  BY <1>9, Writing
<1>10. CASE Data(c)
  BY <1>10, Fetching
<1>11. CASE Continue(c)
  BY <1>11, Continuing
<1> QED
  BY <1>1, <1>2, <1>3, <1>4, <1>5, <1>6, <1>7, <1>8, <1>9, <1>10, <1>11

LEMMA Idles ==
  ASSUME IInv, UNCHANGED vars
  PROVE  IInv'
<1>0. UNCHANGED <<entry, num, chunks, published, made, content, stored, builder, abandoned,
                  todo, found, box, size, out, op, on, name, result, faults>>
  BY DEF vars, serverVars, uploadVars, givenVars, removeVars, readVars
<1>1. TypeOK' /\ Fresh' /\ Quiet'
  BY <1>0 DEF IInv, TypeOK, Fresh, Quiet
<1>2. Owned'
  BY <1>0 DEF IInv, Owned, Holds
<1>3. Sent'
  BY <1>0 DEF IInv, Sent, Numbered
<1>4. Complete' /\ Removing'
  BY <1>0 DEF IInv, Complete, VisibleComplete, Visible, Numbered, Removing
<1>5. BoxKnown' /\ Reading' /\ LocalFileIsPrefix'
  BY <1>0 DEF IInv, BoxKnown, Reading, LocalFileIsPrefix, IsBeginning
<1>6. OrphansExplained'
  BY <1>0 DEF IInv, OrphansExplained, InProgress, Visible
<1> QED
  BY <1>1, <1>2, <1>3, <1>4, <1>5, <1>6 DEF IInv

-----------------------------------------------------------------------------
(***************************************************************************)
(* The inductive invariant holds, however the calls of the scripts are     *)
(* interleaved and whichever requests break.                               *)
(***************************************************************************)
THEOREM InvariantHolds == Spec => []IInv
<1>1. IInv /\ [Next]_vars => IInv'
  BY Steps, Idles DEF StepInv
<1> QED
  BY <1>1, Starts, PTL DEF Spec

(***************************************************************************)
(* Every variable has its type.                                            *)
(***************************************************************************)
THEOREM TypeCorrect == Spec => []TypeOK
<1>1. IInv => TypeOK
  BY DEF IInv
<1> QED
  BY <1>1, InvariantHolds, PTL

(***************************************************************************)
(* find_file never meets a file of which a chunk is missing or wrong.      *)
(***************************************************************************)
THEOREM VisibleFilesAreComplete == Spec => []VisibleComplete
<1>1. IInv => VisibleComplete
  BY DEF IInv, Complete
<1> QED
  BY <1>1, InvariantHolds, PTL

(***************************************************************************)
(* Chunks without an entry belong to a call in progress, or to one that    *)
(* was reported as failed or a builder that was given up.                  *)
(***************************************************************************)
THEOREM OrphansAreExplained == Spec => []OrphansExplained
<1>1. IInv => OrphansExplained
  BY DEF IInv
<1> QED
  BY <1>1, InvariantHolds, PTL

(***************************************************************************)
(* The local file of write and the stream of data hold the beginning of    *)
(* one file, at all times.                                                 *)
(***************************************************************************)
THEOREM LocalFilesArePrefixes == Spec => []LocalFileIsPrefix
<1>1. IInv => LocalFileIsPrefix
  BY DEF IInv
<1> QED
  BY <1>1, InvariantHolds, PTL

(***************************************************************************)
(* A stored or built file that was reported as successful can be found,    *)
(* and only a remove_file that met it takes it away.                       *)
(***************************************************************************)
THEOREM UploadsRemain == Spec => UploadsStay
<1>1. IInv /\ [Next]_vars => [UploadStep]_vars
  BY Steps DEF StepInv
<1> QED
  BY <1>1, InvariantHolds, PTL DEF Spec, UploadsStay, UploadStep

(***************************************************************************)
(* A remove_file that returns true has left no file that it met.           *)
(***************************************************************************)
THEOREM RemovedFilesAreGone == Spec => RemovedIsGone
<1>1. IInv /\ [Next]_vars => [RemoveStep]_vars
  BY Steps DEF StepInv
<1> QED
  BY <1>1, InvariantHolds, PTL DEF Spec, RemovedIsGone, RemoveStep

(***************************************************************************)
(* What upload and remove_file report holds: the one until the file is     *)
(* removed, the other at its return.                                       *)
(***************************************************************************)
THEOREM ReportsAreTrue == Spec => ReportsHold
BY UploadsRemain, RemovedFilesAreGone DEF ReportsHold

LEMMA StoreStarts == Init => Store!Init
  BY DEF Init, Store!Init, Visible

LEMMA StoreSteps ==
  ASSUME StoreStep \/ UNCHANGED vars
  PROVE  [Store!Next]_Store!vars
<1>1. CASE StoreStep
  BY <1>1 DEF StoreStep, TextOf, GivenTo, Store!Next, Store!Publish, Store!Withdraw,
              Store!Look, Store!Give, Store!Forget, Store!vars, Visible
<1>2. CASE UNCHANGED vars
  BY <1>2 DEF vars, serverVars, uploadVars, givenVars, removeVars, readVars, Store!vars,
     Visible
<1> QED
  BY <1>1, <1>2

(***************************************************************************)
(* Entry and chunks on the server, written and read request by request,    *)
(* are a store of files that come and go as a whole.                       *)
(***************************************************************************)
THEOREM FilesStayWhole == Spec => FilesComeWhole
<1>1. IInv /\ [Next]_vars => [Store!Next]_Store!vars
  <2>1. IInv /\ Next => StoreStep
    BY Steps DEF StepInv
  <2> QED
    BY <2>1, StoreSteps
<1> QED
  BY <1>1, InvariantHolds, StoreStarts, PTL DEF Spec, FilesComeWhole, Store!Spec
-----------------------------------------------------------------------------
(* Every call comes nearer to its end.                                       *)

\* The requests that a call has still to make, but for the entry of an upload.
\* A removal makes two for each file.
Remaining(c) ==
  CASE op[c] \in Uploads -> Len(content[on[c]]) - stored[on[c]]
    [] op[c] = "remove" -> 2 * Cardinality(todo[c]) - (IF on[c] = None THEN 0 ELSE 1)
    [] OTHER -> size[c] - Len(out[c])

\* What a call counts is counted.
Counted == \A c \in Clients : op[c] # "none" => Remaining(c) \in Nat

\* A call ends, or it goes on with fewer requests to make; what other clients
\* do meanwhile does not give it more.
Nearer ==
  \A c \in Clients : op[c] # "none" =>
    \/ op'[c] = "none"
    \/ /\ op'[c] = op[c]
       /\ Remaining(c)' <= Remaining(c)
       /\ Continue(c) => Remaining(c)' < Remaining(c)

LEMMA UploadedIsHeld ==
  ASSUME IInv, NEW c \in Clients, op[c] \in Uploads
  PROVE  on[c] \in Files /\ on[c] \in Holds(c) /\ on[c] <= made
  BY DEF IInv, TypeOK, Owned, Holds, Uploads

LEMMA ChunksToRemove ==
  ASSUME IInv, NEW c \in Clients
  PROVE  /\ IsFiniteSet(todo[c]) /\ Cardinality(todo[c]) \in Nat
         /\ \A f \in todo[c] : /\ Cardinality(todo[c] \ {f}) = Cardinality(todo[c]) - 1
                               /\ Cardinality(todo[c]) > 0
<1>1. todo[c] \subseteq 1 .. MaxFiles /\ 1 \in Int /\ MaxFiles \in Int
  BY BoundsAssumption DEF IInv, TypeOK, Files
<1>2. IsFiniteSet(1 .. MaxFiles)
  BY <1>1, FS_Interval
<1>3. IsFiniteSet(todo[c]) /\ Cardinality(todo[c]) \in Nat
  BY <1>1, <1>2, FS_Subset, FS_CardinalityType
<1>4. ASSUME NEW f \in todo[c]
      PROVE  /\ Cardinality(todo[c] \ {f}) = Cardinality(todo[c]) - 1
             /\ Cardinality(todo[c]) > 0
  <2>1. /\ IsFiniteSet(todo[c] \ {f})
        /\ Cardinality(todo[c] \ {f}) = Cardinality(todo[c]) - 1
    BY <1>3, FS_RemoveElement
  <2>2. Cardinality(todo[c] \ {f}) \in Nat
    BY <2>1, FS_CardinalityType
  <2> QED
    BY <1>3, <2>1, <2>2
<1> QED
  BY <1>3, <1>4

LEMMA CountedAlways ==
  ASSUME IInv
  PROVE  Counted
<1> SUFFICES ASSUME NEW c \in Clients, op[c] # "none" PROVE Remaining(c) \in Nat
  BY DEF Counted
<1>1. CASE op[c] \in Uploads
  <2>1. on[c] \in Files
    BY <1>1, UploadedIsHeld
  <2>2. Len(content[on[c]]) \in Nat /\ stored[on[c]] \in Nat
        /\ stored[on[c]] <= Len(content[on[c]])
    BY <2>1, ContentForms DEF IInv, TypeOK, Sent
  <2>3. Remaining(c) = Len(content[on[c]]) - stored[on[c]]
    BY <1>1 DEF Remaining, Uploads
  <2> QED
    BY <2>2, <2>3
<1>2. CASE op[c] = "remove"
  <2>1. Remaining(c) = 2 * Cardinality(todo[c]) - (IF on[c] = None THEN 0 ELSE 1)
    BY <1>2 DEF Remaining, Uploads
  <2>2. on[c] # None => on[c] \in todo[c]
    BY <1>2 DEF IInv, Removing
  <2>3. /\ Cardinality(todo[c]) \in Nat
        /\ on[c] # None => Cardinality(todo[c]) > 0
    BY <2>2, ChunksToRemove
  <2> QED
    BY <2>1, <2>3
<1>3. CASE op[c] \in {"write", "data"}
  <2>1. Remaining(c) = size[c] - Len(out[c])
    BY <1>3 DEF Remaining, Uploads
  <2>2. size[c] \in Nat /\ Len(out[c]) \in Nat
    BY ContentForms DEF IInv, TypeOK
  <2>3. CASE box[c] = None
    <3>1. Len(out[c]) = 0
      BY <1>3, <2>3 DEF IInv, Reading
    <3> QED
      BY <2>1, <2>2, <3>1
  <2>4. CASE box[c] # None
    <3>1. Len(out[c]) <= size[c]
      BY <1>3, <2>4 DEF IInv, Reading, BoxKnown, IsBeginning
    <3> QED
      BY <2>1, <2>2, <3>1
  <2> QED
    BY <2>3, <2>4
<1> QED
  BY <1>1, <1>2, <1>3 DEF IInv, TypeOK, Uploads

\* What a client does leaves alone what the call of another is about.
Apart(d) ==
  /\ op'[d] = op[d] /\ on'[d] = on[d] /\ todo'[d] = todo[d]
  /\ size'[d] = size[d] /\ out'[d] = out[d]
  /\ op[d] \in Uploads => /\ content'[on[d]] = content[on[d]]
                          /\ stored'[on[d]] = stored[on[d]]

LEMMA ApartRemaining ==
  ASSUME NEW d, Apart(d)
  PROVE  Remaining(d)' = Remaining(d)
  BY DEF Apart, Remaining

LEMMA StartsApart ==
  ASSUME IInv, NEW c \in Clients, NEW d \in Clients, d # c, NEW nm, NEW text,
         \/ StoreData(c, nm, text) \/ BuilderNew(c) \/ BuilderGc(c)
         \/ BuilderAppend(c, text) \/ BuilderBuild(c, nm) \/ RemoveFile(c, nm)
         \/ FindFile(c, nm) \/ Write(c) \/ Data(c)
  PROVE  Apart(d)
<1>1. /\ op \in [Clients -> {"none", "store", "append", "build", "remove", "write", "data"}]
      /\ on \in [Clients -> Files \cup {None}] /\ todo \in [Clients -> SUBSET Files]
      /\ size \in [Clients -> 0 .. MaxChunks] /\ out \in [Clients -> Contents]
      /\ content \in [Files -> Contents] /\ made \in Nat
  BY DEF IInv, TypeOK
<1>2. op[d] \in Uploads => on[d] \in Files /\ on[d] \in Holds(d) /\ on[d] <= made
  BY UploadedIsHeld
<1>3. CASE StoreData(c, nm, text)
  <2>1. op[d] \in Uploads => content'[on[d]] = content[on[d]]
    <3>1. op[d] \in Uploads => on[d] # made + 1 /\ on[d] \in Files
      BY <1>1, <1>2 DEF Files
    <3> QED
      BY <1>1, <1>3, <3>1 DEF StoreData
  <2> QED
    BY <1>1, <1>3, <2>1 DEF StoreData, Begins, removeVars, readVars, Apart
<1>4. CASE BuilderNew(c) \/ BuilderGc(c)
  BY <1>4 DEF BuilderNew, BuilderGc, removeVars, readVars, Apart
<1>5. CASE BuilderAppend(c, text)
  <2>1. op[d] \in Uploads => content'[on[d]] = content[on[d]]
    <3>1. builder[c] \in Files => builder[c] \in Holds(c)
      BY DEF Holds
    <3>2. Holds(c) \cap Holds(d) = {}
      BY DEF IInv, Owned
    <3>3. op[d] \in Uploads => on[d] # builder[c]
      BY <1>2, <3>1, <3>2
    <3> QED
      BY <1>1, <1>2, <1>5, <3>3 DEF BuilderAppend
  <2> QED
    BY <1>1, <1>5, <2>1 DEF BuilderAppend, Begins, removeVars, readVars, Apart
<1>6. CASE BuilderBuild(c, nm)
  BY <1>1, <1>6 DEF BuilderBuild, Begins, uploadVars, givenVars, removeVars, readVars, Apart
<1>7. CASE RemoveFile(c, nm)
  BY <1>1, <1>7 DEF RemoveFile, Begins, uploadVars, givenVars, readVars, Apart
<1>8. CASE FindFile(c, nm)
  BY <1>1, <1>8 DEF FindFile, uploadVars, givenVars, removeVars, Apart
<1>9. CASE Write(c) \/ Data(c)
  BY <1>1, <1>9 DEF Write, Data, Begins, uploadVars, givenVars, removeVars, Apart
<1> QED
  BY <1>3, <1>4, <1>5, <1>6, <1>7, <1>8, <1>9

LEMMA RequestsApart ==
  ASSUME IInv, NEW c \in Clients, NEW d \in Clients, d # c, Continue(c)
  PROVE  Apart(d)
<1>1. /\ op \in [Clients -> {"none", "store", "append", "build", "remove", "write", "data"}]
      /\ on \in [Clients -> Files \cup {None}] /\ todo \in [Clients -> SUBSET Files]
      /\ size \in [Clients -> 0 .. MaxChunks] /\ out \in [Clients -> Contents]
      /\ stored \in [Files -> 0 .. MaxChunks]
  BY DEF IInv, TypeOK
<1>2. op[d] \in Uploads => on[d] \in Files /\ on[d] \in Holds(d)
  BY UploadedIsHeld
<1>3. ASSUME NEW r, Ends(c, r) \/ UNCHANGED <<op, on, todo>>
      PROVE  op'[d] = op[d] /\ on'[d] = on[d] /\ todo'[d] = todo[d]
  BY <1>1, <1>3 DEF Ends
<1>4. CASE InsertChunk(c)
  <2>1. op[d] \in Uploads => stored'[on[d]] = stored[on[d]]
    <3>1. on[c] \in Holds(c)
      BY <1>4, UploadedIsHeld DEF InsertChunk
    <3>2. Holds(c) \cap Holds(d) = {}
      BY DEF IInv, Owned
    <3> QED
      BY <1>1, <1>2, <1>4, <3>1, <3>2 DEF InsertChunk
  <2>2. Ends(c, "failed") \/ UNCHANGED <<op, on, todo>>
    BY <1>4 DEF InsertChunk, GoesOn, UploadFails
  <2> QED
    BY <1>3, <1>4, <2>1, <2>2 DEF InsertChunk, readVars, Apart
<1>5. CASE AppendReturns(c)
  BY <1>3, <1>5 DEF AppendReturns, uploadVars, givenVars, readVars, Apart
<1>6. CASE InsertEntry(c)
  <2>1. Ends(c, "failed") \/ Ends(c, "done")
    BY <1>6 DEF InsertEntry, UploadFails
  <2> QED
    BY <1>3, <1>6, <2>1 DEF InsertEntry, readVars, Apart
<1>7. ASSUME NEW f \in Files, RemoveEntry(c, f)
      PROVE  Apart(d)
  <2>1. \/ Ends(c, "failed")
        \/ op' = op /\ todo' = todo /\ on' = [on EXCEPT ![c] = f]
    BY <1>7 DEF RemoveEntry, GoesOn, RemoveFails
  <2>2. op'[d] = op[d] /\ on'[d] = on[d] /\ todo'[d] = todo[d]
    BY <1>1, <1>3, <2>1
  <2> QED
    BY <1>7, <2>2 DEF RemoveEntry, givenVars, readVars, Apart
<1>8. CASE RemoveChunks(c)
  <2>1. \/ Ends(c, "failed")
        \/ /\ op' = op /\ on' = [on EXCEPT ![c] = None]
           /\ todo' = [todo EXCEPT ![c] = @ \ {on[c]}]
    BY <1>8 DEF RemoveChunks, GoesOn, RemoveFails
  <2>2. op'[d] = op[d] /\ on'[d] = on[d] /\ todo'[d] = todo[d]
    BY <1>1, <1>3, <2>1
  <2> QED
    BY <1>8, <2>2 DEF RemoveChunks, givenVars, readVars, Apart
<1>9. CASE RemoveReturns(c)
  BY <1>3, <1>9 DEF RemoveReturns, uploadVars, givenVars, readVars, Apart
<1>10. CASE ReadChunk(c) \/ ReadNothing(c) \/ ReadReturns(c)
  <2>1. Ends(c, "failed") \/ Ends(c, "given") \/ UNCHANGED <<op, on, todo>>
    BY <1>10 DEF ReadChunk, ReadNothing, ReadReturns, GoesOn, ReadFails
  <2>2. out'[d] = out[d]
    BY <1>1, <1>10 DEF ReadChunk, ReadNothing, ReadReturns, ReadFails, readVars
  <2>3. content' = content /\ stored' = stored /\ size' = size
    BY <1>10 DEF ReadChunk, ReadNothing, ReadReturns, uploadVars, givenVars, readVars
  <2> QED
    BY <1>3, <2>1, <2>2, <2>3 DEF Apart
<1> QED
  BY <1>4, <1>5, <1>6, <1>7, <1>8, <1>9, <1>10 DEF Continue

\* The call that a request belongs to.
LEMMA RequestCounts ==
  ASSUME IInv, NEW c \in Clients, Continue(c)
  PROVE  op'[c] = "none" \/ (op'[c] = op[c] /\ Remaining(c)' < Remaining(c))
<1>1. /\ op \in [Clients -> {"none", "store", "append", "build", "remove", "write", "data"}]
      /\ on \in [Clients -> Files \cup {None}] /\ todo \in [Clients -> SUBSET Files]
      /\ size \in [Clients -> 0 .. MaxChunks] /\ out \in [Clients -> Contents]
      /\ stored \in [Files -> 0 .. MaxChunks] /\ content \in [Files -> Contents]
  BY DEF IInv, TypeOK
<1>2. ASSUME NEW r, Ends(c, r)
      PROVE  op'[c] = "none"
  BY <1>1, <1>2 DEF Ends
<1>3. CASE InsertChunk(c)
  <2>1. CASE UploadFails(c)
    BY <1>2, <2>1 DEF UploadFails
  <2>2. CASE ~UploadFails(c)
    <3>1. /\ op[c] \in Uploads /\ op' = op /\ on' = on /\ content' = content
          /\ stored' = [stored EXCEPT ![on[c]] = @ + 1]
      BY <1>3, <2>2 DEF InsertChunk, GoesOn
    <3>2. on[c] \in Files
      BY <3>1, UploadedIsHeld
    <3>3. stored'[on[c]] = stored[on[c]] + 1 /\ stored[on[c]] \in Nat
          /\ Len(content[on[c]]) \in Nat
      BY <1>1, <3>1, <3>2, ContentForms
    <3>4. /\ Remaining(c) = Len(content[on[c]]) - stored[on[c]]
          /\ Remaining(c)' = Len(content[on[c]]) - stored'[on[c]]
      BY <3>1 DEF Remaining, Uploads
    <3> QED
      BY <3>1, <3>3, <3>4
  <2> QED
    BY <2>1, <2>2
<1>4. CASE AppendReturns(c)
  BY <1>2, <1>4 DEF AppendReturns
<1>5. CASE InsertEntry(c)
  BY <1>2, <1>5 DEF InsertEntry, UploadFails
<1>6. ASSUME NEW f \in Files, RemoveEntry(c, f)
      PROVE  op'[c] = "none" \/ (op'[c] = op[c] /\ Remaining(c)' < Remaining(c))
  <2>1. CASE RemoveFails(c)
    BY <1>2, <2>1 DEF RemoveFails
  <2>2. CASE ~RemoveFails(c)
    <3>1. /\ op[c] = "remove" /\ on[c] = None /\ op' = op /\ todo' = todo
          /\ on'[c] = f /\ f # None
      BY <1>1, <1>6, <2>2 DEF RemoveEntry, GoesOn, Files, None
    <3>2. Cardinality(todo[c]) \in Nat
      BY ChunksToRemove
    <3>3. /\ Remaining(c) = 2 * Cardinality(todo[c])
          /\ Remaining(c)' = 2 * Cardinality(todo[c]) - 1
      BY <3>1, <3>2 DEF Remaining, Uploads
    <3> QED
      BY <3>1, <3>2, <3>3
  <2> QED
    BY <2>1, <2>2
<1>7. CASE RemoveChunks(c)
  <2>1. CASE RemoveFails(c)
    BY <1>2, <2>1 DEF RemoveFails
  <2>2. CASE ~RemoveFails(c)
    <3>1. /\ op[c] = "remove" /\ on[c] # None /\ op' = op /\ on'[c] = None
          /\ todo'[c] = todo[c] \ {on[c]}
      BY <1>1, <1>7, <2>2 DEF RemoveChunks, GoesOn
    <3>2. on[c] \in todo[c]
      BY <3>1 DEF IInv, Removing
    <3>3. /\ Cardinality(todo[c] \ {on[c]}) = Cardinality(todo[c]) - 1
          /\ Cardinality(todo[c]) \in Nat
      BY <3>2, ChunksToRemove
    <3>4. /\ Remaining(c) = 2 * Cardinality(todo[c]) - 1
          /\ Remaining(c)' = 2 * Cardinality(todo[c] \ {on[c]})
      BY <3>1, <3>3 DEF Remaining, Uploads
    <3> QED
      BY <3>1, <3>3, <3>4
  <2> QED
    BY <2>1, <2>2
<1>8. CASE RemoveReturns(c)
  BY <1>2, <1>8 DEF RemoveReturns
<1>9. CASE ReadChunk(c)
  <2>1. CASE ReadFails(c)
    BY <1>2, <2>1 DEF ReadFails
  <2>2. CASE ~ReadFails(c)
    <3>1. PICK p \in Pieces : out' = [out EXCEPT ![c] = Append(@, p)]
      BY <1>9, <2>2 DEF ReadChunk
    <3>2. op[c] \in {"write", "data"} /\ op' = op /\ size' = size
      BY <1>9, <2>2 DEF ReadChunk, GoesOn
    <3>3. out[c] \in Seq(Pieces) /\ size[c] \in Nat
      BY <1>1, ContentForms
    <3>4. out'[c] = Append(out[c], p)
      BY <1>1, <3>1
    <3>5. Len(out'[c]) = Len(out[c]) + 1 /\ Len(out[c]) \in Nat
      BY <3>3, <3>4
    <3>6. Remaining(c) = size[c] - Len(out[c]) /\ Remaining(c)' = size[c] - Len(out'[c])
      BY <3>2 DEF Remaining, Uploads
    <3> QED
      BY <3>2, <3>3, <3>5, <3>6
  <2> QED
    BY <2>1, <2>2
<1>10. CASE ReadNothing(c) \/ ReadReturns(c)
  BY <1>2, <1>10 DEF ReadNothing, ReadReturns, ReadFails
<1> QED
  BY <1>3, <1>4, <1>5, <1>6, <1>7, <1>8, <1>9, <1>10 DEF Continue

LEMMA StepsNearer ==
  ASSUME IInv, Next
  PROVE  Nearer
<1>1. PICK c \in Clients :
        \/ \E nm \in Names, text \in Texts : StoreData(c, nm, text)
        \/ BuilderNew(c) \/ BuilderGc(c)
        \/ \E part \in Parts : BuilderAppend(c, part)
        \/ \E nm \in Names : BuilderBuild(c, nm)
        \/ \E nm \in Names : RemoveFile(c, nm)
        \/ \E nm \in Names : FindFile(c, nm)
        \/ Write(c) \/ Data(c)
        \/ Continue(c)
  BY DEF Next
<1>2. \A d \in Clients : d # c => Apart(d)
  BY <1>1, StartsApart, RequestsApart
<1>3. ASSUME op[c] # "none" PROVE Continue(c)
  BY <1>1, <1>3 DEF StoreData, BuilderNew, BuilderGc, BuilderAppend, BuilderBuild, RemoveFile,
                    FindFile, Write, Data, Begins
<1> SUFFICES ASSUME NEW d \in Clients, op[d] # "none", op'[d] # "none"
             PROVE  /\ op'[d] = op[d] /\ Remaining(d)' <= Remaining(d)
                    /\ Continue(d) => Remaining(d)' < Remaining(d)
  BY DEF Nearer
<1>4. Remaining(d) \in Nat /\ Remaining(d)' \in Nat
  <2>1. IInv'
    BY Steps DEF StepInv
  <2>2. Counted'
    BY <2>1, CountedAlways, PTL
  <2> QED
    BY <2>2, CountedAlways DEF Counted
<1>5. ASSUME Continue(d)
      PROVE  op'[d] = op[d] /\ Remaining(d)' < Remaining(d)
  BY <1>5, RequestCounts
<1>6. CASE d = c
  BY <1>3, <1>4, <1>5, <1>6
<1>7. CASE d # c
  <2>1. op'[d] = op[d] /\ Remaining(d)' = Remaining(d)
    BY <1>2, <1>7, ApartRemaining DEF Apart
  <2> QED
    BY <1>4, <1>5, <2>1
<1> QED
  BY <1>6, <1>7

(***************************************************************************)
(* Each request brings the call it belongs to nearer to its return, and    *)
(* other clients do not give it more to do: the chunks of an upload, the   *)
(* entries that remove_file met and num_chunks() of a GridFile are counted *)
(* once. An upload that has sent all its chunks returns by its next        *)
(* request.                                                                *)
(***************************************************************************)
THEOREM CallsComeNearer == Spec => []Counted /\ [][Nearer]_vars
<1>1. IInv => Counted
  BY CountedAlways
<1>2. IInv /\ [Next]_vars => [Nearer]_vars
  BY StepsNearer
<1> QED
  BY <1>1, <1>2, InvariantHolds, PTL DEF Spec
=============================================================================
