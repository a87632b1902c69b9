------------------------------- MODULE GridFS -------------------------------
(***************************************************************************)
(* Files in GridFS: mongo_gridfs.cpp, mongo_gridfile.cpp and               *)
(* mongo_gridfilebuilder.cpp, used by several scripts at a time.           *)
(*                                                                         *)
(* Every handler is one call of the driver in a try block, but that call   *)
(* is many requests to the server, and other clients' requests come in     *)
(* between.  The requests are external, the driver is not in the           *)
(* repository: an upload stores chunk after chunk under a fresh id and     *)
(* then the entry that makes the file visible; remove_file looks for the   *)
(* entries of a name and takes each away, then its chunks; data and write  *)
(* fetch the chunks of a GridFile, which is a copy of the entry, by their  *)
(* number.  A loop over gridfile:chunk() is data with the loop in the      *)
(* script.                                                                 *)
(*                                                                         *)
(* A request may break: it was executed or not, the driver throws and the  *)
(* handler returns nil or false and a message.  What the driver keeps of a *)
(* builder whose request broke cannot be seen here: a script that was told *)
(* so does not use the builder again.                                      *)
(***************************************************************************)
EXTENDS Naturals, Sequences

CONSTANTS
  Clients,
  Roles,      \* what each client's script does: "store", "build", "remove", "read"
  Names,      \* the names of remote files
  Pieces,     \* what a chunk may contain
  Texts,      \* what the scripts store in one call, as pieces
  Parts,      \* what they give a builder in one call
  MaxChunks,  \* bound: how many chunks a file has
  MaxFiles,   \* bound: how many ids are ever given out
  MaxFaults   \* bound: how many requests break

None == 0

ASSUME NamesAssumption == None \notin Names
ASSUME BoundsAssumption == MaxChunks \in Nat /\ MaxFiles \in Nat /\ MaxFaults \in Nat

Files == 1 .. MaxFiles
Contents == UNION {[1 .. k -> Pieces] : k \in 0 .. MaxChunks}

ASSUME TextsAssumption == Texts \cup Parts \subseteq Contents

VARIABLES
  entry,      \* fs.files: the name of each file that has an entry, or None
  num,        \* and how many chunks the entry says it has
  chunks,     \* fs.chunks: the numbers and pieces, by id
  made,       \* ids given out so far
  content,    \* what was to be stored under each id
  stored,     \* how many chunks have been sent
  op,         \* the call each client is in
  on,         \* the file it uploads, or whose chunks it removes
  name,       \* the remote name it was given
  todo,       \* the files it has still to remove
  builder,    \* the file that a GridFileBuilder of the client is for, or None
  box,        \* the client's GridFile: the file it was made from, or None
  size,       \* and its num_chunks()
  out,        \* what write and data have put in the local file or the stream
  result,     \* what the last call returned
  faults,
  published,  \* history: files that had an entry
  abandoned,  \* history: files whose upload or removal was reported as failed,
              \* or whose builder was given up
  found       \* the files that the client's remove_file met

serverVars == <<entry, num, chunks, published>>
givenVars == <<made, content, stored, builder>>
uploadVars == <<givenVars, abandoned>>
removeVars == <<todo, found>>
readVars == <<box, size, out>>
vars == <<serverVars, uploadVars, removeVars, readVars, op, on, name, result, faults>>

Init ==
  /\ entry = [f \in Files |-> None]
  /\ num = [f \in Files |-> 0]
  /\ chunks = [f \in Files |-> {}]
  /\ made = 0
  /\ content = [f \in Files |-> <<>>]
  /\ stored = [f \in Files |-> 0]
  /\ op = [c \in Clients |-> "none"]
  /\ on = [c \in Clients |-> None]
  /\ name \in [Clients -> Names]
  /\ todo = [c \in Clients |-> {}]
  /\ builder = [c \in Clients |-> None]
  /\ box = [c \in Clients |-> None]
  /\ size = [c \in Clients |-> 0]
  /\ out = [c \in Clients |-> <<>>]
  /\ result = [c \in Clients |-> "none"]
  /\ faults = 0
  /\ published = {}
  /\ abandoned = {}
  /\ found = [c \in Clients |-> {}]

Visible == {f \in Files : entry[f] # None}

(***************************************************************************)
(* A call begins, and it ends with a result.                               *)
(***************************************************************************)
Begins(c, what) ==
  /\ op[c] = "none"
  /\ op' = [op EXCEPT ![c] = what]
  /\ result' = [result EXCEPT ![c] = "none"]
  /\ UNCHANGED faults

Ends(c, r) ==
  /\ op' = [op EXCEPT ![c] = "none"]
  /\ on' = [on EXCEPT ![c] = None]
  /\ todo' = [todo EXCEPT ![c] = {}]
  /\ found' = [found EXCEPT ![c] = {}]
  /\ result' = [result EXCEPT ![c] = r]

GoesOn == UNCHANGED <<op, found, result>>
Answered == UNCHANGED faults
Breaks ==
  /\ faults < MaxFaults
  /\ faults' = faults + 1

(***************************************************************************)
(* Uploads.  store_file and store_data are given the whole content, a      *)
(* builder gets it by and by and may keep back a part until build.         *)
(***************************************************************************)
StoreData(c, nm, text) ==
  /\ made < MaxFiles
  /\ Begins(c, "store")
  /\ made' = made + 1
  /\ content' = [content EXCEPT ![made + 1] = text]
  /\ on' = [on EXCEPT ![c] = made + 1]
  /\ name' = [name EXCEPT ![c] = nm]
  /\ UNCHANGED <<serverVars, stored, builder, abandoned, removeVars, readVars>>

\* After build the same builder begins another file, as a new one would.
BuilderNew(c) ==
  /\ op[c] = "none"
  /\ builder[c] = None
  /\ made < MaxFiles
  /\ made' = made + 1
  /\ builder' = [builder EXCEPT ![c] = made + 1]
  /\ result' = [result EXCEPT ![c] = "done"]
  /\ UNCHANGED <<serverVars, content, stored, abandoned, removeVars, readVars,
                 op, on, name, faults>>

BuilderAppend(c, text) ==
  /\ builder[c] # None
  /\ content[builder[c]] \o text \in Contents
  /\ Begins(c, "append")
  /\ on' = [on EXCEPT ![c] = builder[c]]
  /\ content' = [content EXCEPT ![builder[c]] = @ \o text]
  /\ UNCHANGED <<serverVars, made, stored, builder, abandoned, removeVars,
                 readVars, name>>

BuilderBuild(c, nm) ==
  /\ builder[c] # None
  /\ Begins(c, "build")
  /\ on' = [on EXCEPT ![c] = builder[c]]
  /\ name' = [name EXCEPT ![c] = nm]
  /\ UNCHANGED <<serverVars, uploadVars, removeVars, readVars>>

\* Mutant: a builder is deleted again.
BuilderGcAgain(c) ==
  /\ op[c] = "none"
  /\ builder' = [builder EXCEPT ![c] = None]
  /\ abandoned' = abandoned \cup {builder[c]}
  /\ UNCHANGED <<serverVars, made, content, stored, removeVars, readVars, op, on, name,
                 result, faults>>

\* A builder that was never built is collected.
BuilderGc(c) ==
  /\ op[c] = "none"
  /\ builder[c] # None
  /\ builder' = [builder EXCEPT ![c] = None]
  /\ abandoned' = abandoned \cup {builder[c]}
  /\ UNCHANGED <<serverVars, made, content, stored, removeVars, readVars,
                 op, on, name, result, faults>>

Uploads == {"store", "append", "build"}

\* Mutant: what is caught is not reported.
UploadFailsSilently(c) ==
  /\ Breaks
  /\ Ends(c, "done")
  /\ builder' = [builder EXCEPT ![c] = IF op[c] = "store" THEN @ ELSE None]
  /\ abandoned' = abandoned \cup {on[c]}

\* The handler's catch clause.
UploadFails(c) ==
  /\ Breaks
  /\ Ends(c, "failed")
  /\ builder' = [builder EXCEPT ![c] = IF op[c] = "store" THEN @ ELSE None]
  /\ abandoned' = abandoned \cup {on[c]}

PutChunk(f) ==
  chunks' = [chunks EXCEPT ![f] = @ \cup {<<stored[f], content[f][stored[f] + 1]>>}]

InsertChunk(c) ==
  /\ op[c] \in Uploads
  /\ stored[on[c]] < Len(content[on[c]])
  /\ \/ /\ PutChunk(on[c])
        /\ stored' = [stored EXCEPT ![on[c]] = @ + 1]
        /\ Answered /\ GoesOn
        /\ UNCHANGED <<builder, abandoned, on, todo>>
     \/ /\ PutChunk(on[c]) \/ UNCHANGED chunks
        /\ UNCHANGED stored
        /\ UploadFails(c)
  /\ UNCHANGED <<entry, num, published, made, content, readVars, name>>

\* append returns when what it keeps back is not enough for a chunk.
AppendReturns(c) ==
  /\ op[c] = "append"
  /\ Ends(c, "done")
  /\ UNCHANGED <<serverVars, uploadVars, readVars, name, faults>>

PutEntry(f, nm) ==
  /\ entry' = [entry EXCEPT ![f] = nm]
  /\ num' = [num EXCEPT ![f] = stored[f]]
  /\ published' = published \cup {f}

\* Mutant: what the builder keeps back is forgotten.
InsertEntryEarly(c) ==
  /\ op[c] \in {"store", "build"}
  /\ PutEntry(on[c], name[c])
  /\ Answered /\ Ends(c, "done")
  /\ builder' = [builder EXCEPT ![c] = IF op[c] = "build" THEN None ELSE @]
  /\ UNCHANGED <<chunks, made, content, stored, abandoned, readVars, name>>

InsertEntry(c) ==
  /\ op[c] \in {"store", "build"}
  /\ stored[on[c]] = Len(content[on[c]])
  /\ \/ /\ PutEntry(on[c], name[c])
        /\ Answered /\ Ends(c, "done")
        /\ builder' = [builder EXCEPT ![c] = IF op[c] = "build" THEN None ELSE @]
        /\ UNCHANGED abandoned
     \/ /\ PutEntry(on[c], name[c]) \/ UNCHANGED <<entry, num, published>>
        /\ UploadFails(c)
  /\ UNCHANGED <<chunks, made, content, stored, readVars, name>>

(***************************************************************************)
(* remove_file.                                                            *)
(***************************************************************************)
RemoveFile(c, nm) ==
  LET S == {f \in Visible : entry[f] = nm} IN
    /\ Begins(c, "remove")
    /\ name' = [name EXCEPT ![c] = nm]
    /\ on' = [on EXCEPT ![c] = None]
    /\ todo' = [todo EXCEPT ![c] = S]
    /\ found' = [found EXCEPT ![c] = S]
    /\ UNCHANGED <<serverVars, uploadVars, readVars>>

RemoveFails(c) ==
  /\ Breaks
  /\ Ends(c, "failed")
  /\ abandoned' = abandoned \cup todo[c]

TakeEntry(f) ==
  /\ entry' = [entry EXCEPT ![f] = None]
  /\ num' = [num EXCEPT ![f] = 0]

\* Mutant: the chunks are left.
RemoveEntryOnly(c, f) ==
  /\ op[c] = "remove"
  /\ f \in todo[c]
  /\ TakeEntry(f)
  /\ todo' = [todo EXCEPT ![c] = @ \ {f}]
  /\ Answered /\ GoesOn
  /\ UNCHANGED <<chunks, published, uploadVars, on, readVars, name>>

RemoveEntry(c, f) ==
  /\ op[c] = "remove"
  /\ on[c] = None
  /\ f \in todo[c]
  /\ \/ /\ TakeEntry(f)
        /\ on' = [on EXCEPT ![c] = f]
        /\ Answered /\ GoesOn
        /\ UNCHANGED <<abandoned, todo>>
     \/ /\ TakeEntry(f) \/ UNCHANGED <<entry, num>>
        /\ RemoveFails(c)
  /\ UNCHANGED <<chunks, published, givenVars, readVars, name>>

\* Mutant: the loop does not go on to the next entry.
RemoveChunksAgain(c) ==
  /\ op[c] = "remove"
  /\ on[c] # None
  /\ chunks' = [chunks EXCEPT ![on[c]] = {}]
  /\ on' = [on EXCEPT ![c] = None]
  /\ Answered /\ GoesOn
  /\ UNCHANGED <<entry, num, published, uploadVars, todo, readVars, name>>

RemoveChunks(c) ==
  /\ op[c] = "remove"
  /\ on[c] # None
  /\ \/ /\ chunks' = [chunks EXCEPT ![on[c]] = {}]
        /\ on' = [on EXCEPT ![c] = None]
        /\ todo' = [todo EXCEPT ![c] = @ \ {on[c]}]
        /\ Answered /\ GoesOn
        /\ UNCHANGED abandoned
     \/ /\ chunks' = [chunks EXCEPT ![on[c]] = {}] \/ UNCHANGED chunks
        /\ RemoveFails(c)
  /\ UNCHANGED <<entry, num, published, givenVars, readVars, name>>

RemoveReturns(c) ==
  /\ op[c] = "remove"
  /\ on[c] = None
  /\ todo[c] = {}
  /\ Ends(c, "done")
  /\ UNCHANGED <<serverVars, uploadVars, readVars, name, faults>>

(***************************************************************************)
(* find_file, find_file_by_name: one request.  A GridFile without an entry *)
(* is a box all the same; exists() tells.                                  *)
(***************************************************************************)
FindFile(c, nm) ==
  LET S == {f \in Visible : entry[f] = nm} IN
    /\ op[c] = "none"
    /\ \/ /\ Answered
          /\ \/ \E f \in S :
                  /\ box' = [box EXCEPT ![c] = f]
                  /\ size' = [size EXCEPT ![c] = num[f]]
             \/ /\ S = {}
                /\ box' = [box EXCEPT ![c] = None]
                /\ size' = [size EXCEPT ![c] = 0]
          /\ result' = [result EXCEPT ![c] = "done"]
       \/ /\ Breaks
          /\ UNCHANGED <<box, size>>
          /\ result' = [result EXCEPT ![c] = "failed"]
    /\ UNCHANGED <<serverVars, uploadVars, removeVars, out, op, on, name>>

(***************************************************************************)
(* write puts the chunks in a local file it has emptied first, data in a   *)
(* stream that is given up when a request fails.                           *)
(***************************************************************************)
Write(c) ==
  /\ Begins(c, "write")
  /\ out' = [out EXCEPT ![c] = <<>>]
  /\ UNCHANGED <<serverVars, uploadVars, removeVars, box, size, on, name>>

Data(c) ==
  /\ Begins(c, "data")
  /\ out' = [out EXCEPT ![c] = <<>>]
  /\ UNCHANGED <<serverVars, uploadVars, removeVars, box, size, on, name>>

\* Mutant: the catch clause returns what it has.
ReadFailsGiven(c) ==
  /\ Ends(c, "given")
  /\ UNCHANGED out

\* The handlers' catch clauses.
ReadFails(c) ==
  /\ Ends(c, "failed")
  /\ out' = [out EXCEPT ![c] = IF op[c] = "data" THEN <<>> ELSE @]

\* Mutant: the chunk is one of the file that has the name now.
ReadChunkOfName(c) ==
  /\ op[c] \in {"write", "data"}
  /\ box[c] # None
  /\ Len(out[c]) < size[c]
  /\ \/ /\ \E f \in Visible, p \in Pieces :
             /\ <<Len(out[c]), p>> \in chunks[f]
             /\ out' = [out EXCEPT ![c] = Append(@, p)]
        /\ GoesOn
        /\ UNCHANGED <<on, todo>>
     \/ ReadFails(c)
  /\ Answered
  /\ UNCHANGED <<serverVars, uploadVars, box, size, name>>

ReadChunk(c) ==
  /\ op[c] \in {"write", "data"}
  /\ box[c] # None
  /\ Len(out[c]) < size[c]
  /\ \/ /\ \E p \in Pieces :
             /\ <<Len(out[c]), p>> \in chunks[box[c]]
             /\ out' = [out EXCEPT ![c] = Append(@, p)]
        /\ Answered /\ GoesOn
        /\ UNCHANGED <<on, todo>>
     \/ \* "chunk is empty!"
        /\ \A p \in Pieces : <<Len(out[c]), p>> \notin chunks[box[c]]
        /\ Answered /\ ReadFails(c)
     \/ Breaks /\ ReadFails(c)
  /\ UNCHANGED <<serverVars, uploadVars, box, size, name>>

\* An assertion if there is no such file.
ReadNothing(c) ==
  /\ op[c] \in {"write", "data"}
  /\ box[c] = None
  /\ Answered /\ ReadFails(c)
  /\ UNCHANGED <<serverVars, uploadVars, box, size, name>>

ReadReturns(c) ==
  /\ op[c] \in {"write", "data"}
  /\ box[c] # None
  /\ Len(out[c]) = size[c]
  /\ Ends(c, "given")
  /\ UNCHANGED <<serverVars, uploadVars, readVars, name, faults>>

-----------------------------------------------------------------------------
\* The requests and the return of the call a client is in.
Continue(c) ==
  \/ InsertChunk(c) \/ AppendReturns(c) \/ InsertEntry(c)
  \/ \E f \in Files : RemoveEntry(c, f)
  \/ RemoveChunks(c) \/ RemoveReturns(c)
  \/ ReadChunk(c) \/ ReadNothing(c) \/ ReadReturns(c)

Does(c, role) == role \in Roles[c]

Next ==
  \E c \in Clients :
    \/ Does(c, "store") /\ \E nm \in Names, text \in Texts : StoreData(c, nm, text)
    \/ Does(c, "build") /\ (BuilderNew(c) \/ BuilderGc(c))
    \/ Does(c, "build") /\ \E part \in Parts : BuilderAppend(c, part)
    \/ Does(c, "build") /\ \E nm \in Names : BuilderBuild(c, nm)
    \/ Does(c, "remove") /\ \E nm \in Names : RemoveFile(c, nm)
    \/ Does(c, "read") /\ \E nm \in Names : FindFile(c, nm)
    \/ Does(c, "read") /\ (Write(c) \/ Data(c))
    \/ Continue(c)

Spec == Init /\ [][Next]_vars

(***************************************************************************)
(* A request is answered or breaks: after the connection's rw_timeout, or, *)
(* if the script gave none, when the network says so.  The handler goes on *)
(* by itself.                                                              *)
(***************************************************************************)
FairSpec == Spec /\ \A c \in Clients : WF_vars(Continue(c))

-----------------------------------------------------------------------------
(***************************************************************************)
(* Every variable has its type.                                            *)
(***************************************************************************)
TypeOK ==
  /\ entry \in [Files -> Names \cup {None}]
  /\ num \in [Files -> 0 .. MaxChunks]
  /\ chunks \in [Files -> SUBSET ((0 .. MaxChunks) \X Pieces)]
  /\ made \in 0 .. MaxFiles
  /\ content \in [Files -> Contents]
  /\ stored \in [Files -> 0 .. MaxChunks]
  /\ op \in [Clients -> {"none", "store", "append", "build", "remove", "write", "data"}]
  /\ on \in [Clients -> Files \cup {None}]
  /\ name \in [Clients -> Names]
  /\ todo \in [Clients -> SUBSET Files]
  /\ builder \in [Clients -> Files \cup {None}]
  /\ box \in [Clients -> Files \cup {None}]
  /\ size \in [Clients -> 0 .. MaxChunks]
  /\ out \in [Clients -> Contents]
  /\ result \in [Clients -> {"none", "done", "given", "failed"}]
  /\ faults \in 0 .. MaxFaults
  /\ published \subseteq Files /\ abandoned \subseteq Files
  /\ found \in [Clients -> SUBSET Files]

(***************************************************************************)
(* A file that can be found has all of its chunks, whoever uploads and     *)
(* removes at the same time and whatever request breaks.                   *)
(***************************************************************************)
Numbered(f, k) == {<<n, content[f][n + 1]>> : n \in 0 .. k - 1}
VisibleComplete ==
  \A f \in Visible :
    /\ num[f] = Len(content[f])
    /\ chunks[f] = Numbered(f, Len(content[f]))

(***************************************************************************)
(* An upload that was reported as successful can be found until somebody   *)
(* asks for the removal of its name.                                       *)
(***************************************************************************)
UploadsStay ==
  [][/\ \A c \in Clients :
          op[c] \in {"store", "build"} /\ result'[c] = "done" => on[c] \in Visible'
     /\ \A f \in Visible \ Visible' : \E c \in Clients : f \in found[c]]_vars

(***************************************************************************)
(* When remove_file returns true, no file that it met under the name is    *)
(* left; one that was uploaded meanwhile may be there.                     *)
(***************************************************************************)
RemovedIsGone ==
  [][\A c \in Clients :
       op[c] = "remove" /\ result'[c] = "done" => found[c] \cap Visible' = {}]_vars

(***************************************************************************)
(* What the scripts were told is so: of uploads and of removals.           *)
(***************************************************************************)
ReportsHold == UploadsStay /\ RemovedIsGone

(***************************************************************************)
(* Chunks that no file can be found for belong to an upload or a removal   *)
(* in progress, or were left by one that was reported as failed or by a    *)
(* builder that was given up: no sequence of successful calls leaves any.  *)
(***************************************************************************)
InProgress(f) ==
  \E c \in Clients :
    \/ op[c] # "none" /\ (on[c] = f \/ f \in todo[c])
    \/ builder[c] = f

OrphansExplained ==
  \A f \in Files \ Visible :
    chunks[f] # {} => InProgress(f) \/ f \in abandoned

(***************************************************************************)
(* The local file is the beginning of one uploaded file, also after a      *)
(* write that failed, and never has chunks of two, although files of one   *)
(* name may replace each other while it is written.                        *)
(***************************************************************************)
IsBeginning(s, t) == Len(s) <= Len(t) /\ \A n \in 1 .. Len(s) : s[n] = t[n]
LocalFileIsPrefix ==
  \A c \in Clients : out[c] # <<>> => \E f \in published : IsBeginning(out[c], content[f])

(***************************************************************************)
(* Every call returns: each loop over chunks or entries is over what was   *)
(* counted before it.                                                      *)
(***************************************************************************)
CallsReturn == \A c \in Clients : op[c] # "none" ~> op[c] = "none"

(***************************************************************************)
(* Files come and go as a whole: what data and write report as successful  *)
(* is the content of the file that was found, whatever became of it.       *)
(***************************************************************************)
Store == INSTANCE FileStore WITH
  Texts <- Contents,
  text <- [f \in Files |-> IF f \in published THEN {content[f]} ELSE {}],
  visible <- Visible,
  held <- box,
  given <- [c \in Clients |-> IF result[c] = "given" THEN {out[c]} ELSE {}]
FilesComeWhole == Store!Spec
=============================================================================
