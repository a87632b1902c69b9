----------------------------- MODULE FileStore -----------------------------
(***************************************************************************)
(* What GridFS promises to scripts that share a database: files that come  *)
(* and go as a whole.  A file is published once, with all of its content,  *)
(* and withdrawn once.  Who has found a file is given the content it was   *)
(* published with, even if it was withdrawn meanwhile, or nothing: never   *)
(* a part, and never parts of two files.                                   *)
(*                                                                         *)
(* Module GridFS, where a file is an entry and many chunks, implements it. *)
(***************************************************************************)
CONSTANTS
  Clients,
  Files,     \* the identities of the files
  Texts,     \* what a file may contain
  None       \* no file

VARIABLES
  text,      \* the content each file was published with: one text, or {} before
  visible,   \* the files that can be found
  held,      \* the file each client has found last, or None
  given      \* the text each client was given for it, or {}

vars == <<text, visible, held, given>>

Init ==
  /\ text = [f \in Files |-> {}]
  /\ visible = {}
  /\ held = [c \in Clients |-> None]
  /\ given = [c \in Clients |-> {}]

Publish(f, t) ==
  /\ text[f] = {}
  /\ text' = [text EXCEPT ![f] = {t}]
  /\ visible' = visible \cup {f}
  /\ UNCHANGED <<held, given>>

Withdraw(f) ==
  /\ visible' = visible \ {f}
  /\ UNCHANGED <<text, held, given>>

Look(c, f) ==
  /\ f \in visible \cup {None}
  /\ held' = [held EXCEPT ![c] = f]
  /\ given' = [given EXCEPT ![c] = {}]
  /\ UNCHANGED <<text, visible>>

Give(c) ==
  /\ held[c] # None
  /\ given' = [given EXCEPT ![c] = text[held[c]]]
  /\ UNCHANGED <<text, visible, held>>

Forget(c) ==
  /\ given' = [given EXCEPT ![c] = {}]
  /\ UNCHANGED <<text, visible, held>>

Next ==
  \/ \E f \in Files, t \in Texts : Publish(f, t)
  \/ \E f \in Files : Withdraw(f)
  \/ \E c \in Clients, f \in Files \cup {None} : Look(c, f)
  \/ \E c \in Clients : Give(c) \/ Forget(c)

Spec == Init /\ [][Next]_vars
=============================================================================
