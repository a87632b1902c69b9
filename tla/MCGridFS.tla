------------------------------ MODULE MCGridFS ------------------------------
(***************************************************************************)
(* GridFS for TLC: two scripts that use one name.  Both upload and remove, *)
(* one with a builder that it may give its text in several calls, the      *)
(* other reads.                                                            *)
(***************************************************************************)
EXTENDS GridFS

CONSTANTS c1, c2, p, q

MCClients == {c1, c2}
MCRoles == [c \in MCClients |->
              IF c = c1 THEN {"store", "build", "remove"} ELSE {"store", "remove", "read"}]
MCPieces == {p, q}
MCTexts == {<<q, q>>}
MCParts == {<<p>>}
=============================================================================
