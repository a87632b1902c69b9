------------------------------ MODULE Handlers ------------------------------
(***************************************************************************)
(* The steps of every method of the binding, in the order of the code.     *)
(* Receivers are checked by luaL_checkudata or userdata_to_dbclient before *)
(* anything else and are left out.  __gc and __tostring are in Userdata.   *)
(***************************************************************************)
EXTENDS CallSteps

InAll(try, steps) == [i \in DOMAIN steps |-> In(try, steps[i])]

(***************************************************************************)
(* The methods of Connection and ReplicaSet.                               *)
(***************************************************************************)
\* The switch on the type of the fourth argument has a case for nil, none for
\* an argument that was not passed.
CreateIndex ==
  <<Text(2)>>
  \o InAll(Try("false", "false"),
           <<Arg(3, Document), Arg(4, [Document EXCEPT !["nil"] = {"goes"}])>>)
  \o <<In(TryStd("nil"), Write), Push({"true"})>>

Auth ==
  <<TableArg(2), Text(3), Text(4), Text(5),
    Drive("read", [Throws EXCEPT !["error"] = {"nil"}]), Push({"true"})>>

IsFailed == <<Push({"boolean"})>>
GetServerAddress == <<Push({"value"})>>

\* Mutant: the driver is called behind the try block.
CountUnprotected ==
  <<Text(2), In(TryStd("nil"), Arg(3, Lenient(Document))), Read, Push({"value"})>>

Count ==
  <<Text(2)>> \o InAll(TryStd("nil"), <<Arg(3, Lenient(Document)), Read>>) \o <<Push({"value"})>>

Insert ==
  <<Text(2)>> \o InAll(Try("false", "false"), <<Arg(3, Document), Write>>) \o <<Push({"true"})>>

\* lua_to_bson(L, 4, ...) in the loop: the element just pushed, unless the call
\* had a fourth argument.
Element ==
  Step("element", 4,
       [k \in Kinds |-> CASE k = "table" -> {"goes"} [] k = "badtable" -> {"badref"}
                          [] OTHER -> {"undefined"}],
       NoTry)

InsertBatch ==
  <<Text(2), TableArg(3)>> \o InAll(Try("false", "false"), <<Element, Write>>)
  \o <<Push({"true"})>>

\* Mutant: returns as soon as cursor_create has failed.
QueryReturnsEarly ==
  <<Text(2), In(Try("nil", "nil"), Arg(3, Optional(DocumentOrQuery))),
    OptInt(4), OptInt(5), Arg(6, Optional(HeapDocument)), OptInt(7), OptInt(8),
    In(TryStd("nil"), OpenCursor), Push({"box"}), Free>>

\* cursor_create catches what the driver throws; either way its result is
\* returned after the field selector was deleted.
Query ==
  <<Text(2), In(Try("nil", "nil"), Arg(3, Optional(DocumentOrQuery))),
    OptInt(4), OptInt(5), Arg(6, Optional(HeapDocument)), OptInt(7), OptInt(8),
    Tidy(In(TryStd("nil"), OpenCursor)), Push({"box"}), Free>>

FindOne ==
  <<Text(2), In(Try("nil", "nil"), Arg(3, Optional(DocumentOrQuery))),
    Arg(4, Optional(HeapDocument)), OptInt(5),
    Tidy(In(TryAssertion("nil"),
            Drive("read", [Throws EXCEPT !["error"] = {"assertion"},
                                         !["broken"] = {"assertion", "std"}]))),
    Push({"value"}), Free>>

Remove ==
  <<Text(2)>> \o InAll(Try("false", "false"), <<Arg(3, DocumentOrQuery), Write>>)
  \o <<Push({"true"})>>

Update ==
  <<Text(2)>>
  \o InAll(Try("false", "false"), <<Arg(3, DocumentOrQuery), Arg(4, Document), Write>>)
  \o <<Push({"true"})>>

DropCollection == <<Text(2), In(TryStd("false"), Write), Push({"true"})>>

DropIndexByFields ==
  <<Text(2)>> \o InAll(Try("false", "false"), <<Arg(3, Document), Write>>) \o <<Push({"true"})>>

DropIndexByName == <<Text(2), Text(3), In(TryStd("false"), Write), Push({"true"})>>
DropIndexes == <<Text(2), In(TryStd("false"), Write), Push({"true"})>>

\* The arguments are freed after the test of the driver's answer, and the value
\* of a script may have no form in Lua.
Eval ==
  <<Text(2), Text(3), In(Try("nil", "nil"), Arg(4, Optional(HeapDocument))),
    Drive("read", [Throws EXCEPT !["error"] = {"false"}]), Free,
    Push({"value", "nothing"})>>

Exists == <<Text(2), Read, Push({"boolean"})>>

GenIndexName == InAll(Try("nil", "nil"), <<Arg(2, Document), Local>>) \o <<Push({"value"})>>

EnumerateIndexes == <<Text(2), OpenCursor, Push({"box"})>>

\* Mutant: the query is converted whether it was passed or not.
MapReduceQuery ==
  <<Text(2), Text(3), Text(4), OptText(6), In(Try("nil", "nil"), Arg(5, Document)),
    Read, Push({"value"})>>

MapReduce ==
  <<Text(2), Text(3), Text(4), OptText(6), In(Try("nil", "nil"), Arg(5, Optional(Document))),
    Read, Push({"value"})>>

\* Mutant: lua_pushboolean is forgotten.
ReindexSilent == <<Text(2), In(TryStd("false"), Write)>>

Reindex == <<Text(2), In(TryStd("false"), Write), Push({"true"})>>

\* What the server refuses is what they ask for.
LastError == [Throws EXCEPT !["error"] = {"goes"}]
GetLastError == <<Drive("read", LastError), Push({"value"})>>
GetLastErrorDetailed == <<Drive("read", LastError), Push({"value"})>>

\* A table needs a field "cmd" and the field it names; a command that fails is
\* thrown as the c_str() of a temporary.
RunCommand ==
  <<Text(2)>>
  \o InAll(Try("false", "false"),
           <<Arg(3, [Document EXCEPT !["table"] = {"goes", "char", "assertion"}]),
             Drive("read", [Throws EXCEPT !["error"] = {"stale"}])>>)
  \o <<Push({"value"})>>

GetDBNames == <<In(Try("false", "false"), Read), Push({"value"})>>
GetCollections == <<Text(2), In(Try("false", "false"), Read), Push({"value"})>>

\* The argument is a table of features, of which rw_timeout must be a number.
ConnectionNew ==
  InAll(TryStd("nil"), <<Check(1, {"number"} \cup Omitted), Local>>) \o <<Push({"box"})>>
ConnectionConnect == <<Text(2), In(TryStd("nil"), Connect), Push({"true"})>>
ReplicaSetNew ==
  <<Check(1, {"text", "json"}), TableArg(2), In(TryStd("nil"), Local), Push({"box"})>>
ReplicaSetConnect == <<In(TryStd("nil"), Connect), Push({"true"})>>

(***************************************************************************)
(* Query: its modifiers change the object the box points to.               *)
(***************************************************************************)
Modifier == Drive("modify", [a \in {"done", "error"} |-> Throws[a]])

QueryNew ==
  InAll(Try("nil", "nil"), <<Arg(1, [Document EXCEPT !["none"] = {"goes"}]), Local>>)
  \o <<Push({"box"})>>

QueryExplain == <<In(TryStd("false"), Modifier), Push({"true"})>>
QueryHint == InAll(Try("false", "false"), <<Arg(2, Document), Modifier>>) \o <<Push({"true"})>>
QueryIsExplain == <<Push({"boolean"})>>
QueryMaxKey == QueryHint
QueryMinKey == QueryHint
QuerySnapshot == QueryExplain

\* With a third argument the second is taken for a field name, whatever it is.
QuerySort == QueryHint
QuerySortField == <<Text(2), In(TryStd("false"), Modifier), Push({"true"})>>

QueryWhere == <<Text(2), In(TryStd("false"), Modifier), Push({"true"})>>
QueryWhereScope ==
  <<Text(2)>> \o InAll(Try("false", "nil"), <<Arg(3, Document), Modifier>>) \o <<Push({"true"})>>

(***************************************************************************)
(* Cursor: its methods have no try block.  Those that come to the end of a *)
(* batch ask the server for the next; the others, and the same methods     *)
(* while a document is at hand, ask for nothing and are CursorAtHand.      *)
(***************************************************************************)
CursorNext == <<Read, Push({"value"})>>
ResultIterator == CursorNext
CursorHasMore == <<Read, Push({"boolean"})>>
CursorItCount == <<Read, Push({"value"})>>
CursorAtHand == <<Push({"value", "boolean"})>>

(***************************************************************************)
(* GridFS, its files, their chunks and the builder.                        *)
(***************************************************************************)
\* A name that is no string is a null pointer, of which std::string makes an
\* exception.
GridFSNew ==
  InAll(TryStd("nil"),
        <<Arg(2, [k \in Kinds |-> IF k \in Strings THEN {"goes"} ELSE {"std"}]),
          OptText(3), Read>>)
  \o <<Push({"box"})>>

\* Without a name nothing is done and nothing is pushed, yet one value is
\* returned.
Named(of) == [k \in Kinds |-> IF k \in Omitted THEN {"ends"} ELSE of[k]]

FindFile ==
  InAll(TryStd("nil"),
        <<Arg(2, Named([k \in Kinds |-> CASE k \in Strings \cup {"table"} -> {"goes"}
                                          [] k = "badtable" -> {"badref"}
                                          [] OTHER -> {"lua"}])),
          Read>>)
  \o <<Push({"box"})>>

FindFileByName ==
  InAll(TryStd("nil"), <<Arg(2, Named(Text(2).of)), Read>>) \o <<Push({"box"})>>

GridFSList == <<Arg(2, Lenient(Document)), OpenCursor, Push({"box"})>>
RemoveFile == <<Text(2), In(TryStd("false"), Write), Push({"true"})>>
StoreFile ==
  <<Text(2), OptText(3), OptText(4), In(TryStd("nil"), Write), Push({"value"})>>
StoreData == StoreFile

BuilderNew == <<In(TryStd("nil"), Local), Push({"box"})>>
BuilderAppend == InAll(TryStd("nil"), <<Text(2), Write>>) \o <<Push({"true"})>>
BuilderBuild == <<Text(2), OptText(3), In(TryStd("nil"), Write), Push({"value"})>>

FileChunk == <<Int(2), In(TryStd("nil"), Read), Push({"box"})>>
FileAttribute == <<Push({"value"})>>
FileField == <<Text(2), Push({"value", "nothing"})>>
FileWrite == <<Text(2), In(TryStd("false"), Read), Push({"true"})>>
FileData == <<In(TryStd("false"), Read), Push({"value"})>>
ChunkAttribute == <<Push({"value"})>>

(***************************************************************************)
(* The functions of the module that convert documents.                     *)
(***************************************************************************)
ToJSON ==
  <<Arg(1, [k \in Kinds |-> CASE k = "table" -> {"goes"} [] k = "badtable" -> {"badref"}
                              [] OTHER -> {"nil"}]),
    Push({"value"})>>

FromJSON ==
  <<Text(1), In(TryStd("nil"), Drive("local", [a \in {"done", "error"} |-> Throws[a]])),
    Push({"value"})>>

(***************************************************************************)
(* The registration tables.  A method whose number of arguments selects    *)
(* between two courses is two methods here.                                *)
(***************************************************************************)
DBClientMethods ==
  [create_index |-> CreateIndex, auth |-> Auth, is_failed |-> IsFailed,
   get_server_address |-> GetServerAddress, count |-> Count, insert |-> Insert,
   insert_batch |-> InsertBatch, query |-> Query, find_one |-> FindOne,
   remove |-> Remove, update |-> Update, drop_collection |-> DropCollection,
   drop_index_by_fields |-> DropIndexByFields, drop_index_by_name |-> DropIndexByName,
   drop_indexes |-> DropIndexes, eval |-> Eval, exists |-> Exists,
   gen_index_name |-> GenIndexName, enumerate_indexes |-> EnumerateIndexes,
   mapreduce |-> MapReduce, reindex |-> Reindex, get_last_error |-> GetLastError,
   get_last_error_detailed |-> GetLastErrorDetailed, run_command |-> RunCommand,
   get_dbnames |-> GetDBNames, get_collections |-> GetCollections,
   connection_connect |-> ConnectionConnect, replicaset_connect |-> ReplicaSetConnect]

QueryMethods ==
  [explain |-> QueryExplain, hint |-> QueryHint, is_explain |-> QueryIsExplain,
   max_key |-> QueryMaxKey, min_key |-> QueryMinKey, snapshot |-> QuerySnapshot,
   sort |-> QuerySort, sort_field |-> QuerySortField, where |-> QueryWhere,
   where_scope |-> QueryWhereScope]

CursorMethods ==
  [next |-> CursorNext, iterator |-> ResultIterator, has_more |-> CursorHasMore,
   itcount |-> CursorItCount, at_hand |-> CursorAtHand]

GridMethods ==
  [find_file |-> FindFile, find_file_by_name |-> FindFileByName, list |-> GridFSList,
   remove_file |-> RemoveFile, store_file |-> StoreFile, store_data |-> StoreData,
   append |-> BuilderAppend, build |-> BuilderBuild, chunk |-> FileChunk,
   attribute |-> FileAttribute, field |-> FileField, write |-> FileWrite, data |-> FileData,
   chunk_attribute |-> ChunkAttribute]

ModuleFunctions ==
  [connection_new |-> ConnectionNew, replicaset_new |-> ReplicaSetNew, query_new |-> QueryNew,
   gridfs_new |-> GridFSNew, builder_new |-> BuilderNew, tojson |-> ToJSON,
   fromjson |-> FromJSON]

\* The methods of two tables, as @@ of module TLC joins them.
Joined(f, g) ==
  [m \in DOMAIN f \cup DOMAIN g |-> IF m \in DOMAIN f THEN f[m] ELSE g[m]]

Luamongo ==
  Joined(Joined(DBClientMethods, Joined(QueryMethods, CursorMethods)),
         Joined(GridMethods, ModuleFunctions))
=============================================================================
