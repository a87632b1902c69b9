----------------------------- MODULE MCUserdata -----------------------------
(***************************************************************************)
(* The scripts that the runs of Userdata let loose.                        *)
(***************************************************************************)
EXTENDS Userdata

Script(discipline, incremental) == [discipline |-> discipline, incremental |-> incremental]

\* A script without a promise, and the two kinds that are Safe.
MCScripts == {Script("none", TRUE), Script("kept", TRUE), Script("ordered", FALSE)}

\* Lets go of an object before what it was made from, under Lua's default collector.
OrderedOnly == {Script("ordered", TRUE)}
=============================================================================
