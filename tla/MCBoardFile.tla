---------------------------- MODULE MCBoardFile -----------------------------
(* BoardFile with two layers, one of them with two tables, and files that   *)
(* may be relabelled with a newer minor or a newer major version.           *)
EXTENDS BoardFile

MCTablesOf == [geometry |-> <<"pad", "via">>, connectivity |-> <<"net">>]
MCLayer    == DOMAIN MCTablesOf
MCValue    == 1 .. MaxBorn
MCVersions == {[major |-> 1, minor |-> 0], [major |-> 1, minor |-> 1],
               [major |-> 2, minor |-> 0]}
=============================================================================
