------------------------------- MODULE MCFat32 -------------------------------
(***************************************************************************)
(* An instance of Fat32 for TLC: two long names of the root directory that  *)
(* fat32_generate_sfn gives the same 8.3 name, a directory, whose name fits, *)
(* and a file in it.                                                        *)
(***************************************************************************)
EXTENDS Fat32

MCPaths == {<<"/", "longname1">>, <<"/", "longname2">>, <<"D", "G">>}
MCSfn   == [n \in {"longname1", "longname2", "D", "G"} |->
               IF n \in {"D", "G"} THEN n ELSE "LONGNA~1"]
=============================================================================
