------------------------------- MODULE MCGrid -------------------------------
(* Small instances of Grid: every request is about the one file f1.        *)
EXTENDS Grid, TLC

CONSTANTS f1, s1, s2, s3

MCPaths == Uploads \cup Failovers
MCFileOf == [r \in Uploads \cup Downloads \cup Deletes |-> f1]
ServerSymmetry == Permutations(Servers)
=============================================================================
