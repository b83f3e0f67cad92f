----------------------------- MODULE MCTaskStop -----------------------------
(* Small instances of TaskStop for TLC.                                    *)
EXTENDS TaskStop

CONSTANTS p1, p2

MCRows == <<p1, p2>>
=============================================================================
