---------------------------- MODULE MCTaskRuntime ----------------------------
(* TLC instances of TaskRuntime: one Task, commits numbered from 1.        *)
EXTENDS TaskRuntime

CONSTANTS t1, x1, MaxCommit

MCTask == {t1}
MCText == {x1}
MCCommit == 1 .. MaxCommit
=============================================================================
