--------------------------- MODULE MCTaskDelivery ---------------------------
(* Small instances of TaskDelivery for TLC.                                *)
EXTENDS TaskDelivery

CONSTANTS p1, p2, d1, r1, r2

\* p1 and p2 are plugin calls of one user, d1 a run of task-service.py.
MCWants == [c \in Caller |-> Request]
MCOneEach == [c \in Caller |-> IF c = p1 THEN {r1} ELSE {r2} \cap Request]

EveryStep == Steps \ {"idle"}
=============================================================================
