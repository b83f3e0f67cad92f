----------------------------- MODULE MCTaskParts -----------------------------
(* Small instances of TaskParts for TLC. *)
EXTENDS TaskParts, TLC

CONSTANTS p1, p2, t1, t2

\* The worker reads the projects in another order than the user's; the first
\* of them has a second card.
MCOrder == <<p2, p1>>
MCRows == <<p1, p2>>
MCFlowSteps == [p \in {p1, p2} |-> IF p = p1 THEN 2 ELSE 1]

\* Two threads of one process and one of another.
MCHome == [t \in {"a1", "a2", "b1"} |-> IF t = "b1" THEN "b" ELSE "a"]
MCDoes == [a1 |-> {"read", "write", "init"}, a2 |-> {"write", "restore"},
           b1 |-> {"write", "backup", "restore"}]

\* Turns of the conversation, and clients, differ in nothing but their name.
Interchangeable == Permutations({t1, t2})
=============================================================================
