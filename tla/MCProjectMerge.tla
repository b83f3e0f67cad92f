--------------------------- MODULE MCProjectMerge ---------------------------
(* Small instances of ProjectMerge for TLC.                                *)
EXTENDS ProjectMerge, TLC

CONSTANTS p1, p2, p3

\* Each run reads the projects in one order and merges them in another.
MCRows == <<p1, p2>>
MCOrder == <<p2, p1>>
MCRows3 == <<p1, p2, p3>>
MCOrder3 == <<p2, p1, p3>>

\* Runs of the worker differ in nothing but their name.
Interchangeable == Permutations(Worker)
=============================================================================
