------------------------------ MODULE Installer ------------------------------
(***************************************************************************)
(* Installing and restoring the change of a Hermes checkout: several       *)
(* source files are replaced one by one, under a lock that is not waited   *)
(* for, with a durable marker (the change state file) from before the      *)
(* first replacement until all files have been verified.  Every write may  *)
(* fail before or after its rename, the process may die between any two    *)
(* steps, and an editor outside the lock may change a file at any time.    *)
(***************************************************************************)
EXTENDS Integers, FiniteSets

CONSTANTS
    Process,   \* runs of install-hermes-change.py
    NoProcess,
    Files,     \* how many targets there are, written in this order
    MaxEdits,  \* bound on the edits of somebody else
    MaxFaults  \* bound on failing operations and crashes

\* What a run assumes of its values for them.
InstallerAssumption ==
    /\ NoProcess \notin Process
    /\ Files \in Nat \ {0} /\ MaxEdits \in Nat /\ MaxFaults \in Nat

Target == 1..Files
Goal == {"before", "after"}

VARIABLES
    content, \* which bytes a target has: "before", "after", or "other"
    marker,  \* the operation in the change state file, "none" if there is none
    lock,    \* who holds the lock of the checkout
    run,     \* what each process is doing
    edits, faults

vars == <<content, marker, lock, run, edits, faults>>

Resting == [at |-> "idle", goal |-> "after", todo |-> {}]

Init ==
    /\ content \in [Target -> Goal]
    /\ Cardinality({content[t] : t \in Target}) = 1
    /\ marker = "none" /\ lock = NoProcess
    /\ run = [p \in Process |-> Resting]
    /\ edits = 0 /\ faults = 0

Other(goal) == CHOOSE g \in Goal : g # goal
Complete(goal) == \A t \in Target : content[t] = goal
First(set) == CHOOSE t \in set : \A u \in set : t <= u

Fault == faults < MaxFaults /\ faults' = faults + 1
Go(p, at) == run' = [run EXCEPT ![p].at = at] /\ UNCHANGED lock
\* An error or the end: the process is over and the lock is free.
End(p) ==
    /\ run' = [run EXCEPT ![p] = Resting]
    /\ lock' = IF lock = p THEN NoProcess ELSE lock

\* Faulty variant: the lock is taken, but does not exclude anybody.
Unlocked_Anyway == TRUE

Unlocked == lock = NoProcess

\* Nothing is written while a target has bytes of neither version.
Begin(p, goal) ==
    /\ run[p].at = "idle" /\ Unlocked
    /\ \A t \in Target : content[t] \in Goal
    /\ lock' = p
    /\ run' = [run EXCEPT ![p] =
                 [at |-> IF Complete(goal) THEN "clear" ELSE "mark",
                  goal |-> goal,
                  todo |-> {t \in Target : content[t] # goal}]]
    /\ UNCHANGED <<content, marker, edits, faults>>

\* Without the marker no file is touched.
Mark(p) ==
    /\ run[p].at = "mark"
    /\ \/ marker' = run[p].goal /\ Go(p, "write") /\ UNCHANGED faults
       \/ marker' \in {marker, run[p].goal} /\ Fault /\ End(p)
    /\ UNCHANGED <<content, edits>>

\* _write_atomic replaces a file or leaves it; it may also fail afterwards,
\* when it flushes the directory.
Replace(t, version) == content' = [content EXCEPT ![t] = version]
Fails(t, version) == Fault /\ (UNCHANGED content \/ Replace(t, version))

\* Whatever fails while the files are written or verified, all of them are put
\* back, also those an earlier run had changed.
Undo(p) ==
    /\ run' = [run EXCEPT ![p].at = "undo", ![p].goal = Other(@),
                          ![p].todo = Target]
    /\ UNCHANGED lock

Write(p) ==
    LET t == First(run[p].todo) IN
    /\ run[p].at = "write" /\ run[p].todo # {}
    /\ \/ /\ Replace(t, run[p].goal) /\ UNCHANGED <<lock, faults>>
          /\ run' = [run EXCEPT ![p].todo = @ \ {t}]
       \/ Fails(t, run[p].goal) /\ Undo(p)
    /\ UNCHANGED <<marker, edits>>

Verify(p) ==
    /\ run[p].at = "write" /\ run[p].todo = {}
    /\ IF Complete(run[p].goal) THEN Go(p, "clear") ELSE Undo(p)
    /\ UNCHANGED <<content, marker, edits, faults>>

\* An undo that fails leaves the marker for the next run.
PutBack(p) ==
    LET t == First(run[p].todo) IN
    /\ run[p].at = "undo" /\ run[p].todo # {}
    /\ \/ /\ Replace(t, run[p].goal) /\ UNCHANGED <<lock, faults>>
          /\ run' = [run EXCEPT ![p].todo = @ \ {t}]
       \/ Fails(t, run[p].goal) /\ End(p)
    /\ UNCHANGED <<marker, edits>>

VerifyUndo(p) ==
    /\ run[p].at = "undo" /\ run[p].todo = {}
    /\ IF Complete(run[p].goal) THEN Go(p, "clear") ELSE End(p)
    /\ UNCHANGED <<content, marker, edits, faults>>

Clear(p) ==
    /\ run[p].at = "clear" /\ End(p)
    /\ \/ marker' = "none" /\ UNCHANGED faults
       \/ marker' \in {marker, "none"} /\ Fault
    /\ UNCHANGED <<content, edits>>

Crash(p) ==
    /\ run[p].at # "idle" /\ Fault /\ End(p)
    /\ UNCHANGED <<content, marker, edits>>

\* An editor or an update of Hermes, which knows nothing of the lock.
Edit(t) ==
    /\ edits < MaxEdits /\ edits' = edits + 1
    /\ content' = [content EXCEPT ![t] = "other"]
    /\ UNCHANGED <<marker, lock, run, faults>>

Next ==
    \/ \E p \in Process :
         \/ \E goal \in Goal : Begin(p, goal)
         \/ Mark(p) \/ Write(p) \/ Verify(p) \/ PutBack(p) \/ VerifyUndo(p)
         \/ Clear(p) \/ Crash(p)
    \/ \E t \in Target : Edit(t)

Spec == Init /\ [][Next]_vars

-----------------------------------------------------------------------------
(* Properties *)

TypeOK ==
    /\ content \in [Target -> Goal \cup {"other"}]
    /\ marker \in Goal \cup {"none"}
    /\ lock \in Process \cup {NoProcess}
    /\ run \in [Process -> [at : {"idle", "mark", "write", "undo", "clear"},
                            goal : Goal, todo : SUBSET Target]]
    /\ edits \in 0..MaxEdits /\ faults \in 0..MaxFaults

\* Without a marker, and also when a run is about to say that it has finished
\* or has undone its work, all files nobody else has edited are of one version,
\* and the version it names, however many operations and processes have failed
\* half-way before; so verify_change, which asks for both, is never wrong.
OneCompleteVersion ==
    /\ marker = "none" => \A t, u \in Target :
          content[t] \in {content[u], "other"} \/ content[u] = "other"
    /\ \A p \in Process : run[p].at = "clear" =>
          \A t \in Target : content[t] \in {run[p].goal, "other"}

=============================================================================
