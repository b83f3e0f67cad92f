---------------------------- MODULE TaskDatabase ----------------------------
(***************************************************************************)
(* Who may use the Task database file together.  Every operation of        *)
(* TaskDatabase enters one or more locks, each a barrier among the threads *)
(* of a process and one lock on a file among the processes: reads and      *)
(* transactions share the operation lock, a transaction alone has the      *)
(* write lock, a restore or a migration is alone.  SQLite's own locks are  *)
(* left out: what is shown, the file locks give without them.              *)
(***************************************************************************)
EXTENDS Integers, Sequences, FiniteSets

CONSTANTS
    Thread, Process,
    Home,       \* the process of each thread
    Does,       \* the operations each thread calls
    MaxCommits, \* bound on the versions of the content
    MaxFaults   \* bound on the operations that fail and processes that die

Kinds == {"init", "read", "write", "backup", "restore"}

\* What a run assumes of its values for them.
DatabaseAssumption ==
    /\ IsFiniteSet(Thread) /\ Thread \cap Process = {}
    /\ Home \in [Thread -> Process] /\ Does \in [Thread -> SUBSET Kinds]
    /\ MaxCommits \in Nat \ {0} /\ MaxFaults \in Nat

Lock == {"operation", "write", "destination"}

VARIABLES
    at,         \* each thread: its operation, its step, the locks it has
    barrier,    \* _OperationBarrierState of each process and lock
    files,      \* the open handles that hold each lock file
    db,         \* the version the database file has
    backup,     \* the version the backup file has, 0 if there is none
    versions,   \* how many versions there were
    faults

fileVars == <<db, backup, versions>>
vars == <<at, barrier, files, fileVars, faults>>

Idle == [kind |-> "none", step |-> "idle", held |-> 0, seen |-> 0,
         copy |-> 0]
Nobody == {}
Down == [shared |-> 0, owner |-> Nobody, inside |-> Nobody]

Init ==
    /\ at = [t \in Thread |-> Idle]
    /\ barrier = [p \in Process |-> [l \in Lock |-> Down]]
    /\ files = [l \in Lock |-> {}]
    /\ db = 1 /\ backup = 0 /\ versions = 1
    /\ faults = 0

-----------------------------------------------------------------------------
(* The locks of an operation, in the order it enters them *)

\* Faulty variant: a restore enters like a reader.
Exclusive_Shared(l, kind) == l # "operation"

Exclusive(l, kind) == l # "operation" \/ kind \in {"init", "restore"}

Plan(kind) == CASE kind = "write"  -> <<"operation", "write">>
                [] kind = "backup" -> <<"operation", "destination">>
                [] OTHER           -> <<"operation">>

\* restore and the publication of a backup do not wait.
Patient(l, kind) == l # "destination" /\ kind # "restore"

Wanted(t) == Plan(at[t].kind)[at[t].held + 1]
Top(t) == Plan(at[t].kind)[at[t].held]
State(t, l) == barrier[Home[t]][l]
Alone(t, l) == Exclusive(l, at[t].kind)

\* Entered: a backup works between its two locks, the others after the last.
In(t) == at' = [at EXCEPT ![t].held = @ + 1, ![t].step =
                  IF \/ at[t].held + 1 = Len(Plan(at[t].kind))
                     \/ at[t].kind = "backup" THEN "work" ELSE "enter"]

\* Left: what it entered before is next, or the operation is over.
Out(t) == at' = [at EXCEPT ![t] =
                   IF at[t].held = 1 THEN Idle
                   ELSE [at[t] EXCEPT !.held = at[t].held - 1,
                                      !.step = "leave"]]

Goto(t, step) == at' = [at EXCEPT ![t].step = step]
SetState(t, l, state) == barrier' = [barrier EXCEPT ![Home[t]][l] = state]

\* Handles kept in the barrier belong to the process, those on their way out
\* to the thread that releases them.
Handle(who, l, t) == [who |-> who, alone |-> Alone(t, l)]
Compatible(l, alone) == IF alone THEN files[l] = {}
                                 ELSE \A h \in files[l] : ~ h.alone

Call(t, kind) ==
    /\ at[t].step = "idle" /\ kind \in Does[t]
    /\ kind = "restore" => backup # 0
    /\ at' = [at EXCEPT ![t] = [Idle EXCEPT !.kind = kind, !.step = "enter"]]
    /\ UNCHANGED <<barrier, files, fileVars, faults>>

\* _enter_shared_operation and _enter_exclusive_operation under the condition;
\* who needs the file lock keeps the condition until it has it.
Enter(t) ==
    LET l == Wanted(t) IN
    LET s == State(t, l) IN
    /\ at[t].step = "enter" /\ s.inside = Nobody /\ s.owner = Nobody
    /\ Alone(t, l) => s.shared = 0
    /\ IF ~ Alone(t, l) /\ s.shared > 0
         THEN /\ SetState(t, l, [s EXCEPT !.shared = @ + 1])
              /\ In(t)
         ELSE /\ SetState(t, l, [s EXCEPT !.inside = {t}])
              /\ Goto(t, "file")
    /\ UNCHANGED <<files, fileVars, faults>>

\* _acquire_operation_file_lock
Acquire(t) ==
    LET l == Wanted(t) IN
    /\ at[t].step = "file" /\ Compatible(l, Alone(t, l))
    /\ files' = [files EXCEPT ![l] = @ \cup {Handle(Home[t], l, t)}]
    /\ SetState(t, l, IF Alone(t, l)
                        THEN [Down EXCEPT !.owner = {t}]
                        ELSE [Down EXCEPT !.shared = 1])
    /\ In(t)
    /\ UNCHANGED <<fileVars, faults>>

\* The deadline passes, at once for who does not wait: what was entered before
\* is left again.
GiveUp(t) ==
    LET l == Wanted(t) IN
    LET s == State(t, l) IN
    /\ \/ /\ at[t].step = "enter"
          /\ \/ s.inside # Nobody \/ s.owner # Nobody
             \/ Alone(t, l) /\ s.shared > 0
       \/ at[t].step = "file" /\ ~ Compatible(l, Alone(t, l))
    /\ IF at[t].step = "file" THEN SetState(t, l, [s EXCEPT !.inside = Nobody])
                              ELSE UNCHANGED barrier
    /\ at' = [at EXCEPT ![t] =
                IF @.held = 0 THEN Idle ELSE [@ EXCEPT !.step = "leave"]]
    /\ UNCHANGED <<files, fileVars, faults>>

\* _leave_shared_operation and _leave_exclusive_operation: the barrier is
\* open before the file lock is released.
Leave(t) ==
    LET l == Top(t) IN
    LET s == State(t, l) IN
    /\ at[t].step = "leave" /\ s.inside = Nobody
    /\ SetState(t, l, IF Alone(t, l) THEN Down
                                     ELSE [s EXCEPT !.shared = @ - 1])
    /\ IF Alone(t, l) \/ s.shared = 1
         THEN /\ files' = [files EXCEPT ![l] =
                             (@ \ {Handle(Home[t], l, t)})
                                \cup {Handle(t, l, t)}]
              /\ Goto(t, "release")
         ELSE Out(t) /\ UNCHANGED files
    /\ UNCHANGED <<fileVars, faults>>

\* _release_operation_file_lock
Release(t) ==
    LET l == Top(t) IN
    /\ at[t].step = "release"
    /\ files' = [files EXCEPT ![l] = @ \ {Handle(t, l, t)}]
    /\ Out(t)
    /\ UNCHANGED <<barrier, fileVars, faults>>

-----------------------------------------------------------------------------
(* What the operations do between entering and leaving *)

Ready(t, kind) ==
    /\ at[t].kind = kind /\ at[t].step = "work"
    /\ at[t].held = Len(Plan(kind))

Fault == faults < MaxFaults /\ faults' = faults + 1

\* transaction: what is read after BEGIN is what the commit changes.  At the
\* bound it is rolled back.
Begin(t) ==
    /\ Ready(t, "write") /\ at[t].seen = 0
    /\ at' = [at EXCEPT ![t].seen = db, ![t].step = "commit"]
    /\ UNCHANGED <<barrier, files, fileVars, faults>>

Commit(t) ==
    /\ at[t].kind = "write" /\ at[t].step = "commit"
    /\ \/ /\ versions < MaxCommits
          /\ db' = versions + 1 /\ versions' = versions + 1
          /\ UNCHANGED faults
       \/ (Fault \/ (versions = MaxCommits /\ UNCHANGED faults))
          /\ UNCHANGED <<db, versions>>
    /\ Goto(t, "leave")
    /\ UNCHANGED <<barrier, files, backup>>

\* read and _initialize: the first statement and the last.
Look(t) ==
    /\ Ready(t, "read") \/ Ready(t, "init")
    /\ Goto(t, "reading")
    /\ UNCHANGED <<barrier, files, fileVars, faults>>

Looked(t) ==
    /\ at[t].step = "reading"
    /\ Goto(t, "leave")
    /\ UNCHANGED <<barrier, files, fileVars, faults>>

\* backup: a checked copy of one snapshot, before the destination is locked.
Capture(t) ==
    /\ at[t].kind = "backup" /\ at[t].step = "work" /\ at[t].held = 1
    /\ \/ /\ at' = [at EXCEPT ![t].copy = db, ![t].step = "enter"]
          /\ UNCHANGED faults
       \/ Fault /\ Goto(t, "leave")
    /\ UNCHANGED <<barrier, files, fileVars>>

\* _publish_database_artifact: linked, or in one transaction, or not at all.
Publish(t) ==
    /\ Ready(t, "backup")
    /\ \/ backup' = at[t].copy /\ UNCHANGED faults
       \/ Fault /\ UNCHANGED backup
    /\ Goto(t, "leave")
    /\ UNCHANGED <<barrier, files, db, versions>>

\* _restore_locked: the backup is copied and checked, then the live content.
Stage(t) ==
    /\ Ready(t, "restore")
    /\ \/ at' = [at EXCEPT ![t].copy = backup, ![t].step = "preimage"]
          /\ UNCHANGED faults
       \/ Fault /\ Goto(t, "leave")
    /\ UNCHANGED <<barrier, files, fileVars>>

Preimage(t) ==
    /\ at[t].step = "preimage"
    /\ \/ /\ at' = [at EXCEPT ![t].seen = db, ![t].step = "commit"]
          /\ UNCHANGED faults
       \/ Fault /\ Goto(t, "leave")
    /\ UNCHANGED <<barrier, files, fileVars>>

\* The content is replaced, checked, synced and committed, or rolled back.
Replace(t) ==
    /\ at[t].kind = "restore" /\ at[t].step = "commit"
    /\ \/ db' = at[t].copy /\ UNCHANGED faults
       \/ Fault /\ UNCHANGED db
    /\ Goto(t, "leave")
    /\ UNCHANGED <<barrier, files, backup, versions>>

\* A process dies: its threads, its barriers and its handles are gone.
Die(p) ==
    LET mine == {t \in Thread : Home[t] = p} IN
    /\ Fault /\ \E t \in mine : at[t].step # "idle"
    /\ at' = [t \in Thread |-> IF t \in mine THEN Idle ELSE at[t]]
    /\ barrier' = [barrier EXCEPT ![p] = [l \in Lock |-> Down]]
    /\ files' = [l \in Lock |-> {h \in files[l] : h.who \notin {p} \cup mine}]
    /\ UNCHANGED fileVars

Operate(t) ==
    \/ Begin(t) \/ Commit(t)
    \/ Look(t) \/ Looked(t)
    \/ Capture(t) \/ Publish(t)
    \/ Stage(t) \/ Preimage(t) \/ Replace(t)

Step(t) == Enter(t) \/ Acquire(t) \/ GiveUp(t) \/ Operate(t) \/ Leave(t)
           \/ Release(t)

Next ==
    \/ \E t \in Thread : Step(t) \/ \E kind \in Kinds : Call(t, kind)
    \/ \E p \in Process : Die(p)

Spec == Init /\ [][Next]_vars

-----------------------------------------------------------------------------
(* Properties *)

TypeOK ==
    /\ at \in [Thread ->
         [kind : Kinds \cup {"none"}, held : 0..2, seen : Nat, copy : Nat,
          step : {"idle", "enter", "file", "work", "reading", "preimage",
                  "commit", "leave", "release"}]]
    /\ barrier \in [Process -> [Lock ->
         [shared : 0..Cardinality(Thread), owner : SUBSET Thread,
          inside : SUBSET Thread]]]
    /\ files \in [Lock -> SUBSET [who : Process \cup Thread, alone : BOOLEAN]]
    /\ db \in 1..MaxCommits /\ backup \in 0..MaxCommits
    /\ versions \in 1..MaxCommits
    /\ faults \in 0..MaxFaults

Inside(t) == at[t].step \in {"work", "reading", "preimage", "commit"}

\* Among threads of several processes: who commits has read what it changes,
\* and a restore what it replaces; no read, backup or transaction lives
\* through a restore or a migration; and a process that does nothing keeps
\* neither a lock file nor a barrier that others would wait for.
DatabaseIsShared ==
    /\ \A t \in Thread : at[t].step = "commit" => at[t].seen = db
    /\ \A t, u \in Thread :
          Inside(t) /\ Inside(u) /\ t # u =>
             at[t].kind \notin {"init", "restore"}
    /\ \A p \in Process :
          (\A t \in Thread : Home[t] = p => at[t].step = "idle") =>
             /\ barrier[p] = [l \in Lock |-> Down]
             /\ \A l \in Lock : \A h \in files[l] :
                   h.who # p /\ \A t \in Thread : Home[t] = p => h.who # t

=============================================================================
