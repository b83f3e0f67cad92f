------------------------------ MODULE TaskStop ------------------------------
(***************************************************************************)
(* Stopping a v2 Task.  One transaction raises the barrier; then runs of   *)
(* task-stop-reconcile.py, which may overlap, die or lose answers, archive *)
(* the cards, kill the recorded workers, read the pull requests until they *)
(* hold still, clean up the parent issue accordingly and commit the end.   *)
(* Meanwhile the Hermes dispatcher starts and finishes workers and people  *)
(* go on merging.  Where the dispatcher cannot stop a worker it has given  *)
(* up on, the worker lives on and no row leads to it any more.             *)
(***************************************************************************)
EXTENDS Integers, Sequences, FiniteSets

CONSTANTS
    Project,    \* the projects of the Task
    Rows,       \* their order by project_id, in which every run reads them
    Staffed,    \* the projects that get a worker
    Runs,       \* bound on the reconciler runs that overlap
    Attempts,   \* remote readbacks before a run gives up (6 in the code)
    Rounds,     \* local rounds before a run gives up (3 in the code)
    Faults,     \* "overlap" of runs, which also "die"; calls that "fail", are
                \* "lost" or "late"; a "crash" of Hermes; a worker "unstopped",
                \* whose stop fails or is not read back
    MaxFaults   \* bound on those

ASSUME StopAssumption ==
    /\ IsFiniteSet(Project) /\ Project # {}
    /\ Rows \in [1..Cardinality(Project) -> Project]
    /\ \A p \in Project : \E i \in DOMAIN Rows : Rows[i] = p
    /\ Staffed \subseteq Project
    /\ Runs \in Nat \ {0}
    /\ Attempts \in Nat \ {0} /\ Rounds \in Nat \ {0}
    /\ Faults \subseteq {"overlap", "die", "fail", "lost", "late", "crash",
                    "unstopped"}
    /\ MaxFaults \in Nat

VARIABLES
    stop,       \* the task_stop_requests row
    row,        \* task_projects.state
    terminal,   \* the terminal lifecycle events of the Task
    card,       \* Kanban: the card of each project
    worker,     \* task_runtime_runs: the latest run of each project; "ended"
                \* stands for failed and stopped
    proc,       \* its operating system process
    tick,       \* the dispatcher's step under the board lock, and its project
    owned,      \* runs the dispatcher still holds in memory
    merged,     \* GitHub: merged pull requests
    issue,      \* GitHub: the parent issue
    at,         \* each reconciler run's step and what it has read
    wire,       \* issue writes a killed call left on their way
    moved,      \* history: somebody merged after the stop was requested
    adrift,     \* history: workers that were left when no active row named
                \* them and nobody had read back their end
    faults

Run == 1..Runs

stopVars == <<stop, row, terminal>>
localVars == <<card, worker, proc, tick, owned, adrift>>
remoteVars == <<merged, issue, wire, moved>>
vars == <<stopVars, localVars, remoteVars, at, faults>>

Results == {"none", "cancelled", "merged", "partial"}

\* The forge status labels: any active one, and forge:needs-decision.
Labels == {"active", "needs-decision"}

Writes == {"drop", "add", "post", "patch", "close"}

Steps == Writes \cup
         {"idle", "round", "archive", "kill", "mark", "recheck", "read",
          "status", "labelled", "comment", "noted", "resolve", "closed",
          "verify", "finish", "broken"}

Nobody == [step |-> "free", on |-> {}]

Idle == [step |-> "idle", tries |-> 1, ids |-> {}, i |-> 1, acc |-> {},
         seen |-> <<>>, out |-> {}, closed |-> FALSE, labels |-> {},
         base |-> {}]

Init ==
    /\ stop = [state |-> "none", result |-> "none"]
    /\ row = [p \in Project |-> "working"]
    /\ terminal = <<>>
    /\ card = [p \in Project |-> "none"]
    /\ worker = [p \in Project |-> "none"]
    /\ proc = [p \in Project |-> "none"]
    /\ tick = Nobody
    /\ owned = {}
    /\ adrift = {}
    /\ merged = {}
    /\ issue = [closed |-> FALSE, labels |-> {"active"}, comments |-> <<>>]
    /\ at = [r \in Run |-> Idle]
    /\ wire = {}
    /\ moved = FALSE
    /\ faults = 0

-----------------------------------------------------------------------------
\* task_lifecycle_is_active: no barrier and no end.
Active == stop.state = "none" /\ terminal = <<>>

\* guard_stop_cleanup
MayClean == stop.state \in {"stopping", "incomplete"}

\* The outcome of a remote readback in which exactly M were merged.
Result(M) == CASE M = {} -> "cancelled"
               [] M = Project -> "merged"
               [] OTHER -> "partial"

\* The only forge label that reconcile_stop_status leaves.
Target(M) == IF Result(M) = "partial" THEN {"needs-decision"} ELSE {}

Fault(kind) == kind \in Faults /\ faults < MaxFaults /\ faults' = faults + 1

-----------------------------------------------------------------------------
(* The Task at work: the dispatcher holds the board lock from claim to pid *)

\* A card is created under the safe-point guard of an active Task.
CreateCard(p) ==
    /\ p \in Staffed /\ card[p] = "none" /\ Active
    /\ card' = [card EXCEPT ![p] = "ready"]
    /\ UNCHANGED <<stopVars, worker, proc, tick, owned, adrift, remoteVars, at,
                   faults>>

\* _require_reconciled refuses runs that an earlier dispatcher left behind.
Claim(p) ==
    /\ tick = Nobody /\ card[p] = "ready" /\ worker[p] # "running"
    /\ card' = [card EXCEPT ![p] = "claimed"]
    /\ tick' = [step |-> "start", on |-> {p}]
    /\ UNCHANGED <<stopVars, worker, proc, owned, adrift, remoteVars, at,
                   faults>>

\* Hermes takes a card back whose worker could not be started.
GiveUp(p) ==
    /\ card' = [card EXCEPT ![p] = "blocked"]
    /\ tick' = Nobody

\* _stop_failed: a worker that did not start or finish as it should is stopped
\* and its run marked failed.  The run is marked even if the stop raised or was
\* not read back, and the mark may fail as well.
StopFailed(p) ==
    \E stopped, marked \in BOOLEAN :
        /\ IF stopped /\ marked THEN UNCHANGED faults ELSE Fault("unstopped")
        /\ proc' = [proc EXCEPT ![p] = IF stopped THEN "none" ELSE @]
        /\ worker' = [worker EXCEPT ![p] = IF marked /\ @ = "running"
                                             THEN "ended" ELSE @]
        /\ adrift' = IF proc'[p] # "none" /\ worker'[p] # "running"
                       THEN adrift \cup {p} ELSE adrift

\* The worker is created suspended, after a look at the lifecycle.  Without its
\* identity nobody stops it.
Start(p) ==
    /\ tick = [step |-> "start", on |-> {p}]
    /\ \/ /\ Active
          /\ proc' = [proc EXCEPT ![p] = "suspended"]
          /\ tick' = [tick EXCEPT !.step = "record"]
          /\ UNCHANGED <<card, adrift, faults>>
       \/ GiveUp(p) /\ UNCHANGED <<proc, adrift, faults>>
       \/ /\ Active /\ Fault("unstopped")
          /\ proc' = [proc EXCEPT ![p] = "suspended"]
          /\ adrift' = adrift \cup {p}
          /\ GiveUp(p)
    /\ UNCHANGED <<stopVars, worker, owned, remoteVars, at>>

\* _record_running, or _stop_failed.
Record(p) ==
    /\ tick = [step |-> "record", on |-> {p}]
    /\ \/ /\ Active
          /\ worker' = [worker EXCEPT ![p] = "running"]
          /\ tick' = [tick EXCEPT !.step = "activate"]
          /\ UNCHANGED <<card, proc, adrift, faults>>
       \/ StopFailed(p) /\ GiveUp(p)
    /\ UNCHANGED <<stopVars, owned, remoteVars, at>>

\* The prompt gate opens, or _stop_failed.
Activate(p) ==
    /\ tick = [step |-> "activate", on |-> {p}]
    /\ \/ /\ proc' = [proc EXCEPT ![p] = IF @ = "suspended" THEN "alive"
                                                            ELSE @]
          /\ tick' = [tick EXCEPT !.step = "include"]
          /\ UNCHANGED <<card, worker, adrift, faults>>
       \/ StopFailed(p) /\ GiveUp(p)
    /\ UNCHANGED <<stopVars, owned, remoteVars, at>>

\* record_included wants the Task active and the run running; otherwise
\* _stop_failed.
Include(p) ==
    /\ tick = [step |-> "include", on |-> {p}]
    /\ \/ /\ Active /\ worker[p] = "running"
          /\ owned' = owned \cup {p}
          /\ card' = [card EXCEPT ![p] = "running"]
          /\ tick' = Nobody
          /\ UNCHANGED <<worker, proc, adrift, faults>>
       \/ StopFailed(p) /\ GiveUp(p) /\ UNCHANGED owned
    /\ UNCHANGED <<stopVars, remoteVars, at>>

Exit(p) ==
    /\ proc[p] = "alive"
    /\ proc' = [proc EXCEPT ![p] = "none"]
    /\ UNCHANGED <<stopVars, card, worker, tick, owned, adrift, remoteVars, at,
                   faults>>

\* WorkerRuntimeService.finish of an exited worker: its result is accepted, or
\* its exit code, its packet, its acknowledgements or the end of the Task speak
\* against it.
Finish(p) ==
    /\ tick = Nobody /\ p \in owned /\ proc[p] = "none"
    /\ owned' = owned \ {p}
    /\ \/ /\ Active /\ worker[p] = "running"
          /\ worker' = [worker EXCEPT ![p] = "completed"]
          /\ UNCHANGED <<proc, adrift, faults>>
       \/ StopFailed(p)
    /\ UNCHANGED <<stopVars, card, tick, remoteVars, at>>

\* The same, when it cannot tell whether the worker has exited.
WaitFails(p) ==
    /\ tick = Nobody /\ p \in owned /\ proc[p] = "alive"
    /\ owned' = owned \ {p}
    /\ StopFailed(p)
    /\ UNCHANGED <<stopVars, card, tick, remoteVars, at>>

\* Hermes closes the run of a card whose worker is gone.
Settle(p) ==
    /\ tick = Nobody /\ card[p] = "running" /\ proc[p] = "none"
    /\ p \notin owned
    /\ card' = [card EXCEPT ![p] = IF worker[p] = "completed" THEN "done"
                                                              ELSE "blocked"]
    /\ UNCHANGED <<stopVars, worker, proc, tick, owned, adrift, remoteVars, at,
                   faults>>

\* A person, or the merge worker at its safe point.
Merge(p) ==
    /\ p \notin merged
    /\ merged' = merged \cup {p}
    /\ moved' = (stop.state # "none")
    /\ UNCHANGED <<stopVars, localVars, issue, wire, at, faults>>

\* finish_merged of the merge worker, while the Task is active.
MergeWorkerEnds ==
    /\ Active /\ merged = Project
    /\ \A p \in Project : card[p] \notin {"ready", "claimed", "running"}
    /\ row' = [p \in Project |-> "merged"]
    /\ terminal' = <<[event |-> "merged", by |-> "merge", on |-> Project]>>
    /\ UNCHANGED <<stop, localVars, remoteVars, at, faults>>

\* _load_aggregate: one stop for each Task; its end is not looked at.
Stoppable == stop.state = "none"

\* request_stop: row, barrier events and state in one transaction.
RequestStop ==
    /\ Stoppable
    /\ stop' = [stop EXCEPT !.state = "stopping"]
    /\ UNCHANGED <<row, terminal, localVars, remoteVars, at, faults>>

-----------------------------------------------------------------------------
(* A run of the reconciler: local work first                               *)

At(r, step) == at[r].step = step
Broken == [Idle EXCEPT !.step = "broken"]
Move(r, step) ==
    at' = [at EXCEPT ![r] = IF step = "broken" THEN Broken
                                               ELSE [@ EXCEPT !.step = step]]

Running == {p \in Project : worker[p] = "running"}

Alone == \A r \in Run : At(r, "idle")

\* reconcile: only unfinished stops are listed, completed ones returned.  Runs
\* differ in nothing but their number; a new one takes the lowest.
Reconcile(r) ==
    /\ At(r, "idle") /\ \A q \in 1..(r - 1) : ~At(q, "idle")
    /\ MayClean
    /\ at' = [at EXCEPT ![r] = [Idle EXCEPT !.step = "round"]]
    /\ UNCHANGED <<stopVars, localVars, remoteVars>>

Begin(r) == Alone /\ Reconcile(r) /\ UNCHANGED faults

\* Nothing keeps a second run from starting: there is no lock.
Overlap(r) == ~Alone /\ Reconcile(r) /\ Fault("overlap")

\* _stop_local: the recorded identities are read before the archive.
Round(r) ==
    /\ At(r, "round")
    /\ at' = IF MayClean
               THEN [at EXCEPT ![r].step = "archive", ![r].ids = Running]
               ELSE [at EXCEPT ![r] = Broken]
    /\ UNCHANGED <<stopVars, localVars, remoteVars, faults>>

\* Cards of a started worker must lead to a recorded identity of this round.
Captured(r) == {p \in Project : card[p] = "running"} \subseteq
                   Running \cap at[r].ids

\* archive_matching_cards, one Kanban transaction under the board lock.
Archive(r) ==
    /\ At(r, "archive") /\ tick = Nobody
    /\ IF {p \in Project : card[p] = "running"} \subseteq Running
         THEN /\ card' = [p \in Project |-> IF card[p] \in {"none", "done"}
                                              THEN card[p] ELSE "archived"]
              /\ Move(r, IF Captured(r) THEN "kill" ELSE "broken")
         ELSE /\ Move(r, "broken")
              /\ UNCHANGED card
    /\ UNCHANGED <<stopVars, worker, proc, tick, owned, adrift, remoteVars,
                   faults>>

\* "Hermes dispatcher is still running a tick"
LockTimeout(r) ==
    /\ At(r, "archive") /\ tick # Nobody
    /\ Move(r, "broken")
    /\ UNCHANGED <<stopVars, localVars, remoteVars, faults>>

\* Faulty variant: TERM is sent, but nobody reads back that the tree is gone.
Kill_Unverified(r) ==
    /\ At(r, "kill")
    /\ IF at[r].ids = {}
         THEN Move(r, "recheck") /\ UNCHANGED proc
         ELSE \E p \in at[r].ids :
                /\ \/ proc' = [proc EXCEPT ![p] = "none"]
                   \/ UNCHANGED proc
                /\ at' = [at EXCEPT ![r].step = "mark", ![r].acc = {p}]
    /\ UNCHANGED <<stopVars, card, worker, tick, owned, adrift, remoteVars,
                   faults>>

\* The process tree of one recorded run is terminated, unless some of it
\* remains ...
Kill(r) ==
    /\ At(r, "kill")
    /\ \/ /\ at[r].ids = {}
          /\ Move(r, "recheck") /\ UNCHANGED <<proc, faults>>
       \/ \E p \in at[r].ids :
             /\ proc' = [proc EXCEPT ![p] = "none"]
             /\ at' = [at EXCEPT ![r].step = "mark", ![r].acc = {p}]
             /\ UNCHANGED faults
       \/ /\ at[r].ids # {} /\ Fault("unstopped")
          /\ Move(r, "broken") /\ UNCHANGED proc
    /\ UNCHANGED <<stopVars, card, worker, tick, owned, adrift, remoteVars>>

\* ... and then its run marked, unless the stop has ended meanwhile.
MarkStopped(r) ==
    /\ At(r, "mark")
    /\ IF MayClean
         THEN /\ worker' = [p \in Project |->
                    IF p \in at[r].acc /\ worker[p] = "running"
                      THEN "ended" ELSE worker[p]]
              /\ at' = [at EXCEPT ![r].step = "kill",
                                  ![r].ids = @ \ at[r].acc, ![r].acc = {}]
         ELSE Move(r, "broken") /\ UNCHANGED worker
    /\ UNCHANGED <<stopVars, card, proc, tick, owned, adrift, remoteVars,
                   faults>>

Recheck(r) ==
    /\ At(r, "recheck")
    /\ at' = IF Running = {}
               THEN [at EXCEPT ![r].step = "read", ![r].tries = 1]
             ELSE IF at[r].tries < Rounds
               THEN [at EXCEPT ![r].step = "round", ![r].tries = @ + 1]
             ELSE [at EXCEPT ![r] = Broken]
    /\ UNCHANGED <<stopVars, localVars, remoteVars, faults>>

-----------------------------------------------------------------------------
(* Then GitHub: pull requests until they hold still, and the issue         *)

\* _read_remote_projects: one call per project.
Seen(r) == at[r].acc \cup (merged \cap {Rows[at[r].i]})
Last(r) == at[r].i = Len(Rows)
NextProject(r) == [at[r] EXCEPT !.i = @ + 1, !.acc = Seen(r)]

\* What another attempt starts from, or the end of the attempts.
Again(r) ==
    IF at[r].tries < Attempts
      THEN [Idle EXCEPT !.step = "read", !.tries = at[r].tries + 1,
                        !.seen = <<Seen(r)>>]
      ELSE Broken

\* Each attempt is guarded; two equal readbacks in a row come before any
\* write that depends on them.
Read(r) ==
    /\ At(r, "read")
    /\ at' = [at EXCEPT ![r] =
         IF at[r].i = 1 /\ ~MayClean THEN Broken
         ELSE IF ~Last(r) THEN NextProject(r)
         ELSE IF at[r].seen = <<Seen(r)>>
           THEN [Idle EXCEPT !.step = "status", !.tries = at[r].tries,
                             !.out = Seen(r)]
         ELSE Again(r)]
    /\ UNCHANGED <<stopVars, localVars, remoteVars, faults>>

\* The labels that are not the target go one by one, then it is added.
LabelStep(labels, M) ==
    IF labels \ Target(M) # {} THEN "drop"
    ELSE IF Target(M) \ labels # {} THEN "add"
    ELSE "labelled"

\* reconcile_stop_status: the guard, and a look at the issue.
Status(r) ==
    /\ At(r, "status")
    /\ IF MayClean /\ (Target(at[r].out) # {} => ~issue.closed)
         THEN at' = [at EXCEPT ![r].step = LabelStep(issue.labels, at[r].out),
                               ![r].labels = issue.labels]
         ELSE Move(r, "broken")
    /\ UNCHANGED <<stopVars, localVars, remoteVars, faults>>

Labelled(r) ==
    /\ At(r, "labelled")
    /\ at' = IF issue.labels = Target(at[r].out)
               THEN [at EXCEPT ![r].step = "comment",
                               ![r].closed = issue.closed,
                               ![r].labels = issue.labels,
                               ![r].base = merged]
               ELSE [at EXCEPT ![r] = Broken]
    /\ UNCHANGED <<stopVars, localVars, remoteVars, faults>>

\* Faulty variant: every finished Task is closed.
Commented_Always(r) == IF Result(at[r].out) # "partial" THEN "resolve"
                                                        ELSE "verify"

\* The result comment is written; a cancelled Task is closed next.
Commented(r) == IF Result(at[r].out) = "cancelled" THEN "resolve" ELSE "verify"

\* Faulty variant: the marker alone decides, as if a result never changed.
Comment_Once(r) ==
    /\ At(r, "comment")
    /\ Move(r, IF ~MayClean THEN "broken"
               ELSE IF issue.comments = <<>> THEN "post"
               ELSE IF issue.comments = <<at[r].out>> THEN Commented(r)
               ELSE "broken")
    /\ UNCHANGED <<stopVars, localVars, remoteVars, faults>>

\* ensure_stop_comment: the guard, and the list of marked comments.
Comment(r) ==
    /\ At(r, "comment")
    /\ Move(r, IF ~MayClean \/ Len(issue.comments) > 1 THEN "broken"
               ELSE IF issue.comments = <<>> THEN "post"
               ELSE IF issue.comments = <<at[r].out>> THEN Commented(r)
               ELSE "patch")
    /\ UNCHANGED <<stopVars, localVars, remoteVars, faults>>

Noted(r) ==
    /\ At(r, "noted")
    /\ Move(r, IF issue.comments = <<at[r].out>> THEN Commented(r)
                                                 ELSE "broken")
    /\ UNCHANGED <<stopVars, localVars, remoteVars, faults>>

\* close_stop_issue_not_planned: the guard, and a look at the issue.
Resolve(r) ==
    /\ At(r, "resolve")
    /\ at' = IF ~MayClean THEN [at EXCEPT ![r] = Broken]
             ELSE IF issue.closed
               THEN [at EXCEPT ![r].step = "verify", ![r].closed = TRUE,
                               ![r].labels = issue.labels]
             ELSE [at EXCEPT ![r].step = "close"]
    /\ UNCHANGED <<stopVars, localVars, remoteVars, faults>>

\* Its readback.
Closed(r) ==
    /\ At(r, "closed")
    /\ at' = IF issue.closed
               THEN [at EXCEPT ![r].step = "verify", ![r].closed = TRUE,
                               ![r].labels = issue.labels]
               ELSE [at EXCEPT ![r] = Broken]
    /\ UNCHANGED <<stopVars, localVars, remoteVars, faults>>

\* What a write carries: a label, or the result that the comment tells.
Payload(r) ==
    CASE at[r].step = "drop" -> {{l} : l \in at[r].labels \ Target(at[r].out)}
      [] at[r].step = "add" -> {Target(at[r].out)}
      [] OTHER -> {at[r].out}

\* One write to the issue, whatever it finds there now.
Apply(op, x) ==
    issue' = CASE op = "drop" -> [issue EXCEPT !.labels = @ \ x]
               [] op = "add" -> [issue EXCEPT !.labels = @ \cup x]
               [] op = "post" -> [issue EXCEPT !.comments = Append(@, x)]
               [] op = "patch" -> [issue EXCEPT !.comments[1] = x]
               [] op = "close" -> [issue EXCEPT !.closed = TRUE]

\* Another run has removed the label: 404.
Gone(op, x) == op = "drop" /\ ~(x \subseteq issue.labels)

Write(r) ==
    LET op == at[r].step IN
    /\ op \in Writes
    /\ \E x \in Payload(r) :
          /\ Apply(op, x)
          /\ CASE op = "drop" ->
                    IF Gone(op, x) THEN Move(r, "broken")
                    ELSE at' = [at EXCEPT
                        ![r].step = LabelStep(at[r].labels \ x, at[r].out),
                        ![r].labels = @ \ x]
               [] op = "add" -> Move(r, "labelled")
               [] op = "close" -> Move(r, "closed")
               [] OTHER -> Move(r, "noted")
    /\ UNCHANGED <<stopVars, localVars, merged, wire, moved, faults>>

\* Faulty variant: the outcome of before the cleanup is taken for granted.
Verify_Once(r) ==
    /\ At(r, "verify")
    /\ at' = [at EXCEPT ![r] = IF Last(r) THEN [at[r] EXCEPT !.step = "finish"]
                                          ELSE NextProject(r)]
    /\ UNCHANGED <<stopVars, localVars, remoteVars, faults>>

\* The readback after the cleanup must be the one it was made for.
Verify(r) ==
    /\ At(r, "verify")
    /\ at' = [at EXCEPT ![r] =
         IF ~Last(r) THEN NextProject(r)
         ELSE IF Seen(r) = at[r].out THEN [at[r] EXCEPT !.step = "finish"]
         ELSE Again(r)]
    /\ UNCHANGED <<stopVars, localVars, remoteVars, faults>>

\* _verify_issue_result of what the run has read, not of the issue now.
Proven(r) ==
    /\ at[r].labels = Target(at[r].out)
    /\ Result(at[r].out) = "cancelled" => at[r].closed
    /\ Result(at[r].out) = "partial" => ~at[r].closed

Finalize(r) ==
    LET M == at[r].out IN
    /\ row' = [p \in Project |-> IF p \in M THEN "merged" ELSE "cancelled"]
    /\ terminal' = Append(terminal,
                   [event |-> Result(M), by |-> "stop", on |-> M])
    /\ stop' = [state |-> "completed", result |-> Result(M)]

\* Faulty variant: an end that the merge worker recorded is not looked for.
Complete_Anyway(r) ==
    /\ At(r, "finish")
    /\ IF Proven(r) /\ MayClean /\ Running = {}
         THEN Finalize(r) /\ at' = [at EXCEPT ![r] = Idle]
         ELSE Move(r, "broken") /\ UNCHANGED stopVars
    /\ UNCHANGED <<localVars, remoteVars, faults>>

\* _verify_issue_result and the transaction of _complete.
Complete(r) ==
    /\ At(r, "finish")
    /\ IF Proven(r) /\ MayClean /\ Running = {} /\ terminal = <<>>
         THEN Finalize(r) /\ at' = [at EXCEPT ![r] = Idle]
         ELSE Move(r, "broken") /\ UNCHANGED stopVars
    /\ UNCHANGED <<localVars, remoteVars, faults>>

\* _mark_cleanup_incomplete
Incomplete(r) ==
    /\ At(r, "broken")
    /\ stop' = IF MayClean THEN [stop EXCEPT !.state = "incomplete"] ELSE stop
    /\ at' = [at EXCEPT ![r] = Idle]
    /\ UNCHANGED <<row, terminal, localVars, remoteVars, faults>>

-----------------------------------------------------------------------------
(* What else happens                                                       *)

Die(r) ==
    /\ ~At(r, "idle") /\ Fault("die")
    /\ at' = [at EXCEPT ![r] = Idle]
    /\ UNCHANGED <<stopVars, localVars, remoteVars>>

\* A readback fails.
CallFails(r) ==
    /\ at[r].step \in {"read", "status", "labelled", "comment", "noted",
                       "resolve", "closed", "verify"}
    /\ Fault("fail")
    /\ Move(r, "broken")
    /\ UNCHANGED <<stopVars, localVars, remoteVars>>

\* A write lands but its answer is lost, or gh is killed and it lands later.
WriteUnknown(r) ==
    LET op == at[r].step IN
    /\ op \in Writes
    /\ \E x \in Payload(r) :
          \/ Fault("lost") /\ Apply(op, x) /\ UNCHANGED wire
          \/ /\ Fault("late")
             /\ wire' = wire \cup {[op |-> op, on |-> x]}
             /\ UNCHANGED issue
    /\ Move(r, "broken")
    /\ UNCHANGED <<stopVars, localVars, merged, moved>>

Arrive(m) ==
    /\ m \in wire
    /\ wire' = wire \ {m}
    /\ Apply(m.op, m.on)
    /\ UNCHANGED <<stopVars, localVars, merged, moved, at, faults>>

\* The dispatcher dies; the board lock is freed, its workers live on, one that
\* is not recorded yet as well.
Crash ==
    /\ (tick # Nobody \/ owned # {}) /\ Fault("crash")
    /\ tick' = Nobody /\ owned' = {}
    /\ adrift' = IF tick.step = "record" THEN adrift \cup tick.on ELSE adrift
    /\ UNCHANGED <<stopVars, card, worker, proc, remoteVars, at>>

Step(r) ==
    \/ Begin(r) \/ Round(r) \/ Archive(r) \/ LockTimeout(r) \/ Kill(r)
    \/ MarkStopped(r) \/ Recheck(r) \/ Read(r) \/ Status(r)
    \/ Labelled(r) \/ Comment(r) \/ Noted(r) \/ Resolve(r) \/ Closed(r)
    \/ Write(r) \/ Verify(r) \/ Complete(r) \/ Incomplete(r)

Dispatch(p) ==
    \/ Start(p) \/ Record(p) \/ Activate(p) \/ Include(p) \/ Finish(p)
    \/ Settle(p)

Next ==
    \/ \E r \in Run : Step(r) \/ Overlap(r) \/ Die(r) \/ CallFails(r)
                          \/ WriteUnknown(r)
    \/ \E p \in Project :
          \/ Dispatch(p) \/ WaitFails(p)
          \/ CreateCard(p) \/ Claim(p) \/ Exit(p) \/ Merge(p)
    \/ MergeWorkerEnds \/ RequestStop \/ Crash
    \/ \E m \in wire : Arrive(m)

Spec == Init /\ [][Next]_vars

\* The reconciler is run again until nothing is unfinished, a run that is not
\* killed ends, and so does a tick of the dispatcher.
FairSpec ==
    /\ Spec
    /\ \A r \in Run : WF_vars(Step(r))
    /\ \A p \in Project : WF_vars(Dispatch(p))

-----------------------------------------------------------------------------
(* Properties                                                              *)

Outcomes == SUBSET Project

TypeOK ==
    /\ stop \in [state : {"none", "stopping", "incomplete", "completed"},
                 result : Results]
    /\ row \in [Project -> {"working", "merged", "cancelled"}]
    /\ terminal = <<>> \/ terminal \in
          [{1} -> [event : Results, by : {"merge", "stop"}, on : Outcomes]]
    /\ card \in [Project -> {"none", "ready", "claimed", "running", "blocked",
                             "done", "archived"}]
    /\ worker \in [Project -> {"none", "running", "completed", "ended"}]
    /\ proc \in [Project -> {"none", "suspended", "alive"}]
    /\ tick \in [step : {"free", "start", "record", "activate", "include"},
                 on : Outcomes]
    /\ owned \subseteq Project /\ adrift \subseteq Project
    /\ merged \subseteq Project
    /\ issue.closed \in BOOLEAN /\ issue.labels \subseteq Labels
    /\ issue.comments \in Seq(Outcomes)
    /\ \A r \in Run :
          /\ at[r].step \in Steps
          /\ at[r].seen = <<>> \/ at[r].seen[1] \in Outcomes
          /\ at[r].i \in DOMAIN Rows
    /\ wire \subseteq [op : Writes, on : Outcomes \cup SUBSET Labels]
    /\ faults \in 0..MaxFaults

\* "Agents stay down", as far as the code sees to it: once the stop is
\* completed nothing is recorded as running, every card is done or archived,
\* and no worker is left, not even a suspended one, whatever the dispatcher was
\* doing when the barrier was raised.  Only those remain that start or finish
\* of the worker runtime had given up without proof of their end, or that it
\* had not recorded yet when it died.
NoWorkerSurvives ==
    stop.state = "completed" =>
        \A p \in Project :
            /\ proc[p] # "none" => p \in adrift
            /\ worker[p] # "running"
            /\ card[p] \in {"none", "done", "archived"}

\* The design's common condition of every completed stop, "descendant 0": no
\* worker of the Task runs any more, whoever was to stop it.
NoDescendants ==
    stop.state = "completed" => \A p \in Project : proc[p] # "alive"

\* "Then one more readback must still match before the terminal DB
\* transaction": the recorded end has every merge there was when the
\* completing run put the label on the issue, and none that never happened;
\* and it is final: runs that were under way, even one that fails afterwards,
\* do not touch the stop, the rows or the lifecycle any more.
NothingIsOverlooked ==
    [][/\ \A r \in Run :
            At(r, "finish") /\ stop' # stop /\ at'[r] = Idle
                => at[r].base \subseteq terminal'[1].on
                   /\ {p \in Project : row'[p] = "merged"} = terminal'[1].on
                   /\ terminal'[1].on \subseteq merged
       /\ terminal # <<>> =>
            /\ UNCHANGED <<row, terminal>>
            /\ stop.state = "completed" => UNCHANGED stop]_vars

\* As long as nobody merges during the stop, the issue tells the result when
\* the stop is completed: closed without labels, open with needs-decision,
\* or without labels, however many runs overlap and whatever arrives late.
IssueTellsResult ==
    stop.state = "completed" /\ ~moved =>
        /\ issue.labels = Target(terminal[1].on)
        /\ issue.closed = (stop.result = "cancelled")
        /\ issue.comments # <<>>
        /\ \A i \in DOMAIN issue.comments : issue.comments[i] = terminal[1].on

\* What no run can clean up: a worker adrift whose card still names it, as long
\* as it lives, an end of the merge worker, a closed issue of a Task that is
\* now partly merged, and a duplicated result comment.
Stuck ==
    \/ \E p \in adrift : card[p] = "running" /\ proc[p] # "none"
    \/ terminal # <<>> /\ terminal[1].by = "merge"
    \/ issue.closed /\ Result(merged) = "partial"
    \/ Len(issue.comments) > 1

\* Every requested stop is completed in the end, unless it is stuck.
EventuallyStopped ==
    stop.state \in {"stopping", "incomplete"} ~>
        (stop.state = "completed" \/ Stuck)
=============================================================================
