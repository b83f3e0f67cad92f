---------------------------- MODULE ProjectMerge ----------------------------
(***************************************************************************)
(* How the merge worker lands one v2 Task that spans several projects:     *)
(* every run rebuilds its proofs from the Task database and GitHub, opens  *)
(* a barrier once all projects are mergeable, and then merges them in the  *)
(* confirmed order, each behind a durable reservation and a permit that    *)
(* holds the database write lock across the GitHub call.  Several runs may *)
(* overlap, die, lose answers, or find that a person merged first.         *)
(***************************************************************************)
EXTENDS Integers, Sequences, FiniteSets

CONSTANTS
    Project,    \* the projects of the Task
    Order,      \* their confirmed merge order
    Rows,       \* their order by project_id, in which every run reads them
    Worker,     \* runs of merge-worker.py that may overlap
    NoWorker,
    Automatic,  \* full_auto, and AUTO_MERGE_ENABLED is true
    Edits,      \* what people do to the pull requests and to the Task
    MaxEdits,   \* bound on that
    Faults,     \* "die", "fail" (a GitHub call) and "late" (its PUT lands later)
    MaxFaults   \* bound on those

ASSUME MergeAssumption ==
    /\ IsFiniteSet(Project) /\ Project # {}
    /\ Order \in [1..Cardinality(Project) -> Project]
    /\ Rows \in [1..Cardinality(Project) -> Project]
    /\ \A s \in {Order, Rows} :
          \A p \in Project : \E i \in DOMAIN s : s[i] = p
    /\ NoWorker \notin Worker
    /\ Automatic \in BOOLEAN
    /\ Edits \subseteq {"early", "merge", "squash", "move", "review", "barrier"}
    /\ Faults \subseteq {"die", "fail", "late"}
    /\ MaxEdits \in Nat /\ MaxFaults \in Nat

VARIABLES
    row,        \* task_projects: state, and whether the PR and head are stored
    life,       \* the latest lifecycle event and its payload
    writer,     \* the run that holds the database write lock over a call
    done,       \* projects whose Task flow is ready to merge
    remote,     \* GitHub: each pull request
    expired,    \* the automatic merge permission has expired
    at,         \* each run's step and what it has read
    puts,       \* history: merge requests sent for each project
    wire,       \* merge requests that a killed call left on their way
    edits, faults

vars == <<row, life, writer, done, remote, expired, at, puts, wire, edits,
          faults>>

\* "ready" stands for ready, running and reviewing: no query tells them apart.
RowState == {"ready", "waiting_for_help", "failed", "merged"}
Row == [state : RowState, proof : BOOLEAN]
Remote == [merged : {"no", "exact", "other"}, moved : BOOLEAN, ok : BOOLEAN]
Proof == {"blocked", "allowed", "merged"}
Life == [event : {"active", "barrier", "merged", "partially_merged"},
         merged : SUBSET Project, failed : SUBSET Project,
         remaining : SUBSET Project]

Steps == {"idle", "load", "observe", "decide", "resolve", "converge", "finish",
          "barrier", "reserve", "reread", "adopt", "guard", "fresh", "put",
          "after", "mark", "recover", "regain", "pend", "partial", "fail"}

Idle == [step |-> "idle", snap |-> [p \in Project |-> "ready"],
         todo |-> {}, known |-> {}, proof |-> [p \in Project |-> "blocked"],
         i |-> 1, created |-> "none", started |-> FALSE]

Event(e) == [event |-> e, merged |-> {}, failed |-> {}, remaining |-> {}]

Init ==
    /\ row = [p \in Project |-> [state |-> "ready", proof |-> FALSE]]
    /\ life = Event("active")
    /\ writer = NoWorker
    /\ done = {}
    /\ remote = [p \in Project |-> [merged |-> "no", moved |-> FALSE,
                                    ok |-> TRUE]]
    /\ expired = FALSE
    /\ at = [w \in Worker |-> Idle]
    /\ puts = [p \in Project |-> 0]
    /\ wire = {}
    /\ edits = 0
    /\ faults = 0

-----------------------------------------------------------------------------
At(w, step) == at[w].step = step
Move(w, step) == at' = [at EXCEPT ![w].step = step]
Return(w) == at' = [at EXCEPT ![w] = Idle]

Current(w) == Order[at[w].i]

\* The next project of a loop over all of them.
Due(w) ==
    {Rows[i] : i \in {j \in DOMAIN Rows :
        /\ Rows[j] \in at[w].todo
        /\ \A k \in 1..(j - 1) : Rows[k] \notin at[w].todo}}

MergedIds(w) == {Order[j] : j \in 1..(at[w].i - 1)}
Remaining(w) == {Order[j] : j \in (at[w].i + 1)..Len(Order)}

External == <<done, remote, expired, puts, wire, edits, faults>>
Database == <<row, life, writer>>

\* Every transaction of the merge store asks for the write lock first.
\* _require_exact_task then wants the Task active.
Transaction == writer = NoWorker
Active == life.event = "active"

Unmoved(p) == remote[p].merged = "no" /\ ~remote[p].moved
Exact(p) == remote[p].merged = "exact"

\* _project_merge_proof of the pull request as it is now.
Evidence(p) ==
    CASE Exact(p) -> "merged"
      [] Unmoved(p) /\ remote[p].ok /\ ~expired -> "allowed"
      [] OTHER -> "blocked"

-----------------------------------------------------------------------------
(* A run reads everything before it decides                                *)

\* load_project_merge_tasks: only active Tasks have rows to load.
Load(w) ==
    /\ At(w, "idle") /\ Active
    /\ at' = [at EXCEPT ![w] =
                [Idle EXCEPT !.step = "load", !.todo = Project,
                             !.snap = [p \in Project |-> row[p].state],
                             !.known = {p \in Project : row[p].proof}]]
    /\ UNCHANGED <<Database, External>>

\* Faulty variant: a pending project is expected to be unmerged still.
Readable_Unmerged(w, p) ==
    CASE at[w].snap[p] = "merged" -> Exact(p)
      [] at[w].snap[p] = "waiting_for_help" -> Unmoved(p)
      [] OTHER ->
           \/ p \in at[w].known /\ Exact(p)
           \/ IF p \in done THEN Unmoved(p) ELSE remote[p].merged = "no"

\* What the loader makes of one row: a proof, nothing yet, or an error that
\* ends the run for every Task.  Until all is read "known" is what is stored;
\* without it the flow is replayed, which wants the pull request open.
Readable(w, p) ==
    CASE at[w].snap[p] = "merged" -> Exact(p)
      [] at[w].snap[p] = "waiting_for_help" -> Exact(p) \/ Unmoved(p)
      [] OTHER ->
           \/ p \in at[w].known /\ Exact(p)
           \/ IF p \in done THEN Unmoved(p) ELSE remote[p].merged = "no"

Known(w, p) == p \in at[w].known \/ p \in done

Replay(w) ==
    /\ At(w, "load")
    /\ \E p \in Due(w) :
         IF Readable(w, p)
           THEN LET todo == at[w].todo \ {p}
                    known == IF Known(w, p) THEN at[w].known \cup {p}
                                            ELSE at[w].known
                IN at' = [at EXCEPT
                     ![w].todo = IF todo = {} THEN known ELSE todo,
                     ![w].known = known,
                     ![w].step = IF todo = {} THEN "observe" ELSE @]
           ELSE Return(w)
    /\ UNCHANGED <<Database, External>>

Observe(w) ==
    /\ At(w, "observe")
    /\ IF at[w].todo = {}
         THEN Move(w, "decide")
         ELSE \E p \in Due(w) :
                at' = [at EXCEPT ![w].todo = @ \ {p},
                                 ![w].proof[p] = Evidence(p)]
    /\ UNCHANGED <<Database, External>>

Observed(w) == {p \in Project : at[w].proof[p] = "merged"}
Pending(w) == {p \in Project : at[w].snap[p] = "waiting_for_help"}

\* Faulty variant: the barrier opens for whichever project may merge.
Decide_Some(w) ==
    /\ At(w, "decide")
    /\ at' = [at EXCEPT ![w] =
         [@ EXCEPT !.todo = Observed(w),
                   !.step =
                     IF Pending(w) # {} THEN "resolve"
                     ELSE IF /\ Automatic /\ ~expired
                             /\ \E p \in Project : at[w].proof[p] # "blocked"
                       THEN "barrier"
                     ELSE "converge"]]
    /\ UNCHANGED <<Database, External>>

\* _run_project_task: an unknown earlier write comes first, then the decision
\* of decide_project_group and the permission.
Decide(w) ==
    /\ At(w, "decide")
    /\ at' = [at EXCEPT ![w] =
         [@ EXCEPT !.todo = Observed(w),
                   !.step =
                     IF Pending(w) # {} THEN "resolve"
                     ELSE IF /\ Automatic /\ ~expired
                             /\ \A p \in Project : at[w].proof[p] # "blocked"
                       THEN "barrier"
                     ELSE "converge"]]
    /\ UNCHANGED <<Database, External>>

-----------------------------------------------------------------------------
(* Recording what GitHub shows, without any write to it                    *)

\* converge_observed_merge on the row of p.
Adoptable(w, p) ==
    Active /\ row[p].state \in {"merged", at[w].snap[p], "waiting_for_help"}

RecordMerged(p) == row' = [row EXCEPT ![p] = [state |-> "merged", proof |-> TRUE]]

\* _resolve_pending_project_task and _converge_without_merge_writes record
\* each merge they saw; a pending project not among them stays pending.
Converge(w) ==
    /\ at[w].step \in {"resolve", "converge"}
    /\ IF at[w].todo = {}
         THEN /\ IF Observed(w) = Project THEN Move(w, "finish") ELSE Return(w)
              /\ UNCHANGED row
         ELSE /\ Transaction
              /\ \E p \in Due(w) :
                   IF Adoptable(w, p)
                     THEN /\ RecordMerged(p)
                          /\ at' = [at EXCEPT ![w].todo = @ \ {p}]
                     ELSE Return(w) /\ UNCHANGED row
    /\ UNCHANGED <<life, writer, External>>

\* finish_merged
Finish(w) ==
    /\ At(w, "finish") /\ Transaction
    /\ life' = IF Active /\ \A p \in Project : row[p].state = "merged"
                 THEN [Event("merged") EXCEPT !.merged = Project] ELSE life
    /\ Return(w)
    /\ UNCHANGED <<row, writer, External>>

-----------------------------------------------------------------------------
(* The ordered merges                                                      *)

\* prepare_barrier stores the proof of every project, or of none.
Barrier(w) ==
    /\ At(w, "barrier") /\ Transaction
    /\ IF Active /\ \A p \in Project :
                      \/ row[p].state \in {"waiting_for_help", "merged"}
                      \/ row[p].state = "ready" /\ at[w].snap[p] = "ready"
         THEN /\ row' = [p \in Project |-> [row[p] EXCEPT !.proof = TRUE]]
              /\ Move(w, "reserve")
         ELSE Return(w) /\ UNCHANGED row
    /\ UNCHANGED <<life, writer, External>>

\* Faulty variant: a reservation found is as good as one made.
Reserve_Shared(w) ==
    LET p == Current(w) IN
    /\ At(w, "reserve") /\ Transaction
    /\ IF Active /\ row[p].state \in {"ready", "waiting_for_help"}
         THEN /\ row' = [row EXCEPT ![p].state = "waiting_for_help"]
              /\ at' = [at EXCEPT ![w] = [@ EXCEPT !.step = "guard",
                                                   !.created = "yes"]]
         ELSE Move(w, "recover") /\ UNCHANGED row
    /\ UNCHANGED <<life, writer, External>>

\* reserve_project: whoever turns the row to waiting_for_help may write.
Reserve(w) ==
    LET p == Current(w) IN
    /\ At(w, "reserve") /\ Transaction
    /\ CASE Active /\ row[p].state = "ready" /\ at[w].snap[p] = "ready" ->
              /\ row' = [row EXCEPT ![p].state = "waiting_for_help"]
              /\ at' = [at EXCEPT ![w] = [@ EXCEPT !.step = "guard",
                                                   !.created = "yes"]]
         [] Active /\ row[p].state \in {"waiting_for_help", "merged"} ->
              /\ at' = [at EXCEPT ![w] = [@ EXCEPT !.step = "reread",
                                                   !.created = "no"]]
              /\ UNCHANGED row
         [] OTHER -> Move(w, "recover") /\ UNCHANGED row
    /\ UNCHANGED <<life, writer, External>>

\* Somebody else's reservation: the merge is adopted, or left to its owner.
Reread(w) ==
    /\ At(w, "reread")
    /\ CASE Evidence(Current(w)) = "merged"  -> Move(w, "adopt")
         [] Evidence(Current(w)) = "allowed" -> Return(w)
         [] OTHER                            -> Move(w, "recover")
    /\ UNCHANGED <<Database, External>>

\* Faulty variant: one project too many.
Advance_TooFar(w) ==
    at' = [at EXCEPT ![w] =
        IF at[w].i > Len(Order)
          THEN [@ EXCEPT !.step = "finish"]
          ELSE [@ EXCEPT !.step = "reserve", !.i = at[w].i + 1,
                         !.created = "none", !.started = FALSE]]

\* The next project in the order, or the end of the Task.
Advance(w) ==
    at' = [at EXCEPT ![w] =
        IF at[w].i = Len(Order)
          THEN [@ EXCEPT !.step = "finish"]
          ELSE [@ EXCEPT !.step = "reserve", !.i = at[w].i + 1,
                         !.created = "none", !.started = FALSE]]

\* The merge of the current project is recorded by readback; after a failure
\* of the handler itself nothing catches the error any more.
Adopt(w) ==
    /\ at[w].step \in {"adopt", "regain"} /\ Transaction
    /\ IF Adoptable(w, Current(w))
         THEN RecordMerged(Current(w)) /\ Advance(w)
         ELSE /\ IF At(w, "adopt") THEN Move(w, "recover") ELSE Return(w)
              /\ UNCHANGED row
    /\ UNCHANGED <<life, writer, External>>

\* Faulty variant: the permit is checked, and then given back at once.
Guard_Released(w) ==
    /\ At(w, "guard") /\ Transaction
    /\ IF Active /\ row[Current(w)].state = "waiting_for_help"
         THEN Move(w, "fresh") ELSE Move(w, "recover")
    /\ UNCHANGED <<row, life, writer, External>>

\* guard_project: stop and revision writes wait until the permit is given back.
Guard(w) ==
    /\ At(w, "guard") /\ Transaction
    /\ IF Active /\ row[Current(w)].state = "waiting_for_help"
         THEN Move(w, "fresh") /\ writer' = w
         ELSE Move(w, "recover") /\ UNCHANGED writer
    /\ UNCHANGED <<row, life, External>>

\* An exception rolls the permit's transaction back.
Rollback(w) == writer' = IF writer = w THEN NoWorker ELSE writer

Fresh(w) ==
    /\ At(w, "fresh")
    /\ CASE Evidence(Current(w)) = "merged" ->
              Move(w, "mark") /\ UNCHANGED writer
         [] Evidence(Current(w)) = "allowed" ->
              /\ at' = [at EXCEPT ![w] = [@ EXCEPT !.step = "put",
                                                   !.started = TRUE]]
              /\ UNCHANGED writer
         [] OTHER -> Move(w, "recover") /\ Rollback(w)
    /\ UNCHANGED <<row, life, External>>

\* GitHub merges the expected head; strict protection refuses a moved base.
Land(p) ==
    remote' = IF Unmoved(p) /\ remote[p].ok
                THEN [remote EXCEPT ![p].merged = "exact"] ELSE remote

\* merge_expected_commit: one look, one PUT, one readback whatever it said.
Put(w) ==
    LET p == Current(w) IN
    /\ At(w, "put")
    /\ IF Unmoved(p)
         THEN Land(p) /\ puts' = [puts EXCEPT ![p] = @ + 1]
         ELSE UNCHANGED <<remote, puts>>
    /\ Move(w, "after")
    /\ UNCHANGED <<Database, done, expired, wire, edits, faults>>

\* Faulty variant: merged is merged.
After_AnyMerge(w) ==
    /\ At(w, "after")
    /\ IF remote[Current(w)].merged # "no"
         THEN Move(w, "mark") /\ UNCHANGED writer
         ELSE Move(w, "recover") /\ Rollback(w)
    /\ UNCHANGED <<row, life, External>>

After(w) ==
    /\ At(w, "after")
    /\ IF Exact(Current(w))
         THEN Move(w, "mark") /\ UNCHANGED writer
         ELSE Move(w, "recover") /\ Rollback(w)
    /\ UNCHANGED <<row, life, External>>

\* mark_merged in the permit's own transaction, which then commits.
Mark(w) ==
    /\ At(w, "mark")
    /\ RecordMerged(Current(w))
    /\ Rollback(w)
    /\ Advance(w)
    /\ UNCHANGED <<life, External>>

-----------------------------------------------------------------------------
(* After an exception: a readback decides                                  *)


\* _read_project_recovery, and what is made of each of its three answers.
Recover(w) ==
    LET p == Current(w) IN
    /\ At(w, "recover")
    /\ IF Exact(p) THEN Move(w, "regain")
       ELSE IF ~Unmoved(p) \/ at[w].created = "no" THEN Move(w, "pend")
       ELSE IF MergedIds(w) # {} THEN Move(w, "partial")
       ELSE IF at[w].started THEN Move(w, "fail")
       ELSE Return(w)
    /\ UNCHANGED <<Database, External>>

\* mark_reconciliation_pending: from now on this project is only read back.
Pend(w) ==
    LET p == Current(w) IN
    /\ At(w, "pend") /\ Transaction
    /\ row' = IF /\ Active
                 /\ row[p].state \in {at[w].snap[p], "waiting_for_help"}
                 /\ row[p].state \notin {"failed", "merged"}
                THEN [row EXCEPT ![p] = [state |-> "waiting_for_help",
                                         proof |-> TRUE]]
                ELSE row
    /\ Return(w)
    /\ UNCHANGED <<life, writer, External>>

\* finish_partial
Partial(w) ==
    LET p == Current(w) IN
    /\ At(w, "partial") /\ Transaction
    /\ IF /\ Active
          /\ \A q \in MergedIds(w) : row[q].state = "merged"
          /\ \A q \in Remaining(w) : row[q].state # "merged"
          /\ row[p].state \in {"ready", "waiting_for_help"}
         THEN /\ row' = [row EXCEPT ![p].state = "failed"]
              /\ life' = [event |-> "partially_merged", failed |-> {p},
                          merged |-> MergedIds(w), remaining |-> Remaining(w)]
         ELSE UNCHANGED <<row, life>>
    /\ Return(w)
    /\ UNCHANGED <<writer, External>>

\* mark_failed
Fail(w) ==
    LET p == Current(w) IN
    /\ At(w, "fail") /\ Transaction
    /\ row' = IF Active /\ row[p].state # "merged"
                THEN [row EXCEPT ![p].state = "failed"] ELSE row
    /\ Return(w)
    /\ UNCHANGED <<life, writer, External>>

-----------------------------------------------------------------------------
(* What else happens                                                       *)

Fault(kind) == kind \in Faults /\ faults < MaxFaults /\ faults' = faults + 1

\* The process is killed; the database rolls back and frees its lock.
Die(w) ==
    /\ ~At(w, "idle") /\ Fault("die")
    /\ Return(w) /\ Rollback(w)
    /\ UNCHANGED <<row, life, done, remote, expired, puts, wire, edits>>

\* A call to GitHub fails: inside the ordered merges the handler runs, in the
\* handler the result is unknown, and elsewhere the run ends.
CallFails(w) ==
    /\ at[w].step \in {"load", "observe", "reread", "fresh", "after", "recover"}
    /\ Fault("fail")
    /\ Rollback(w)
    /\ CASE at[w].step \in {"reread", "fresh", "after"} -> Move(w, "recover")
         [] At(w, "recover") -> Move(w, "pend")
         [] OTHER -> Return(w)
    /\ UNCHANGED <<row, life, done, remote, expired, puts, wire, edits>>

\* gh is killed after 30 seconds, but GitHub has the request.
PutLate(w) ==
    LET p == Current(w) IN
    /\ At(w, "put") /\ Unmoved(p) /\ Fault("late")
    /\ wire' = wire \cup {p}
    /\ puts' = [puts EXCEPT ![p] = @ + 1]
    /\ Move(w, "after")
    /\ UNCHANGED <<Database, done, remote, expired, edits>>

Arrive(p) ==
    /\ p \in wire
    /\ wire' = wire \ {p}
    /\ Land(p)
    /\ UNCHANGED <<Database, done, expired, at, puts, edits, faults>>

\* The last step of a project's Task flow completes while its PR is open.
FlowReady(p) ==
    /\ p \notin done /\ Active
    /\ done' = done \cup {p}
    /\ UNCHANGED <<Database, remote, expired, at, puts, wire, edits, faults>>

Expire ==
    /\ ~expired /\ expired' = TRUE
    /\ UNCHANGED <<Database, done, remote, at, puts, wire, edits, faults>>

Edited(kind) == kind \in Edits /\ edits < MaxEdits /\ edits' = edits + 1

\* A person merges (with a merge commit or squashed), pushes to the branch or
\* back again, or resolves and opens reviews and checks.
EditPullRequest(p) ==
    /\ p \in done /\ remote[p].merged = "no"
    /\ \/ /\ Edited(IF row[p].proof THEN "merge" ELSE "early")
          /\ remote' = [remote EXCEPT ![p].merged =
                          IF remote[p].moved THEN "other" ELSE "exact"]
       \/ Edited("squash") /\ remote' = [remote EXCEPT ![p].merged = "other"]
       \/ Edited("move") /\ remote' = [remote EXCEPT ![p].moved = ~@]
       \/ Edited("review") /\ remote' = [remote EXCEPT ![p].ok = ~@]
    /\ UNCHANGED <<Database, done, expired, at, puts, wire, faults>>

\* stop_requested or revision_requested; a revision may be resumed.
RequestBarrier ==
    /\ Transaction /\ Active /\ Edited("barrier")
    /\ life' = Event("barrier")
    /\ UNCHANGED <<row, writer, done, remote, expired, at, puts, wire, faults>>

Resume ==
    /\ Transaction /\ life.event = "barrier"
    /\ life' = Event("active")
    /\ UNCHANGED <<row, writer, External, at>>

Step(w) ==
    \/ Load(w) \/ Replay(w) \/ Observe(w) \/ Decide(w) \/ Converge(w)
    \/ Finish(w) \/ Barrier(w) \/ Reserve(w) \/ Reread(w) \/ Adopt(w)
    \/ Guard(w) \/ Fresh(w) \/ Put(w) \/ After(w) \/ Mark(w) \/ Recover(w)
    \/ Pend(w) \/ Partial(w) \/ Fail(w)

Next ==
    \/ \E w \in Worker : Step(w) \/ Die(w) \/ CallFails(w) \/ PutLate(w)
    \/ \E p \in Project : FlowReady(p) \/ Arrive(p) \/ EditPullRequest(p)
    \/ Expire \/ RequestBarrier \/ Resume

Spec == Init /\ [][Next]_vars

\* The timer starts the worker again and again, a run that is not killed
\* ends, and the clock reaches the end of the permission.
FairSpec == Spec /\ (\A w \in Worker : WF_vars(Step(w))) /\ WF_vars(Expire)

-----------------------------------------------------------------------------
(* Properties                                                              *)

TypeOK ==
    /\ row \in [Project -> Row]
    /\ life \in Life
    /\ writer \in Worker \cup {NoWorker}
    /\ done \subseteq Project
    /\ remote \in [Project -> Remote]
    /\ expired \in BOOLEAN
    /\ at \in [Worker -> [step : Steps, snap : [Project -> RowState],
                          todo : SUBSET Project, known : SUBSET Project,
                          proof : [Project -> Proof], i : DOMAIN Order,
                          created : {"none", "yes", "no"},
                          started : BOOLEAN]]
    /\ puts \in [Project -> Nat]
    /\ wire \subseteq Project
    /\ edits \in 0..MaxEdits /\ faults \in 0..MaxFaults

\* However many runs overlap, die or are resumed, each project is asked to be
\* merged at most once: reserve_project commits "the one durable intent
\* allowed to call GitHub", and no later state of the row allows another.
OnePut == \A p \in Project : puts[p] <= 1

\* Nothing is merged before its place: when the worker has asked for a
\* project every flow is ready and all earlier projects have merged exactly.
InOrder ==
    \A i, j \in DOMAIN Order :
        puts[Order[i]] > 0 =>
            /\ done = Project
            /\ j < i => Exact(Order[j])

\* A stop or a revision either wins before the permit, and then nothing is
\* sent, or waits for the safe point: the Task is active while a PUT is out.
StopsAtSafePoint ==
    \A w \in Worker :
        at[w].step \in {"fresh", "put", "after", "mark"} =>
            Active /\ row[Current(w)].state = "waiting_for_help"

\* A row says merged only if GitHub merged exactly the proven commits, and
\* the Task ends as merged or partially merged only with all rows behind it.
RecordsAreTrue ==
    /\ \A p \in Project : row[p].state = "merged" => row[p].proof /\ Exact(p)
    /\ life.event = "merged" => \A p \in Project : row[p].state = "merged"
    /\ life.event = "partially_merged" =>
          /\ life.merged = {p \in Project : row[p].state = "merged"}
          /\ life.failed # {} /\ life.merged # {}
          /\ \A p \in life.failed : row[p].state = "failed"
          /\ Project = life.merged \cup life.failed \cup life.remaining

\* "Exact remote state must still converge after a human merge or a lost
\* write response": the row follows unless a stop or the end comes first.
MergesAreRecorded ==
    \A p \in Project :
        Exact(p) ~> (row[p].state = "merged" \/ ~Active)
=============================================================================
