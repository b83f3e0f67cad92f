------------------------------- MODULE TaskFlow -------------------------------
(***************************************************************************)
(* One confirmed Task flow as a state machine: workers claim steps and     *)
(* hand in results and Fix proofs, and the pull request is observed while  *)
(* its base and head move at any moment.  Results may be stale, of another *)
(* Task or for another commit: the rules of FlowRules decide.              *)
(***************************************************************************)
EXTENDS FlowRules

VARIABLES
    flow,       \* the TaskFlowState
    accepted,   \* history: results accepted since the flow last restarted
    rejections, \* history: rejecting results accepted so far
    fixes       \* history: Fix proofs accepted so far

vars == <<flow, accepted, rejections, fixes>>

Init ==
    /\ \E t \in Task, f \in TaskFlows, base, commit \in Commit :
          flow = StartTaskFlow(t, f, base, commit)
    /\ accepted = {}
    /\ rejections = 0
    /\ fixes = 0

MarkRunning ==
    /\ CanMarkRunning(flow)
    /\ flow' = MarkTaskStepRunning(flow)
    /\ UNCHANGED <<accepted, rejections, fixes>>

\* record_task_result: commit is the pull request head its caller read.
Record(r, commit) ==
    /\ AcceptsResult(flow, r, commit)
    /\ flow' = RecordTaskResult(flow, r, commit)
    /\ accepted' = accepted \cup {r}
    /\ rejections' = IF r.kind # "build" /\ ~r.approve
                       THEN rejections + 1 ELSE rejections
    /\ UNCHANGED fixes

RecordProof(p, commit) ==
    /\ AcceptsFixProof(flow, p, commit)
    /\ flow' = RecordFixProof(flow, commit)
    /\ accepted' = {}
    /\ fixes' = fixes + 1
    /\ UNCHANGED rejections

\* A Fix card keeps the rejection it answers, whatever is pushed meanwhile.
Observe(base, commit) ==
    /\ <<base, commit>> # <<flow.base, flow.commit>>
    /\ flow' = ObserveCurrentCommit(flow, base, commit)
    /\ accepted' = IF flow.status = "failed" \/ flow.step = "fix"
                     THEN accepted ELSE {}
    /\ UNCHANGED <<rejections, fixes>>

RecordAny ==
    \/ \E r \in BuildResult : Record(r, r.commit)
    \/ \E src \in flow.source :
          \/ \E r \in [kind : {"review"}, task : Task, commit : Commit,
                       source : {src}, approve : BOOLEAN, text : Text] :
                Record(r, r.commit)
          \/ \E r \in [kind : {"deep_check"}, task : Task, reviewed : Commit,
                       commit : Commit, source : {src}, approve : BOOLEAN,
                       text : Text] :
                Record(r, r.commit)

ProveAny ==
    \E src \in flow.source :
        \E p \in [kind : {"fix_proof"}, task : Task, commit : Commit,
                  source : {src}, text : Text] : RecordProof(p, p.commit)

Next ==
    \/ MarkRunning
    \/ RecordAny
    \/ ProveAny
    \/ \E base, commit \in Commit : Observe(base, commit)

Spec == Init /\ [][Next]_vars

-----------------------------------------------------------------------------
(* The evidence a state rests on                                           *)

BuildProves(b, s) == b.kind = "build" /\ b.task = s.task /\ b.base = s.base

\* A Review that names the very Build it read, on the commit of that Build.
ReviewProves(r, s) ==
    /\ r.kind = "review" /\ r.task = s.task
    /\ BuildProves(r.source, s)
    /\ r.commit = r.source.commit

\* A Deep Check that started from the reviewed commit of an approved Review.
DeepCheckProves(d, s) ==
    /\ d.kind = "deep_check" /\ d.task = s.task
    /\ ReviewProves(d.source, s) /\ d.source.approve
    /\ d.reviewed = d.source.commit

Proven(s) ==
    \E r \in s.source :
        /\ r.commit = s.commit
        /\ r.kind = RequiredSteps(s.task_flow)[Len(RequiredSteps(s.task_flow))]
        /\ CASE r.kind = "build"  -> BuildProves(r, s)
             [] r.kind = "review" -> ReviewProves(r, s) /\ r.approve
             [] OTHER             -> DeepCheckProves(r, s) /\ r.approve

\* The results a result rests on, itself included.
Chain(r) ==
    CASE r.kind = "build"  -> {r}
      [] r.kind = "review" -> {r, r.source}
      [] OTHER             -> {r, r.source, r.source.source}

-----------------------------------------------------------------------------
(* Properties                                                              *)

TypeOK ==
    /\ flow \in TaskFlowState
    /\ accepted \in SUBSET TaskResult
    /\ rejections \in Nat
    /\ fixes \in Nat

\* A flow is ready to merge only on an unbroken chain of results, one for
\* each step the user selected, that names the current base and ends at the
\* current head: no result of another Task, commit or attempt fills a gap.
ReadyIsProven == flow.status = "ready_to_merge" => Proven(flow)

\* No evidence survives a restart: whatever the state rests on was accepted
\* after the last push, base change or Fix proof, even when the pull request
\* returns to a commit that was proven before.
EvidenceIsFresh == \A r \in flow.source : Chain(r) \subseteq accepted

\* The merge decision asks for exactly the selected steps in their order; a
\* rejected attempt leaves nothing behind that would upset the count.
ReadyIsComplete ==
    flow.status = "ready_to_merge" =>
        flow.completed = RequiredSteps(flow.task_flow)

\* Pushes never lose a rejection: each is answered by exactly one Fix proof or
\* is still waiting for it, and the one after MAX_FIXES fixes fails the Task.
FixBudget ==
    /\ flow.status = "failed" <=> rejections = MAX_FIXES + 1
    /\ flow.status = "failed" => fixes = MAX_FIXES
    /\ rejections = fixes + (IF flow.step = "fix" \/ flow.status = "failed"
                               THEN 1 ELSE 0)

\* Once workers rejected a Task for good nothing revives it.
FailedIsFinal ==
    [][flow.status = "failed" =>
         flow'.status = "failed" /\ flow'.source = flow.source]_vars
=============================================================================
