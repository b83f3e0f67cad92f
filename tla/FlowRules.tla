------------------------------ MODULE FlowRules ------------------------------
(***************************************************************************)
(* The pure rules of one Task flow (forge/ops/task_flow.py) and of the     *)
(* results it accepts (forge/ops/contracts.py): which worker result the    *)
(* flow accepts in a state, and the state that follows.  The module has no *)
(* variables: TaskFlow wraps the rules in a state machine, TaskRuntime     *)
(* replays them over a chain of Hermes cards.                              *)
(*                                                                         *)
(* A SHA-256 over the canonical JSON of a result is modelled by the result *)
(* itself, so that two results have one hash exactly when they are equal.  *)
(* An optional field is the empty set or a set of one element.             *)
(***************************************************************************)
EXTENDS Naturals, Sequences

CONSTANTS
    Task,       \* a Task: its settings hash together with its pull request
    Commit,     \* Git commit names
    Text,       \* the free text of a result: file lists, checks, fix notes
    MAX_FIXES   \* Fix cards one Task may have

ASSUME MaxFixesAssumption == MAX_FIXES \in Nat

TaskFlows == {"build", "build_review", "build_review_deep_check"}
TaskSteps == {"build", "review", "deep_check", "fix"}
TaskFlowStatuses == {"running", "ready_to_merge", "failed"}

-----------------------------------------------------------------------------
(* Results                                                                 *)

BuildResult ==
    [kind : {"build"}, task : Task, base : Commit, commit : Commit,
     remaining : BOOLEAN, text : Text]

ReviewResult ==
    [kind : {"review"}, task : Task, commit : Commit, source : BuildResult,
     approve : BOOLEAN, text : Text]

DeepCheckResult ==
    [kind : {"deep_check"}, task : Task, reviewed : Commit, commit : Commit,
     source : ReviewResult, approve : BOOLEAN, text : Text]

TaskResult == BuildResult \cup ReviewResult \cup DeepCheckResult

StepProof ==
    [kind : {"fix_proof"}, task : Task, commit : Commit,
     source : ReviewResult \cup DeepCheckResult, text : Text]

-----------------------------------------------------------------------------
(* The state of a flow                                                     *)

TaskFlowState ==
    [task : Task, task_flow : TaskFlows, base : Commit, commit : Commit,
     step : TaskSteps \cup {"none"}, status : TaskFlowStatuses,
     running : BOOLEAN, fix_count : 0 .. MAX_FIXES,
     completed : Seq(TaskSteps), source : SUBSET TaskResult,
     notes : SUBSET Text]

RequiredSteps(f) ==
    CASE f = "build" -> <<"build">>
      [] f = "build_review" -> <<"build", "review">>
      [] OTHER -> <<"build", "review", "deep_check">>

\* At Build, with no proof held and some of the fixes used up.
AtBuild(t, f, base, commit, fixes_used) ==
    [task |-> t, task_flow |-> f, base |-> base, commit |-> commit,
     step |-> "build", status |-> "running", running |-> FALSE,
     fix_count |-> fixes_used, completed |-> <<>>, source |-> {}, notes |-> {}]

StartTaskFlow(t, f, base, commit) == AtBuild(t, f, base, commit, 0)

NextTaskAction(s) == IF s.status = "running" THEN s.step ELSE "none"

CanMarkRunning(s) == s.status = "running" /\ s.step # "none" /\ ~s.running

MarkTaskStepRunning(s) == [s EXCEPT !.running = TRUE]

-----------------------------------------------------------------------------
(* Worker results                                                          *)

\* validate_task_result_binding: the exact Task and pull request, the commit
\* the result speaks of and, for a Build, the base it was built on.
BindsTo(r, s, commit) ==
    /\ r.task = s.task
    /\ r.kind = "build" => r.base = s.base
    /\ r.commit = commit

\* Faulty variant: a Deep Check may start from any commit.
AcceptsResult_AnyStart(s, r, commit) ==
    /\ s.status = "running"
    /\ s.step \notin {"none", "fix"}
    /\ r.kind = s.step
    /\ s.step # "deep_check" => commit = s.commit
    /\ BindsTo(r, s, commit)
    /\ r.kind = "build" => ~r.remaining
    /\ r.kind # "build" => s.source = {r.source}

\* Every check record_task_result makes before it changes the state.
AcceptsResult(s, r, commit) ==
    /\ s.status = "running"
    /\ s.step \notin {"none", "fix"}
    /\ r.kind = s.step
    /\ s.step # "deep_check" => commit = s.commit
    /\ BindsTo(r, s, commit)
    /\ r.kind = "build" => ~r.remaining
    /\ r.kind # "build" => s.source = {r.source}
    /\ r.kind = "deep_check" => r.reviewed = s.commit

Complete(s, r, next) ==
    [s EXCEPT !.step = next,
              !.status = IF next = "none" THEN "ready_to_merge" ELSE "running",
              !.running = FALSE,
              !.completed = Append(@, r.kind),
              !.source = {r}]

\* Faulty variant: the fix limit is forgotten.
RequestFix_NoLimit(s, r) ==
    [s EXCEPT !.step = "fix", !.running = FALSE, !.fix_count = @ + 1,
              !.source = {r}, !.notes = {r.text}]

RequestFix(s, r) ==
    IF s.fix_count >= MAX_FIXES
      THEN [s EXCEPT !.step = "none", !.status = "failed", !.running = FALSE,
                     !.source = {r}, !.notes = {r.text}]
      ELSE [s EXCEPT !.step = "fix", !.running = FALSE, !.fix_count = @ + 1,
                     !.source = {r}, !.notes = {r.text}]

RecordBuild(s, r) ==
    Complete(s, r, IF s.task_flow = "build" THEN "none" ELSE "review")

RecordReview(s, r) ==
    IF ~r.approve
      THEN RequestFix(s, r)
      ELSE Complete(s, r, IF s.task_flow = "build_review"
                            THEN "none" ELSE "deep_check")

\* A Deep Check pushes its tests: the tested commit becomes the current one.
RecordDeepCheck(s, r, commit) ==
    LET moved == [s EXCEPT !.commit = commit]
    IN  IF ~r.approve THEN RequestFix(moved, r) ELSE Complete(moved, r, "none")

RecordTaskResult(s, r, commit) ==
    CASE r.kind = "build"  -> RecordBuild(s, r)
      [] r.kind = "review" -> RecordReview(s, r)
      [] OTHER             -> RecordDeepCheck(s, r, commit)

-----------------------------------------------------------------------------
(* Fix proofs and pushes                                                   *)

AcceptsFixProof(s, p, commit) ==
    /\ s.status = "running" /\ s.step = "fix"
    /\ p.task = s.task
    /\ p.commit = commit
    /\ s.source = {p.source}
    /\ s.notes = {p.text}

\* Faulty variants: the restart keeps a proof, keeps steps, forgets fixes.
Restart_KeepsSource(s, base, commit) ==
    [AtBuild(s.task, s.task_flow, base, commit, s.fix_count)
       EXCEPT !.source = s.source]
Restart_KeepsSteps(s, base, commit) ==
    [AtBuild(s.task, s.task_flow, base, commit, s.fix_count)
       EXCEPT !.completed = s.completed]
Restart_ForgetsFixes(s, base, commit) ==
    AtBuild(s.task, s.task_flow, base, commit, 0)

\* Back to Build: every proof is dropped, only the fix count stays.
Restart(s, base, commit) ==
    AtBuild(s.task, s.task_flow, base, commit, s.fix_count)

RecordFixProof(s, commit) == Restart(s, s.base, commit)

\* Faulty variant: a push revives a failed flow.
ObserveCurrentCommit_Revives(s, base, commit) ==
    IF base = s.base /\ commit = s.commit THEN s
    ELSE IF s.step = "fix" THEN [s EXCEPT !.base = base, !.commit = commit]
    ELSE Restart(s, base, commit)

ObserveCurrentCommit(s, base, commit) ==
    IF base = s.base /\ commit = s.commit
      THEN s
      ELSE IF s.status = "failed" \/ s.step = "fix"
        THEN [s EXCEPT !.base = base, !.commit = commit]
        ELSE Restart(s, base, commit)
=============================================================================
