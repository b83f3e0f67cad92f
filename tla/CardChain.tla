------------------------------ MODULE CardChain ------------------------------
(***************************************************************************)
(* The pure half of forge/ops/task_runtime.py: how a Task flow is rebuilt  *)
(* from its chain of Hermes cards, the pull request and the durable branch *)
(* refresh intents, and which card is missing next.                        *)
(*                                                                         *)
(* Cards are numbered in the order Hermes created them; card 1 is the root *)
(* Build card.  The hash prefix in an idempotency key is modelled by what  *)
(* it hashes.                                                              *)
(***************************************************************************)
EXTENDS FlowRules

CONSTANTS
    Own,          \* the Task whose cards these are
    Selected,     \* its confirmed task_flow
    NoCommit,     \* what a root card names: its pull request does not exist yet
    MAX_BRANCH_REFRESH_COUNT  \* branch refreshes one Task may have

ASSUME NoCommitAssumption == NoCommit \notin Commit
ASSUME OwnAssumption == Own \in Task /\ Selected \in TaskFlows
ASSUME MaxRefreshAssumption == MAX_BRANCH_REFRESH_COUNT \in Nat

Changes == {"branch_refresh", "commit_change"}

\* src is the summary of the run a card continues and run the card of that
\* run; both are empty on the root.  result is empty while the card is open.
Card ==
    [step : TaskSteps, kind : {"root", "continue"} \cup Changes,
     parent : Nat, base : Commit \cup {NoCommit},
     head : Commit \cup {NoCommit}, refreshes : Nat,
     fix_count : 0 .. MAX_FIXES, notes : SUBSET Text,
     src : SUBSET (TaskResult \cup StepProof), run : Nat,
     result : SUBSET (TaskResult \cup StepProof)]

\* task_card_key and step_card_key: what one card must be unique for.
Key(c) ==
    CASE c.kind = "root" -> <<"root">>
      [] c.kind \in Changes -> <<c.step, c.kind, c.base, c.head, c.refreshes>>
      [] OTHER -> <<c.step, c.src>>

HasKey(cards, c) == \E i \in 1 .. Len(cards) : Key(cards[i]) = Key(c)

-----------------------------------------------------------------------------
(* Replaying the chain                                                     *)

\* The chain up to a card: ok is FALSE once GateError was raised, last is the
\* newest replayed card, open tells whether it still runs and summary is the
\* result of the newest completed run.
ReplayRoot(c) ==
    LET r     == CHOOSE x \in c.result : TRUE
        start == StartTaskFlow(Own, Selected, r.base, r.commit)
    IN  [ok |-> AcceptsResult(start, r, r.commit),
         flow |-> RecordTaskResult(start, r, r.commit),
         last |-> 1, open |-> FALSE, refreshes |-> 0, summary |-> c.result]

\* _parse_step_body: the card must continue exactly the replayed state, or
\* restart it from Build for a changed base or head.
ExpectedStep(acc, c) ==
    LET next == NextTaskAction(acc.flow)
    IN  IF next = "none" /\ c.step = "build" /\ c.kind \in Changes
          THEN "build" ELSE next

StateAtCard(acc, c) ==
    IF c.kind \in Changes THEN ObserveCurrentCommit(acc.flow, c.base, c.head)
                          ELSE acc.flow

RefreshesAtCard(acc, c) ==
    IF c.kind = "branch_refresh" THEN acc.refreshes + 1 ELSE acc.refreshes

FitsChain(acc, c, i) ==
    LET at == StateAtCard(acc, c)
    IN  /\ ~acc.open /\ c.parent = i - 1
        /\ c.step = ExpectedStep(acc, c)
        /\ c.refreshes = RefreshesAtCard(acc, c)
        /\ c.run = acc.last
        /\ IF c.kind \in Changes
             THEN /\ c.step = "build"
                  /\ c.refreshes <= MAX_BRANCH_REFRESH_COUNT
                  /\ at.step = "build" /\ at.status = "running"
             ELSE /\ c.src = acc.summary
                  /\ c.base = at.base /\ c.head = at.commit
        /\ c.fix_count = at.fix_count /\ c.notes = at.notes

ReplayCard(acc, c, i) ==
    LET at     == StateAtCard(acc, c)
        isFix  == c.step = "fix"
        r      == CHOOSE x \in c.result : TRUE
        accept == IF isFix THEN AcceptsFixProof(at, r, r.commit)
                           ELSE AcceptsResult(at, r, r.commit)
        after  == IF isFix THEN RecordFixProof(at, r.commit)
                           ELSE RecordTaskResult(at, r, r.commit)
        moved  == [acc EXCEPT !.last = i, !.refreshes = RefreshesAtCard(acc, c)]
    IN  IF ~acc.ok THEN acc
        ELSE IF ~FitsChain(acc, c, i) THEN [acc EXCEPT !.ok = FALSE]
        ELSE IF c.result = {}
          THEN [moved EXCEPT !.flow = MarkTaskStepRunning(at), !.open = TRUE]
        ELSE IF ~accept THEN [acc EXCEPT !.ok = FALSE]
        ELSE [moved EXCEPT !.flow = after, !.summary = c.result]

\* Binding acc to the one value upTo[i - 1] has lets TLC evaluate it once.
Replay(cards) ==
    LET upTo[i \in 1 .. Len(cards)] ==
          IF i = 1 THEN ReplayRoot(cards[1])
            ELSE CHOOSE next \in {ReplayCard(acc, cards[i], i) :
                                     acc \in {upTo[i - 1]}} : TRUE
    IN  upTo[Len(cards)]

-----------------------------------------------------------------------------
(* The snapshot of a Task                                                  *)

\* The base and head a replay sees: a merged pull request is read as what it
\* was merged from.
Seen(pr) == IF pr.merged THEN [base |-> pr.mbase, head |-> pr.mhead]
                         ELSE [base |-> pr.base, head |-> pr.head]

\* _branch_refresh_replay: the intent the card chain does not show yet.
IntentsFit(intents, applied) ==
    /\ Len(intents) \in {applied, applied + 1}
    /\ \A i \in 1 .. applied : intents[i].done

\* _recover_branch_refresh_intent: what becomes of an intent that is not in
\* the chain yet, given the commits the pull request shows now.
Recovery(intent, flow, pr) ==
    LET seen    == Seen(pr)
        changed == seen.base # intent.ebase \/ seen.head # intent.ehead
    IN  IF intent.ebase # flow.base \/ intent.ehead # flow.commit THEN "error"
        ELSE IF ~changed THEN IF intent.done THEN "error" ELSE "wait"
        ELSE IF pr.merged THEN "error"
        ELSE IF ~intent.done THEN "complete"
        ELSE IF intent.nbase = seen.base /\ intent.nhead = seen.head
          THEN "apply" ELSE "error"

\* _replay_cards: status is missing, waiting (for the root Build), error or
\* ok; recovery says what happens to a pending intent.
NoSnapshot == [status |-> "missing", recovery |-> "wait"]

ReplayedSnapshot(acc, rec, pr, intents) ==
    LET seen  == Seen(pr)
        obs   == IF acc.open THEN acc.flow
                 ELSE ObserveCurrentCommit(acc.flow, seen.base, seen.head)
        apply == rec \in {"apply", "complete"}
        pend  == IF apply THEN "branch_refresh"
                 ELSE IF /\ Len(intents) = acc.refreshes
                         /\ obs # acc.flow /\ obs.step = "build"
                   THEN "commit_change" ELSE "continue"
    IN  IF ~acc.ok \/ ~IntentsFit(intents, acc.refreshes) \/ rec = "error"
          THEN [NoSnapshot EXCEPT !.status = "error"]
        ELSE [status |-> "ok", recovery |-> rec, flow |-> obs,
              base |-> seen.base, head |-> seen.head, last |-> acc.last,
              open |-> acc.open, summary |-> acc.summary, pending |-> pend,
              refreshes |-> acc.refreshes + (IF apply THEN 1 ELSE 0)]

PendingRecovery(acc, pr, intents) ==
    IF ~acc.ok \/ Len(intents) # acc.refreshes + 1 THEN "wait"
    ELSE IF acc.open THEN "error"
    ELSE Recovery(intents[acc.refreshes + 1], acc.flow, pr)

Snapshot(cards, pr, intents) ==
    IF cards = <<>> THEN NoSnapshot
    ELSE IF cards[1].result = {}
      THEN [NoSnapshot EXCEPT !.status =
              IF Len(cards) = 1 THEN "waiting" ELSE "error"]
    ELSE CHOOSE snap \in
           {ReplayedSnapshot(acc, PendingRecovery(acc, pr, intents), pr, intents) :
              acc \in {Replay(cards)}} : TRUE

-----------------------------------------------------------------------------
(* The missing card                                                        *)

\* _step_source refuses a source that speaks of another commit.
SourceIsCurrent(snap) ==
    \/ snap.pending \in Changes
    \/ \A r \in snap.summary :
          r.kind = "fix_proof" \/ snap.flow.step = "build"
             => r.commit = snap.flow.commit

StepCard(snap) ==
    [step |-> snap.flow.step, kind |-> snap.pending, parent |-> snap.last,
     base |-> snap.base, head |-> snap.head, refreshes |-> snap.refreshes,
     fix_count |-> snap.flow.fix_count, notes |-> snap.flow.notes,
     src |-> IF snap.pending \in Changes THEN {} ELSE snap.summary,
     run |-> snap.last, result |-> {}]

RootCard ==
    [step |-> "build", kind |-> "root", parent |-> 0, base |-> NoCommit,
     head |-> NoCommit, refreshes |-> 0, fix_count |-> 0, notes |-> {},
     src |-> {}, run |-> 0, result |-> {}]

\* next_card_spec: at most one card.
NextCards(snap) ==
    IF snap.status = "missing" THEN {RootCard}
    ELSE IF snap.status = "ok" /\ ~snap.open /\ snap.flow.status = "running"
            /\ SourceIsCurrent(snap)
      THEN {StepCard(snap)}
      ELSE {}
=============================================================================
