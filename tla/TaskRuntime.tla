----------------------------- MODULE TaskRuntime -----------------------------
(***************************************************************************)
(* One confirmed v1 Task from its root card to the merge of its pull       *)
(* request.  Two processes share it without a common lock on GitHub or     *)
(* Hermes: the worker (run_task_flow_worker) rebuilds the flow and creates *)
(* the one missing card, the merger (run_merge_tasks) rebuilds it too,     *)
(* refreshes the branch and merges.  Between any two of their steps an     *)
(* agent finishes its card, somebody pushes, the base branch advances, a   *)
(* person merges, the Task is cancelled, the permission to merge expires,  *)
(* or a request to GitHub arrives late or not at all.                      *)
(*                                                                         *)
(* The only mutual exclusion is the write lock of the settings database,   *)
(* which guard_active holds across an external write.                      *)
(***************************************************************************)
EXTENDS CardChain, FiniteSets

CONSTANTS
    MaxMoves,    \* bound: pushes and base advances from outside
    MaxCrashes,  \* bound: processes killed and GitHub requests lost
    MovesWhen,   \* "any", or "ready": only once the flow waits for its merge
    ForcePush,   \* whether a push may return to an earlier commit
    BuildPushes, \* whether a restarted Build pushes to bring in its base
    Automatic,   \* the user chose a merge mode other than manual
    Stops        \* the ways a Task may end from outside

ASSUME CommitAssumption == {1, 2} \subseteq Commit /\ Commit \subseteq Nat
ASSUME BoundsAssumption ==
    /\ MaxMoves \in Nat /\ MaxCrashes \in Nat
    /\ MovesWhen \in {"any", "ready"} /\ ForcePush \in BOOLEAN
    /\ BuildPushes \in BOOLEAN /\ Automatic \in BOOLEAN
    /\ Stops \subseteq {"cancel", "expire", "human_merge"}

VARIABLES
    cards,      \* Hermes: the cards of the Task in creation order
    pr,         \* GitHub: the pull request and its base branch
    top,        \* the newest commit name in use
    life,       \* settings database: lifecycle of the Task
    permitted,  \* automatic merging was chosen and has not expired
    intents,    \* settings database: task_branch_refresh_intents
    lock,       \* holder of the database write lock
    wire,       \* write requests GitHub has not answered yet
    proc,       \* the worker and the merger
    moves,      \* outside changes so far
    crashes     \* crashes and lost requests so far

vars == <<cards, pr, top, life, permitted, intents, lock, wire, proc, moves,
          crashes>>
database == <<life, permitted, intents>>
budget == <<moves, crashes>>

Process == {"worker", "merger"}
Idle == [pc |-> "idle", cards |-> <<>>, pr |-> {}, snap |-> {}, card |-> {}]

\* current holds the commits that contain the tip of the base branch.
PullRequest ==
    [base : Commit, head : Commit, current : SUBSET Commit, merged : BOOLEAN,
     mbase : Commit, mhead : Commit, by : {"nobody", "merger", "person"}]

Init ==
    /\ cards = <<>>
    /\ \E current \in {{}, {2}} :
          pr = [base |-> 1, head |-> 2, current |-> current, merged |-> FALSE,
                mbase |-> 1, mhead |-> 2, by |-> "nobody"]
    /\ top = 2
    /\ life = "active" /\ permitted = Automatic
    /\ intents = <<>> /\ lock = "free" /\ wire = {}
    /\ proc = [p \in Process |-> Idle]
    /\ moves = 0 /\ crashes = 0

Guarded == lock = "free" /\ life = "active"
Become(p, state) == proc' = [proc EXCEPT ![p] = state]
Behind(p) == p.head \notin p.current
Updated(c) == [pr EXCEPT !.head = c, !.current = @ \cup {c}]
Pushed(c) == IF Behind(pr) THEN [pr EXCEPT !.head = c] ELSE Updated(c)
Fresh == {top + 1} \cap Commit
OpenCards == {i \in 1 .. Len(cards) : cards[i].result = {}}

-----------------------------------------------------------------------------
(* Both processes load the Task: cards, then the pull request, then the    *)
(* intents (load_task_flow_snapshots, _replay_cards).                      *)

Scan(p) ==
    /\ proc[p].pc = "idle" /\ life = "active"
    /\ Become(p, [Idle EXCEPT !.pc = "read", !.cards = cards])
    /\ UNCHANGED <<cards, pr, top, database, lock, wire, budget>>

\* A card that was open in the list but has a completed run now is an error
\* of this scan only.
Read(p) ==
    LET seen == proc[p].cards
        torn == \E i \in 1 .. Len(seen) : seen[i].result # cards[i].result
    IN  /\ proc[p].pc = "read"
        /\ Become(p, IF torn THEN Idle
                     ELSE [proc[p] EXCEPT !.pc = "plan", !.pr = {pr}])
        /\ UNCHANGED <<cards, pr, top, database, lock, wire, budget>>

\* What a process does with its snapshot.
Continue(p, snap) ==
    IF p = "worker"
      THEN LET new == {c \in NextCards(snap) : ~HasKey(cards, c)}
           IN  IF new = {} THEN Idle
               ELSE [Idle EXCEPT !.pc = "create", !.card = new]
      ELSE IF snap.status = "ok" /\ snap.flow.status = "ready_to_merge"
             THEN [Idle EXCEPT !.pc = "evidence", !.snap = {snap}]
             ELSE Idle

\* Faulty variant: the read-back is not stored.
CompleteIntent_Blank(seen) ==
    intents' = [intents EXCEPT ![Len(intents)].done = TRUE]

CompleteIntent(seen) ==
    intents' = [intents EXCEPT ![Len(intents)] =
                  [@ EXCEPT !.done = TRUE, !.nbase = seen.base,
                            !.nhead = seen.head]]

\* The replay persists the read-back of a refresh it finds unrecorded.
Plan(p) ==
    /\ proc[p].pc = "plan"
    /\ \E seen \in proc[p].pr :
       \E snap \in {Snapshot(proc[p].cards, seen, intents)} :
          \/ /\ life # "active" \/ snap.status = "error"
             /\ Become(p, Idle)
             /\ UNCHANGED intents
          \/ /\ life = "active" /\ snap.status # "error"
             /\ IF snap.recovery = "complete"
                  THEN lock = "free" /\ CompleteIntent(Seen(seen))
                  ELSE UNCHANGED intents
             /\ Become(p, Continue(p, snap))
    /\ UNCHANGED <<cards, pr, top, life, permitted, lock, wire, budget>>

\* Faulty variants: no second look at the key, no look at the lifecycle.
CreateCard_Unchecked(p, card) ==
    /\ \/ Guarded /\ cards' = Append(cards, card)
       \/ life # "active" /\ UNCHANGED cards
    /\ Become(p, Idle)
    /\ UNCHANGED <<pr, top, database, lock, wire, budget>>
CreateCard_Ended(p, card) ==
    /\ lock = "free"
    /\ cards' = IF HasKey(cards, card) THEN cards ELSE Append(cards, card)
    /\ Become(p, Idle)
    /\ UNCHANGED <<pr, top, database, lock, wire, budget>>

\* Both creators check the key again under the lock.
CreateCard(p, card) ==
    /\ \/ /\ Guarded
          /\ cards' = IF HasKey(cards, card) THEN cards ELSE Append(cards, card)
       \/ life # "active" /\ UNCHANGED cards
    /\ Become(p, Idle)
    /\ UNCHANGED <<pr, top, database, lock, wire, budget>>

WorkerCreate ==
    /\ proc["worker"].pc = "create"
    /\ \E card \in proc["worker"].card : CreateCard("worker", card)

-----------------------------------------------------------------------------
(* The merger decides (_run_one, decide_merge).  evidence is a second read *)
(* of the pull request; its eval check is taken to be green and its rules  *)
(* to allow merging, every other verdict ends the run like a crash.        *)

Merger == proc["merger"]
Snap == CHOOSE s \in Merger.snap : TRUE
Evidence == CHOOSE e \in Merger.pr : TRUE
MergerAt(pc) == Merger.pc = pc
MergerGoes(pc) == Become("merger", [Merger EXCEPT !.pc = pc])
MergerEnds == Become("merger", Idle)

Ahead == Len(intents) = Snap.refreshes + 1
Intent == intents[Len(intents)]
Matches(now) == now.base = Snap.base /\ now.head = Snap.head
MergedAsProven(now) ==
    now.merged /\ now.mbase = Snap.base /\ now.mhead = Snap.head

ReadEvidence ==
    /\ MergerAt("evidence")
    /\ Become("merger", [Merger EXCEPT !.pc = "decide", !.pr = {pr}])
    /\ UNCHANGED <<cards, pr, top, database, lock, wire, budget>>

\* A merge somebody else made is recorded when it is exactly what was proven.
ObserveMerge ==
    /\ MergerAt("decide") /\ Guarded
    /\ MergedAsProven(Evidence)
    /\ life' = "merged"
    /\ MergerEnds
    /\ UNCHANGED <<cards, pr, top, permitted, intents, lock, wire, budget>>

MayRefresh ==
    /\ ~Evidence.merged /\ Matches(Evidence) /\ Behind(Evidence) /\ permitted
    /\ Snap.refreshes < MAX_BRANCH_REFRESH_COUNT

\* Faulty variant: an intent that is still pending is not looked for.
Reserve_Again ==
    /\ MergerAt("decide") /\ Guarded /\ MayRefresh
    /\ intents' = Append(intents,
                    [ebase |-> Evidence.base, ehead |-> Evidence.head,
                     done |-> FALSE, nbase |-> NoCommit, nhead |-> NoCommit])
    /\ MergerGoes("refresh")
    /\ UNCHANGED <<cards, pr, top, life, permitted, lock, wire, budget>>

\* reserve_branch_refresh spends the refresh number before any write.
Reserve ==
    /\ MergerAt("decide") /\ Guarded
    /\ Len(intents) = Snap.refreshes
    /\ MayRefresh
    /\ intents' = Append(intents,
                    [ebase |-> Evidence.base, ehead |-> Evidence.head,
                     done |-> FALSE, nbase |-> NoCommit, nhead |-> NoCommit])
    /\ MergerGoes("refresh")
    /\ UNCHANGED <<cards, pr, top, life, permitted, lock, wire, budget>>

Resume ==
    /\ MergerAt("decide") /\ life = "active"
    /\ ~Evidence.merged /\ Ahead
    /\ MergerGoes("refresh")
    /\ UNCHANGED <<cards, pr, top, database, lock, wire, budget>>

MayMerge ==
    /\ ~Evidence.merged /\ Matches(Evidence) /\ ~Behind(Evidence) /\ permitted
    /\ Len(intents) = Snap.refreshes

LockForMerge ==
    /\ MergerAt("decide") /\ Guarded
    /\ MayMerge
    /\ lock' = "merger"
    /\ MergerGoes("merge")
    /\ UNCHANGED <<cards, pr, top, database, wire, budget>>

\* RESTART_FLOW, MANUAL_MERGE_REQUIRED, CHECK_ERROR, or a Task that ended.
Decline ==
    /\ MergerAt("decide")
    /\ \/ life # "active"
       \/ Evidence.merged /\ ~MergedAsProven(Evidence)
       \/ ~Evidence.merged /\ ~Ahead /\ ~MayRefresh /\ ~MayMerge
    /\ MergerEnds
    /\ UNCHANGED <<cards, pr, top, database, lock, wire, budget>>

-----------------------------------------------------------------------------
(* _resume_branch_refresh and GitHubMergeClient.update_branch              *)

IntentFits == Ahead /\ Intent.ebase = Snap.base /\ Intent.ehead = Snap.head
RefreshSeen == <<Evidence.base, Evidence.head>> # <<Intent.ebase, Intent.ehead>>

\* A completed intent is projected only if the pull request still shows it.
RefreshFound ==
    /\ MergerAt("refresh") /\ IntentFits
    /\ \/ /\ Intent.done
          /\ Intent.nbase = Evidence.base /\ Intent.nhead = Evidence.head
          /\ UNCHANGED intents
       \/ /\ ~Intent.done /\ RefreshSeen /\ Guarded
          /\ CompleteIntent(Evidence)
    /\ MergerGoes("record")
    /\ UNCHANGED <<cards, pr, top, life, permitted, lock, wire, budget>>

LockForRefresh ==
    /\ MergerAt("refresh") /\ IntentFits
    /\ ~Intent.done /\ ~RefreshSeen
    /\ Behind(Evidence) /\ permitted /\ Guarded
    /\ lock' = "merger"
    /\ MergerGoes("update")
    /\ UNCHANGED <<cards, pr, top, database, wire, budget>>

RefreshError ==
    /\ MergerAt("refresh")
    /\ \/ ~IntentFits
       \/ /\ Intent.done
          /\ <<Intent.nbase, Intent.nhead>> # <<Evidence.base, Evidence.head>>
       \/ ~Intent.done /\ ~RefreshSeen /\ (~Behind(Evidence) \/ ~permitted)
       \/ ~Intent.done /\ life # "active"
    /\ MergerEnds
    /\ UNCHANGED <<cards, pr, top, database, lock, wire, budget>>

Unlock == lock' = "free"

\* Nothing is written when the read before the write differs.
RequestUpdate ==
    /\ MergerAt("update")
    /\ IF Matches(pr) /\ ~pr.merged
         THEN /\ wire' = wire \cup {[op |-> "update", sha |-> Snap.head]}
              /\ MergerGoes("poll")
              /\ UNCHANGED lock
         ELSE MergerEnds /\ Unlock /\ UNCHANGED wire
    /\ UNCHANGED <<cards, pr, top, database, budget>>

\* The bounded polling sees the new head, or gives up.
UpdateSeen ==
    /\ MergerAt("poll")
    /\ ~pr.merged /\ pr.head # Snap.head
    /\ CompleteIntent(pr)
    /\ Become("merger", [Merger EXCEPT !.pc = "record", !.pr = {pr}])
    /\ Unlock
    /\ UNCHANGED <<cards, pr, top, life, permitted, wire, budget>>

\* Faulty variant: the transaction stays open when polling fails.
UpdateNotSeen_Locked ==
    /\ MergerAt("poll")
    /\ MergerEnds
    /\ UNCHANGED <<cards, pr, top, database, lock, wire, budget>>

UpdateNotSeen ==
    /\ MergerAt("poll")
    /\ MergerEnds /\ Unlock
    /\ UNCHANGED <<cards, pr, top, database, wire, budget>>

\* record_branch_refresh_result
RefreshCard ==
    LET restarted == Restart(Snap.flow, Evidence.base, Evidence.head)
    IN  StepCard([Snap EXCEPT !.flow = restarted, !.base = Evidence.base,
                              !.head = Evidence.head, !.refreshes = @ + 1,
                              !.pending = "branch_refresh"])

RecordRefresh == MergerAt("record") /\ CreateCard("merger", RefreshCard)

-----------------------------------------------------------------------------
(* GitHubMergeClient.merge_expected_commit, under the lock                 *)

\* guard.finish: the lifecycle ends with the lock.
Finish(now) ==
    /\ life' = IF MergedAsProven(now) THEN "merged" ELSE life
    /\ MergerEnds /\ Unlock

\* Faulty variant: merges the head it reads instead of the proven one.
RequestMerge_ThisHead ==
    /\ MergerAt("merge")
    /\ IF ~pr.merged
         THEN /\ wire' = wire \cup {[op |-> "merge", sha |-> pr.head]}
              /\ MergerGoes("verify")
              /\ UNCHANGED <<life, lock>>
         ELSE Finish(pr) /\ UNCHANGED wire
    /\ UNCHANGED <<cards, pr, top, permitted, intents, budget>>

RequestMerge ==
    /\ MergerAt("merge")
    /\ IF ~pr.merged /\ Matches(pr)
         THEN /\ wire' = wire \cup {[op |-> "merge", sha |-> Snap.head]}
              /\ MergerGoes("verify")
              /\ UNCHANGED <<life, lock>>
         ELSE Finish(pr) /\ UNCHANGED wire
    /\ UNCHANGED <<cards, pr, top, permitted, intents, budget>>

VerifyMerge ==
    /\ MergerAt("verify")
    /\ Finish(pr)
    /\ UNCHANGED <<cards, pr, top, permitted, intents, wire, budget>>

-----------------------------------------------------------------------------
(* GitHub.  The branch protection the evidence asks for refuses a merge of *)
(* a head that does not contain the base branch.                           *)

Answer(request) ==
    /\ wire' = wire \ {request}
    /\ ~pr.merged /\ pr.head = request.sha
    /\ \/ /\ request.op = "merge" /\ ~Behind(pr)
          /\ pr' = [pr EXCEPT !.merged = TRUE, !.mbase = pr.base,
                              !.mhead = pr.head, !.by = "merger"]
          /\ UNCHANGED top
       \/ /\ request.op = "update"
          /\ \E c \in Fresh :
                pr' = Updated(c) /\ top' = c
    /\ UNCHANGED <<cards, database, lock, proc, budget>>

\* Refused: another head, behind, or merged already.
Refuse(request) ==
    /\ pr.merged \/ pr.head # request.sha \/ (request.op = "merge" /\ Behind(pr))
    /\ wire' = wire \ {request}
    /\ UNCHANGED <<cards, pr, top, database, lock, proc, budget>>

-----------------------------------------------------------------------------
(* Agents (external): each follows the skill its card names.               *)

Submit(i, result, after) ==
    /\ cards' = [cards EXCEPT ![i].result = {result}]
    /\ pr' = after
    /\ top' = IF after.head > top THEN after.head ELSE top
    /\ UNCHANGED <<database, lock, wire, proc, budget>>

\* build-task: reports the base and head the pull request has at the end.
AgentBuild(i) ==
    /\ cards[i].step = "build" /\ ~pr.merged
    /\ \E x \in Text, c \in {pr.head} \cup (IF BuildPushes /\ Behind(pr)
                                           THEN Fresh ELSE {}) :
          Submit(i, [kind |-> "build", task |-> Own, base |-> pr.base,
                     commit |-> c, remaining |-> FALSE, text |-> x],
                 IF c = pr.head THEN pr ELSE Updated(c))

\* review-task: only the commit the card names.
AgentReview(i) ==
    /\ cards[i].step = "review" /\ pr.head = cards[i].head
    /\ \E x \in Text, ok \in BOOLEAN, build \in cards[i].src :
          Submit(i, [kind |-> "review", task |-> Own, commit |-> pr.head,
                     source |-> build, approve |-> ok, text |-> x],
                 pr)

\* deep-check: adds a test, pushes it and reports the new commit.
AgentDeepCheck(i) ==
    /\ cards[i].step = "deep_check" /\ pr.head = cards[i].head /\ ~pr.merged
    /\ \E c \in Fresh, x \in Text, ok \in BOOLEAN, review \in cards[i].src :
          Submit(i, [kind |-> "deep_check", task |-> Own,
                     reviewed |-> cards[i].head, commit |-> c,
                     source |-> review, approve |-> ok, text |-> x],
                 Pushed(c))

\* fix-task: pushes the fix; the notes must repeat those of the card.
AgentFix(i) ==
    /\ cards[i].step = "fix" /\ pr.head = cards[i].head /\ ~pr.merged
    /\ \E c \in Fresh, x \in cards[i].notes, rejection \in cards[i].src :
          Submit(i, [kind |-> "fix_proof", task |-> Own, commit |-> c,
                     source |-> rejection, text |-> x],
                 Pushed(c))

Agent(i) == AgentBuild(i) \/ AgentReview(i) \/ AgentDeepCheck(i) \/ AgentFix(i)

-----------------------------------------------------------------------------
(* The world                                                               *)

Built == cards # <<>> /\ cards[1].result # {}

\* "ready" confines outside changes to a flow that waits for its merge while
\* the merger is not looking at it.
MayMove ==
    /\ Built /\ ~pr.merged /\ moves < MaxMoves
    /\ MovesWhen = "ready" =>
          LET snap == Snapshot(cards, pr, intents)
          IN  /\ snap.status = "ok" /\ snap.flow.status = "ready_to_merge"
              /\ Len(intents) = snap.refreshes
              /\ Merger.pc = "idle"
    /\ moves' = moves + 1
    /\ UNCHANGED <<cards, database, lock, wire, proc, crashes>>

ReportedCommits == {r.commit : r \in UNION {cards[i].result : i \in DOMAIN cards}}

Push ==
    /\ MayMove
    /\ \E c \in Fresh \cup (IF ForcePush THEN ReportedCommits ELSE {}) :
          /\ c # pr.head
          /\ pr' = IF c > top THEN Pushed(c) ELSE [pr EXCEPT !.head = c]
          /\ top' = IF c > top THEN c ELSE top

BaseAdvances ==
    /\ MayMove
    /\ \E c \in Fresh :
          pr' = [pr EXCEPT !.base = c, !.current = {}] /\ top' = c

HumanMerge ==
    /\ "human_merge" \in Stops
    /\ Built /\ ~pr.merged
    /\ pr' = [pr EXCEPT !.merged = TRUE, !.mbase = pr.base, !.mhead = pr.head,
                        !.by = "person"]
    /\ UNCHANGED <<cards, top, database, lock, wire, proc, budget>>

\* append_lifecycle_event waits for the lock.
Cancel ==
    /\ "cancel" \in Stops /\ Guarded
    /\ life' = "cancelled"
    /\ UNCHANGED <<cards, pr, top, permitted, intents, lock, wire, proc, budget>>

Expire ==
    /\ "expire" \in Stops /\ permitted
    /\ permitted' = FALSE
    /\ UNCHANGED <<cards, pr, top, life, intents, lock, wire, proc, budget>>

\* A killed process loses its memory and its lock, not its requests.
Crash(p) ==
    /\ crashes < MaxCrashes /\ proc[p].pc # "idle"
    /\ Become(p, Idle)
    /\ lock' = IF lock = p THEN "free" ELSE lock
    /\ crashes' = crashes + 1
    /\ UNCHANGED <<cards, pr, top, database, wire, moves>>

Lose(request) ==
    /\ crashes < MaxCrashes
    /\ wire' = wire \ {request}
    /\ crashes' = crashes + 1
    /\ UNCHANGED <<cards, pr, top, database, lock, proc, moves>>

-----------------------------------------------------------------------------
Load(p) == Scan(p) \/ Read(p) \/ Plan(p)

Decide == ReadEvidence \/ ObserveMerge \/ Reserve \/ Resume \/ LockForMerge
          \/ Decline
Refresh == RefreshFound \/ LockForRefresh \/ RefreshError \/ RequestUpdate
           \/ UpdateSeen \/ UpdateNotSeen \/ RecordRefresh
Merge == RequestMerge \/ VerifyMerge
GitHub == \E request \in wire : Answer(request) \/ Refuse(request)
World == Push \/ BaseAdvances \/ HumanMerge \/ Cancel \/ Expire

Next ==
    \/ \E p \in Process : Load(p) \/ Crash(p)
    \/ WorkerCreate
    \/ Decide \/ Refresh \/ Merge
    \/ GitHub
    \/ \E request \in wire : Lose(request)
    \/ \E i \in OpenCards : Agent(i)
    \/ World

Spec == Init /\ [][Next]_vars

\* Timers start both processes again and again, GitHub answers, agents finish.
Fairness ==
    /\ \A p \in Process : WF_vars(Load(p))
    /\ WF_vars(WorkerCreate)
    /\ WF_vars(Decide) /\ WF_vars(Refresh) /\ WF_vars(Merge)
    /\ WF_vars(GitHub)
    /\ WF_vars(\E i \in OpenCards : Agent(i))

FairSpec == Spec /\ Fairness

-----------------------------------------------------------------------------
(* Properties                                                              *)

BranchRefreshIntent ==
    [ebase : Commit, ehead : Commit, done : {TRUE}, nbase : Commit,
     nhead : Commit]
    \cup [ebase : Commit, ehead : Commit, done : {FALSE},
          nbase : {NoCommit}, nhead : {NoCommit}]

TypeOK ==
    /\ cards \in Seq(Card)
    /\ pr \in PullRequest
    /\ top \in Commit
    /\ life \in {"active", "merged", "cancelled"}
    /\ permitted \in BOOLEAN
    /\ intents \in Seq(BranchRefreshIntent)
    /\ lock \in {"free", "merger"}
    /\ wire \in SUBSET [op : {"merge", "update"}, sha : Commit]
    /\ DOMAIN proc = Process
    /\ moves \in 0 .. MaxMoves /\ crashes \in 0 .. MaxCrashes

\* The chain as it stood when n cards existed had proven this base and head.
ProvenBy(n, base, head) ==
    LET acc == Replay(SubSeq(cards, 1, n))
    IN  /\ Built /\ acc.ok /\ ~acc.open
        /\ acc.flow.status = "ready_to_merge"
        /\ acc.flow.base = base /\ acc.flow.commit = head

ProvenPair(base, head) ==
    \E n \in 1 .. Len(cards) : ProvenBy(n, base, head)

\* However the pull request and the base move between the merger's reads and
\* GitHub's late answer, the merger merges only a commit, and onto a base, that
\* the selected steps proved together; and a Task is recorded as merged only if
\* its pull request is, at a pair its results prove, whoever merged it.
OnlyProvenIsMerged ==
    LET proven == pr.merged /\ ProvenPair(pr.mbase, pr.mhead)
    IN  /\ pr.merged /\ pr.by = "merger" => proven
        /\ life = "merged" => proven

\* The card chain and the intent table are separate stores written without a
\* common transaction: the chain is never ahead, at most one intent is, and
\* the refreshes spent stay within the limit.
RefreshesAreReserved ==
    LET applied == Cardinality({i \in 1 .. Len(cards) :
                                  cards[i].kind = "branch_refresh"})
    IN  /\ IntentsFit(intents, applied)
        /\ Len(intents) <= MAX_BRANCH_REFRESH_COUNT

\* Once the Task ended no card is created and no new request goes to GitHub.
NothingAfterEnd ==
    [][life # "active" => Len(cards') = Len(cards) /\ wire' \subseteq wire]_vars

\* However pushes, base advances and plans made from older snapshots by the two
\* creators of cards meet, an active Task is never left with a card chain that
\* the replay refuses: one that forks, has a card out of order or a refresh
\* too many.
ChainStaysReplayable ==
    life = "active" /\ ~pr.merged =>
        Snapshot(cards, pr, intents).status # "error"

\* The Task ended, workers failed it for good, or it waits for a person.
Decided ==
    LET snap == Snapshot(cards, pr, intents)
    IN  \/ life # "active"
        \/ /\ snap.status = "ok"
           /\ \/ snap.flow.status = "failed"
              \/ /\ snap.flow.status = "ready_to_merge"
                 /\ ~permitted \/ (Behind(pr) /\ snap.refreshes
                                               = MAX_BRANCH_REFRESH_COUNT)

\* Crashes, lost answers, pushes and base advances between the two processes
\* never leave a Task in limbo: it is merged, failed, or waits for a person.
EventuallyDecided == <>[]Decided

=============================================================================
