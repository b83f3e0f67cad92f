-------------------------- MODULE TaskRuntime_proofs --------------------------
(***************************************************************************)
(* Proofs about CardChain and TaskRuntime.  First what the replay of a     *)
(* card chain returns, for chains of any length: its type, and that a      *)
(* chain which ends without an open card has none at all.  Then that a     *)
(* Task is merged only at a commit and a base its selected steps proved    *)
(* together, and that nothing is created or requested for it after its     *)
(* end, for every flow, every number of cards, commits and refreshes, and  *)
(* however the two processes, the agents, GitHub and the outside world     *)
(* meet.  Then that every refresh in the chain has its completed intent,   *)
(* and last that the chain of a calm Task, whose pull request moves only   *)
(* while its flow waits for the merge, always replays.                     *)
(***************************************************************************)
EXTENDS TaskRuntime, WellFoundedInduction, FiniteSetTheorems,
        FunctionTheorems, TLAPS

-----------------------------------------------------------------------------
(* Induction goes by the least member of a set of numbers: a theorem with  *)
(* an operator as its parameter could not be instantiated.                 *)

LEMMA LeastMember ==
    ASSUME NEW T \in SUBSET Nat, T # {}
    PROVE  \E n \in T : \A m \in T : n <= m
<1> DEFINE R == OpToRel(<, Nat)
<1>1. IsWellFoundedOn(R, Nat)
  BY NatLessThanWellFounded
<1>2. R = {ss \in Nat \X Nat : ss[1] < ss[2]}
  BY DEF OpToRel
<1> HIDE DEF R
<1>3. PICK n \in T : \A m \in T : ~(<<m, n>> \in R)
  BY <1>1, WFMin
<1>4. ASSUME NEW m \in T PROVE n <= m
  <2>1. m < n => <<m, n>> \in R
    BY <1>2
  <2> QED
    BY <1>3, <2>1
<1> QED
  BY <1>4

LEMMA Induction ==
    ASSUME NEW T, 1 \in T, \A n \in Nat \ {0} : n \in T => n + 1 \in T
    PROVE  \A n \in Nat \ {0} : n \in T
<1> DEFINE Rest == {n \in Nat \ {0} : n \notin T}
<1> SUFFICES ASSUME Rest # {} PROVE FALSE
  OBVIOUS
<1>1. PICK n \in Rest : \A m \in Rest : n <= m
  BY LeastMember
<1>2. n # 1 /\ n - 1 \in Nat \ {0} /\ n - 1 \notin Rest
  BY <1>1
<1> QED
  BY <1>2, <1>1

-----------------------------------------------------------------------------
(* Types                                                                   *)

Anything == TaskResult \cup StepProof

\* What a card of each step may end with, and what it may continue.
Results(step) ==
    IF step = "build" THEN BuildResult
    ELSE IF step = "review" THEN ReviewResult
    ELSE IF step = "deep_check" THEN DeepCheckResult
    ELSE StepProof

Sources(step) ==
    IF step = "review" THEN BuildResult
    ELSE IF step = "deep_check" THEN ReviewResult
    ELSE IF step = "fix" THEN ReviewResult \cup DeepCheckResult
    ELSE Anything

WellMade ==
    {c \in Card :
        /\ c.result \subseteq Results(c.step)
        /\ c.src \subseteq Sources(c.step)
        /\ IF c.kind = "root" THEN c.step = "build"
           ELSE c.base \in Commit /\ c.head \in Commit}

Flow == {s \in TaskFlowState : s.status = "running" <=> s.step # "none"}

Replayed ==
    [ok : BOOLEAN, flow : Flow, last : Nat, open : BOOLEAN, refreshes : Nat,
     summary : SUBSET Anything]

\* A chain: it begins with a completed Build.
Chain(cs) ==
    /\ cs \in Seq(WellMade) /\ cs # <<>>
    /\ cs[1].step = "build" /\ cs[1].result # {}

\* What is known of the replay of the first i cards.
ReplayInv(acc, cs, i) ==
    /\ acc \in Replayed
    /\ acc.ok /\ acc.open => acc.flow.status = "running"
    /\ acc.ok /\ ~acc.open =>
          /\ acc.summary \subseteq Sources(acc.flow.step)
          /\ \A j \in 1 .. i : cs[j].result # {}

-----------------------------------------------------------------------------
(* The rules of a flow                                                     *)

LEMMA AtBuildFlow ==
    ASSUME NEW t \in Task, NEW f \in TaskFlows, NEW base \in Commit,
           NEW commit \in Commit, NEW n \in 0 .. MAX_FIXES
    PROVE  /\ AtBuild(t, f, base, commit, n) \in Flow
           /\ AtBuild(t, f, base, commit, n).step = "build"
           /\ AtBuild(t, f, base, commit, n).status = "running"
           /\ AtBuild(t, f, base, commit, n).base = base
           /\ AtBuild(t, f, base, commit, n).commit = commit
<1>1. <<>> \in Seq(TaskSteps)
  OBVIOUS
<1> QED
  BY <1>1 DEF AtBuild, Flow, TaskFlowState, TaskSteps, TaskFlowStatuses

LEMMA RestartFlow ==
    ASSUME NEW s \in Flow, NEW base \in Commit, NEW commit \in Commit
    PROVE  /\ Restart(s, base, commit) \in Flow
           /\ Restart(s, base, commit).step = "build"
           /\ Restart(s, base, commit).status = "running"
           /\ Restart(s, base, commit).base = base
           /\ Restart(s, base, commit).commit = commit
<1>1. s.task \in Task /\ s.task_flow \in TaskFlows /\ s.fix_count \in 0 .. MAX_FIXES
  BY DEF Flow, TaskFlowState
<1> QED
  BY <1>1, AtBuildFlow DEF Restart

LEMMA StartFlow ==
    ASSUME NEW base \in Commit, NEW commit \in Commit
    PROVE  StartTaskFlow(Own, Selected, base, commit) \in Flow
<1>1. 0 \in 0 .. MAX_FIXES
  BY MaxFixesAssumption
<1> QED
  BY <1>1, AtBuildFlow, OwnAssumption DEF StartTaskFlow

\* The observed commits are the new ones, and a flow that is ready afterwards
\* was ready for them before.
LEMMA ObserveFlow ==
    ASSUME NEW s \in Flow, NEW base \in Commit, NEW commit \in Commit
    PROVE  LET after == ObserveCurrentCommit(s, base, commit)
           IN  /\ after \in Flow
               /\ after.base = base /\ after.commit = commit
               /\ after.step \in {"build", s.step}
               /\ after.status = "ready_to_merge" =>
                     after = s /\ s.base = base /\ s.commit = commit
<1> DEFINE after == ObserveCurrentCommit(s, base, commit)
<1>1. CASE base = s.base /\ commit = s.commit
  BY <1>1 DEF ObserveCurrentCommit
<1>2. CASE ~(base = s.base /\ commit = s.commit)
           /\ (s.status = "failed" \/ s.step = "fix")
  <2>1. after = [s EXCEPT !.base = base, !.commit = commit]
    BY <1>2 DEF ObserveCurrentCommit
  <2>2. /\ after \in TaskFlowState /\ after.base = base /\ after.commit = commit
        /\ after.step = s.step /\ after.status = s.status
    BY <2>1 DEF Flow, TaskFlowState
  <2> QED
    BY <1>2, <2>2 DEF Flow
<1>3. CASE ~(base = s.base /\ commit = s.commit)
           /\ ~(s.status = "failed" \/ s.step = "fix")
  BY <1>3, RestartFlow DEF ObserveCurrentCommit
<1> QED
  BY <1>1, <1>2, <1>3

LEMMA ObservedFlow ==
    \A s \in Flow, base \in Commit, commit \in Commit : \A after :
       after = ObserveCurrentCommit(s, base, commit) =>
          /\ after \in Flow /\ after.step \in {"build", s.step}
          /\ after.status = "ready_to_merge" =>
                after = s /\ s.base = base /\ s.commit = commit
<1> SUFFICES ASSUME NEW s \in Flow, NEW base \in Commit, NEW commit \in Commit,
                    NEW after, after = ObserveCurrentCommit(s, base, commit)
             PROVE  /\ after \in Flow /\ after.step \in {"build", s.step}
                    /\ after.status = "ready_to_merge" =>
                          after = s /\ s.base = base /\ s.commit = commit
  OBVIOUS
<1> QED
  BY ObserveFlow

LEMMA MarkFlow ==
    ASSUME NEW s \in Flow
    PROVE  /\ MarkTaskStepRunning(s) \in Flow
           /\ MarkTaskStepRunning(s).status = s.status
           /\ MarkTaskStepRunning(s).step = s.step
BY DEF MarkTaskStepRunning, Flow, TaskFlowState

LEMMA CompleteFlow ==
    ASSUME NEW s \in Flow, NEW r \in TaskResult, r.kind \in TaskSteps,
           NEW next \in TaskSteps \cup {"none"}
    PROVE  /\ Complete(s, r, next) \in Flow
           /\ Complete(s, r, next).step = next
<1>1. Append(s.completed, r.kind) \in Seq(TaskSteps)
  BY DEF Flow, TaskFlowState
<1>2. Complete(s, r, next) \in TaskFlowState
  BY <1>1 DEF Complete, Flow, TaskFlowState, TaskFlowStatuses
<1>3. /\ Complete(s, r, next).step = next
      /\ Complete(s, r, next).status
           = IF next = "none" THEN "ready_to_merge" ELSE "running"
  BY DEF Complete, Flow, TaskFlowState
<1> QED
  BY <1>2, <1>3 DEF Flow

LEMMA RequestFixFlow ==
    ASSUME NEW s \in Flow, NEW r \in TaskResult, r.text \in Text,
           s.status = "running"
    PROVE  /\ RequestFix(s, r) \in Flow
           /\ RequestFix(s, r).step \in {"none", "fix"}
<1>1. /\ s \in TaskFlowState /\ MAX_FIXES \in Nat
      /\ s.fix_count \in 0 .. MAX_FIXES
  BY MaxFixesAssumption DEF Flow, TaskFlowState
<1>2. CASE s.fix_count >= MAX_FIXES
  <2> DEFINE t == [s EXCEPT !.step = "none", !.status = "failed",
                            !.running = FALSE, !.source = {r}, !.notes = {r.text}]
  <2>1. t \in TaskFlowState /\ t.step = "none" /\ t.status = "failed"
    BY <1>1 DEF TaskFlowState, TaskFlowStatuses
  <2> QED
    BY <1>2, <2>1 DEF RequestFix, Flow
<1>3. CASE ~(s.fix_count >= MAX_FIXES)
  <2> DEFINE n == s.fix_count + 1
             t == [s EXCEPT !.step = "fix", !.running = FALSE, !.fix_count = n,
                            !.source = {r}, !.notes = {r.text}]
  <2>1. n \in 0 .. MAX_FIXES
    BY <1>1, <1>3
  <2>2. RequestFix(s, r) = t
    BY <1>3 DEF RequestFix
  <2> HIDE DEF n
  <2>3. t \in TaskFlowState /\ t.step = "fix" /\ t.status = "running"
    BY <1>1, <2>1 DEF TaskFlowState, TaskSteps
  <2> QED
    BY <2>2, <2>3 DEF Flow
<1> QED
  BY <1>2, <1>3

LEMMA ResultFields ==
    /\ \A r \in BuildResult :
          r \in TaskResult /\ r.kind = "build" /\ r.commit \in Commit
          /\ r.base \in Commit /\ r.text \in Text
    /\ \A r \in ReviewResult :
          r \in TaskResult /\ r.kind = "review" /\ r.commit \in Commit
          /\ r.text \in Text
    /\ \A r \in DeepCheckResult :
          r \in TaskResult /\ r.kind = "deep_check" /\ r.commit \in Commit
          /\ r.text \in Text
    /\ \A r \in StepProof : r.kind = "fix_proof" /\ r.commit \in Commit
BY DEF BuildResult, ReviewResult, DeepCheckResult, StepProof, TaskResult

\* A Build is recorded whatever state it finds.
LEMMA BuildFlow ==
    ASSUME NEW s \in Flow, NEW r \in BuildResult
    PROVE  /\ RecordTaskResult(s, r, r.commit) \in Flow
           /\ RecordTaskResult(s, r, r.commit).step \in {"none", "review"}
<1>1. r \in TaskResult /\ r.kind = "build" /\ "build" \in TaskSteps
  BY ResultFields DEF TaskSteps
<1>2. PICK next \in {"none", "review"} :
         RecordTaskResult(s, r, r.commit) = Complete(s, r, next)
  BY <1>1 DEF RecordTaskResult, RecordBuild
<1>3. next \in TaskSteps \cup {"none"}
  BY DEF TaskSteps
<1>4. Complete(s, r, next) \in Flow /\ Complete(s, r, next).step = next
  BY <1>1, <1>3, CompleteFlow
<1> QED
  BY <1>2, <1>4

LEMMA NextSources ==
    /\ \A step \in {"none", "review"} : BuildResult \subseteq Sources(step)
    /\ \A step \in {"none", "deep_check", "fix"} : ReviewResult \subseteq Sources(step)
    /\ \A step \in {"none", "fix"} : DeepCheckResult \subseteq Sources(step)
BY DEF Sources, Anything, TaskResult

\* A flow that accepts a result goes on to a step that can use it.
LEMMA AcceptedFlow ==
    ASSUME NEW s \in Flow, NEW step \in {"build", "review", "deep_check"},
           NEW r \in Results(step), AcceptsResult(s, r, r.commit)
    PROVE  /\ RecordTaskResult(s, r, r.commit) \in Flow
           /\ Results(step) \subseteq Sources(RecordTaskResult(s, r, r.commit).step)
<1> DEFINE after == RecordTaskResult(s, r, r.commit)
<1>0. s.status = "running"
  BY DEF AcceptsResult
<1>1. CASE step = "build"
  <2>1. r \in BuildResult /\ Results(step) = BuildResult
    BY <1>1 DEF Results
  <2>2. after \in Flow /\ after.step \in {"none", "review"}
    BY <2>1, BuildFlow
  <2> QED
    BY <2>1, <2>2, NextSources
<1>2. CASE step = "review"
  <2>1. /\ r \in ReviewResult /\ r \in TaskResult /\ r.kind = "review"
        /\ r.text \in Text /\ Results(step) = ReviewResult
    BY <1>2, ResultFields DEF Results
  <2>2. after = RecordReview(s, r)
    BY <2>1 DEF RecordTaskResult
  <2> HIDE DEF after
  <2>3. CASE ~r.approve
    <3>1. after = RequestFix(s, r)
      BY <2>2, <2>3 DEF RecordReview
    <3>2. after \in Flow /\ after.step \in {"none", "fix"}
      BY <1>0, <2>1, <3>1, RequestFixFlow
    <3> QED
      BY <2>1, <3>2, NextSources DEF after
  <2>4. CASE r.approve
    <3>1. PICK next \in {"none", "deep_check"} : after = Complete(s, r, next)
      BY <2>2, <2>4 DEF RecordReview
    <3>2. next \in TaskSteps \cup {"none"} /\ r.kind \in TaskSteps
      BY <2>1 DEF TaskSteps
    <3>3. after \in Flow /\ after.step = next
      BY <2>1, <3>1, <3>2, CompleteFlow
    <3> QED
      BY <2>1, <3>3, NextSources DEF after
  <2> QED
    BY <2>3, <2>4
<1>3. CASE step = "deep_check"
  <2>1. /\ r \in DeepCheckResult /\ r \in TaskResult /\ r.kind = "deep_check"
        /\ r.text \in Text /\ r.commit \in Commit
        /\ Results(step) = DeepCheckResult
    BY <1>3, ResultFields DEF Results
  <2> DEFINE moved == [s EXCEPT !.commit = r.commit]
  <2>2. moved \in Flow /\ moved.status = "running"
    BY <1>0, <2>1 DEF Flow, TaskFlowState
  <2>3. after = IF ~r.approve THEN RequestFix(moved, r)
                ELSE Complete(moved, r, "none")
    BY <2>1 DEF RecordTaskResult, RecordDeepCheck
  <2> HIDE DEF moved, after
  <2>4. after \in Flow /\ after.step \in {"none", "fix"}
    <3>1. CASE ~r.approve
      BY <2>1, <2>2, <2>3, <3>1, RequestFixFlow
    <3>2. CASE r.approve
      <4>1. r.kind \in TaskSteps /\ "none" \in TaskSteps \cup {"none"}
        BY <2>1 DEF TaskSteps
      <4> QED
        BY <2>1, <2>2, <2>3, <3>2, <4>1, CompleteFlow
    <3> QED
      BY <3>1, <3>2
  <2> QED
    BY <2>1, <2>4, NextSources DEF after
<1> QED
  BY <1>1, <1>2, <1>3

-----------------------------------------------------------------------------
(* The replay                                                              *)

\* What the recursion in Replay defines, for the first n cards.
IsReplay(f, cs, n) ==
    f = [i \in 1 .. n |->
           IF i = 1 THEN ReplayRoot(cs[1])
           ELSE CHOOSE next \in {ReplayCard(acc, cs[i], i) :
                                    acc \in {f[i - 1]}} : TRUE]

LEMMA ReplaySteps ==
    ASSUME NEW cs, NEW n \in Nat \ {0}, NEW f
    PROVE  IsReplay(f, cs, n) <=>
             f = [i \in 1 .. n |-> IF i = 1 THEN ReplayRoot(cs[1])
                                  ELSE ReplayCard(f[i - 1], cs[i], i)]
BY DEF IsReplay

LEMMA ReplayExists ==
    ASSUME NEW cs
    PROVE  \A n \in Nat \ {0} : \E f : IsReplay(f, cs, n)
<1> DEFINE T == {n \in Nat \ {0} : \E f : IsReplay(f, cs, n)}
<1>1. 1 \in T
  <2> DEFINE f == [i \in 1 .. 1 |-> ReplayRoot(cs[1])]
  <2>1. IsReplay(f, cs, 1)
    <3>1. f = [i \in 1 .. 1 |-> IF i = 1 THEN ReplayRoot(cs[1])
                               ELSE ReplayCard(f[i - 1], cs[i], i)]
      OBVIOUS
    <3>2. 1 \in Nat \ {0}
      OBVIOUS
    <3> HIDE DEF f
    <3> QED
      BY <3>1, <3>2, ReplaySteps
  <2> QED
    BY <2>1
<1>2. ASSUME NEW n \in Nat \ {0}, n \in T PROVE n + 1 \in T
  <2>1. PICK f : IsReplay(f, cs, n)
    BY <1>2
  <2>2. f = [i \in 1 .. n |-> IF i = 1 THEN ReplayRoot(cs[1])
                             ELSE ReplayCard(f[i - 1], cs[i], i)]
    BY <2>1, ReplaySteps
  <2> DEFINE g == [i \in 1 .. n + 1 |->
                     IF i <= n THEN f[i] ELSE ReplayCard(f[n], cs[i], i)]
  <2>3. ASSUME NEW i \in 1 .. n + 1
        PROVE  g[i] = IF i = 1 THEN ReplayRoot(cs[1])
                      ELSE ReplayCard(g[i - 1], cs[i], i)
    <3>1. CASE i = 1
      BY <2>2, <3>1
    <3>2. CASE i # 1 /\ i <= n
      <4>1. i \in 1 .. n /\ i - 1 \in 1 .. n + 1 /\ i - 1 <= n
        BY <3>2
      <4> QED
        BY <2>2, <3>2, <4>1
    <3>3. CASE i = n + 1
      <4>1. i # 1 /\ ~(i <= n) /\ i - 1 = n /\ n \in 1 .. n + 1
        BY <3>3
      <4> QED
        BY <4>1
    <3> QED
      BY <3>1, <3>2, <3>3
  <2>4. g = [i \in 1 .. n + 1 |-> IF i = 1 THEN ReplayRoot(cs[1])
                                 ELSE ReplayCard(g[i - 1], cs[i], i)]
    <3> DEFINE h == [i \in 1 .. n + 1 |-> IF i = 1 THEN ReplayRoot(cs[1])
                                         ELSE ReplayCard(g[i - 1], cs[i], i)]
    <3>1. \A i \in 1 .. n + 1 : g[i] = h[i]
      BY <2>3
    <3> HIDE DEF h
    <3>2. g = h
      BY <3>1 DEF h
    <3> QED
      BY <3>2 DEF h
  <2> HIDE DEF g
  <2>5. IsReplay(g, cs, n + 1)
    BY <2>4, ReplaySteps
  <2> QED
    BY <2>5
<1> HIDE DEF T
<1>3. \A n \in Nat \ {0} : n \in T
  BY <1>1, <1>2, Induction
<1> QED
  BY <1>3 DEF T

\* Replay follows the cards one by one.
LEMMA ReplayUnfolds ==
    ASSUME NEW cs, Len(cs) \in Nat \ {0}
    PROVE  \E f : /\ Replay(cs) = f[Len(cs)]
                 /\ f[1] = ReplayRoot(cs[1])
                 /\ \A i \in 2 .. Len(cs) :
                        f[i] = ReplayCard(f[i - 1], cs[i], i)
<1> DEFINE g == CHOOSE f : IsReplay(f, cs, Len(cs))
<1>1. IsReplay(g, cs, Len(cs))
  BY ReplayExists
<1>2. Replay(cs) = g[Len(cs)]
  BY DEF Replay, IsReplay
<1> HIDE DEF g
<1>3. g = [i \in 1 .. Len(cs) |-> IF i = 1 THEN ReplayRoot(cs[1])
                                 ELSE ReplayCard(g[i - 1], cs[i], i)]
  BY <1>1, ReplaySteps
<1>4. g[1] = ReplayRoot(cs[1])
  BY <1>3
<1>5. ASSUME NEW i \in 2 .. Len(cs) PROVE g[i] = ReplayCard(g[i - 1], cs[i], i)
  <2>1. i \in 1 .. Len(cs) /\ i # 1
    OBVIOUS
  <2> QED
    BY <1>3, <2>1
<1> QED
  BY <1>2, <1>4, <1>5

LEMMA WellMadeFields ==
    ASSUME NEW c \in WellMade
    PROVE  /\ c \in Card /\ c.step \in TaskSteps /\ c.refreshes \in Nat
           /\ c.result \subseteq Results(c.step) /\ c.result \subseteq Anything
           /\ c.src \subseteq Sources(c.step)
           /\ c.kind = "root" => c.step = "build"
           /\ c.kind # "root" => c.base \in Commit /\ c.head \in Commit
<1>1. c \in Card
  BY DEF WellMade
<1>2. /\ c.step \in TaskSteps /\ c.refreshes \in Nat
      /\ c.result \subseteq Anything
  BY <1>1 DEF Card, Anything
<1> QED
  BY <1>1, <1>2 DEF WellMade

\* A card that fits restarts the flow or continues it, and finds it running.
LEMMA StateAtCardFlow ==
    ASSUME NEW acc \in Replayed, NEW c \in WellMade, NEW i, FitsChain(acc, c, i)
    PROVE  /\ StateAtCard(acc, c) \in Flow
           /\ StateAtCard(acc, c).status = "running"
           /\ RefreshesAtCard(acc, c) \in Nat
           /\ ~acc.open
<1>1. acc.flow \in Flow /\ acc.refreshes \in Nat
  BY DEF Replayed
<1>2. CASE c.kind \in Changes
  <2>1. c.base \in Commit /\ c.head \in Commit
    BY <1>2, WellMadeFields DEF Changes
  <2>2. StateAtCard(acc, c) \in Flow
    BY <1>1, <1>2, <2>1, ObserveFlow DEF StateAtCard
  <2> QED
    BY <1>1, <1>2, <2>2 DEF FitsChain, RefreshesAtCard
<1>3. CASE c.kind \notin Changes
  <2>1. StateAtCard(acc, c) = acc.flow
    BY <1>3 DEF StateAtCard
  <2>2. acc.flow.status = "running"
    <3>1. c.step # "none" /\ c.step = NextTaskAction(acc.flow)
      BY <1>3, WellMadeFields DEF FitsChain, ExpectedStep, TaskSteps
    <3> QED
      BY <3>1 DEF NextTaskAction
  <2> QED
    BY <1>1, <1>3, <2>1, <2>2 DEF FitsChain, RefreshesAtCard, Changes
<1> QED
  BY <1>2, <1>3

LEMMA ReplayRootInv ==
    ASSUME NEW cs, Chain(cs)
    PROVE  ReplayInv(ReplayRoot(cs[1]), cs, 1)
<1> DEFINE c == cs[1]
           r == CHOOSE x \in c.result : TRUE
           start == StartTaskFlow(Own, Selected, r.base, r.commit)
           a == ReplayRoot(c)
<1>1. c \in WellMade /\ c.step = "build" /\ c.result # {}
  BY DEF Chain
<1>2. /\ r \in BuildResult /\ c.result \subseteq BuildResult
      /\ c.result \subseteq Anything
  BY <1>1, WellMadeFields DEF Results
<1>3. start \in Flow
  BY <1>2, StartFlow, ResultFields
<1> DEFINE after == RecordTaskResult(start, r, r.commit)
<1>4. after \in Flow /\ after.step \in {"none", "review"}
  <2> HIDE DEF start, r
  <2> QED
    BY <1>2, <1>3, BuildFlow
<1>5. a = [ok |-> AcceptsResult(start, r, r.commit), flow |-> after, last |-> 1,
           open |-> FALSE, refreshes |-> 0, summary |-> c.result]
  BY DEF ReplayRoot
<1>6. AcceptsResult(start, r, r.commit) \in BOOLEAN
  BY DEF AcceptsResult
<1>7. c.result \subseteq Sources(after.step)
  <2> HIDE DEF after, r
  <2> QED
    BY <1>2, <1>4 DEF Sources
<1> HIDE DEF start, r, after, a, c
<1>8. a \in Replayed /\ ~a.open /\ a.summary = c.result /\ a.flow = after
  BY <1>2, <1>4, <1>5, <1>6 DEF Replayed
<1>9. \A j \in 1 .. 1 : cs[j].result # {}
  BY <1>1 DEF c
<1>10. ReplayInv(a, cs, 1)
  BY <1>7, <1>8, <1>9 DEF ReplayInv
<1> QED
  BY <1>10 DEF a, c

LEMMA ReplayCardInv ==
    ASSUME NEW cs, Chain(cs), NEW i \in 2 .. Len(cs), NEW acc,
           ReplayInv(acc, cs, i - 1)
    PROVE  ReplayInv(ReplayCard(acc, cs[i], i), cs, i)
<1> DEFINE c == cs[i]
           at == StateAtCard(acc, c)
           r == CHOOSE x \in c.result : TRUE
           n == RefreshesAtCard(acc, c)
           accept == IF c.step = "fix" THEN AcceptsFixProof(at, r, r.commit)
                                       ELSE AcceptsResult(at, r, r.commit)
           after == IF c.step = "fix" THEN RecordFixProof(at, r.commit)
                                      ELSE RecordTaskResult(at, r, r.commit)
           moved == [acc EXCEPT !.last = i, !.refreshes = n]
           new == ReplayCard(acc, c, i)
<1>1. c \in WellMade /\ acc \in Replayed /\ i \in Nat /\ i - 1 \in Nat
  BY DEF Chain, ReplayInv
<1>2. new = IF ~acc.ok THEN acc
            ELSE IF ~FitsChain(acc, c, i) THEN [acc EXCEPT !.ok = FALSE]
            ELSE IF c.result = {}
              THEN [moved EXCEPT !.flow = MarkTaskStepRunning(at), !.open = TRUE]
            ELSE IF ~accept THEN [acc EXCEPT !.ok = FALSE]
            ELSE [moved EXCEPT !.flow = after, !.summary = c.result]
  BY DEF ReplayCard
<1>3. CASE ~acc.ok
  <2>1. new = acc
    BY <1>2, <1>3
  <2> HIDE DEF new
  <2> QED
    BY <1>1, <1>3, <2>1 DEF ReplayInv, new, c
<1>4. CASE new = [acc EXCEPT !.ok = FALSE]
  <2> HIDE DEF new
  <2>1. new \in Replayed /\ ~new.ok
    BY <1>1, <1>4 DEF Replayed
  <2> QED
    BY <2>1 DEF ReplayInv, new, c
<1>5. CASE acc.ok /\ FitsChain(acc, c, i) /\ c.result = {}
  <2>1. at \in Flow /\ at.status = "running" /\ n \in Nat
    BY <1>1, <1>5, StateAtCardFlow
  <2> DEFINE mark == MarkTaskStepRunning(at)
  <2>2. mark \in Flow /\ mark.status = "running"
    <3> HIDE DEF at
    <3> QED
      BY <2>1, MarkFlow
  <2>3. new = [moved EXCEPT !.flow = mark, !.open = TRUE]
    BY <1>2, <1>5
  <2> HIDE DEF new, mark, n
  <2>4. new \in Replayed /\ new.open /\ new.flow = mark
    BY <1>1, <2>1, <2>2, <2>3 DEF Replayed
  <2> QED
    BY <2>2, <2>4 DEF ReplayInv, new, c
<1>6. CASE acc.ok /\ FitsChain(acc, c, i) /\ c.result # {} /\ accept
  <2>1. at \in Flow /\ at.status = "running" /\ n \in Nat /\ ~acc.open
    BY <1>1, <1>6, StateAtCardFlow
  <2>2. /\ r \in Results(c.step) /\ c.result \subseteq Results(c.step)
        /\ c.result \subseteq Anything /\ c.step \in TaskSteps
    BY <1>1, <1>6, WellMadeFields
  <2>3. after \in Flow /\ Results(c.step) \subseteq Sources(after.step)
    <3>1. CASE c.step = "fix"
      <4>1. after = Restart(at, at.base, r.commit)
        BY <3>1 DEF RecordFixProof
      <4>2. at.base \in Commit /\ r.commit \in Commit
        BY <2>1, <2>2, <3>1, ResultFields DEF Results, Flow, TaskFlowState
      <4>3. after \in Flow /\ after.step = "build"
        <5> HIDE DEF at, r, after
        <5> QED
          BY <2>1, <4>1, <4>2, RestartFlow
      <4> HIDE DEF after
      <4> QED
        BY <3>1, <4>3 DEF Results, Sources, Anything
    <3>2. CASE c.step # "fix"
      <4>1. AcceptsResult(at, r, r.commit) /\ after = RecordTaskResult(at, r, r.commit)
        BY <1>6, <3>2
      <4>2. c.step \in {"build", "review", "deep_check"}
        BY <2>2, <3>2 DEF TaskSteps
      <4> HIDE DEF at, r, after
      <4> QED
        BY <2>1, <2>2, <4>1, <4>2, AcceptedFlow
    <3> QED
      BY <3>1, <3>2
  <2>4. new = [moved EXCEPT !.flow = after, !.summary = c.result]
    BY <1>2, <1>6
  <2>5. \A j \in 1 .. i : cs[j].result # {}
    <3>1. \A j \in 1 .. i - 1 : cs[j].result # {}
      BY <1>6, <2>1 DEF ReplayInv
    <3> QED
      BY <1>6, <3>1
  <2> HIDE DEF new, after, n, c
  <2>6. /\ new \in Replayed /\ ~new.open /\ new.flow = after
        /\ new.summary = c.result
    BY <1>1, <2>1, <2>2, <2>3, <2>4 DEF Replayed
  <2>7. ReplayInv(new, cs, i)
    BY <2>2, <2>3, <2>5, <2>6 DEF ReplayInv
  <2> QED
    BY <2>7 DEF new, c
<1> QED
  BY <1>2, <1>3, <1>4, <1>5, <1>6

\* Whatever the chain, its replay has the type of a replay, and one that ends
\* without an open card has none anywhere.
LEMMA ReplayTyped ==
    ASSUME NEW cs, Chain(cs)
    PROVE  ReplayInv(Replay(cs), cs, Len(cs))
<1>1. Len(cs) \in Nat \ {0}
  BY DEF Chain
<1>2. PICK f : /\ Replay(cs) = f[Len(cs)]
               /\ f[1] = ReplayRoot(cs[1])
               /\ \A i \in 2 .. Len(cs) : f[i] = ReplayCard(f[i - 1], cs[i], i)
  BY <1>1, ReplayUnfolds
<1> DEFINE T == {n \in Nat \ {0} : n <= Len(cs) => ReplayInv(f[n], cs, n)}
<1>3. 1 \in T
  BY <1>2, ReplayRootInv
<1>4. ASSUME NEW n \in Nat \ {0}, n \in T PROVE n + 1 \in T
  <2>1. SUFFICES ASSUME n + 1 <= Len(cs) PROVE ReplayInv(f[n + 1], cs, n + 1)
    OBVIOUS
  <2>2. n + 1 \in 2 .. Len(cs) /\ (n + 1) - 1 = n /\ n <= Len(cs)
    BY <1>1, <2>1
  <2>3. ReplayInv(f[n], cs, n)
    BY <1>4, <2>2
  <2>4. f[n + 1] = ReplayCard(f[n], cs[n + 1], n + 1)
    BY <1>2, <2>2
  <2>5. ReplayInv(ReplayCard(f[n], cs[n + 1], n + 1), cs, n + 1)
    BY <2>2, <2>3, ReplayCardInv
  <2> QED
    BY <2>4, <2>5
<1> HIDE DEF T
<1>5. Len(cs) \in T
  BY <1>1, <1>3, <1>4, Induction
<1> QED
  BY <1>1, <1>2, <1>5 DEF T

-----------------------------------------------------------------------------
(* The snapshot                                                            *)

OkSnap ==
    [status : {"ok"}, recovery : {"wait", "complete", "apply"}, flow : Flow,
     base : Commit, head : Commit, last : Nat, open : BOOLEAN,
     summary : SUBSET Anything, pending : Changes \cup {"continue"},
     refreshes : Nat]

\* A chain whose every card has its result and which is ready for one pair.
Proves(cs, base, head) ==
    LET acc == Replay(cs)
    IN  /\ Chain(cs)
        /\ acc.ok /\ ~acc.open
        /\ acc.flow.status = "ready_to_merge"
        /\ acc.flow.base = base /\ acc.flow.commit = head
        /\ \A i \in 1 .. Len(cs) : cs[i].result # {}

LEMMA RecoveryValues ==
    ASSUME NEW acc, NEW rq, NEW pending
    PROVE  /\ PendingRecovery(acc, rq, pending)
                \in {"error", "wait", "complete", "apply"}
           /\ PendingRecovery(acc, rq, pending) = "complete" =>
                 Len(pending) = acc.refreshes + 1
<1>1. ASSUME NEW intent, NEW flow
      PROVE  Recovery(intent, flow, rq) \in {"error", "wait", "complete", "apply"}
  BY DEF Recovery
<1> QED
  BY <1>1 DEF PendingRecovery

LEMMA ReplayedSnapshotTyped ==
    ASSUME NEW cs, Chain(cs), NEW rq, Seen(rq) \in [base : Commit, head : Commit],
           NEW pending, NEW acc, acc = Replay(cs),
           NEW rec, rec = PendingRecovery(acc, rq, pending),
           NEW snap, snap = ReplayedSnapshot(acc, rec, rq, pending)
    PROVE  /\ snap.status \in {"ok", "error"}
           /\ snap.status = "error" => snap.recovery = "wait"
           /\ snap.status = "ok" =>
                 /\ snap \in OkSnap
                 /\ ~snap.open => snap.summary \subseteq Sources(snap.flow.step)
                 /\ snap.flow.status = "ready_to_merge" =>
                       Proves(cs, snap.base, snap.head)
                 /\ snap.recovery = "complete" => Len(pending) \in Nat \ {0}
<1> DEFINE seen == Seen(rq)
           obs == IF acc.open THEN acc.flow
                  ELSE ObserveCurrentCommit(acc.flow, seen.base, seen.head)
           apply == rec \in {"apply", "complete"}
           pend == IF apply THEN "branch_refresh"
                   ELSE IF /\ Len(pending) = acc.refreshes
                           /\ obs # acc.flow /\ obs.step = "build"
                     THEN "commit_change" ELSE "continue"
           bad == ~acc.ok \/ ~IntentsFit(pending, acc.refreshes) \/ rec = "error"
           made == [status |-> "ok", recovery |-> rec, flow |-> obs,
                    base |-> seen.base, head |-> seen.head, last |-> acc.last,
                    open |-> acc.open, summary |-> acc.summary, pending |-> pend,
                    refreshes |-> acc.refreshes + (IF apply THEN 1 ELSE 0)]
<1>1. ReplayInv(acc, cs, Len(cs))
  BY ReplayTyped
<1>2. /\ acc \in Replayed /\ acc.flow \in Flow /\ acc.refreshes \in Nat
      /\ seen.base \in Commit /\ seen.head \in Commit
  BY <1>1 DEF ReplayInv, Replayed
<1>3. snap = IF bad THEN [NoSnapshot EXCEPT !.status = "error"] ELSE made
  BY DEF ReplayedSnapshot
<1>4. CASE bad
  <2>1. snap = [NoSnapshot EXCEPT !.status = "error"]
    BY <1>3, <1>4
  <2> QED
    BY <2>1 DEF NoSnapshot
<1>5. CASE ~bad
  <2>1. snap = made
    BY <1>3, <1>5
  <2>2. /\ obs \in Flow /\ obs.step \in {"build", acc.flow.step}
        /\ obs.status = "ready_to_merge" =>
             /\ ~acc.open
             /\ acc.flow.status = "ready_to_merge"
             /\ acc.flow.base = seen.base /\ acc.flow.commit = seen.head
    <3>1. CASE acc.open
      BY <1>1, <1>2, <1>5, <3>1 DEF ReplayInv
    <3>2. CASE ~acc.open
      <4>1. obs = ObserveCurrentCommit(acc.flow, seen.base, seen.head)
        BY <3>2
      <4> HIDE DEF obs, seen
      <4>2. /\ obs \in Flow /\ obs.step \in {"build", acc.flow.step}
            /\ obs.status = "ready_to_merge" =>
                  /\ obs = acc.flow
                  /\ acc.flow.base = seen.base /\ acc.flow.commit = seen.head
        BY ONLY <1>2, <4>1, ObservedFlow
      <4> QED
        BY <3>2, <4>2
    <3> QED
      BY <3>1, <3>2
  <2>3. /\ rec \in {"wait", "complete", "apply"} /\ acc.ok
        /\ rec = "complete" => Len(pending) = acc.refreshes + 1
    BY <1>5, RecoveryValues
  <2>4. pend \in Changes \cup {"continue"}
    BY DEF Changes
  <2>5. acc.refreshes + (IF apply THEN 1 ELSE 0) \in Nat
    BY <1>2
  <2>6. /\ acc.last \in Nat /\ acc.open \in BOOLEAN
        /\ acc.summary \in SUBSET Anything
    BY <1>2 DEF Replayed
  <2>7. made \in OkSnap
    <3> HIDE DEF obs, seen, pend, apply
    <3> QED
      BY <1>2, <2>2, <2>3, <2>4, <2>5, <2>6 DEF OkSnap
  <2>8. /\ made.status = "ok" /\ made.open = acc.open /\ made.flow = obs
        /\ made.summary = acc.summary /\ made.recovery = rec
        /\ made.base = seen.base /\ made.head = seen.head
    OBVIOUS
  <2> HIDE DEF obs, seen, pend, apply, made
  <2>9. ~acc.open => acc.summary \subseteq Sources(obs.step)
    <3>1. ~acc.open => acc.summary \subseteq Sources(acc.flow.step)
      BY <1>1, <2>3 DEF ReplayInv
    <3>2. acc.summary \subseteq Sources("build")
      BY <2>6 DEF Sources
    <3> QED
      BY <2>2, <3>1, <3>2
  <2>10. obs.status = "ready_to_merge" => Proves(cs, seen.base, seen.head)
    <3>1. ~acc.open => \A j \in 1 .. Len(cs) : cs[j].result # {}
      BY <1>1, <2>3 DEF ReplayInv
    <3> QED
      BY <2>2, <2>3, <3>1 DEF Proves
  <2> QED
    BY <1>2, <2>1, <2>3, <2>7, <2>8, <2>9, <2>10
<1> QED
  BY <1>4, <1>5

\* The snapshot of a chain as both processes take it.
LEMMA SnapshotTyped ==
    ASSUME NEW cs \in Seq(WellMade), cs # <<>> => cs[1].step = "build",
           NEW rq, Seen(rq) \in [base : Commit, head : Commit], NEW pending,
           NEW snap, snap = Snapshot(cs, rq, pending)
    PROVE  /\ snap.status = "missing" => cs = <<>>
           /\ snap.status \in {"missing", "waiting", "error", "ok"}
           /\ snap.recovery = "complete" => snap.status = "ok"
           /\ snap.status = "ok" =>
                 /\ snap \in OkSnap
                 /\ cs # <<>>
                 /\ ~snap.open => snap.summary \subseteq Sources(snap.flow.step)
                 /\ snap.flow.status = "ready_to_merge" =>
                       Proves(cs, snap.base, snap.head)
                 /\ snap.recovery = "complete" => Len(pending) \in Nat \ {0}
<1>1. CASE cs = <<>>
  <2>1. snap = NoSnapshot
    BY <1>1 DEF Snapshot
  <2> QED
    BY <1>1, <2>1 DEF NoSnapshot
<1>2. CASE cs # <<>> /\ cs[1].result = {}
  <2>1. PICK status \in {"waiting", "error"} :
           snap = [NoSnapshot EXCEPT !.status = status]
    BY <1>2 DEF Snapshot
  <2> QED
    BY <2>1 DEF NoSnapshot
<1>3. CASE cs # <<>> /\ cs[1].result # {}
  <2> DEFINE acc == Replay(cs)
             rec == PendingRecovery(acc, rq, pending)
             made == ReplayedSnapshot(acc, rec, rq, pending)
  <2>1. snap = CHOOSE s \in {ReplayedSnapshot(a, PendingRecovery(a, rq, pending),
                                              rq, pending) : a \in {Replay(cs)}} :
                  TRUE
    BY <1>3 DEF Snapshot
  <2>2. snap = made
    BY <2>1
  <2>3. Chain(cs)
    BY <1>3 DEF Chain
  <2> HIDE DEF made, acc, rec
  <2> QED
    BY <1>3, <2>2, <2>3, ReplayedSnapshotTyped DEF made, acc, rec
<1> QED
  BY <1>1, <1>2, <1>3

-----------------------------------------------------------------------------
(* The next card                                                           *)

LEMMA RootCardMade == RootCard \in WellMade /\ RootCard.step = "build"
<1>1. /\ {} \in SUBSET (TaskResult \cup StepProof) /\ {} \in SUBSET Text
      /\ 0 \in 0 .. MAX_FIXES
  BY MaxFixesAssumption
<1>2. RootCard \in Card
  BY <1>1 DEF RootCard, Card, TaskSteps
<1> QED
  BY <1>2 DEF RootCard, WellMade

LEMMA StepCardMade ==
    ASSUME NEW snap \in OkSnap, snap.flow.step # "none",
           snap.pending = "continue" =>
              snap.summary \subseteq Sources(snap.flow.step)
    PROVE  StepCard(snap) \in WellMade /\ StepCard(snap).step = snap.flow.step
<1> DEFINE c == StepCard(snap)
<1>1. /\ snap.flow \in Flow /\ snap.pending \in Changes \cup {"continue"}
      /\ snap.last \in Nat /\ snap.base \in Commit /\ snap.head \in Commit
      /\ snap.refreshes \in Nat /\ snap.summary \in SUBSET Anything
  BY DEF OkSnap
<1>2. /\ snap.flow.fix_count \in 0 .. MAX_FIXES
      /\ snap.flow.notes \in SUBSET Text /\ snap.flow.step \in TaskSteps
  BY <1>1 DEF Flow, TaskFlowState
<1>3. /\ c.step = snap.flow.step /\ c.kind = snap.pending /\ c.result = {}
      /\ c.base = snap.base /\ c.head = snap.head
      /\ c.src = IF snap.pending \in Changes THEN {} ELSE snap.summary
  BY DEF StepCard
<1>4. c \in Card
  BY <1>1, <1>2 DEF StepCard, Card, Anything
<1>5. c.kind # "root"
  BY <1>1, <1>3 DEF Changes
<1>6. c.src \subseteq Sources(c.step)
  BY <1>1, <1>3
<1> HIDE DEF c
<1>7. c \in WellMade
  BY <1>1, <1>3, <1>4, <1>5, <1>6 DEF WellMade
<1> QED
  BY <1>3, <1>7 DEF c

\* Every card next_card_spec asks for is well made; the first is a Build card.
LEMMA NextCardsMade ==
    ASSUME NEW cs \in Seq(WellMade), cs # <<>> => cs[1].step = "build",
           NEW rq, Seen(rq) \in [base : Commit, head : Commit], NEW pending,
           NEW c \in NextCards(Snapshot(cs, rq, pending))
    PROVE  c \in WellMade /\ (cs = <<>> => c.step = "build")
<1> DEFINE snap == Snapshot(cs, rq, pending)
<1>1. CASE snap.status = "missing"
  BY <1>1, RootCardMade DEF NextCards
<1>2. CASE snap.status # "missing"
  <2>1. /\ snap.status = "ok" /\ ~snap.open /\ snap.flow.status = "running"
        /\ c = StepCard(snap)
    BY <1>2 DEF NextCards
  <2> HIDE DEF snap
  <2>2. /\ snap \in OkSnap /\ cs # <<>>
        /\ snap.summary \subseteq Sources(snap.flow.step)
    BY <2>1, SnapshotTyped DEF snap
  <2>3. snap.flow.step # "none"
    BY <2>1, <2>2 DEF OkSnap, Flow
  <2> QED
    BY <2>1, <2>2, <2>3, StepCardMade
<1> QED
  BY <1>1, <1>2

-----------------------------------------------------------------------------
(* Branch refreshes                                                        *)

\* No Fix card can ever be asked for.
NoFix == Selected = "build" \/ MAX_FIXES = 0

Plain(s) ==
    /\ s \in Flow /\ s.step # "fix"
    /\ Selected = "build" => s.task_flow = "build" /\ s.step \in {"build", "none"}

\* The first i cards show branch refreshes 1 to n.
Covered(cs, i, n) ==
    \A k \in 1 .. n : \E j \in 1 .. i :
       cs[j].kind = "branch_refresh" /\ cs[j].refreshes = k

Covers(acc, cs, i) ==
    acc.ok => /\ Covered(cs, i, acc.refreshes)
              /\ NoFix => Plain(acc.flow)

LEMMA PlainRestart ==
    ASSUME NEW s, Plain(s), NEW base \in Commit, NEW commit \in Commit
    PROVE  Plain(Restart(s, base, commit))
<1>1. Restart(s, base, commit) \in Flow /\ Restart(s, base, commit).step = "build"
  BY RestartFlow DEF Plain
<1>2. Restart(s, base, commit).task_flow = s.task_flow
  BY DEF Restart, AtBuild
<1> QED
  BY <1>1, <1>2 DEF Plain

LEMMA PlainObserve ==
    ASSUME NEW s, Plain(s), NEW base \in Commit, NEW commit \in Commit,
           NEW after, after = ObserveCurrentCommit(s, base, commit)
    PROVE  /\ Plain(after)
           /\ s.base # base \/ s.commit # commit =>
                 after.step = "build" \/ after.status # "running"
<1>1. s \in Flow /\ s \in TaskFlowState
  BY DEF Plain, Flow
<1>2. CASE base = s.base /\ commit = s.commit
  BY <1>2 DEF ObserveCurrentCommit
<1>3. CASE ~(base = s.base /\ commit = s.commit) /\ s.status = "failed"
  <2>1. after = [s EXCEPT !.base = base, !.commit = commit]
    BY <1>3 DEF ObserveCurrentCommit
  <2>2. after \in Flow
    BY <1>1, ObservedFlow
  <2>3. /\ after.step = s.step /\ after.status = "failed"
        /\ after.task_flow = s.task_flow
    BY <1>1, <1>3, <2>1 DEF TaskFlowState
  <2> QED
    BY <2>2, <2>3 DEF Plain
<1>4. CASE ~(base = s.base /\ commit = s.commit) /\ s.status # "failed"
  <2>1. after = Restart(s, base, commit)
    BY <1>4 DEF ObserveCurrentCommit, Plain
  <2> QED
    BY <1>1, <2>1, PlainRestart, RestartFlow
<1> QED
  BY <1>2, <1>3, <1>4

LEMMA PlainRecord ==
    ASSUME NoFix, NEW s, Plain(s), NEW r \in TaskResult,
           AcceptsResult(s, r, r.commit), RecordTaskResult(s, r, r.commit) \in Flow
    PROVE  Plain(RecordTaskResult(s, r, r.commit))
<1> DEFINE after == RecordTaskResult(s, r, r.commit)
           moved == [s EXCEPT !.commit = r.commit]
<1>1. /\ s \in TaskFlowState /\ r.kind = s.step /\ s.fix_count \in 0 .. MAX_FIXES
      /\ s.step # "fix" /\ s.step # "none"
  BY DEF AcceptsResult, Plain, Flow, TaskFlowState
<1>2. CASE s.step = "build"
  <2>1. after = Complete(s, r, IF s.task_flow = "build" THEN "none" ELSE "review")
    BY <1>1, <1>2 DEF RecordTaskResult, RecordBuild
  <2>2. /\ after.step = IF s.task_flow = "build" THEN "none" ELSE "review"
        /\ after.task_flow = s.task_flow
    BY <1>1, <2>1 DEF Complete, TaskFlowState
  <2> HIDE DEF after
  <2> QED
    BY <2>2 DEF Plain, after
<1>3. CASE s.step # "build"
  <2>1. MAX_FIXES = 0 /\ Selected # "build"
    BY <1>1, <1>3 DEF NoFix, Plain
  <2>2. \E t \in {s, moved} : \/ after = RequestFix(t, r)
                             \/ \E next \in {"none", "deep_check"} :
                                    after = Complete(t, r, next)
    BY <1>1, <1>3 DEF RecordTaskResult, RecordReview, RecordDeepCheck
  <2>3. PICK t \in {s, moved} : \/ after = RequestFix(t, r)
                               \/ \E next \in {"none", "deep_check"} :
                                      after = Complete(t, r, next)
    BY <2>2
  <2>4. t.fix_count = s.fix_count /\ DOMAIN t = DOMAIN s /\ "step" \in DOMAIN t
    BY <1>1 DEF TaskFlowState
  <2>5. t.fix_count >= MAX_FIXES
    BY <1>1, <2>1, <2>4
  <2> HIDE DEF after, moved
  <2>6. after.step # "fix"
    <3>1. CASE after = RequestFix(t, r)
      BY <2>4, <2>5, <3>1 DEF RequestFix
    <3>2. CASE \E next \in {"none", "deep_check"} : after = Complete(t, r, next)
      BY <2>4, <3>2 DEF Complete
    <3> QED
      BY <2>3, <3>1, <3>2
  <2> QED
    BY <2>1, <2>6 DEF Plain, after
<1> QED
  BY <1>2, <1>3

LEMMA ReplayRootCovers ==
    ASSUME NEW cs, Chain(cs)
    PROVE  Covers(ReplayRoot(cs[1]), cs, 1)
<1> DEFINE c == cs[1]
           r == CHOOSE x \in c.result : TRUE
           start == StartTaskFlow(Own, Selected, r.base, r.commit)
           a == ReplayRoot(c)
<1>1. c \in WellMade /\ c.step = "build" /\ c.result # {}
  BY DEF Chain
<1>2. r \in BuildResult /\ r \in TaskResult /\ r.base \in Commit /\ r.commit \in Commit
  BY <1>1, WellMadeFields, ResultFields DEF Results
<1>3. Plain(start)
  <2>1. start \in Flow
    BY <1>2, StartFlow
  <2>2. start.step = "build" /\ start.task_flow = Selected
    BY DEF StartTaskFlow, AtBuild
  <2> HIDE DEF start
  <2> QED
    BY <2>1, <2>2 DEF Plain
<1>4. RecordTaskResult(start, r, r.commit) \in Flow
  <2> HIDE DEF start, r
  <2> QED
    BY <1>2, <1>3, BuildFlow DEF Plain
<1>5. /\ a.ok = AcceptsResult(start, r, r.commit)
      /\ a.flow = RecordTaskResult(start, r, r.commit) /\ a.refreshes = 0
  BY DEF ReplayRoot
<1> HIDE DEF a, start, r, c
<1>6. a.ok /\ NoFix => Plain(a.flow)
  BY <1>2, <1>3, <1>4, <1>5, PlainRecord
<1>7. Covered(cs, 1, a.refreshes)
  BY <1>5 DEF Covered
<1> QED
  BY <1>6, <1>7 DEF Covers, a, c

\* The flow after a card that fits is as plain as the one before.
LEMMA PlainCard ==
    ASSUME NoFix, NEW acc \in Replayed, Plain(acc.flow), NEW c \in WellMade,
           NEW i, FitsChain(acc, c, i), NEW at, at = StateAtCard(acc, c)
    PROVE  /\ Plain(at) /\ Plain(MarkTaskStepRunning(at))
           /\ c.step # "fix"
           /\ \A r \in c.result :
                 AcceptsResult(at, r, r.commit) =>
                    Plain(RecordTaskResult(at, r, r.commit))
<1>1. Plain(at)
  <2>1. CASE c.kind \in Changes
    <3>1. c.base \in Commit /\ c.head \in Commit
      BY <2>1, WellMadeFields DEF Changes
    <3>2. at = ObserveCurrentCommit(acc.flow, c.base, c.head)
      BY <2>1 DEF StateAtCard
    <3> QED
      BY <3>1, <3>2, PlainObserve
  <2>2. CASE c.kind \notin Changes
    BY <2>2 DEF StateAtCard
  <2> QED
    BY <2>1, <2>2
<1>2. c.step # "fix" /\ c.step \in TaskSteps
  <2>1. c.step = ExpectedStep(acc, c) /\ c.step \in TaskSteps
    BY WellMadeFields DEF FitsChain
  <2> QED
    BY <2>1 DEF ExpectedStep, NextTaskAction, Plain, TaskSteps
<1>3. Plain(MarkTaskStepRunning(at))
  <2> DEFINE mark == MarkTaskStepRunning(at)
  <2>1. mark \in Flow /\ mark.step = at.step
    BY <1>1, MarkFlow DEF Plain
  <2>2. mark.task_flow = at.task_flow
    BY <1>1 DEF MarkTaskStepRunning, Plain, Flow, TaskFlowState
  <2> HIDE DEF mark
  <2>3. Plain(mark)
    BY <1>1, <2>1, <2>2 DEF Plain
  <2> QED
    BY <2>3 DEF mark
<1>4. ASSUME NEW r \in c.result, AcceptsResult(at, r, r.commit)
      PROVE  Plain(RecordTaskResult(at, r, r.commit))
  <2>1. r \in Results(c.step) /\ c.step \in {"build", "review", "deep_check"}
    BY <1>2, WellMadeFields DEF TaskSteps
  <2>2. r \in TaskResult
    BY <2>1 DEF Results, TaskResult
  <2>3. RecordTaskResult(at, r, r.commit) \in Flow
    BY <1>1, <1>4, <2>1, AcceptedFlow DEF Plain
  <2> QED
    BY <1>1, <1>4, <2>2, <2>3, PlainRecord
<1> QED
  BY <1>1, <1>2, <1>3, <1>4

LEMMA ReplayCardCovers ==
    ASSUME NEW cs, Chain(cs), NEW i \in 2 .. Len(cs), NEW acc,
           ReplayInv(acc, cs, i - 1), Covers(acc, cs, i - 1)
    PROVE  Covers(ReplayCard(acc, cs[i], i), cs, i)
<1> DEFINE c == cs[i]
           at == StateAtCard(acc, c)
           r == CHOOSE x \in c.result : TRUE
           n == RefreshesAtCard(acc, c)
           accept == IF c.step = "fix" THEN AcceptsFixProof(at, r, r.commit)
                                       ELSE AcceptsResult(at, r, r.commit)
           after == IF c.step = "fix" THEN RecordFixProof(at, r.commit)
                                      ELSE RecordTaskResult(at, r, r.commit)
           moved == [acc EXCEPT !.last = i, !.refreshes = n]
           mark == MarkTaskStepRunning(at)
           new == ReplayCard(acc, c, i)
<1>1. c \in WellMade /\ acc \in Replayed /\ i \in Nat /\ i - 1 \in Nat
  BY DEF Chain, ReplayInv
<1>2. new = IF ~acc.ok THEN acc
            ELSE IF ~FitsChain(acc, c, i) THEN [acc EXCEPT !.ok = FALSE]
            ELSE IF c.result = {} THEN [moved EXCEPT !.flow = mark, !.open = TRUE]
            ELSE IF ~accept THEN [acc EXCEPT !.ok = FALSE]
            ELSE [moved EXCEPT !.flow = after, !.summary = c.result]
  BY DEF ReplayCard
<1>3. CASE ~acc.ok \/ new = [acc EXCEPT !.ok = FALSE]
  <2>1. ~new.ok
    BY <1>1, <1>2, <1>3 DEF Replayed
  <2> HIDE DEF new
  <2> QED
    BY <2>1 DEF Covers, new, c
<1>4. CASE /\ acc.ok /\ FitsChain(acc, c, i)
           /\ \/ c.result = {}
              \/ c.result # {} /\ accept
  <2>1. /\ Covered(cs, i - 1, acc.refreshes) /\ acc.refreshes \in Nat
        /\ NoFix => Plain(acc.flow)
    BY <1>1, <1>4 DEF Covers, Replayed
  <2>2. Covered(cs, i, n)
    <3>1. CASE c.kind = "branch_refresh"
      <4>1. n = acc.refreshes + 1 /\ c.refreshes = n
        BY <1>4, <3>1 DEF RefreshesAtCard, FitsChain
      <4> HIDE DEF n
      <4>2. ASSUME NEW k \in 1 .. n
            PROVE  \E j \in 1 .. i : /\ cs[j].kind = "branch_refresh"
                                     /\ cs[j].refreshes = k
        <5>1. CASE k = n
          BY <1>1, <3>1, <4>1, <5>1
        <5>2. CASE k # n
          <6>1. k \in 1 .. acc.refreshes
            BY <2>1, <4>1, <5>2
          <6> QED
            BY <2>1, <6>1 DEF Covered
        <5> QED
          BY <5>1, <5>2
      <4> QED
        BY <4>2 DEF Covered
    <3>2. CASE c.kind # "branch_refresh"
      <4>1. n = acc.refreshes
        BY <3>2 DEF RefreshesAtCard
      <4> QED
        BY <2>1, <4>1 DEF Covered
    <3> QED
      BY <3>1, <3>2
  <2>3. NoFix => /\ Plain(mark) /\ c.step # "fix"
                 /\ \A x \in c.result : AcceptsResult(at, x, x.commit) =>
                                           Plain(RecordTaskResult(at, x, x.commit))
    BY <1>1, <1>4, <2>1, PlainCard
  <2>4. NoFix /\ c.result # {} /\ accept => Plain(after)
    BY <2>3
  <2>5. \/ new = [moved EXCEPT !.flow = mark, !.open = TRUE] /\ c.result = {}
        \/ /\ new = [moved EXCEPT !.flow = after, !.summary = c.result]
           /\ c.result # {} /\ accept
    BY <1>2, <1>4
  <2>6. NoFix => Plain(mark)
    BY <2>3
  <2> HIDE DEF new, mark, after, n, accept
  <2>7. /\ new.refreshes = n
        /\ \/ new.flow = mark
           \/ new.flow = after /\ c.result # {} /\ accept
    BY <1>1, <2>5 DEF Replayed
  <2> HIDE DEF c
  <2>8. Covers(new, cs, i)
    BY <2>2, <2>4, <2>6, <2>7 DEF Covers
  <2> QED
    BY <2>8 DEF new, c
<1> QED
  BY <1>2, <1>3, <1>4

\* A chain that replays shows every refresh the replay counts; without Fix its
\* flow never reaches Fix.
LEMMA ReplayCovers ==
    ASSUME NEW cs, Chain(cs)
    PROVE  Covers(Replay(cs), cs, Len(cs))
<1>1. Len(cs) \in Nat \ {0}
  BY DEF Chain
<1>2. PICK f : /\ Replay(cs) = f[Len(cs)]
               /\ f[1] = ReplayRoot(cs[1])
               /\ \A i \in 2 .. Len(cs) : f[i] = ReplayCard(f[i - 1], cs[i], i)
  BY <1>1, ReplayUnfolds
<1> DEFINE T == {n \in Nat \ {0} : n <= Len(cs) =>
                    ReplayInv(f[n], cs, n) /\ Covers(f[n], cs, n)}
<1>3. 1 \in T
  BY <1>2, ReplayRootInv, ReplayRootCovers
<1>4. ASSUME NEW n \in Nat \ {0}, n \in T PROVE n + 1 \in T
  <2>1. SUFFICES ASSUME n + 1 <= Len(cs)
                 PROVE  ReplayInv(f[n + 1], cs, n + 1) /\ Covers(f[n + 1], cs, n + 1)
    OBVIOUS
  <2>2. n + 1 \in 2 .. Len(cs) /\ (n + 1) - 1 = n /\ n <= Len(cs)
    BY <1>1, <2>1
  <2>3. ReplayInv(f[n], cs, n) /\ Covers(f[n], cs, n)
    BY <1>4, <2>2
  <2>4. f[n + 1] = ReplayCard(f[n], cs[n + 1], n + 1)
    BY <1>2, <2>2
  <2>5. ReplayInv(ReplayCard(f[n], cs[n + 1], n + 1), cs, n + 1)
    BY <2>2, <2>3, ReplayCardInv
  <2>6. Covers(ReplayCard(f[n], cs[n + 1], n + 1), cs, n + 1)
    BY <2>2, <2>3, ReplayCardCovers
  <2> QED
    BY <2>4, <2>5, <2>6
<1> HIDE DEF T
<1>5. Len(cs) \in T
  BY <1>1, <1>3, <1>4, Induction
<1> QED
  BY <1>1, <1>2, <1>5 DEF T

\* What a pending intent becomes: one that is applied or completed is the
\* newest, and the pull request moved away from where it started.
LEMMA RecoveryMeans ==
    ASSUME NEW acc, NEW rq, NEW log, NEW rec, rec = PendingRecovery(acc, rq, log),
           rec \in {"apply", "complete"}
    PROVE  /\ acc.ok /\ ~acc.open /\ Len(log) = acc.refreshes + 1
           /\ ~(acc.flow.base = Seen(rq).base /\ acc.flow.commit = Seen(rq).head)
           /\ rec = "complete" => ~log[Len(log)].done
           /\ rec = "apply" => /\ log[Len(log)].done
                               /\ log[Len(log)].nbase = Seen(rq).base
                               /\ log[Len(log)].nhead = Seen(rq).head
<1> DEFINE intent == log[Len(log)]
<1>1. /\ acc.ok /\ ~acc.open /\ Len(log) = acc.refreshes + 1
      /\ rec = Recovery(intent, acc.flow, rq)
  BY DEF PendingRecovery
<1> HIDE DEF intent
<1>2. /\ intent.ebase = acc.flow.base /\ intent.ehead = acc.flow.commit
      /\ Seen(rq).base # intent.ebase \/ Seen(rq).head # intent.ehead
      /\ rec = "complete" => ~intent.done
      /\ rec = "apply" => /\ intent.done
                          /\ intent.nbase = Seen(rq).base
                          /\ intent.nhead = Seen(rq).head
  BY <1>1 DEF Recovery
<1> QED
  BY <1>1, <1>2 DEF intent

LEMMA ReplayedSnapshotRefreshes ==
    ASSUME NEW cs, Chain(cs), NEW rq, Seen(rq) \in [base : Commit, head : Commit],
           NEW log, NEW acc, acc = Replay(cs),
           NEW rec, rec = PendingRecovery(acc, rq, log),
           NEW snap, snap = ReplayedSnapshot(acc, rec, rq, log), snap.status = "ok"
    PROVE  /\ snap.base = Seen(rq).base /\ snap.head = Seen(rq).head
           /\ snap.recovery = rec
           /\ rec \in {"wait", "apply", "complete"}
           /\ snap.pending = "branch_refresh" <=> rec # "wait"
           /\ rec = "wait" => Covered(cs, Len(cs), snap.refreshes)
           /\ rec # "wait" =>
                 /\ snap.refreshes = Len(log) /\ Len(log) \in Nat \ {0}
                 /\ snap.flow.status # "ready_to_merge"
                 /\ NoFix /\ snap.flow.status = "running" => snap.flow.step = "build"
<1> DEFINE seen == Seen(rq)
           obs == IF acc.open THEN acc.flow
                  ELSE ObserveCurrentCommit(acc.flow, seen.base, seen.head)
           apply == rec \in {"apply", "complete"}
           pend == IF apply THEN "branch_refresh"
                   ELSE IF /\ Len(log) = acc.refreshes
                           /\ obs # acc.flow /\ obs.step = "build"
                     THEN "commit_change" ELSE "continue"
<1>1. /\ acc \in Replayed /\ acc.flow \in Flow /\ acc.refreshes \in Nat
      /\ seen.base \in Commit /\ seen.head \in Commit
  BY ReplayTyped DEF ReplayInv, Replayed
<1>2. acc.ok /\ rec # "error"
  BY DEF ReplayedSnapshot, NoSnapshot
<1>3. rec \in {"wait", "apply", "complete"}
  BY <1>2, RecoveryValues
<1>4. /\ snap.base = seen.base /\ snap.head = seen.head /\ snap.recovery = rec
      /\ snap.flow = obs /\ snap.pending = pend
      /\ snap.refreshes = acc.refreshes + (IF apply THEN 1 ELSE 0)
  BY DEF ReplayedSnapshot, NoSnapshot
<1>5. snap.pending = "branch_refresh" <=> rec # "wait"
  BY <1>3, <1>4
<1>6. Covered(cs, Len(cs), acc.refreshes) /\ (NoFix => Plain(acc.flow))
  BY <1>2, ReplayCovers DEF Covers
<1>7. rec = "wait" => snap.refreshes = acc.refreshes
  BY <1>1, <1>4
<1>8. ASSUME rec # "wait"
      PROVE  /\ snap.refreshes = Len(log) /\ Len(log) \in Nat \ {0}
             /\ snap.flow.status # "ready_to_merge"
             /\ NoFix /\ snap.flow.status = "running" => snap.flow.step = "build"
  <2>1. /\ ~acc.open /\ Len(log) = acc.refreshes + 1
        /\ ~(acc.flow.base = seen.base /\ acc.flow.commit = seen.head)
    BY <1>3, <1>8, RecoveryMeans
  <2>2. snap.refreshes = Len(log) /\ Len(log) \in Nat \ {0}
    BY <1>1, <1>3, <1>4, <1>8, <2>1
  <2>3. snap.flow = ObserveCurrentCommit(acc.flow, seen.base, seen.head)
    BY <1>4, <2>1
  <2> HIDE DEF seen, obs
  <2>4. snap.flow.status # "ready_to_merge"
    BY ONLY <1>1, <2>1, <2>3, ObservedFlow
  <2>5. NoFix => snap.flow.step = "build" \/ snap.flow.status # "running"
    BY <1>1, <1>6, <2>1, <2>3, PlainObserve
  <2> QED
    BY <2>2, <2>4, <2>5
<1> QED
  BY <1>3, <1>4, <1>5, <1>6, <1>7, <1>8

LEMMA SnapshotRefreshes ==
    ASSUME NEW cs \in Seq(WellMade), cs # <<>> => cs[1].step = "build",
           NEW rq, Seen(rq) \in [base : Commit, head : Commit], NEW log,
           NEW snap, snap = Snapshot(cs, rq, log), snap.status = "ok"
    PROVE  /\ snap.base = Seen(rq).base /\ snap.head = Seen(rq).head
           /\ snap.recovery \in {"wait", "apply", "complete"}
           /\ snap.pending = "branch_refresh" <=> snap.recovery # "wait"
           /\ snap.recovery = "wait" => Covered(cs, Len(cs), snap.refreshes)
           /\ snap.recovery # "wait" =>
                 /\ snap.refreshes = Len(log) /\ Len(log) \in Nat \ {0}
                 /\ snap.flow.status # "ready_to_merge"
                 /\ NoFix /\ snap.flow.status = "running" => snap.flow.step = "build"
           /\ snap.recovery = "complete" => ~log[Len(log)].done
           /\ snap.recovery = "apply" => /\ log[Len(log)].done
                                         /\ log[Len(log)].nbase = snap.base
                                         /\ log[Len(log)].nhead = snap.head
<1> DEFINE acc == Replay(cs)
           rec == PendingRecovery(acc, rq, log)
           made == ReplayedSnapshot(acc, rec, rq, log)
<1>1. cs # <<>> /\ cs[1].result # {}
  BY DEF Snapshot, NoSnapshot
<1>2. snap = CHOOSE s \in {ReplayedSnapshot(a, PendingRecovery(a, rq, log), rq, log) :
                              a \in {Replay(cs)}} : TRUE
  BY <1>1 DEF Snapshot
<1>3. snap = made
  BY <1>2
<1>4. Chain(cs)
  BY <1>1 DEF Chain
<1> HIDE DEF made, acc, rec
<1>5. /\ snap.base = Seen(rq).base /\ snap.head = Seen(rq).head
      /\ snap.recovery = rec
      /\ rec \in {"wait", "apply", "complete"}
      /\ snap.pending = "branch_refresh" <=> rec # "wait"
      /\ rec = "wait" => Covered(cs, Len(cs), snap.refreshes)
      /\ rec # "wait" =>
            /\ snap.refreshes = Len(log) /\ Len(log) \in Nat \ {0}
            /\ snap.flow.status # "ready_to_merge"
            /\ NoFix /\ snap.flow.status = "running" => snap.flow.step = "build"
  BY <1>3, <1>4, ReplayedSnapshotRefreshes DEF made, acc, rec
<1>6. rec \in {"apply", "complete"} =>
        /\ rec = "complete" => ~log[Len(log)].done
        /\ rec = "apply" => /\ log[Len(log)].done
                            /\ log[Len(log)].nbase = Seen(rq).base
                            /\ log[Len(log)].nhead = Seen(rq).head
  BY RecoveryMeans DEF rec
<1> QED
  BY <1>5, <1>6

\* A card shows the intent that bears its number, which is complete.
Recorded(c, log) ==
    /\ c.refreshes \in 1 .. Len(log) /\ log[c.refreshes].done
    /\ c.base = log[c.refreshes].nbase /\ c.head = log[c.refreshes].nhead

\* A card for a branch refresh is asked for only while its intent is pending.
LEMMA NextCardsRecorded ==
    ASSUME NEW cs \in Seq(WellMade), cs # <<>> => cs[1].step = "build",
           NEW rq, Seen(rq) \in [base : Commit, head : Commit], NEW log,
           NEW snap, snap = Snapshot(cs, rq, log), NEW c \in NextCards(snap),
           c.kind = "branch_refresh"
    PROVE  /\ snap.status = "ok"
           /\ snap.recovery \in {"apply", "complete"}
           /\ snap.recovery = "apply" => Recorded(c, log)
           /\ c.refreshes = Len(log) /\ Len(log) \in Nat \ {0}
           /\ c.base = Seen(rq).base /\ c.head = Seen(rq).head
           /\ NoFix => c.step = "build"
<1>1. snap.status # "missing"
  BY DEF NextCards, RootCard
<1>2. snap.status = "ok" /\ snap.flow.status = "running" /\ c = StepCard(snap)
  BY <1>1 DEF NextCards
<1>3. /\ c.kind = snap.pending /\ c.refreshes = snap.refreshes
      /\ c.step = snap.flow.step /\ c.base = snap.base /\ c.head = snap.head
  BY <1>2 DEF StepCard
<1>4. /\ snap.recovery \in {"apply", "complete"}
      /\ snap.refreshes = Len(log) /\ Len(log) \in Nat \ {0}
      /\ snap.base = Seen(rq).base /\ snap.head = Seen(rq).head
      /\ NoFix => snap.flow.step = "build"
      /\ snap.recovery = "apply" => /\ log[Len(log)].done
                                    /\ log[Len(log)].nbase = snap.base
                                    /\ log[Len(log)].nhead = snap.head
  BY <1>2, <1>3, SnapshotRefreshes
<1>5. snap.recovery = "apply" => Recorded(c, log)
  BY <1>3, <1>4 DEF Recorded
<1> QED
  BY <1>2, <1>3, <1>4, <1>5

-----------------------------------------------------------------------------
(* The inductive invariant                                                 *)

\* A card chain as Hermes may hold it.
Begun(cs) == cs \in Seq(WellMade) /\ (cs # <<>> => cs[1].step = "build")

\* Some prefix of the chain proves the pair.
ProvenIn(cs, base, head) ==
    \E n \in 1 .. Len(cs) : Proves(SubSeq(cs, 1, n), base, head)

\* A later stand of the same chain: cards are added, open ones get a result.
SameCard(c, d) ==
    /\ d.step = c.step /\ d.kind = c.kind /\ d.refreshes = c.refreshes
    /\ d.base = c.base /\ d.head = c.head

Later(cs, ds) ==
    /\ Len(cs) <= Len(ds)
    /\ \A i \in 1 .. Len(cs) :
          SameCard(cs[i], ds[i]) /\ (cs[i].result # {} => ds[i] = cs[i])

Holding == {"evidence", "decide", "refresh", "update", "poll", "record",
            "merge", "verify"}
Writing == {"update", "poll", "merge", "verify"}

Memory ==
    [pc : {"idle", "read", "plan", "create"} \cup Holding, cards : Seq(WellMade),
     pr : SUBSET PullRequest, snap : SUBSET OkSnap, card : SUBSET WellMade]

\* What a process remembers of the cards cs and the pull request q: an earlier
\* stand of the chain, a merged pull request as it still is, snapshots the
\* chain proves, and a card that may be the next one.
Remembers(s, cs, q) ==
    /\ Begun(s.cards) /\ Later(s.cards, cs)
    /\ \A e \in s.pr : e.merged => e = q
    /\ \A snap \in s.snap : ProvenIn(cs, snap.base, snap.head)
    /\ \A c \in s.card : cs = <<>> => c.step = "build"
    /\ s.pc \in Holding => s.snap # {}
    /\ s.pc \in Holding \ {"evidence"} => s.pr # {}

ProcessesOK ==
    /\ proc \in [Process -> Memory]
    /\ \A p \in Process : Remembers(proc[p], cards, pr)

\* The merger writes to GitHub under the lock, for an active Task, and updates
\* a branch only for an intent.
LockOK ==
    /\ Merger.pc \in Writing => lock = "merger" /\ life = "active"
    /\ Merger.pc \in {"update", "poll"} => intents # <<>>

\* A merge that is under way is proven, or GitHub will refuse it: a base that
\* moved is not contained in a commit that existed before.
WireOK ==
    \A m \in wire :
       m.op = "merge" =>
          /\ m.sha <= top
          /\ m.sha \in pr.current => ProvenIn(cards, pr.base, m.sha)

MergedOK ==
    /\ pr.merged /\ pr.by = "merger" => ProvenIn(cards, pr.mbase, pr.mhead)
    /\ life = "merged" => pr.merged /\ ProvenIn(cards, pr.mbase, pr.mhead)

StoresOK ==
    /\ pr \in PullRequest /\ top \in Commit /\ pr.head <= top
    /\ life \in {"active", "merged", "cancelled"} /\ permitted \in BOOLEAN
    /\ intents \in Seq(BranchRefreshIntent) /\ lock \in {"free", "merger"}
    /\ wire \in SUBSET [op : {"merge", "update"}, sha : Commit]
    /\ moves \in 0 .. MaxMoves /\ crashes \in 0 .. MaxCrashes

IInv ==
    Begun(cards) /\ StoresOK /\ ProcessesOK /\ LockOK /\ WireOK /\ MergedOK

-----------------------------------------------------------------------------
(* Chains that grow                                                        *)

LEMMA PrefixKept ==
    ASSUME NEW cs \in Seq(WellMade), NEW ds \in Seq(WellMade), Later(cs, ds),
           NEW n \in 1 .. Len(cs), \A i \in 1 .. n : cs[i].result # {}
    PROVE  SubSeq(ds, 1, n) = SubSeq(cs, 1, n)
<1> DEFINE a == SubSeq(cs, 1, n)
           b == SubSeq(ds, 1, n)
<1>1. /\ Len(cs) \in Nat /\ Len(ds) \in Nat /\ n \in Nat
      /\ n <= Len(cs) /\ n <= Len(ds) /\ Len(cs) <= Len(ds)
  BY DEF Later
<1>2. /\ a \in Seq(WellMade) /\ Len(a) = n
      /\ \A i \in 1 .. n : a[i] = cs[i]
  BY <1>1
<1>3. /\ b \in Seq(WellMade) /\ Len(b) = n
      /\ \A i \in 1 .. n : b[i] = ds[i]
  BY <1>1
<1>4. \A i \in 1 .. n : ds[i] = cs[i]
  BY <1>1 DEF Later
<1> HIDE DEF a, b
<1>5. \A i \in 1 .. n : a[i] = b[i]
  BY <1>2, <1>3, <1>4
<1>6. a = b
  BY <1>2, <1>3, <1>5
<1> QED
  BY <1>6 DEF a, b

\* The results of a prefix that proves something are the cards' own results.
LEMMA PrefixClosed ==
    ASSUME NEW cs \in Seq(WellMade), NEW n \in 1 .. Len(cs), NEW base, NEW head,
           Proves(SubSeq(cs, 1, n), base, head)
    PROVE  \A i \in 1 .. n : cs[i].result # {}
<1>1. Len(SubSeq(cs, 1, n)) = n /\ \A i \in 1 .. n : SubSeq(cs, 1, n)[i] = cs[i]
  OBVIOUS
<1>2. \A i \in 1 .. Len(SubSeq(cs, 1, n)) : SubSeq(cs, 1, n)[i].result # {}
  BY DEF Proves
<1> QED
  BY <1>1, <1>2

\* What a chain proves it proves for good.
LEMMA ProvenKept ==
    ASSUME NEW cs \in Seq(WellMade), NEW ds \in Seq(WellMade), Later(cs, ds),
           NEW base, NEW head, ProvenIn(cs, base, head)
    PROVE  ProvenIn(ds, base, head)
<1>1. PICK n \in 1 .. Len(cs) : Proves(SubSeq(cs, 1, n), base, head)
  BY DEF ProvenIn
<1>2. SubSeq(ds, 1, n) = SubSeq(cs, 1, n)
  BY <1>1, PrefixClosed, PrefixKept
<1>3. n \in 1 .. Len(ds)
  BY DEF Later
<1> QED
  BY <1>1, <1>2, <1>3 DEF ProvenIn

\* What an earlier stand of the chain proved the chain proves now.
LEMMA ProvenEarlier ==
    ASSUME NEW cs \in Seq(WellMade), NEW ds \in Seq(WellMade), Later(cs, ds),
           NEW base, NEW head, Proves(cs, base, head)
    PROVE  ProvenIn(ds, base, head)
<1>1. /\ cs # <<>> /\ \A i \in 1 .. Len(cs) : cs[i].result # {}
  BY DEF Proves, Chain
<1>2. Len(cs) \in 1 .. Len(cs)
  BY <1>1
<1>3. SubSeq(cs, 1, Len(cs)) = cs
  BY <1>1
<1>4. ProvenIn(cs, base, head)
  BY <1>2, <1>3 DEF ProvenIn
<1> QED
  BY <1>4, ProvenKept

\* ProvenIn is the ProvenPair of the property.
LEMMA ProvenIsProvenPair ==
    ASSUME Begun(cards), NEW base, NEW head
    PROVE  ProvenPair(base, head) <=> ProvenIn(cards, base, head)
<1>1. ASSUME NEW n \in 1 .. Len(cards)
      PROVE  ProvenBy(n, base, head) <=> Proves(SubSeq(cards, 1, n), base, head)
  <2> DEFINE cs == SubSeq(cards, 1, n)
  <2>1. /\ cards \in Seq(WellMade) /\ cards # <<>> /\ cards[1].step = "build"
        /\ 1 \in 1 .. n /\ n \in Nat
    BY DEF Begun
  <2>2. cs \in Seq(WellMade) /\ Len(cs) = n /\ cs[1] = cards[1] /\ cs # <<>>
    BY <2>1
  <2> HIDE DEF cs
  <2>3. Chain(cs) <=> cards[1].result # {}
    BY <2>1, <2>2 DEF Chain
  <2>4. Chain(cs) /\ Replay(cs).ok /\ ~Replay(cs).open =>
           \A i \in 1 .. Len(cs) : cs[i].result # {}
    BY <2>2, ReplayTyped DEF ReplayInv
  <2>5. ProvenBy(n, base, head) <=>
          /\ cards[1].result # {} /\ Replay(cs).ok /\ ~Replay(cs).open
          /\ Replay(cs).flow.status = "ready_to_merge"
          /\ Replay(cs).flow.base = base /\ Replay(cs).flow.commit = head
    BY <2>1 DEF ProvenBy, Built, cs
  <2>6. Proves(cs, base, head) <=>
          /\ Chain(cs) /\ Replay(cs).ok /\ ~Replay(cs).open
          /\ Replay(cs).flow.status = "ready_to_merge"
          /\ Replay(cs).flow.base = base /\ Replay(cs).flow.commit = head
          /\ \A i \in 1 .. Len(cs) : cs[i].result # {}
    BY DEF Proves
  <2> QED
    BY <2>3, <2>4, <2>5, <2>6 DEF cs
<1> QED
  BY <1>1 DEF ProvenPair, ProvenIn

LEMMA LaterSteps ==
    ASSUME NEW cs, Begun(cs)
    PROVE  /\ Later(cs, cs)
           /\ \A c \in WellMade : (cs = <<>> => c.step = "build") =>
                 Begun(Append(cs, c)) /\ Later(cs, Append(cs, c))
           /\ \A i \in 1 .. Len(cs) : \A rs \in SUBSET Results(cs[i].step) :
                 cs[i].result = {} =>
                 LET ds == [cs EXCEPT ![i].result = rs]
                 IN  Begun(ds) /\ Later(cs, ds) /\ Len(ds) = Len(cs)
<1>0. cs \in Seq(WellMade)
  BY DEF Begun
<1>1. Later(cs, cs)
  BY <1>0 DEF Later, SameCard
<1>2. ASSUME NEW c \in WellMade, cs = <<>> => c.step = "build"
      PROVE  Begun(Append(cs, c)) /\ Later(cs, Append(cs, c))
  <2> DEFINE ds == Append(cs, c)
  <2>1. /\ ds \in Seq(WellMade) /\ Len(ds) = Len(cs) + 1
        /\ \A i \in 1 .. Len(cs) : ds[i] = cs[i]
        /\ cs = <<>> => ds[1] = c
        /\ cs # <<>> => 1 \in 1 .. Len(cs)
    BY <1>0
  <2> HIDE DEF ds
  <2>2. Later(cs, ds)
    BY <1>0, <2>1 DEF Later, SameCard
  <2>3. ds[1].step = "build"
    BY <1>2, <2>1 DEF Begun
  <2> QED
    BY <2>1, <2>2, <2>3 DEF Begun, ds
<1>3. ASSUME NEW i \in 1 .. Len(cs), NEW rs, cs[i].result = {},
             rs \subseteq Results(cs[i].step)
      PROVE  LET ds == [cs EXCEPT ![i].result = rs]
             IN  Begun(ds) /\ Later(cs, ds) /\ Len(ds) = Len(cs)
  <2> DEFINE d == [cs[i] EXCEPT !.result = rs]
             ds == [cs EXCEPT ![i] = d]
  <2>1. cs[i] \in WellMade
    BY <1>0
  <2>2. d \in WellMade /\ d.step = cs[i].step /\ SameCard(cs[i], d)
    <3>1. rs \subseteq Anything /\ cs[i] \in Card
      BY <1>3, <2>1 DEF Results, Anything, TaskResult, WellMade
    <3>2. /\ d \in Card /\ d.step = cs[i].step /\ d.kind = cs[i].kind
          /\ d.base = cs[i].base /\ d.head = cs[i].head /\ d.src = cs[i].src
          /\ d.refreshes = cs[i].refreshes /\ d.result = rs
      BY <3>1 DEF Card, Anything
    <3> HIDE DEF d
    <3> QED
      BY <1>3, <2>1, <3>2 DEF WellMade, SameCard
  <2> HIDE DEF d
  <2>3. /\ ds \in Seq(WellMade) /\ Len(ds) = Len(cs)
        /\ \A j \in 1 .. Len(cs) : ds[j] = IF j = i THEN d ELSE cs[j]
    BY <1>0, <2>2
  <2>4. cs # <<>> /\ 1 \in 1 .. Len(cs)
    BY <1>0
  <2>5. ds = [cs EXCEPT ![i].result = rs]
    BY DEF d
  <2> HIDE DEF ds
  <2>6. Later(cs, ds)
    <3>1. \A j \in 1 .. Len(cs) : SameCard(cs[j], cs[j])
      BY DEF SameCard
    <3> QED
      BY <1>0, <1>3, <2>2, <2>3, <3>1 DEF Later
  <2>7. ds[1].step = "build"
    BY <2>2, <2>3, <2>4 DEF Begun
  <2> QED
    BY <2>3, <2>5, <2>6, <2>7 DEF Begun
<1> QED
  BY <1>1, <1>2, <1>3

-----------------------------------------------------------------------------
(* What the processes remember                                             *)

LEMMA IdleRemembers ==
    ASSUME NEW cs, Begun(cs), NEW q
    PROVE  Idle \in Memory /\ Remembers(Idle, cs, q)
<1>1. <<>> \in Seq(WellMade) /\ Len(<<>>) = 0 /\ cs \in Seq(WellMade)
  BY DEF Begun
<1>2. /\ Idle.pc = "idle" /\ Idle.cards = <<>> /\ Idle.pr = {}
      /\ Idle.snap = {} /\ Idle.card = {}
  BY DEF Idle
<1>3. Idle \in Memory
  BY <1>1 DEF Idle, Memory
<1>4. Begun(Idle.cards) /\ Later(Idle.cards, cs)
  BY <1>1, <1>2 DEF Begun, Later
<1> QED
  BY <1>2, <1>3, <1>4 DEF Remembers, Holding

\* A memory stays true while the chain grows and a merged pull request stays
\* what it is.
LEMMA RemembersKept ==
    ASSUME NEW cs, Begun(cs), NEW ds, Begun(ds), Later(cs, ds),
           NEW q, NEW r, q.merged => r = q,
           NEW s \in Memory, Remembers(s, cs, q)
    PROVE  Remembers(s, ds, r)
<1>1. /\ cs \in Seq(WellMade) /\ ds \in Seq(WellMade)
      /\ s.cards \in Seq(WellMade)
  BY DEF Begun, Memory
<1>2. Later(s.cards, ds)
  <2>1. Later(s.cards, cs)
    BY DEF Remembers
  <2> QED
    BY <1>1, <2>1 DEF Later, SameCard
<1>3. \A e \in s.pr : e.merged => e = r
  BY DEF Remembers
<1>4. \A snap \in s.snap : ProvenIn(ds, snap.base, snap.head)
  BY <1>1, ProvenKept DEF Remembers
<1>5. ds = <<>> => cs = <<>>
  BY <1>1 DEF Later
<1> QED
  BY <1>2, <1>3, <1>4, <1>5 DEF Remembers

LEMMA ProcessesKept ==
    ASSUME Begun(cards), ProcessesOK, Begun(cards'), Later(cards, cards'),
           pr.merged => pr' = pr, UNCHANGED proc
    PROVE  ProcessesOK'
<1>1. ASSUME NEW p \in Process PROVE Remembers(proc[p], cards', pr')
  BY RemembersKept DEF ProcessesOK
<1> QED
  BY <1>1 DEF ProcessesOK

LEMMA ProcessSteps ==
    ASSUME Begun(cards), ProcessesOK, Begun(cards'), Later(cards, cards'),
           pr.merged => pr' = pr, NEW p \in Process, NEW s \in Memory,
           Remembers(s, cards', pr'), Become(p, s)
    PROVE  ProcessesOK'
<1>1. proc' \in [Process -> Memory]
  BY DEF ProcessesOK, Become
<1>2. ASSUME NEW q \in Process PROVE Remembers(proc'[q], cards', pr')
  <2>1. CASE q = p
    BY <2>1 DEF ProcessesOK, Become
  <2>2. CASE q # p
    <3>1. proc'[q] = proc[q] /\ proc[q] \in Memory /\ Remembers(proc[q], cards, pr)
      BY <2>2 DEF ProcessesOK, Become
    <3> QED
      BY <3>1, RemembersKept
  <2> QED
    BY <2>1, <2>2
<1> QED
  BY <1>1, <1>2 DEF ProcessesOK

-----------------------------------------------------------------------------
(* What is kept while the pull request stands still or moves on            *)

LEMMA WireKept ==
    ASSUME Begun(cards), Begun(cards'), Later(cards, cards'), WireOK,
           top \in Nat, top' \in Nat, top <= top',
           wire \in SUBSET [op : {"merge", "update"}, sha : Commit],
           wire' \subseteq wire,
           \A c \in pr'.current : c <= top => c \in pr.current /\ pr'.base = pr.base
    PROVE  WireOK'
<1> SUFFICES ASSUME NEW m \in wire', m.op = "merge"
             PROVE  /\ m.sha <= top'
                    /\ m.sha \in pr'.current => ProvenIn(cards', pr'.base, m.sha)
  BY DEF WireOK
<1>1. /\ m.sha <= top /\ m.sha \in Nat
      /\ m.sha \in pr.current => ProvenIn(cards, pr.base, m.sha)
  BY CommitAssumption DEF WireOK
<1>2. m.sha \in pr'.current => ProvenIn(cards, pr'.base, m.sha)
  BY <1>1
<1> QED
  BY <1>1, <1>2, ProvenKept DEF Begun

LEMMA MergedKept ==
    ASSUME Begun(cards), Begun(cards'), Later(cards, cards'), MergedOK,
           pr.merged => pr' = pr, pr'.merged => pr' = pr,
           life' = "merged" => life = "merged"
    PROVE  MergedOK'
BY ProvenKept DEF MergedOK, Begun

-----------------------------------------------------------------------------
(* Steps of the two processes                                              *)

LEMMA SeenTyped ==
    ASSUME NEW q \in PullRequest
    PROVE  Seen(q) \in [base : Commit, head : Commit]
BY DEF PullRequest, Seen

LEMMA CompleteTyped ==
    ASSUME intents \in Seq(BranchRefreshIntent), intents # <<>>,
           NEW seen, seen.base \in Commit, seen.head \in Commit,
           CompleteIntent(seen)
    PROVE  intents' \in Seq(BranchRefreshIntent) /\ intents' # <<>>
<1> DEFINE n == Len(intents)
           old == intents[n]
           new == [old EXCEPT !.done = TRUE, !.nbase = seen.base,
                              !.nhead = seen.head]
<1>1. n \in 1 .. Len(intents) /\ old \in BranchRefreshIntent
  OBVIOUS
<1>2. new \in BranchRefreshIntent
  <2> HIDE DEF old
  <2> QED
    BY <1>1 DEF BranchRefreshIntent
<1>3. intents' = [intents EXCEPT ![n] = new]
  BY DEF CompleteIntent
<1> HIDE DEF new
<1> QED
  BY <1>1, <1>2, <1>3

LEMMA LockKept ==
    ASSUME LockOK, ProcessesOK, NEW p \in Process, NEW s, Become(p, s),
           s.pc \notin Writing, UNCHANGED <<lock, life>>,
           intents # <<>> => intents' # <<>>
    PROVE  LockOK'
<1>1. proc'[p] = s /\ \A q \in Process \ {p} : proc'[q] = proc[q]
  BY DEF Become, ProcessesOK
<1>2. "merger" \in Process
  BY DEF Process
<1>3. CASE p = "merger"
  BY <1>1, <1>3 DEF LockOK, Merger, Writing
<1>4. CASE p # "merger"
  BY <1>1, <1>2, <1>4 DEF LockOK, Merger
<1> QED
  BY <1>3, <1>4

\* A step of a process that leaves GitHub alone and may only create cards.
LEMMA ProcessStep ==
    ASSUME IInv, NEW p \in Process, NEW s \in Memory, Become(p, s),
           Remembers(s, cards', pr), UNCHANGED <<pr, top>>,
           Begun(cards'), Later(cards, cards'), wire' \subseteq wire,
           life' = "merged" => life = "merged", StoresOK', LockOK'
    PROVE  IInv'
<1>1. /\ Begun(cards) /\ ProcessesOK /\ WireOK /\ MergedOK
      /\ top \in Nat /\ wire \in SUBSET [op : {"merge", "update"}, sha : Commit]
  BY CommitAssumption DEF IInv, StoresOK
<1>2. ProcessesOK'
  BY <1>1, ProcessSteps
<1>3. WireOK'
  BY <1>1, WireKept
<1>4. MergedOK'
  BY <1>1, MergedKept
<1> QED
  BY <1>2, <1>3, <1>4 DEF IInv

\* The same for a step that also leaves the stores alone.
LEMMA MemoryStep ==
    ASSUME IInv, NEW p \in Process, NEW s \in Memory, Become(p, s),
           Remembers(s, cards, pr), s.pc \notin Writing,
           UNCHANGED <<cards, pr, top, life, permitted, intents, lock, wire,
                       moves, crashes>>
    PROVE  IInv'
<1>1. /\ Begun(cards) /\ ProcessesOK /\ LockOK /\ StoresOK
  BY DEF IInv
<1>2. Begun(cards') /\ Later(cards, cards') /\ Remembers(s, cards', pr)
  BY <1>1, LaterSteps
<1>3. StoresOK'
  BY <1>1 DEF StoresOK
<1>4. LockOK'
  BY <1>1, LockKept
<1> QED
  BY <1>2, <1>3, <1>4, ProcessStep

LEMMA ScanInv ==
    ASSUME IInv, NEW p \in Process, Scan(p)
    PROVE  IInv'
<1> DEFINE s == [Idle EXCEPT !.pc = "read", !.cards = cards]
<1>1. Begun(cards) /\ Later(cards, cards) /\ cards \in Seq(WellMade)
  BY LaterSteps DEF IInv, Begun
<1>2. /\ s.pc = "read" /\ s.cards = cards /\ s.pr = {} /\ s.snap = {}
      /\ s.card = {}
  BY DEF Idle
<1>3. s \in Memory
  <2>1. Idle \in Memory
    BY <1>1, IdleRemembers
  <2> QED
    BY <1>1, <2>1 DEF Memory
<1>4. Remembers(s, cards, pr) /\ s.pc \notin Writing
  BY <1>1, <1>2 DEF Remembers, Holding, Writing
<1>5. Become(p, s) /\ UNCHANGED <<cards, pr, top, life, permitted, intents, lock,
                                  wire, moves, crashes>>
  BY DEF Scan, database, budget
<1> HIDE DEF s
<1> QED
  BY <1>3, <1>4, <1>5, MemoryStep

LEMMA IdleInv ==
    ASSUME IInv, NEW p \in Process, Become(p, Idle),
           UNCHANGED <<cards, pr, top, life, permitted, intents, lock, wire,
                       moves, crashes>>
    PROVE  IInv'
<1>1. Idle \in Memory /\ Remembers(Idle, cards, pr)
  BY IdleRemembers DEF IInv
<1>2. Idle.pc \notin Writing
  BY DEF Idle, Writing
<1> QED
  BY <1>1, <1>2, MemoryStep

LEMMA ReadInv ==
    ASSUME IInv, NEW p \in Process, Read(p)
    PROVE  IInv'
<1> DEFINE s == [proc[p] EXCEPT !.pc = "plan", !.pr = {pr}]
<1>1. UNCHANGED <<cards, pr, top, life, permitted, intents, lock, wire, moves,
                  crashes>>
  BY DEF Read, database, budget
<1>2. CASE Become(p, Idle)
  BY <1>1, <1>2, IdleInv
<1>3. CASE Become(p, s)
  <2>1. /\ proc[p] \in Memory /\ Remembers(proc[p], cards, pr)
        /\ pr \in PullRequest
    BY DEF IInv, ProcessesOK, StoresOK
  <2>2. /\ s \in Memory /\ s.pc = "plan" /\ s.cards = proc[p].cards
        /\ s.pr = {pr} /\ s.snap = proc[p].snap /\ s.card = proc[p].card
    BY <2>1 DEF Memory
  <2> HIDE DEF s
  <2>3. Remembers(s, cards, pr) /\ s.pc \notin Writing
    BY <2>1, <2>2 DEF Remembers, Holding, Writing
  <2> QED
    BY <1>1, <1>3, <2>2, <2>3, MemoryStep
<1> QED
  BY <1>2, <1>3 DEF Read

\* What a process makes of its snapshot.
LEMMA ContinueRemembers ==
    ASSUME NEW cs, Begun(cs), NEW q, NEW old, Begun(old), Later(old, cs),
           NEW seen \in PullRequest, NEW pending,
           NEW snap, snap = Snapshot(old, seen, pending),
           NEW p, NEW s, s = Continue(p, snap)
    PROVE  s \in Memory /\ Remembers(s, cs, q) /\ s.pc \notin Writing
<1>1. /\ old \in Seq(WellMade) /\ cs \in Seq(WellMade)
      /\ old # <<>> => old[1].step = "build"
      /\ Seen(seen) \in [base : Commit, head : Commit]
      /\ cs = <<>> => old = <<>>
  BY SeenTyped DEF Begun, Later
<1>2. /\ Idle \in Memory /\ Remembers(Idle, cs, q) /\ Idle.pc \notin Writing
      /\ Begun(Idle.cards) /\ Later(Idle.cards, cs)
  BY IdleRemembers DEF Idle, Writing, Remembers
<1>3. ASSUME NEW new, new \subseteq NextCards(snap),
             s = [Idle EXCEPT !.pc = "create", !.card = new]
      PROVE  s \in Memory /\ Remembers(s, cs, q) /\ s.pc \notin Writing
  <2>1. \A c \in new : c \in WellMade /\ (old = <<>> => c.step = "build")
    BY <1>1, <1>3, NextCardsMade
  <2>2. /\ s.pc = "create" /\ s.cards = Idle.cards /\ s.pr = {} /\ s.snap = {}
        /\ s.card = new
    BY <1>3 DEF Idle
  <2>3. s \in Memory
    BY <1>2, <1>3, <2>1 DEF Memory
  <2> QED
    BY <1>1, <1>2, <2>1, <2>2, <2>3 DEF Remembers, Holding, Writing
<1>4. ASSUME snap.status = "ok", snap.flow.status = "ready_to_merge",
             s = [Idle EXCEPT !.pc = "evidence", !.snap = {snap}]
      PROVE  s \in Memory /\ Remembers(s, cs, q) /\ s.pc \notin Writing
  <2>1. snap \in OkSnap /\ Proves(old, snap.base, snap.head)
    BY <1>1, <1>4, SnapshotTyped
  <2>2. ProvenIn(cs, snap.base, snap.head)
    BY <1>1, <2>1, ProvenEarlier
  <2>3. /\ s.pc = "evidence" /\ s.cards = Idle.cards /\ s.pr = {}
        /\ s.snap = {snap} /\ s.card = {}
    BY <1>4 DEF Idle
  <2>4. s \in Memory
    <3>1. "evidence" \in Holding /\ {snap} \in SUBSET OkSnap
      BY <2>1 DEF Holding
    <3> QED
      BY <1>2, <1>4, <3>1 DEF Memory
  <2> QED
    BY <1>2, <2>2, <2>3, <2>4 DEF Remembers, Holding, Writing
<1>5. \/ s = Idle
      \/ \E new : /\ new \subseteq NextCards(snap)
                  /\ s = [Idle EXCEPT !.pc = "create", !.card = new]
      \/ /\ snap.status = "ok" /\ snap.flow.status = "ready_to_merge"
         /\ s = [Idle EXCEPT !.pc = "evidence", !.snap = {snap}]
  BY DEF Continue
<1> QED
  BY <1>2, <1>3, <1>4, <1>5

LEMMA PlanInv ==
    ASSUME IInv, NEW p \in Process, Plan(p)
    PROVE  IInv'
<1>1. UNCHANGED <<cards, pr, top, life, permitted, lock, wire, moves, crashes>>
  BY DEF Plan, budget
<1>2. /\ Begun(cards) /\ StoresOK /\ ProcessesOK /\ LockOK
      /\ proc[p] \in Memory /\ Remembers(proc[p], cards, pr)
  BY DEF IInv, ProcessesOK
<1>3. PICK seen \in proc[p].pr :
        LET snap == Snapshot(proc[p].cards, seen, intents)
        IN  \/ Become(p, Idle) /\ UNCHANGED intents
            \/ /\ IF snap.recovery = "complete"
                    THEN lock = "free" /\ CompleteIntent(Seen(seen))
                    ELSE UNCHANGED intents
               /\ Become(p, Continue(p, snap))
  BY DEF Plan
<1>4. seen \in PullRequest
  BY <1>2 DEF Memory
<1> DEFINE snap == Snapshot(proc[p].cards, seen, intents)
           s == Continue(p, snap)
<1>5. CASE Become(p, Idle) /\ UNCHANGED intents
  BY <1>1, <1>5, IdleInv
<1>6. CASE /\ IF snap.recovery = "complete"
                THEN lock = "free" /\ CompleteIntent(Seen(seen))
                ELSE UNCHANGED intents
           /\ Become(p, s)
  <2>1. s \in Memory /\ Remembers(s, cards, pr) /\ s.pc \notin Writing
    <3>1. Begun(proc[p].cards) /\ Later(proc[p].cards, cards)
      BY <1>2 DEF Remembers
    <3> QED
      BY <1>2, <1>4, <3>1, ContinueRemembers
  <2>2. /\ intents' \in Seq(BranchRefreshIntent)
        /\ intents # <<>> => intents' # <<>>
    <3>0. intents \in Seq(BranchRefreshIntent)
      BY <1>2 DEF StoresOK
    <3>1. CASE snap.recovery = "complete"
      <4>1. /\ proc[p].cards \in Seq(WellMade)
            /\ proc[p].cards # <<>> => proc[p].cards[1].step = "build"
        BY <1>2 DEF Remembers, Begun
      <4>2. Len(intents) \in Nat \ {0}
        BY <1>4, <3>1, <4>1, SeenTyped, SnapshotTyped
      <4>3. Seen(seen).base \in Commit /\ Seen(seen).head \in Commit
        BY <1>4, SeenTyped
      <4>4. intents # <<>>
        BY <4>2
      <4> QED
        BY <1>6, <3>0, <3>1, <4>3, <4>4, CompleteTyped
    <3>2. CASE snap.recovery # "complete"
      BY <1>6, <3>0, <3>2
    <3> QED
      BY <3>1, <3>2
  <2> HIDE DEF s, snap
  <2>3. StoresOK'
    BY <1>1, <1>2, <2>2 DEF StoresOK
  <2>4. LockOK'
    BY <1>1, <1>2, <1>6, <2>1, <2>2, LockKept
  <2>5. Begun(cards') /\ Later(cards, cards') /\ Remembers(s, cards', pr)
    BY <1>1, <1>2, <2>1, LaterSteps
  <2> QED
    BY <1>1, <1>6, <2>1, <2>3, <2>4, <2>5, ProcessStep
<1> QED
  BY <1>3, <1>5, <1>6

LEMMA CreateInv ==
    ASSUME IInv, NEW p \in Process, NEW c \in WellMade,
           cards = <<>> => c.step = "build", CreateCard(p, c)
    PROVE  IInv'
<1>1. /\ Begun(cards) /\ StoresOK /\ ProcessesOK /\ LockOK
  BY DEF IInv
<1>2. /\ Become(p, Idle)
      /\ UNCHANGED <<pr, top, life, permitted, intents, lock, wire, moves, crashes>>
      /\ cards' = cards \/ cards' = Append(cards, c)
  BY DEF CreateCard, database, budget
<1>3. Begun(cards') /\ Later(cards, cards')
  BY <1>1, <1>2, LaterSteps
<1>4. Idle \in Memory /\ Remembers(Idle, cards', pr) /\ Idle.pc \notin Writing
  BY <1>3, IdleRemembers DEF Idle, Writing
<1>5. StoresOK'
  BY <1>1, <1>2 DEF StoresOK
<1>6. LockOK'
  BY <1>1, <1>2, <1>4, LockKept
<1> QED
  BY <1>2, <1>3, <1>4, <1>5, <1>6, ProcessStep

LEMMA WorkerCreateInv ==
    ASSUME IInv, WorkerCreate
    PROVE  IInv'
<1>1. PICK c \in proc["worker"].card : CreateCard("worker", c)
  BY DEF WorkerCreate
<1>2. "worker" \in Process
  BY DEF Process
<1>3. c \in WellMade /\ (cards = <<>> => c.step = "build")
  BY <1>2 DEF IInv, ProcessesOK, Memory, Remembers
<1> QED
  BY <1>1, <1>2, <1>3, CreateInv

-----------------------------------------------------------------------------
(* Steps of the merger                                                     *)

\* What the merger holds once it decides.
LEMMA MergerHolds ==
    ASSUME IInv, Merger.pc \in Holding
    PROVE  /\ Merger \in Memory /\ Remembers(Merger, cards, pr)
           /\ Snap \in OkSnap /\ ProvenIn(cards, Snap.base, Snap.head)
           /\ Merger.pc # "evidence" =>
                 /\ Merger.pr # {}
                 /\ Evidence \in PullRequest
                 /\ Evidence.merged => Evidence = pr
<1>1. Merger \in Memory /\ Remembers(Merger, cards, pr)
  BY DEF IInv, ProcessesOK, Merger, Process
<1>2. Snap \in Merger.snap
  BY <1>1 DEF Remembers, Snap
<1>3. Snap \in OkSnap /\ ProvenIn(cards, Snap.base, Snap.head)
  BY <1>1, <1>2 DEF Remembers, Memory
<1>4. ASSUME Merger.pc # "evidence"
      PROVE  /\ Merger.pr # {} /\ Evidence \in Merger.pr
             /\ Evidence \in PullRequest
             /\ Evidence.merged => Evidence = pr
  <2>1. Merger.pr # {}
    BY <1>1, <1>4 DEF Remembers
  <2>2. Evidence \in Merger.pr
    BY <2>1 DEF Evidence
  <2> QED
    BY <1>1, <2>1, <2>2 DEF Remembers, Memory
<1> QED
  BY <1>1, <1>3, <1>4

\* The merger with other evidence, or at another place.
LEMMA MergerMemory ==
    ASSUME IInv, Merger.pc \in Holding, NEW pc \in Holding \ {"evidence"},
           NEW qs \in SUBSET PullRequest, qs # {}, \A e \in qs : e.merged => e = pr
    PROVE  LET s == [Merger EXCEPT !.pc = pc, !.pr = qs]
           IN  s \in Memory /\ Remembers(s, cards, pr) /\ s.pc = pc
<1> DEFINE s == [Merger EXCEPT !.pc = pc, !.pr = qs]
<1>1. Merger \in Memory /\ Remembers(Merger, cards, pr)
  BY MergerHolds
<1>2. /\ s \in Memory /\ s.pc = pc /\ s.cards = Merger.cards /\ s.pr = qs
      /\ s.snap = Merger.snap /\ s.card = Merger.card
  BY <1>1 DEF Memory
<1> HIDE DEF s
<1>3. Remembers(s, cards, pr)
  BY <1>1, <1>2 DEF Remembers
<1> QED
  BY <1>2, <1>3 DEF s

LEMMA MergerMoved ==
    ASSUME IInv, Merger.pc \in Holding \ {"evidence"},
           NEW pc \in Holding \ {"evidence"}
    PROVE  LET s == [Merger EXCEPT !.pc = pc]
           IN  s \in Memory /\ Remembers(s, cards, pr) /\ s.pc = pc
<1>1. /\ Merger \in Memory /\ Remembers(Merger, cards, pr)
      /\ Merger.pr # {}
  BY MergerHolds
<1>2. [Merger EXCEPT !.pc = pc] = [Merger EXCEPT !.pc = pc, !.pr = Merger.pr]
  BY <1>1 DEF Memory
<1>3. Merger.pr \in SUBSET PullRequest /\ \A e \in Merger.pr : e.merged => e = pr
  BY <1>1 DEF Memory, Remembers
<1> QED
  BY <1>1, <1>2, <1>3, MergerMemory

\* The merger goes on while the chain and the pull request stand still.
LEMMA MergerStep ==
    ASSUME IInv, NEW s \in Memory, Become("merger", s), Remembers(s, cards, pr),
           UNCHANGED <<cards, pr, top>>, WireOK', StoresOK',
           life' = "merged" => life = "merged",
           s.pc \in Writing => lock' = "merger" /\ life' = "active",
           s.pc \in {"update", "poll"} => intents' # <<>>
    PROVE  IInv'
<1>1. /\ Begun(cards) /\ ProcessesOK /\ MergedOK /\ "merger" \in Process
  BY DEF IInv, Process
<1>2. Begun(cards') /\ Later(cards, cards') /\ Remembers(s, cards', pr')
  BY <1>1, LaterSteps
<1>3. Merger' = s
  BY <1>1 DEF Merger, Become, ProcessesOK
<1>4. LockOK'
  BY <1>3 DEF LockOK
<1>5. ProcessesOK'
  BY <1>1, <1>2, ProcessSteps
<1>6. MergedOK'
  BY <1>1, <1>2, MergedKept
<1> QED
  BY <1>2, <1>4, <1>5, <1>6 DEF IInv

LEMMA SameWire ==
    ASSUME IInv, UNCHANGED <<cards, pr, top>>, wire' \subseteq wire
    PROVE  WireOK'
<1>1. /\ Begun(cards) /\ WireOK /\ top \in Nat
      /\ wire \in SUBSET [op : {"merge", "update"}, sha : Commit]
      /\ Begun(cards') /\ Later(cards, cards')
  BY LaterSteps, CommitAssumption DEF IInv, StoresOK
<1> QED
  BY <1>1, WireKept

\* The merger ends, with or without the lock.
LEMMA MergerEndsInv ==
    ASSUME IInv, MergerEnds, UNCHANGED <<cards, pr, top>>, wire' \subseteq wire,
           StoresOK', life' = "merged" => life = "merged"
    PROVE  IInv'
<1>1. Idle \in Memory /\ Remembers(Idle, cards, pr)
  BY IdleRemembers DEF IInv
<1>2. Idle.pc \notin Writing /\ Idle.pc \notin {"update", "poll"}
  BY DEF Idle, Writing
<1>3. WireOK'
  BY SameWire
<1> QED
  BY <1>1, <1>2, <1>3, MergerStep DEF MergerEnds

LEMMA ReadEvidenceInv ==
    ASSUME IInv, ReadEvidence
    PROVE  IInv'
<1> DEFINE s == [Merger EXCEPT !.pc = "decide", !.pr = {pr}]
<1>1. /\ Merger.pc \in Holding /\ "decide" \in Holding \ {"evidence"}
      /\ Become("merger", s)
      /\ UNCHANGED <<cards, pr, top, life, permitted, intents, lock, wire, moves,
                     crashes>>
  BY DEF ReadEvidence, MergerAt, Holding, database, budget
<1>2. pr \in PullRequest /\ {pr} \in SUBSET PullRequest
  BY DEF IInv, StoresOK
<1>3. s \in Memory /\ Remembers(s, cards, pr) /\ s.pc = "decide"
  BY <1>1, <1>2, MergerMemory
<1> HIDE DEF s
<1>4. "merger" \in Process /\ s.pc \notin Writing
  BY <1>3 DEF Process, Writing
<1> QED
  BY <1>1, <1>3, <1>4, MemoryStep

\* The merger moves on and only its memory changes.
LEMMA MergerGoesInv ==
    ASSUME IInv, Merger.pc \in Holding \ {"evidence"},
           NEW pc \in Holding \ {"evidence"}, pc \notin Writing, MergerGoes(pc),
           UNCHANGED <<cards, pr, top, life, permitted, lock, wire, moves, crashes>>,
           intents' \in Seq(BranchRefreshIntent)
    PROVE  IInv'
<1> DEFINE s == [Merger EXCEPT !.pc = pc]
<1>1. s \in Memory /\ Remembers(s, cards, pr) /\ s.pc = pc /\ Become("merger", s)
  BY MergerMoved DEF MergerGoes
<1>2. StoresOK'
  BY DEF IInv, StoresOK
<1>3. pc \notin {"update", "poll"}
  BY DEF Writing
<1>4. WireOK'
  BY SameWire
<1> HIDE DEF s
<1> QED
  BY <1>1, <1>2, <1>3, <1>4, MergerStep

LEMMA ObserveMergeInv ==
    ASSUME IInv, ObserveMerge
    PROVE  IInv'
<1>1. /\ Merger.pc = "decide" /\ MergedAsProven(Evidence) /\ life' = "merged"
      /\ Become("merger", Idle)
      /\ UNCHANGED <<cards, pr, top, permitted, intents, lock, wire, moves, crashes>>
  BY DEF ObserveMerge, MergerAt, MergerEnds, budget
<1>2. /\ Merger.pc \in Holding /\ Begun(cards) /\ StoresOK /\ MergedOK
      /\ ProcessesOK /\ "merger" \in Process
  BY <1>1 DEF IInv, Holding, Process
<1>3. /\ pr.merged /\ pr.mbase = Snap.base /\ pr.mhead = Snap.head
      /\ ProvenIn(cards, Snap.base, Snap.head)
  BY <1>1, <1>2, MergerHolds DEF MergedAsProven
<1>4. MergedOK'
  BY <1>1, <1>3 DEF MergedOK
<1>5. Idle \in Memory /\ Remembers(Idle, cards, pr)
  BY <1>2, IdleRemembers
<1>6. Begun(cards') /\ Later(cards, cards') /\ Remembers(Idle, cards', pr')
  BY <1>1, <1>2, <1>5, LaterSteps
<1>7. ProcessesOK'
  BY <1>1, <1>2, <1>5, <1>6, ProcessSteps
<1>8. LockOK'
  <2>1. Merger' = Idle
    BY <1>1, <1>2 DEF Merger, Become, ProcessesOK
  <2> QED
    BY <2>1 DEF LockOK, Idle, Writing
<1>9. WireOK'
  BY <1>1, SameWire
<1>10. StoresOK'
  BY <1>1, <1>2 DEF StoresOK
<1> QED
  BY <1>4, <1>6, <1>7, <1>8, <1>9, <1>10 DEF IInv

LEMMA ReserveInv ==
    ASSUME IInv, Reserve
    PROVE  IInv'
<1> DEFINE intent == [ebase |-> Evidence.base, ehead |-> Evidence.head,
                      done |-> FALSE, nbase |-> NoCommit, nhead |-> NoCommit]
<1>1. /\ Merger.pc = "decide" /\ intents' = Append(intents, intent)
      /\ MergerGoes("refresh")
      /\ UNCHANGED <<cards, pr, top, life, permitted, lock, wire, moves, crashes>>
  BY DEF Reserve, MergerAt, budget
<1>2. Evidence \in PullRequest /\ intents \in Seq(BranchRefreshIntent)
  BY <1>1, MergerHolds DEF Holding, IInv, StoresOK
<1>3. intent \in BranchRefreshIntent
  BY <1>2 DEF BranchRefreshIntent, PullRequest
<1> HIDE DEF intent
<1>4. intents' \in Seq(BranchRefreshIntent)
  BY <1>1, <1>2, <1>3
<1>5. /\ Merger.pc \in Holding \ {"evidence"} /\ "refresh" \in Holding \ {"evidence"}
      /\ "refresh" \notin Writing
  BY <1>1 DEF Holding, Writing
<1> QED
  BY <1>1, <1>4, <1>5, MergerGoesInv

LEMMA ResumeInv ==
    ASSUME IInv, Resume
    PROVE  IInv'
<1>1. /\ Merger.pc = "decide" /\ MergerGoes("refresh")
      /\ UNCHANGED <<cards, pr, top, life, permitted, intents, lock, wire, moves,
                     crashes>>
  BY DEF Resume, MergerAt, database, budget
<1>2. intents' \in Seq(BranchRefreshIntent)
  BY <1>1 DEF IInv, StoresOK
<1>3. /\ Merger.pc \in Holding \ {"evidence"} /\ "refresh" \in Holding \ {"evidence"}
      /\ "refresh" \notin Writing
  BY <1>1 DEF Holding, Writing
<1> QED
  BY <1>1, <1>2, <1>3, MergerGoesInv

\* The merger takes the lock for an active Task.
LEMMA MergerLocksInv ==
    ASSUME IInv, Merger.pc \in Holding \ {"evidence"}, NEW pc \in Writing,
           MergerGoes(pc), lock' = "merger", life = "active",
           UNCHANGED <<cards, pr, top, life, permitted, intents, wire, moves, crashes>>,
           pc \in {"update", "poll"} => intents # <<>>
    PROVE  IInv'
<1> DEFINE s == [Merger EXCEPT !.pc = pc]
<1>1. pc \in Holding \ {"evidence"}
  BY DEF Writing, Holding
<1>2. s \in Memory /\ Remembers(s, cards, pr) /\ s.pc = pc /\ Become("merger", s)
  BY <1>1, MergerMoved DEF MergerGoes
<1>3. StoresOK'
  BY DEF IInv, StoresOK
<1>4. WireOK'
  BY SameWire
<1> HIDE DEF s
<1> QED
  BY <1>2, <1>3, <1>4, MergerStep

LEMMA LockForMergeInv ==
    ASSUME IInv, LockForMerge
    PROVE  IInv'
<1>1. /\ Merger.pc = "decide" /\ MergerGoes("merge") /\ lock' = "merger"
      /\ life = "active"
      /\ UNCHANGED <<cards, pr, top, life, permitted, intents, wire, moves, crashes>>
  BY DEF LockForMerge, MergerAt, Guarded, database, budget
<1>2. /\ Merger.pc \in Holding \ {"evidence"} /\ "merge" \in Writing
      /\ "merge" \notin {"update", "poll"}
  BY <1>1 DEF Holding, Writing
<1> QED
  BY <1>1, <1>2, MergerLocksInv

LEMMA LockForRefreshInv ==
    ASSUME IInv, LockForRefresh
    PROVE  IInv'
<1>1. /\ Merger.pc = "refresh" /\ MergerGoes("update") /\ lock' = "merger"
      /\ life = "active" /\ Len(intents) = Snap.refreshes + 1
      /\ UNCHANGED <<cards, pr, top, life, permitted, intents, wire, moves, crashes>>
  BY DEF LockForRefresh, MergerAt, Guarded, IntentFits, Ahead, database, budget
<1>2. Merger.pc \in Holding \ {"evidence"} /\ "update" \in Writing
  BY <1>1 DEF Holding, Writing
<1>3. intents # <<>>
  <2>1. Snap.refreshes \in Nat
    BY <1>2, MergerHolds DEF OkSnap
  <2> QED
    BY <1>1, <2>1
<1> QED
  BY <1>1, <1>2, <1>3, MergerLocksInv

LEMMA DeclineInv ==
    ASSUME IInv, Decline \/ RefreshError
    PROVE  IInv'
<1>1. /\ Become("merger", Idle) /\ "merger" \in Process
      /\ UNCHANGED <<cards, pr, top, life, permitted, intents, lock, wire, moves,
                     crashes>>
  BY DEF Decline, RefreshError, MergerEnds, database, budget, Process
<1> QED
  BY <1>1, IdleInv

LEMMA RefreshFoundInv ==
    ASSUME IInv, RefreshFound
    PROVE  IInv'
<1>1. /\ Merger.pc = "refresh" /\ MergerGoes("record")
      /\ UNCHANGED <<cards, pr, top, life, permitted, lock, wire, moves, crashes>>
      /\ UNCHANGED intents \/ CompleteIntent(Evidence)
      /\ Len(intents) = Snap.refreshes + 1
  BY DEF RefreshFound, MergerAt, IntentFits, Ahead, budget
<1>2. /\ Merger.pc \in Holding \ {"evidence"} /\ "record" \in Holding \ {"evidence"}
      /\ "record" \notin Writing
  BY <1>1 DEF Holding, Writing
<1>3. /\ Snap.refreshes \in Nat /\ Evidence.base \in Commit /\ Evidence.head \in Commit
      /\ intents \in Seq(BranchRefreshIntent)
  BY <1>2, MergerHolds DEF OkSnap, PullRequest, IInv, StoresOK
<1>4. intents # <<>>
  BY <1>1, <1>3
<1>5. intents' \in Seq(BranchRefreshIntent)
  BY <1>1, <1>3, <1>4, CompleteTyped
<1> QED
  BY <1>1, <1>2, <1>5, MergerGoesInv

LEMMA RequestUpdateInv ==
    ASSUME IInv, RequestUpdate
    PROVE  IInv'
<1> DEFINE m == [op |-> "update", sha |-> Snap.head]
<1>1. /\ Merger.pc = "update" /\ Merger.pc \in Holding \ {"evidence"}
      /\ "poll" \in Holding \ {"evidence"}
      /\ UNCHANGED <<cards, pr, top, life, permitted, intents, moves, crashes>>
  BY DEF RequestUpdate, MergerAt, Holding, database, budget
<1>2. /\ StoresOK /\ LockOK /\ WireOK
      /\ lock = "merger" /\ life = "active" /\ intents # <<>>
  BY <1>1 DEF IInv, LockOK, Writing
<1>3. CASE wire' = wire \cup {m} /\ MergerGoes("poll") /\ UNCHANGED lock
  <2> DEFINE s == [Merger EXCEPT !.pc = "poll"]
  <2>1. s \in Memory /\ Remembers(s, cards, pr) /\ s.pc = "poll" /\ Become("merger", s)
    BY <1>1, <1>3, MergerMoved DEF MergerGoes
  <2>2. Snap.head \in Commit
    BY <1>1, MergerHolds DEF OkSnap
  <2>3. StoresOK'
    BY <1>1, <1>2, <1>3, <2>2 DEF StoresOK
  <2>4. WireOK'
    BY <1>1, <1>2, <1>3 DEF WireOK
  <2> HIDE DEF s
  <2> QED
    BY <1>1, <1>2, <1>3, <2>1, <2>3, <2>4, MergerStep
<1>4. CASE MergerEnds /\ Unlock /\ UNCHANGED wire
  <2>1. StoresOK'
    BY <1>1, <1>2, <1>4 DEF StoresOK, Unlock
  <2> QED
    BY <1>1, <1>4, <2>1, MergerEndsInv
<1> QED
  BY <1>3, <1>4 DEF RequestUpdate

LEMMA UpdateSeenInv ==
    ASSUME IInv, UpdateSeen
    PROVE  IInv'
<1> DEFINE s == [Merger EXCEPT !.pc = "record", !.pr = {pr}]
<1>1. /\ Merger.pc = "poll" /\ CompleteIntent(pr) /\ Become("merger", s)
      /\ lock' = "free" /\ Merger.pc \in Holding /\ "record" \in Holding \ {"evidence"}
      /\ UNCHANGED <<cards, pr, top, life, permitted, wire, moves, crashes>>
  BY DEF UpdateSeen, MergerAt, Holding, Unlock, budget
<1>2. /\ pr \in PullRequest /\ {pr} \in SUBSET PullRequest /\ StoresOK
      /\ intents \in Seq(BranchRefreshIntent) /\ intents # <<>>
      /\ pr.base \in Commit /\ pr.head \in Commit
  BY <1>1 DEF IInv, StoresOK, LockOK, PullRequest
<1>3. s \in Memory /\ Remembers(s, cards, pr) /\ s.pc = "record"
  BY <1>1, <1>2, MergerMemory
<1> HIDE DEF s
<1>4. intents' \in Seq(BranchRefreshIntent)
  BY <1>1, <1>2, CompleteTyped
<1>5. StoresOK' /\ WireOK'
  BY <1>1, <1>2, <1>4, SameWire DEF StoresOK
<1>6. s.pc \notin Writing /\ s.pc \notin {"update", "poll"}
  BY <1>3 DEF Writing
<1> QED
  BY <1>1, <1>3, <1>5, <1>6, MergerStep

LEMMA UpdateNotSeenInv ==
    ASSUME IInv, UpdateNotSeen
    PROVE  IInv'
<1>1. /\ MergerEnds /\ lock' = "free"
      /\ UNCHANGED <<cards, pr, top, life, permitted, intents, wire, moves, crashes>>
  BY DEF UpdateNotSeen, Unlock, database, budget
<1>2. StoresOK'
  BY <1>1 DEF IInv, StoresOK
<1> QED
  BY <1>1, <1>2, MergerEndsInv

\* record_branch_refresh_result makes a Build card for what the merger read.
LEMMA RefreshCardMade ==
    ASSUME IInv, Merger.pc = "record"
    PROVE  /\ RefreshCard \in WellMade /\ RefreshCard.step = "build"
           /\ RefreshCard.kind = "branch_refresh"
           /\ RefreshCard.refreshes = Snap.refreshes + 1
           /\ RefreshCard.base = Evidence.base /\ RefreshCard.head = Evidence.head
<1> DEFINE restarted == Restart(Snap.flow, Evidence.base, Evidence.head)
           n == Snap.refreshes + 1
           next == [Snap EXCEPT !.flow = restarted, !.base = Evidence.base,
                                !.head = Evidence.head, !.refreshes = n,
                                !.pending = "branch_refresh"]
<1>1. /\ Snap \in OkSnap /\ Evidence.base \in Commit /\ Evidence.head \in Commit
      /\ Snap.flow \in Flow /\ n \in Nat
  BY MergerHolds DEF PullRequest, OkSnap, Holding
<1>2. restarted \in Flow /\ restarted.step = "build"
  BY <1>1, RestartFlow
<1>3. RefreshCard = StepCard(next)
  BY DEF RefreshCard
<1>4. "branch_refresh" \in Changes \cup {"continue"}
  BY DEF Changes
<1> HIDE DEF restarted, n
<1>5. /\ next \in OkSnap /\ next.flow = restarted /\ next.refreshes = n
      /\ next.pending = "branch_refresh"
      /\ next.base = Evidence.base /\ next.head = Evidence.head
  BY <1>1, <1>2, <1>4 DEF OkSnap
<1> HIDE DEF next
<1>6. StepCard(next) \in WellMade /\ StepCard(next).step = "build"
  BY <1>2, <1>5, StepCardMade
<1>7. /\ StepCard(next).kind = next.pending /\ StepCard(next).refreshes = next.refreshes
      /\ StepCard(next).base = next.base /\ StepCard(next).head = next.head
  BY DEF StepCard
<1> QED
  BY <1>3, <1>5, <1>6, <1>7 DEF n

LEMMA RecordRefreshInv ==
    ASSUME IInv, RecordRefresh
    PROVE  IInv'
<1>1. /\ "merger" \in Process /\ CreateCard("merger", RefreshCard)
      /\ RefreshCard \in WellMade /\ RefreshCard.step = "build"
  BY RefreshCardMade DEF RecordRefresh, MergerAt, Process
<1> QED
  BY <1>1, CreateInv

\* guard.finish records exactly what was proven.
LEMMA FinishInv ==
    ASSUME IInv, Merger.pc \in Holding, Finish(pr),
           UNCHANGED <<cards, pr, top, permitted, intents, wire, moves, crashes>>
    PROVE  IInv'
<1>1. /\ Become("merger", Idle) /\ lock' = "free"
      /\ life' = IF MergedAsProven(pr) THEN "merged" ELSE life
  BY DEF Finish, MergerEnds, Unlock
<1>2. /\ Begun(cards) /\ StoresOK /\ MergedOK /\ ProcessesOK
      /\ "merger" \in Process
  BY DEF IInv, Process
<1>3. ProvenIn(cards, Snap.base, Snap.head)
  BY MergerHolds
<1>4. MergedOK'
  BY <1>1, <1>2, <1>3 DEF MergedOK, MergedAsProven
<1>5. Idle \in Memory /\ Remembers(Idle, cards, pr)
  BY <1>2, IdleRemembers
<1>6. Begun(cards') /\ Later(cards, cards') /\ Remembers(Idle, cards', pr')
  BY <1>2, <1>5, LaterSteps
<1>7. ProcessesOK'
  BY <1>1, <1>2, <1>5, <1>6, ProcessSteps
<1>8. LockOK'
  <2>1. Merger' = Idle
    BY <1>1, <1>2 DEF Merger, Become, ProcessesOK
  <2> QED
    BY <2>1 DEF LockOK, Idle, Writing
<1>9. WireOK'
  BY SameWire
<1>10. StoresOK'
  BY <1>1, <1>2 DEF StoresOK
<1> QED
  BY <1>4, <1>6, <1>7, <1>8, <1>9, <1>10 DEF IInv

LEMMA RequestMergeInv ==
    ASSUME IInv, RequestMerge
    PROVE  IInv'
<1> DEFINE m == [op |-> "merge", sha |-> Snap.head]
<1>1. /\ Merger.pc = "merge" /\ Merger.pc \in Holding \ {"evidence"}
      /\ "verify" \in Holding \ {"evidence"}
      /\ UNCHANGED <<cards, pr, top, permitted, intents, moves, crashes>>
  BY DEF RequestMerge, MergerAt, Holding, budget
<1>2. /\ StoresOK /\ LockOK /\ WireOK /\ lock = "merger" /\ life = "active"
  BY <1>1 DEF IInv, LockOK, Writing
<1>3. CASE /\ ~pr.merged /\ Matches(pr) /\ wire' = wire \cup {m}
           /\ MergerGoes("verify") /\ UNCHANGED <<life, lock>>
  <2> DEFINE s == [Merger EXCEPT !.pc = "verify"]
  <2>1. s \in Memory /\ Remembers(s, cards, pr) /\ s.pc = "verify" /\ Become("merger", s)
    BY <1>1, <1>3, MergerMoved DEF MergerGoes
  <2>2. Snap.head \in Commit /\ ProvenIn(cards, Snap.base, Snap.head)
    BY <1>1, MergerHolds DEF OkSnap
  <2>3. StoresOK'
    BY <1>1, <1>2, <1>3, <2>2 DEF StoresOK
  <2>4. Snap.head <= top /\ ProvenIn(cards, pr.base, Snap.head)
    BY <1>2, <1>3, <2>2 DEF Matches, StoresOK
  <2>5. \A n \in wire' : n.op = "merge" =>
           n.sha <= top /\ (n.sha \in pr.current => ProvenIn(cards, pr.base, n.sha))
    BY <1>2, <1>3, <2>4 DEF WireOK
  <2>6. WireOK'
    BY <1>1, <2>5 DEF WireOK
  <2> HIDE DEF s
  <2> QED
    BY <1>1, <1>2, <1>3, <2>1, <2>3, <2>6, MergerStep
<1>4. CASE Finish(pr) /\ UNCHANGED wire
  BY <1>1, <1>4, FinishInv
<1> QED
  BY <1>3, <1>4 DEF RequestMerge

LEMMA VerifyMergeInv ==
    ASSUME IInv, VerifyMerge
    PROVE  IInv'
<1>1. /\ Merger.pc \in Holding /\ Finish(pr)
      /\ UNCHANGED <<cards, pr, top, permitted, intents, wire, moves, crashes>>
  BY DEF VerifyMerge, MergerAt, Holding, budget
<1> QED
  BY <1>1, FinishInv

\* A killed process frees its lock.
LEMMA CrashInv ==
    ASSUME IInv, NEW p \in Process, Crash(p)
    PROVE  IInv'
<1>1. /\ Become(p, Idle) /\ crashes < MaxCrashes /\ crashes' = crashes + 1
      /\ lock' = IF lock = p THEN "free" ELSE lock
      /\ UNCHANGED <<cards, pr, top, life, permitted, intents, wire, moves>>
  BY DEF Crash, database
<1>2. /\ StoresOK /\ LockOK /\ ProcessesOK /\ Begun(cards)
      /\ MaxCrashes \in Nat /\ crashes \in 0 .. MaxCrashes
  BY BoundsAssumption DEF IInv, StoresOK
<1>3. crashes' \in 0 .. MaxCrashes
  BY <1>1, <1>2
<1>4. StoresOK'
  BY <1>1, <1>2, <1>3 DEF StoresOK
<1>5. Idle \in Memory /\ Remembers(Idle, cards, pr) /\ Idle.pc \notin Writing
  BY <1>2, IdleRemembers DEF Idle, Writing
<1>6. CASE p = "merger"
  BY <1>1, <1>4, <1>6, MergerEndsInv DEF MergerEnds
<1>7. CASE p # "merger"
  <2>1. UNCHANGED <<lock, life>>
    BY <1>1, <1>2, <1>7 DEF StoresOK, Process
  <2>2. LockOK'
    BY <1>1, <1>2, <1>5, <2>1, LockKept
  <2>3. Begun(cards') /\ Later(cards, cards') /\ Remembers(Idle, cards', pr)
    BY <1>1, <1>2, <1>5, LaterSteps
  <2> QED
    BY <1>1, <1>4, <1>5, <2>2, <2>3, ProcessStep
<1> QED
  BY <1>6, <1>7

-----------------------------------------------------------------------------
(* Steps of GitHub, the agents and the world                               *)

\* The pull request stands still, the lifecycle ends only without a lock.
LEMMA StillInv ==
    ASSUME IInv, UNCHANGED <<pr, top, intents, lock, proc>>, wire' \subseteq wire,
           Begun(cards'), Later(cards, cards'), StoresOK',
           life' = life \/ (lock = "free" /\ life' # "merged")
    PROVE  IInv'
<1>1. /\ Begun(cards) /\ ProcessesOK /\ LockOK /\ WireOK /\ MergedOK
      /\ top \in Nat /\ wire \in SUBSET [op : {"merge", "update"}, sha : Commit]
  BY CommitAssumption DEF IInv, StoresOK
<1>2. ProcessesOK'
  BY <1>1, ProcessesKept
<1>3. WireOK'
  BY <1>1, WireKept
<1>4. MergedOK'
  BY <1>1, MergedKept
<1>5. LockOK'
  BY <1>1 DEF LockOK, Merger
<1> QED
  BY <1>2, <1>3, <1>4, <1>5 DEF IInv

\* The open pull request moves to another head or base.
Moves ==
    /\ ~pr.merged /\ ~pr'.merged
    /\ pr' \in PullRequest /\ top' \in Commit /\ top <= top' /\ pr'.head <= top'
    /\ \A c \in pr'.current : c <= top => c \in pr.current /\ pr'.base = pr.base

LEMMA MovesInv ==
    ASSUME IInv, Moves, UNCHANGED <<life, permitted, intents, lock, proc>>,
           wire' \subseteq wire, Begun(cards'), Later(cards, cards'),
           moves' \in 0 .. MaxMoves, UNCHANGED crashes
    PROVE  IInv'
<1>1. /\ Begun(cards) /\ StoresOK /\ ProcessesOK /\ LockOK /\ WireOK /\ MergedOK
      /\ top \in Nat /\ top' \in Nat
      /\ wire \in SUBSET [op : {"merge", "update"}, sha : Commit]
  BY CommitAssumption DEF IInv, StoresOK, Moves
<1>2. ProcessesOK'
  BY <1>1, ProcessesKept DEF Moves
<1>3. WireOK'
  BY <1>1, WireKept DEF Moves
<1>4. MergedOK'
  BY <1>1 DEF MergedOK, Moves
<1>5. LockOK'
  BY <1>1 DEF LockOK, Merger
<1>6. StoresOK'
  BY <1>1 DEF StoresOK, Moves
<1> QED
  BY <1>2, <1>3, <1>4, <1>5, <1>6 DEF IInv

\* A commit nobody has used yet becomes the head.
LEMMA FreshMoves ==
    ASSUME IInv, ~pr.merged, NEW c \in Commit, c > top, top' = c,
           pr' = Updated(c) \/ pr' = Pushed(c)
    PROVE  Moves
<1>1. pr \in PullRequest /\ top \in Nat /\ c \in Nat
  BY CommitAssumption DEF IInv, StoresOK
<1>2. PICK new \in {pr.current, pr.current \cup {c}} :
         pr' = [pr EXCEPT !.head = c, !.current = new]
  BY <1>1 DEF Updated, Pushed, PullRequest
<1>3. new \in SUBSET Commit
  BY <1>1 DEF PullRequest
<1>4. /\ pr' \in PullRequest /\ pr'.head = c /\ pr'.base = pr.base
      /\ pr'.current = new /\ pr'.merged = pr.merged
  BY <1>1, <1>2, <1>3 DEF PullRequest
<1>5. \A d \in new : d <= top => d \in pr.current
  BY <1>1
<1> QED
  BY <1>1, <1>4, <1>5 DEF Moves

LEMMA AnswerInv ==
    ASSUME IInv, NEW request \in wire, Answer(request)
    PROVE  IInv'
<1>1. /\ ~pr.merged /\ pr.head = request.sha /\ wire' = wire \ {request}
      /\ UNCHANGED <<cards, life, permitted, intents, lock, proc, moves, crashes>>
  BY DEF Answer, database, budget
<1>2. /\ Begun(cards) /\ StoresOK /\ ProcessesOK /\ LockOK /\ WireOK /\ MergedOK
      /\ pr \in PullRequest /\ top \in Nat
      /\ wire \in SUBSET [op : {"merge", "update"}, sha : Commit]
      /\ Begun(cards') /\ Later(cards, cards')
  BY <1>1, LaterSteps, CommitAssumption DEF IInv, StoresOK
<1>3. CASE /\ request.op = "merge" /\ ~Behind(pr) /\ UNCHANGED top
           /\ pr' = [pr EXCEPT !.merged = TRUE, !.mbase = pr.base,
                               !.mhead = pr.head, !.by = "merger"]
  <2>1. /\ pr' \in PullRequest /\ pr'.merged /\ pr'.mbase = pr.base
        /\ pr'.mhead = pr.head /\ pr'.base = pr.base /\ pr'.head = pr.head
        /\ pr'.current = pr.current
    BY <1>2, <1>3 DEF PullRequest
  <2>2. ProvenIn(cards, pr.base, pr.head)
    BY <1>1, <1>2, <1>3 DEF WireOK, Behind
  <2>3. MergedOK'
    BY <1>1, <1>2, <2>1, <2>2 DEF MergedOK
  <2>4. ProcessesOK'
    BY <1>1, <1>2, ProcessesKept
  <2>5. WireOK'
    BY <1>1, <1>2, <1>3, <2>1, WireKept
  <2>6. LockOK'
    BY <1>1, <1>2 DEF LockOK, Merger
  <2>7. StoresOK'
    BY <1>1, <1>2, <1>3, <2>1 DEF StoresOK
  <2> QED
    BY <1>2, <2>3, <2>4, <2>5, <2>6, <2>7 DEF IInv
<1>4. ASSUME NEW c \in Fresh, pr' = Updated(c), top' = c
      PROVE  IInv'
  <2>1. c \in Commit /\ c > top
    BY <1>2 DEF Fresh
  <2>2. Moves
    BY <1>1, <1>4, <2>1, FreshMoves
  <2>3. moves' \in 0 .. MaxMoves
    BY <1>1, <1>2 DEF StoresOK
  <2> QED
    BY <1>1, <1>2, <2>2, <2>3, MovesInv
<1> QED
  BY <1>3, <1>4 DEF Answer

LEMMA RefuseInv ==
    ASSUME IInv, NEW request \in wire, Refuse(request) \/ Lose(request)
    PROVE  IInv'
<1>1. /\ wire' = wire \ {request}
      /\ UNCHANGED <<cards, pr, top, life, permitted, intents, lock, proc, moves>>
      /\ crashes' = crashes \/ (crashes < MaxCrashes /\ crashes' = crashes + 1)
  BY DEF Refuse, Lose, database, budget
<1>2. /\ StoresOK /\ Begun(cards') /\ Later(cards, cards')
      /\ MaxCrashes \in Nat /\ crashes \in 0 .. MaxCrashes
  BY <1>1, LaterSteps, BoundsAssumption DEF IInv, StoresOK
<1>3. crashes' \in 0 .. MaxCrashes
  BY <1>1, <1>2
<1>4. StoresOK'
  BY <1>1, <1>2, <1>3 DEF StoresOK
<1> QED
  BY <1>1, <1>2, <1>4, StillInv

\* An agent reports a result its card's step allows.
LEMMA SubmitInv ==
    ASSUME IInv, NEW i \in OpenCards, NEW result \in Results(cards[i].step),
           NEW after, Submit(i, result, after),
           \/ after = pr
           \/ /\ ~pr.merged
              /\ \E c \in Fresh : after = Updated(c) \/ after = Pushed(c)
    PROVE  IInv'
<1>1. /\ cards' = [cards EXCEPT ![i].result = {result}] /\ pr' = after
      /\ top' = IF after.head > top THEN after.head ELSE top
      /\ UNCHANGED <<life, permitted, intents, lock, wire, proc, moves, crashes>>
  BY DEF Submit, database, budget
<1>2. /\ Begun(cards) /\ StoresOK /\ top \in Nat /\ pr \in PullRequest
      /\ pr.head \in Nat /\ pr.head <= top
  BY CommitAssumption DEF IInv, StoresOK, PullRequest
<1>3. i \in 1 .. Len(cards) /\ cards[i].result = {}
  BY DEF OpenCards
<1>4. Begun(cards') /\ Later(cards, cards')
  <2>1. {result} \subseteq Results(cards[i].step)
    OBVIOUS
  <2> QED
    BY <1>1, <1>2, <1>3, <2>1, LaterSteps
<1>5. CASE after = pr
  <2>1. top' = top /\ pr' = pr
    BY <1>1, <1>2, <1>5
  <2>2. StoresOK'
    BY <1>1, <1>2, <2>1 DEF StoresOK
  <2> QED
    BY <1>1, <1>4, <2>1, <2>2, StillInv
<1>6. ASSUME ~pr.merged, NEW c \in Fresh, after = Updated(c) \/ after = Pushed(c)
      PROVE  IInv'
  <2>1. c \in Commit /\ c > top /\ c \in Nat
    BY <1>2 DEF Fresh
  <2>2. after.head = c
    BY <1>2, <1>6, <2>1 DEF PullRequest, Updated, Pushed
  <2>3. top' = c /\ (pr' = Updated(c) \/ pr' = Pushed(c))
    BY <1>1, <1>6, <2>1, <2>2
  <2>4. Moves
    BY <1>6, <2>1, <2>3, FreshMoves
  <2>5. moves' \in 0 .. MaxMoves
    BY <1>1, <1>2 DEF StoresOK
  <2> QED
    BY <1>1, <1>4, <2>4, <2>5, MovesInv
<1> QED
  BY <1>5, <1>6

LEMMA AgentInv ==
    ASSUME IInv, NEW i \in OpenCards, Agent(i)
    PROVE  IInv'
<1>1. /\ cards[i] \in WellMade /\ pr \in PullRequest /\ pr.base \in Commit
      /\ pr.head \in Commit /\ Fresh \subseteq Commit /\ Own \in Task
  BY OwnAssumption DEF IInv, StoresOK, Begun, OpenCards, PullRequest, Fresh
<1>2. /\ cards[i].src \subseteq Sources(cards[i].step)
      /\ cards[i].step # "build" => cards[i].head \in Commit
      /\ cards[i].notes \subseteq Text
  BY <1>1 DEF WellMade, Card
<1>3. CASE AgentBuild(i)
  <2>1. PICK x \in Text, c \in {pr.head} \cup (IF BuildPushes /\ Behind(pr)
                                               THEN Fresh ELSE {}) :
          Submit(i, [kind |-> "build", task |-> Own, base |-> pr.base,
                     commit |-> c, remaining |-> FALSE, text |-> x],
                 IF c = pr.head THEN pr ELSE Updated(c))
    BY <1>3 DEF AgentBuild
  <2> DEFINE r == [kind |-> "build", task |-> Own, base |-> pr.base,
                   commit |-> c, remaining |-> FALSE, text |-> x]
             after == IF c = pr.head THEN pr ELSE Updated(c)
  <2>2. ~pr.merged /\ cards[i].step = "build"
    BY <1>3 DEF AgentBuild
  <2>3. r \in Results(cards[i].step)
    BY <1>1, <2>2 DEF Results, BuildResult
  <2>4. \/ after = pr
        \/ ~pr.merged /\ \E d \in Fresh : after = Updated(d) \/ after = Pushed(d)
    BY <2>2
  <2>5. Submit(i, r, after)
    BY <2>1
  <2> HIDE DEF r, after
  <2> QED
    BY <2>3, <2>4, <2>5, SubmitInv
<1>4. CASE AgentReview(i)
  <2>1. PICK x \in Text, ok \in BOOLEAN, build \in cards[i].src :
          Submit(i, [kind |-> "review", task |-> Own, commit |-> pr.head,
                     source |-> build, approve |-> ok, text |-> x],
                 pr)
    BY <1>4 DEF AgentReview
  <2> DEFINE r == [kind |-> "review", task |-> Own, commit |-> pr.head,
                   source |-> build, approve |-> ok, text |-> x]
  <2>2. cards[i].step = "review"
    BY <1>4 DEF AgentReview
  <2>3. build \in BuildResult
    BY <1>2, <2>2 DEF Sources
  <2>4. r \in Results(cards[i].step)
    BY <1>1, <2>2, <2>3 DEF Results, ReviewResult
  <2>5. Submit(i, r, pr)
    BY <2>1
  <2> HIDE DEF r
  <2> QED
    BY <2>4, <2>5, SubmitInv
<1>5. CASE AgentDeepCheck(i)
  <2>1. PICK c \in Fresh, x \in Text, ok \in BOOLEAN, review \in cards[i].src :
          Submit(i, [kind |-> "deep_check", task |-> Own,
                     reviewed |-> cards[i].head, commit |-> c,
                     source |-> review, approve |-> ok, text |-> x],
                 Pushed(c))
    BY <1>5 DEF AgentDeepCheck
  <2> DEFINE r == [kind |-> "deep_check", task |-> Own,
                   reviewed |-> cards[i].head, commit |-> c,
                   source |-> review, approve |-> ok, text |-> x]
  <2>2. cards[i].step = "deep_check" /\ ~pr.merged
    BY <1>5 DEF AgentDeepCheck
  <2>3. review \in ReviewResult /\ cards[i].head \in Commit /\ c \in Commit
    BY <1>1, <1>2, <2>2 DEF Sources
  <2>4. r \in Results(cards[i].step)
    BY <1>1, <2>2, <2>3 DEF Results, DeepCheckResult
  <2>5. Submit(i, r, Pushed(c))
    BY <2>1
  <2> HIDE DEF r
  <2> QED
    BY <2>2, <2>4, <2>5, SubmitInv
<1>6. CASE AgentFix(i)
  <2>1. PICK c \in Fresh, x \in cards[i].notes, rejection \in cards[i].src :
          Submit(i, [kind |-> "fix_proof", task |-> Own, commit |-> c,
                     source |-> rejection, text |-> x],
                 Pushed(c))
    BY <1>6 DEF AgentFix
  <2> DEFINE r == [kind |-> "fix_proof", task |-> Own, commit |-> c,
                   source |-> rejection, text |-> x]
  <2>2. cards[i].step = "fix" /\ ~pr.merged
    BY <1>6 DEF AgentFix
  <2>3. rejection \in ReviewResult \cup DeepCheckResult /\ c \in Commit /\ x \in Text
    BY <1>1, <1>2, <2>2 DEF Sources
  <2>4. r \in Results(cards[i].step)
    BY <1>1, <2>2, <2>3 DEF Results, StepProof
  <2>5. Submit(i, r, Pushed(c))
    BY <2>1
  <2> HIDE DEF r
  <2> QED
    BY <2>2, <2>4, <2>5, SubmitInv
<1> QED
  BY <1>3, <1>4, <1>5, <1>6 DEF Agent

LEMMA WorldInv ==
    ASSUME IInv, World
    PROVE  IInv'
<1>1. /\ Begun(cards) /\ Later(cards, cards) /\ StoresOK /\ ProcessesOK /\ LockOK
      /\ WireOK /\ MergedOK /\ pr \in PullRequest /\ top \in Nat /\ top \in Commit
      /\ wire \in SUBSET [op : {"merge", "update"}, sha : Commit]
  BY LaterSteps, CommitAssumption DEF IInv, StoresOK
<1>2. ASSUME MayMove
      PROVE  /\ ~pr.merged /\ moves' \in 0 .. MaxMoves
             /\ UNCHANGED <<cards, life, permitted, intents, lock, wire, proc, crashes>>
             /\ Begun(cards') /\ Later(cards, cards')
  <2>1. /\ ~pr.merged /\ moves < MaxMoves /\ moves' = moves + 1
        /\ UNCHANGED <<cards, life, permitted, intents, lock, wire, proc, crashes>>
    BY <1>2 DEF MayMove, database
  <2>2. moves \in 0 .. MaxMoves /\ MaxMoves \in Nat
    BY <1>1, BoundsAssumption DEF StoresOK
  <2> QED
    BY <1>1, <2>1, <2>2
<1>3. CASE Push
  <2>1. PICK c \in Fresh \cup ReportedCommits :
          /\ pr' = IF c > top THEN Pushed(c) ELSE [pr EXCEPT !.head = c]
          /\ top' = IF c > top THEN c ELSE top
    BY <1>3 DEF Push
  <2>2. c \in Commit /\ c \in Nat
    <3>1. ASSUME NEW r \in UNION {cards[i].result : i \in DOMAIN cards}
          PROVE  r.commit \in Commit
      <4>1. PICK i \in DOMAIN cards : r \in cards[i].result
        OBVIOUS
      <4>2. cards[i] \in WellMade
        BY <1>1 DEF Begun
      <4>3. r \in Anything
        BY <4>1, <4>2, WellMadeFields
      <4> QED
        BY <4>3, ResultFields DEF Anything, TaskResult
    <3> QED
      BY <3>1, CommitAssumption DEF Fresh, ReportedCommits
  <2>3. MayMove
    BY <1>3 DEF Push
  <2>4. CASE c > top
    <3>1. Moves
      BY <1>2, <2>1, <2>2, <2>3, <2>4, FreshMoves
    <3> QED
      BY <1>2, <2>3, <3>1, MovesInv
  <2>5. CASE ~(c > top)
    <3>1. pr' = [pr EXCEPT !.head = c] /\ top' = top
      BY <2>1, <2>5
    <3>2. /\ pr' \in PullRequest /\ pr'.head = c /\ pr'.base = pr.base
          /\ pr'.current = pr.current /\ pr'.merged = pr.merged
      BY <1>1, <2>2, <3>1 DEF PullRequest
    <3>3. Moves
      BY <1>1, <1>2, <2>2, <2>3, <2>5, <3>1, <3>2 DEF Moves
    <3> QED
      BY <1>2, <2>3, <3>3, MovesInv
  <2> QED
    BY <2>4, <2>5
<1>4. CASE BaseAdvances
  <2>1. PICK c \in Fresh : pr' = [pr EXCEPT !.base = c, !.current = {}] /\ top' = c
    BY <1>4 DEF BaseAdvances
  <2>2. MayMove /\ c \in Commit /\ c \in Nat /\ c > top
    BY <1>1, <1>4, CommitAssumption DEF BaseAdvances, Fresh
  <2>3. /\ pr' \in PullRequest /\ pr'.head = pr.head /\ pr'.current = {}
        /\ pr'.merged = pr.merged
    BY <1>1, <2>1, <2>2 DEF PullRequest
  <2>4. pr.head \in Nat /\ pr.head <= top
    BY <1>1, CommitAssumption DEF StoresOK, PullRequest
  <2>5. Moves
    BY <1>1, <1>2, <2>1, <2>2, <2>3, <2>4 DEF Moves
  <2> QED
    BY <1>2, <2>2, <2>5, MovesInv
<1>5. CASE HumanMerge
  <2>1. /\ ~pr.merged
        /\ pr' = [pr EXCEPT !.merged = TRUE, !.mbase = pr.base, !.mhead = pr.head,
                            !.by = "person"]
        /\ UNCHANGED <<cards, top, life, permitted, intents, lock, wire, proc,
                       moves, crashes>>
    BY <1>5 DEF HumanMerge, database, budget
  <2>2. /\ pr' \in PullRequest /\ pr'.base = pr.base /\ pr'.head = pr.head
        /\ pr'.current = pr.current /\ pr'.by = "person"
    BY <1>1, <2>1 DEF PullRequest
  <2>3. Begun(cards') /\ Later(cards, cards')
    BY <1>1, <2>1
  <2>4. MergedOK'
    BY <1>1, <2>1, <2>2 DEF MergedOK
  <2>5. ProcessesOK'
    BY <1>1, <2>1, <2>3, ProcessesKept
  <2>6. WireOK'
    BY <1>1, <2>1, <2>2, <2>3, WireKept
  <2>7. LockOK'
    BY <1>1, <2>1 DEF LockOK, Merger
  <2>8. StoresOK'
    BY <1>1, <2>1, <2>2 DEF StoresOK
  <2> QED
    BY <2>3, <2>4, <2>5, <2>6, <2>7, <2>8 DEF IInv
<1>6. CASE Cancel
  <2>1. /\ lock = "free" /\ life' = "cancelled"
        /\ UNCHANGED <<cards, pr, top, permitted, intents, lock, wire, proc,
                       moves, crashes>>
    BY <1>6 DEF Cancel, Guarded, budget
  <2>2. StoresOK'
    BY <1>1, <2>1 DEF StoresOK
  <2> QED
    BY <1>1, <2>1, <2>2, StillInv
<1>7. CASE Expire
  <2>1. /\ permitted' = FALSE
        /\ UNCHANGED <<cards, pr, top, life, intents, lock, wire, proc, moves, crashes>>
    BY <1>7 DEF Expire, budget
  <2>2. StoresOK'
    BY <1>1, <2>1 DEF StoresOK
  <2> QED
    BY <1>1, <2>1, <2>2, StillInv
<1> QED
  BY <1>3, <1>4, <1>5, <1>6, <1>7 DEF World

-----------------------------------------------------------------------------
(* The invariant holds                                                     *)

LEMMA InitInv == Init => IInv
<1> SUFFICES ASSUME Init PROVE IInv
  OBVIOUS
<1>1. /\ cards = <<>> /\ top = 2 /\ life = "active" /\ permitted = Automatic
      /\ intents = <<>> /\ lock = "free" /\ wire = {} /\ moves = 0 /\ crashes = 0
      /\ proc = [p \in Process |-> Idle]
  BY DEF Init
<1>2. PICK current \in {{}, {2}} :
         pr = [base |-> 1, head |-> 2, current |-> current, merged |-> FALSE,
               mbase |-> 1, mhead |-> 2, by |-> "nobody"]
  BY DEF Init
<1>3. 1 \in Commit /\ 2 \in Commit /\ current \in SUBSET Commit
  BY CommitAssumption
<1>4. pr \in PullRequest /\ pr.head = 2 /\ ~pr.merged
  BY <1>2, <1>3 DEF PullRequest
<1>5. Begun(cards)
  BY <1>1 DEF Begun
<1>6. StoresOK
  BY <1>1, <1>3, <1>4, BoundsAssumption DEF StoresOK
<1>7. ProcessesOK
  BY <1>1, <1>5, IdleRemembers DEF ProcessesOK
<1>8. LockOK
  BY <1>1 DEF LockOK, Merger, Process, Idle, Writing
<1>9. WireOK /\ MergedOK
  BY <1>1, <1>4 DEF WireOK, MergedOK
<1> QED
  BY <1>5, <1>6, <1>7, <1>8, <1>9 DEF IInv

LEMMA NextInv == IInv /\ [Next]_vars => IInv'
<1> SUFFICES ASSUME IInv, [Next]_vars PROVE IInv'
  OBVIOUS
<1>1. ASSUME NEW p \in Process, Load(p) \/ Crash(p) PROVE IInv'
  BY <1>1, ScanInv, ReadInv, PlanInv, CrashInv DEF Load
<1>2. CASE WorkerCreate
  BY <1>2, WorkerCreateInv
<1>3. CASE Decide
  BY <1>3, ReadEvidenceInv, ObserveMergeInv, ReserveInv, ResumeInv,
     LockForMergeInv, DeclineInv DEF Decide
<1>4. CASE Refresh
  BY <1>4, RefreshFoundInv, LockForRefreshInv, DeclineInv, RequestUpdateInv,
     UpdateSeenInv, UpdateNotSeenInv, RecordRefreshInv DEF Refresh
<1>5. CASE Merge
  BY <1>5, RequestMergeInv, VerifyMergeInv DEF Merge
<1>6. ASSUME NEW request \in wire,
             Answer(request) \/ Refuse(request) \/ Lose(request)
      PROVE  IInv'
  BY <1>6, AnswerInv, RefuseInv
<1>7. ASSUME NEW i \in OpenCards, Agent(i) PROVE IInv'
  BY <1>7, AgentInv
<1>8. CASE World
  BY <1>8, WorldInv
<1>9. CASE UNCHANGED vars
  <2>1. /\ UNCHANGED <<cards, pr, top, life, permitted, intents, lock, wire, proc,
                       moves, crashes>>
    BY <1>9 DEF vars
  <2>2. Begun(cards') /\ Later(cards, cards') /\ StoresOK'
    BY <2>1, LaterSteps DEF IInv, StoresOK
  <2> QED
    BY <2>1, <2>2, StillInv
<1> QED
  BY <1>1, <1>2, <1>3, <1>4, <1>5, <1>6, <1>7, <1>8, <1>9 DEF Next, GitHub

THEOREM Invariant == Spec => []IInv
BY InitInv, NextInv, PTL DEF Spec

\* Every variable keeps its type, whatever the two processes, the agents,
\* GitHub and the world do.
THEOREM TypeCorrect == Spec => []TypeOK
<1>1. IInv => TypeOK
  <2> SUFFICES ASSUME IInv PROVE TypeOK
    OBVIOUS
  <2>1. cards \in Seq(Card)
    <3>1. WellMade \subseteq Card
      BY DEF WellMade
    <3> QED
      BY <3>1 DEF IInv, Begun
  <2>2. DOMAIN proc = Process
    BY DEF IInv, ProcessesOK
  <2> QED
    BY <2>1, <2>2 DEF IInv, StoresOK, TypeOK
<1> QED
  BY <1>1, Invariant, PTL

\* merge_expected_commit and guard.finish: the merger merges only what the
\* selected steps proved for this base, and a Task is recorded as merged only
\* if its pull request is, at a pair its results prove.
THEOREM MergesAreProven == Spec => []OnlyProvenIsMerged
<1>1. IInv => OnlyProvenIsMerged
  BY ProvenIsProvenPair DEF IInv, MergedOK, OnlyProvenIsMerged
<1> QED
  BY <1>1, Invariant, PTL

\* guard_active: once a Task ended no card is created for it and no request
\* to GitHub starts, although plans made before its end are still carried out.
THEOREM EndIsFinal == Spec => NothingAfterEnd
<1> DEFINE Still == Len(cards') = Len(cards) /\ wire' \subseteq wire
<1>1. IInv /\ [Next]_vars => (life # "active" => Still)
  <2> SUFFICES ASSUME IInv, [Next]_vars, life # "active" PROVE Still
    OBVIOUS
  <2>1. ASSUME NEW p, NEW c, CreateCard(p, c) PROVE Still
    BY <2>1 DEF CreateCard, Guarded
  <2>2. ASSUME NEW p \in Process, Load(p) \/ Crash(p) PROVE Still
    BY <2>2 DEF Load, Scan, Read, Plan, Crash
  <2>3. CASE WorkerCreate
    BY <2>1, <2>3 DEF WorkerCreate
  <2>4. CASE Decide
    BY <2>4 DEF Decide, ReadEvidence, ObserveMerge, Reserve, Resume, LockForMerge,
                Decline
  <2>5. CASE Refresh
    <3>1. CASE RecordRefresh
      BY <2>1, <3>1 DEF RecordRefresh
    <3>2. CASE RequestUpdate
      BY <3>2 DEF RequestUpdate, MergerAt, IInv, LockOK, Writing
    <3> QED
      BY <2>5, <3>1, <3>2
         DEF Refresh, RefreshFound, LockForRefresh, RefreshError, UpdateSeen,
             UpdateNotSeen
  <2>6. CASE Merge
    <3>1. CASE RequestMerge
      BY <3>1 DEF RequestMerge, MergerAt, IInv, LockOK, Writing
    <3> QED
      BY <2>6, <3>1 DEF Merge, VerifyMerge
  <2>7. ASSUME NEW request \in wire,
               Answer(request) \/ Refuse(request) \/ Lose(request)
        PROVE  Still
    BY <2>7 DEF Answer, Refuse, Lose
  <2>8. ASSUME NEW i \in OpenCards, Agent(i) PROVE Still
    <3>1. ASSUME NEW result, NEW after, Submit(i, result, after) PROVE Still
      <4>1. cards' = [cards EXCEPT ![i].result = {result}] /\ wire' = wire
        BY <3>1 DEF Submit
      <4>2. cards \in Seq(WellMade)
        BY DEF IInv, Begun
      <4>3. Len(cards') = Len(cards)
        BY <4>1, <4>2
      <4> QED
        BY <4>1, <4>3
    <3> HIDE DEF Still
    <3> QED
      BY <2>8, <3>1 DEF Agent, AgentBuild, AgentReview, AgentDeepCheck, AgentFix
  <2>9. CASE World
    BY <2>9 DEF World, Push, BaseAdvances, MayMove, HumanMerge, Cancel, Expire
  <2>10. CASE UNCHANGED vars
    BY <2>10 DEF vars
  <2> HIDE DEF Still
  <2> QED
    BY <2>2, <2>3, <2>4, <2>5, <2>6, <2>7, <2>8, <2>9, <2>10 DEF Next, GitHub
<1>2. IInv /\ [Next]_vars => [life # "active" => Still]_vars
  BY <1>1
<1> QED
  BY <1>2, Invariant, PTL DEF Spec, NothingAfterEnd

-----------------------------------------------------------------------------
(* The intents and the chain                                               *)

\* A card for a branch refresh that may be in the chain.
Applies(c, log) ==
    c.kind = "branch_refresh" => Recorded(c, log) /\ (NoFix => c.step = "build")

SameRefresh(c, d) ==
    /\ c.kind = "branch_refresh" /\ d.kind = "branch_refresh"
    /\ c.refreshes = d.refreshes

\* Without Fix the key of a card tells whether its intent is in the chain.
RefreshesOK ==
    /\ \A i \in 1 .. Len(cards) : Applies(cards[i], intents)
    /\ NoFix => \A i, j \in 1 .. Len(cards) : SameRefresh(cards[i], cards[j]) => i = j
    /\ Covered(cards, Len(cards), Len(intents) - 1)
    /\ Len(intents) <= MAX_BRANCH_REFRESH_COUNT

\* What a process plans fits the chain cs and the intents of log.
Plans(s, cs, log) ==
    /\ \A c \in s.card : Applies(c, log)
    /\ \A snap \in s.snap : Covered(cs, Len(cs), snap.refreshes)

\* The intent the merger works on is the newest and changes only once.
MergerOK ==
    /\ Merger.pc \in {"update", "poll"} => Ahead /\ ~Intent.done
    /\ Merger.pc = "record" => /\ Ahead /\ Intent.done
                               /\ Intent.nbase = Evidence.base
                               /\ Intent.nhead = Evidence.head

RInv ==
    /\ RefreshesOK
    /\ \A p \in Process : Plans(proc[p], cards, intents)
    /\ MergerOK

\* An intent that is done never changes and none is dropped.
Keeps(log, new) ==
    /\ Len(log) <= Len(new)
    /\ \A i \in 1 .. Len(log) : log[i].done => new[i] = log[i]

LEMMA AppliesKept ==
    ASSUME NEW log \in Seq(BranchRefreshIntent), NEW new \in Seq(BranchRefreshIntent),
           Keeps(log, new), NEW c, Applies(c, log)
    PROVE  Applies(c, new)
BY DEF Keeps, Applies, Recorded

LEMMA CoveredKept ==
    ASSUME NEW cs \in Seq(WellMade), NEW ds \in Seq(WellMade), Later(cs, ds),
           NEW n, Covered(cs, Len(cs), n)
    PROVE  Covered(ds, Len(ds), n)
<1> SUFFICES ASSUME NEW k \in 1 .. n
             PROVE  \E j \in 1 .. Len(ds) : /\ ds[j].kind = "branch_refresh"
                                            /\ ds[j].refreshes = k
  BY DEF Covered
<1>1. PICK j \in 1 .. Len(cs) : cs[j].kind = "branch_refresh" /\ cs[j].refreshes = k
  BY DEF Covered
<1>2. j \in 1 .. Len(ds) /\ SameCard(cs[j], ds[j])
  BY DEF Later
<1> QED
  BY <1>1, <1>2 DEF SameCard

LEMMA PlansKept ==
    ASSUME NEW log \in Seq(BranchRefreshIntent), NEW new \in Seq(BranchRefreshIntent),
           Keeps(log, new), NEW cs \in Seq(WellMade), NEW ds \in Seq(WellMade),
           Later(cs, ds), NEW s, Plans(s, cs, log)
    PROVE  Plans(s, ds, new)
<1>1. \A c \in s.card : Applies(c, new)
  BY AppliesKept DEF Plans
<1>2. \A snap \in s.snap : Covered(ds, Len(ds), snap.refreshes)
  BY CoveredKept DEF Plans
<1> QED
  BY <1>1, <1>2 DEF Plans

LEMMA IdlePlans ==
    ASSUME NEW cs, NEW log
    PROVE  Plans(Idle, cs, log)
BY DEF Plans, Idle

LEMMA Stores ==
    ASSUME IInv
    PROVE  /\ cards \in Seq(WellMade) /\ intents \in Seq(BranchRefreshIntent)
           /\ Begun(cards) /\ Later(cards, cards) /\ Keeps(intents, intents)
           /\ DOMAIN proc = Process
BY LaterSteps DEF IInv, Begun, StoresOK, ProcessesOK, Keeps

\* The chain gets no card and the log no intent.
LEMMA RefreshesKept ==
    ASSUME IInv, IInv', RefreshesOK, Later(cards, cards'), Len(cards') = Len(cards),
           Keeps(intents, intents'), Len(intents') = Len(intents)
    PROVE  RefreshesOK'
<1>1. /\ cards \in Seq(WellMade) /\ intents \in Seq(BranchRefreshIntent)
      /\ cards' \in Seq(WellMade) /\ intents' \in Seq(BranchRefreshIntent)
  BY Stores DEF IInv, Begun, StoresOK
<1>2. ASSUME NEW i \in 1 .. Len(cards)
      PROVE  Applies(cards'[i], intents') /\ SameCard(cards[i], cards'[i])
  <2>1. SameCard(cards[i], cards'[i]) /\ Applies(cards[i], intents)
    BY DEF Later, RefreshesOK
  <2>2. Applies(cards[i], intents')
    BY <1>1, <2>1, AppliesKept
  <2> QED
    BY <2>1, <2>2 DEF SameCard, Applies, Recorded
<1>3. NoFix => \A i, j \in 1 .. Len(cards) : SameRefresh(cards'[i], cards'[j]) => i = j
  BY <1>2 DEF RefreshesOK, SameCard, SameRefresh
<1>4. Covered(cards', Len(cards'), Len(intents') - 1)
  BY <1>1, CoveredKept DEF RefreshesOK
<1> QED
  BY <1>2, <1>3, <1>4 DEF RefreshesOK

\* Cards for the same refresh have the same key.
LEMMA SameRefreshSameKey ==
    ASSUME NEW c, NEW d, NEW log, SameRefresh(c, d), Applies(c, log), Applies(d, log),
           NoFix
    PROVE  Key(c) = Key(d)
<1>1. c.step = d.step /\ c.base = d.base /\ c.head = d.head
  BY DEF Applies, Recorded, SameRefresh
<1> QED
  BY <1>1 DEF Key, Changes, SameRefresh

\* A new card that applies a completed intent.
LEMMA RefreshesAppend ==
    ASSUME IInv, RefreshesOK, NEW c \in WellMade, Applies(c, intents),
           ~HasKey(cards, c), cards' = Append(cards, c), UNCHANGED intents
    PROVE  RefreshesOK'
<1> DEFINE n == Len(cards)
<1>1. /\ cards \in Seq(WellMade) /\ intents \in Seq(BranchRefreshIntent)
      /\ n \in Nat
  BY Stores
<1>2. /\ cards' \in Seq(WellMade) /\ Len(cards') = n + 1 /\ cards'[n + 1] = c
      /\ \A i \in 1 .. n : cards'[i] = cards[i]
  BY <1>1
<1>3. \A i \in 1 .. n + 1 : i \in 1 .. n \/ i = n + 1
  BY <1>1
<1> HIDE DEF n
<1>4. \A i \in 1 .. n + 1 : Applies(cards'[i], intents)
  BY <1>2, <1>3 DEF RefreshesOK, n
<1>5. ASSUME NoFix, NEW i \in 1 .. n,
             SameRefresh(cards[i], c) \/ SameRefresh(c, cards[i])
      PROVE  FALSE
  <2>1. Applies(cards[i], intents)
    BY DEF RefreshesOK, n
  <2>2. Key(cards[i]) = Key(c)
    BY <1>5, <2>1, SameRefreshSameKey DEF SameRefresh
  <2> QED
    BY <2>2 DEF HasKey, n
<1>6. NoFix => \A i, j \in 1 .. n + 1 : SameRefresh(cards'[i], cards'[j]) => i = j
  BY <1>2, <1>3, <1>5 DEF RefreshesOK, n
<1>7. Covered(cards', Len(cards'), Len(intents) - 1)
  <2>1. WellMade \subseteq Card /\ Later(cards, cards')
    <3>1. Later(cards, cards')
      BY <1>1, <1>2 DEF Later, SameCard, n
    <3> QED
      BY <3>1 DEF WellMade
  <2> QED
    BY <1>1, <1>2, <2>1, CoveredKept DEF RefreshesOK
<1> QED
  BY <1>2, <1>4, <1>6, <1>7 DEF RefreshesOK

\* The read-back completes the newest intent, once.
LEMMA CompleteKeeps ==
    ASSUME intents \in Seq(BranchRefreshIntent), intents # <<>>, ~Intent.done,
           NEW seen, CompleteIntent(seen)
    PROVE  /\ Keeps(intents, intents') /\ Len(intents') = Len(intents)
           /\ intents'[Len(intents)].done
           /\ intents'[Len(intents)].nbase = seen.base
           /\ intents'[Len(intents)].nhead = seen.head
<1> DEFINE n == Len(intents)
           new == [intents[n] EXCEPT !.done = TRUE, !.nbase = seen.base,
                                     !.nhead = seen.head]
<1>1. n \in 1 .. Len(intents) /\ intents[n] \in BranchRefreshIntent
  OBVIOUS
<1>2. intents' = [intents EXCEPT ![n] = new]
  BY DEF CompleteIntent
<1>3. new.done /\ new.nbase = seen.base /\ new.nhead = seen.head
  BY <1>1 DEF BranchRefreshIntent
<1>4. ~intents[n].done
  BY DEF Intent
<1> HIDE DEF new
<1>5. /\ Len(intents') = n /\ intents'[n] = new
      /\ \A i \in 1 .. n : i # n => intents'[i] = intents[i]
  BY <1>1, <1>2
<1>6. Keeps(intents, intents')
  BY <1>1, <1>4, <1>5 DEF Keeps
<1> QED
  BY <1>3, <1>5, <1>6

-----------------------------------------------------------------------------
(* Steps and the intents                                                   *)

Working == {"update", "poll", "record"}

LEMMA StillRefreshes ==
    ASSUME IInv, IInv', RInv, Later(cards, cards'), Len(cards') = Len(cards),
           UNCHANGED <<intents, proc>>
    PROVE  RInv'
<1>1. /\ cards \in Seq(WellMade) /\ cards' \in Seq(WellMade)
      /\ intents \in Seq(BranchRefreshIntent) /\ Keeps(intents, intents)
  BY Stores DEF IInv, Begun
<1>2. RefreshesOK'
  BY <1>1, RefreshesKept DEF RInv
<1>3. \A p \in Process : Plans(proc[p], cards', intents)
  BY <1>1, PlansKept DEF RInv
<1>4. MergerOK'
  BY DEF RInv, MergerOK, Merger, Ahead, Intent, Snap, Evidence
<1> QED
  BY <1>2, <1>3, <1>4 DEF RInv

\* A step of one process that creates no card and reserves no intent.
LEMMA MoveRefreshes ==
    ASSUME IInv, IInv', RInv, NEW p \in Process, NEW s, Become(p, s),
           UNCHANGED cards, Keeps(intents, intents'), Len(intents') = Len(intents),
           Plans(s, cards, intents'), MergerOK'
    PROVE  RInv'
<1>1. /\ cards \in Seq(WellMade) /\ Later(cards, cards)
      /\ intents \in Seq(BranchRefreshIntent) /\ DOMAIN proc = Process
      /\ intents' \in Seq(BranchRefreshIntent)
  BY Stores DEF IInv, StoresOK
<1>2. RefreshesOK'
  BY <1>1, RefreshesKept DEF RInv
<1>3. ASSUME NEW q \in Process PROVE Plans(proc'[q], cards, intents')
  <2>1. CASE q = p
    BY <1>1, <2>1 DEF Become
  <2>2. CASE q # p
    <3>1. proc'[q] = proc[q] /\ Plans(proc[q], cards, intents)
      BY <1>1, <2>2 DEF Become, RInv
    <3> QED
      BY <1>1, <3>1, PlansKept
  <2> QED
    BY <2>1, <2>2
<1> QED
  BY <1>2, <1>3 DEF RInv

LEMMA MergerAfter ==
    ASSUME IInv, NEW s, Become("merger", s)
    PROVE  Merger' = s
BY Stores DEF Become, Merger, Process

\* The merger works on no intent afterwards, or another process moves.
LEMMA MergerKept ==
    ASSUME IInv, MergerOK, NEW p \in Process, NEW s, Become(p, s),
           p = "merger" => s.pc \notin Working,
           p # "merger" => UNCHANGED intents
    PROVE  MergerOK'
<1>1. CASE p = "merger"
  BY <1>1, MergerAfter DEF MergerOK, Working
<1>2. CASE p # "merger"
  <2>1. UNCHANGED <<Merger, intents>>
    BY <1>2, Stores DEF Become, Merger, Process
  <2> QED
    BY <2>1 DEF MergerOK, Ahead, Intent, Snap, Evidence
<1> QED
  BY <1>1, <1>2

\* The same with the cards and the intents as they are.
LEMMA QuietRefreshes ==
    ASSUME IInv, IInv', RInv, NEW p \in Process, NEW s, Become(p, s),
           UNCHANGED <<cards, intents>>, Plans(s, cards, intents),
           p = "merger" => s.pc \notin Working
    PROVE  RInv'
<1>1. Keeps(intents, intents') /\ Len(intents') = Len(intents) /\ MergerOK
  BY Stores DEF RInv
<1>2. MergerOK'
  BY <1>1, MergerKept
<1> QED
  BY <1>1, <1>2, MoveRefreshes

LEMMA IdleRefreshes ==
    ASSUME IInv, IInv', RInv, NEW p \in Process, Become(p, Idle),
           UNCHANGED <<cards, intents>>
    PROVE  RInv'
<1>1. Plans(Idle, cards, intents) /\ Idle.pc \notin Working
  BY IdlePlans DEF Idle, Working
<1> QED
  BY <1>1, QuietRefreshes

LEMMA ScanRefreshes ==
    ASSUME IInv, IInv', RInv, NEW p \in Process, Scan(p) \/ Read(p)
    PROVE  RInv'
<1> UNCHANGED <<cards, intents>>
  BY DEF Scan, Read, database
<1>1. CASE Become(p, Idle)
  BY <1>1, IdleRefreshes
<1>2. CASE Scan(p)
  <2> DEFINE s == [Idle EXCEPT !.pc = "read", !.cards = cards]
  <2>1. s.pc = "read" /\ s.card = {} /\ s.snap = {} /\ Become(p, s)
    BY <1>2 DEF Scan, Idle
  <2> HIDE DEF s
  <2>2. Plans(s, cards, intents) /\ s.pc \notin Working
    BY <2>1 DEF Plans, Working
  <2> QED
    BY <2>1, <2>2, QuietRefreshes
<1>3. CASE Become(p, [proc[p] EXCEPT !.pc = "plan", !.pr = {pr}])
  <2> DEFINE s == [proc[p] EXCEPT !.pc = "plan", !.pr = {pr}]
  <2>1. proc[p] \in Memory
    BY DEF IInv, ProcessesOK
  <2>2. s.pc = "plan" /\ s.card = proc[p].card /\ s.snap = proc[p].snap
    BY <2>1 DEF Memory
  <2> HIDE DEF s
  <2>3. Plans(s, cards, intents) /\ s.pc \notin Working
    BY <2>2 DEF Plans, RInv, Working
  <2> QED
    BY <1>3, <2>3, QuietRefreshes DEF s
<1> QED
  BY <1>1, <1>2, <1>3 DEF Read

\* What a process plans from its snapshot applies the pending intent.
LEMMA ContinuePlans ==
    ASSUME NEW cs \in Seq(WellMade), NEW old, Begun(old), Later(old, cs),
           NEW seen \in PullRequest, NEW log, NEW new,
           NEW snap, snap = Snapshot(old, seen, log),
           snap.recovery = "complete" /\ snap.status = "ok" =>
              /\ Len(new) = Len(log) /\ new[Len(log)].done
              /\ new[Len(log)].nbase = Seen(seen).base
              /\ new[Len(log)].nhead = Seen(seen).head,
           snap.recovery # "complete" => new = log,
           NEW p, NEW s, s = Continue(p, snap)
    PROVE  Plans(s, cs, new) /\ s.pc \notin Working
<1>1. /\ old \in Seq(WellMade) /\ (old # <<>> => old[1].step = "build")
      /\ Seen(seen) \in [base : Commit, head : Commit]
  BY SeenTyped DEF Begun
<1>2. Plans(Idle, cs, new) /\ Idle.pc \notin Working
  BY IdlePlans DEF Idle, Working
<1>3. ASSUME NEW made, made \subseteq NextCards(snap),
             s = [Idle EXCEPT !.pc = "create", !.card = made]
      PROVE  Plans(s, cs, new) /\ s.pc \notin Working
  <2>1. s.pc = "create" /\ s.snap = {} /\ s.card = made
    BY <1>3 DEF Idle
  <2>2. ASSUME NEW c \in made, c.kind = "branch_refresh"
        PROVE  Recorded(c, new) /\ (NoFix => c.step = "build")
    <3>1. /\ snap.status = "ok" /\ snap.recovery \in {"apply", "complete"}
          /\ snap.recovery = "apply" => Recorded(c, log)
          /\ c.refreshes = Len(log) /\ Len(log) \in Nat \ {0}
          /\ c.base = Seen(seen).base /\ c.head = Seen(seen).head
          /\ NoFix => c.step = "build"
      BY <1>1, <1>3, <2>2, NextCardsRecorded
    <3>2. CASE snap.recovery = "complete"
      BY <3>1, <3>2 DEF Recorded
    <3> QED
      BY <3>1, <3>2
  <2> QED
    BY <2>1, <2>2 DEF Plans, Applies, Working
<1>4. ASSUME snap.status = "ok", snap.flow.status = "ready_to_merge",
             s = [Idle EXCEPT !.pc = "evidence", !.snap = {snap}]
      PROVE  Plans(s, cs, new) /\ s.pc \notin Working
  <2>1. s.pc = "evidence" /\ s.snap = {snap} /\ s.card = {}
    BY <1>4 DEF Idle
  <2>2. Covered(old, Len(old), snap.refreshes)
    BY <1>1, <1>4, SnapshotRefreshes
  <2>3. Covered(cs, Len(cs), snap.refreshes)
    BY <1>1, <2>2, CoveredKept
  <2> QED
    BY <2>1, <2>3 DEF Plans, Working
<1>5. \/ s = Idle
      \/ \E made : /\ made \subseteq NextCards(snap)
                   /\ s = [Idle EXCEPT !.pc = "create", !.card = made]
      \/ /\ snap.status = "ok" /\ snap.flow.status = "ready_to_merge"
         /\ s = [Idle EXCEPT !.pc = "evidence", !.snap = {snap}]
  BY DEF Continue
<1> QED
  BY <1>2, <1>3, <1>4, <1>5

LEMMA PlanRefreshes ==
    ASSUME IInv, IInv', RInv, NEW p \in Process, Plan(p)
    PROVE  RInv'
<1>1. /\ UNCHANGED cards /\ cards \in Seq(WellMade)
      /\ intents \in Seq(BranchRefreshIntent) /\ Keeps(intents, intents)
      /\ proc[p] \in Memory /\ Begun(proc[p].cards) /\ Later(proc[p].cards, cards)
  BY Stores DEF Plan, IInv, ProcessesOK, Remembers
<1>2. PICK seen \in proc[p].pr :
        LET snap == Snapshot(proc[p].cards, seen, intents)
        IN  \/ Become(p, Idle) /\ UNCHANGED intents
            \/ /\ IF snap.recovery = "complete"
                    THEN lock = "free" /\ CompleteIntent(Seen(seen))
                    ELSE UNCHANGED intents
               /\ Become(p, Continue(p, snap))
  BY DEF Plan
<1> DEFINE snap == Snapshot(proc[p].cards, seen, intents)
           s == Continue(p, snap)
<1>3. seen \in PullRequest /\ Seen(seen) \in [base : Commit, head : Commit]
  BY <1>1, SeenTyped DEF Memory
<1>4. CASE Become(p, Idle) /\ UNCHANGED intents
  BY <1>1, <1>4, IdleRefreshes
<1>5. CASE /\ snap.recovery = "complete" /\ lock = "free"
           /\ CompleteIntent(Seen(seen)) /\ Become(p, s)
  <2>1. /\ snap.status = "ok" /\ Len(intents) \in Nat \ {0}
        /\ ~intents[Len(intents)].done
    <3>1. /\ proc[p].cards \in Seq(WellMade)
          /\ proc[p].cards # <<>> => proc[p].cards[1].step = "build"
      BY <1>1 DEF Begun
    <3>2. snap.status = "ok"
      BY <1>3, <1>5, <3>1, SnapshotTyped
    <3> HIDE DEF snap
    <3> QED
      BY <1>3, <1>5, <3>1, <3>2, SnapshotRefreshes DEF snap
  <2>2. intents # <<>> /\ ~Intent.done
    BY <2>1 DEF Intent
  <2>3. /\ Keeps(intents, intents') /\ Len(intents') = Len(intents)
        /\ intents'[Len(intents)].done
        /\ intents'[Len(intents)].nbase = Seen(seen).base
        /\ intents'[Len(intents)].nhead = Seen(seen).head
    BY <1>1, <1>5, <2>2, CompleteKeeps
  <2>4. Plans(s, cards, intents') /\ s.pc \notin Working
    BY <1>1, <1>3, <1>5, <2>3, ContinuePlans
  <2>5. Merger.pc \notin Working
    BY <1>5, <2>2 DEF RInv, MergerOK, IInv, LockOK, Writing, Working
  <2> HIDE DEF s, snap
  <2>6. MergerOK'
    <3>1. Merger'.pc \notin Working
      <4>1. CASE p = "merger"
        BY <1>5, <2>4, <4>1, MergerAfter
      <4>2. CASE p # "merger"
        BY <1>5, <2>5, <4>2, Stores DEF Become, Merger, Process
      <4> QED
        BY <4>1, <4>2
    <3> QED
      BY <3>1 DEF MergerOK, Working
  <2> QED
    BY <1>1, <1>5, <2>3, <2>4, <2>6, MoveRefreshes
<1>6. CASE snap.recovery # "complete" /\ UNCHANGED intents /\ Become(p, s)
  <2>1. Plans(s, cards, intents) /\ s.pc \notin Working
    BY <1>1, <1>3, <1>6, ContinuePlans
  <2> HIDE DEF s
  <2> QED
    BY <1>1, <1>6, <2>1, QuietRefreshes
<1> QED
  BY <1>2, <1>4, <1>5, <1>6

\* A creator that finds the key free applies the intent its card names.
LEMMA CreateRefreshes ==
    ASSUME IInv, IInv', RInv, NEW p \in Process, NEW c \in WellMade,
           Applies(c, intents), CreateCard(p, c)
    PROVE  RInv'
<1>1. /\ Become(p, Idle) /\ UNCHANGED intents
      /\ \/ cards' = cards
         \/ cards' = Append(cards, c) /\ ~HasKey(cards, c)
  BY DEF CreateCard, database
<1>2. CASE cards' = cards
  BY <1>1, <1>2, IdleRefreshes
<1>3. CASE cards' = Append(cards, c) /\ ~HasKey(cards, c)
  <2>1. /\ cards \in Seq(WellMade) /\ intents \in Seq(BranchRefreshIntent)
        /\ Begun(cards) /\ Keeps(intents, intents) /\ DOMAIN proc = Process
    BY Stores
  <2>2. RefreshesOK'
    BY <1>1, <1>3, RefreshesAppend DEF RInv
  <2>3. cards' \in Seq(WellMade) /\ Later(cards, cards')
    <3>1. cards' \in Seq(WellMade)
      BY DEF IInv, Begun
    <3>2. Len(cards') = Len(cards) + 1 /\ \A i \in 1 .. Len(cards) : cards'[i] = cards[i]
      BY <1>3, <2>1
    <3> QED
      BY <2>1, <3>1, <3>2 DEF Later, SameCard
  <2>4. ASSUME NEW q \in Process PROVE Plans(proc'[q], cards', intents)
    <3>1. CASE q = p
      BY <1>1, <2>1, <3>1, IdlePlans DEF Become
    <3>2. CASE q # p
      <4>1. proc'[q] = proc[q] /\ Plans(proc[q], cards, intents)
        BY <1>1, <2>1, <3>2 DEF Become, RInv
      <4> QED
        BY <2>1, <2>3, <4>1, PlansKept
    <3> QED
      BY <3>1, <3>2
  <2>5. MergerOK'
    <3>1. Idle.pc \notin Working /\ MergerOK
      BY DEF Idle, Working, RInv
    <3> QED
      BY <1>1, <3>1, MergerKept
  <2> QED
    BY <1>1, <2>2, <2>4, <2>5 DEF RInv
<1> QED
  BY <1>1, <1>2, <1>3

LEMMA WorkerCreateRefreshes ==
    ASSUME IInv, IInv', RInv, WorkerCreate
    PROVE  RInv'
<1>1. PICK c \in proc["worker"].card : CreateCard("worker", c)
  BY DEF WorkerCreate
<1>2. "worker" \in Process
  BY DEF Process
<1>3. c \in WellMade /\ Applies(c, intents)
  BY <1>2 DEF IInv, ProcessesOK, Memory, RInv, Plans
<1> QED
  BY <1>1, <1>2, <1>3, CreateRefreshes

LEMMA RecordRefreshes ==
    ASSUME IInv, IInv', RInv, RecordRefresh
    PROVE  RInv'
<1>1. /\ "merger" \in Process /\ CreateCard("merger", RefreshCard)
      /\ Merger.pc = "record"
  BY DEF RecordRefresh, MergerAt, Process
<1>2. /\ Len(intents) = Snap.refreshes + 1 /\ intents[Len(intents)].done
      /\ intents[Len(intents)].nbase = Evidence.base
      /\ intents[Len(intents)].nhead = Evidence.head
  BY <1>1 DEF RInv, MergerOK, Ahead, Intent
<1>3. Snap.refreshes \in Nat
  BY <1>1, MergerHolds DEF Holding, OkSnap
<1>4. /\ RefreshCard \in WellMade /\ RefreshCard.step = "build"
      /\ RefreshCard.refreshes = Snap.refreshes + 1
      /\ RefreshCard.base = Evidence.base /\ RefreshCard.head = Evidence.head
  BY <1>1, RefreshCardMade
<1>5. Applies(RefreshCard, intents)
  BY <1>2, <1>3, <1>4 DEF Applies, Recorded
<1> QED
  BY <1>1, <1>4, <1>5, CreateRefreshes

-----------------------------------------------------------------------------
(* Steps of the merger and the intents                                     *)

\* The merger with its snapshot at another place.
LEMMA MergerPlans ==
    ASSUME IInv, RInv
    PROVE  /\ Merger \in Memory
           /\ \A s : s.snap = Merger.snap /\ s.card = Merger.card =>
                      Plans(s, cards, intents)
BY DEF IInv, ProcessesOK, Merger, Process, RInv, Plans

LEMMA MergerMovedPlans ==
    ASSUME IInv, RInv, NEW pc, MergerGoes(pc)
    PROVE  /\ Become("merger", Merger') /\ Plans(Merger', cards, intents)
           /\ Merger'.pc = pc
           /\ Snap' = Snap /\ Evidence' = Evidence
<1> DEFINE s == [Merger EXCEPT !.pc = pc]
<1>1. Merger \in Memory
  BY MergerPlans
<1>2. s.pc = pc /\ s.snap = Merger.snap /\ s.pr = Merger.pr /\ s.card = Merger.card
  BY <1>1 DEF Memory
<1>3. Plans(s, cards, intents)
  <2> HIDE DEF s
  <2> QED
    BY <1>2, MergerPlans
<1>4. Become("merger", s)
  BY DEF MergerGoes
<1> HIDE DEF s
<1>5. Merger' = s
  BY <1>4, MergerAfter
<1> QED
  BY <1>2, <1>3, <1>4, <1>5 DEF Snap, Evidence

LEMMA DecideRefreshes ==
    ASSUME IInv, IInv', RInv, ReadEvidence \/ Resume \/ LockForMerge
    PROVE  RInv'
<1> UNCHANGED <<cards, intents>> /\ "merger" \in Process
  BY DEF ReadEvidence, Resume, LockForMerge, database, Process
<1>1. CASE ReadEvidence
  <2> DEFINE s == [Merger EXCEPT !.pc = "decide", !.pr = {pr}]
  <2>1. Become("merger", s)
    BY <1>1 DEF ReadEvidence
  <2>2. s.pc = "decide" /\ s.snap = Merger.snap /\ s.card = Merger.card
    BY MergerPlans DEF Memory
  <2> HIDE DEF s
  <2>3. Plans(s, cards, intents)
    BY <2>2, MergerPlans
  <2> QED
    BY <2>1, <2>2, <2>3, QuietRefreshes DEF Working
<1>2. ASSUME NEW pc \in {"refresh", "merge"}, MergerGoes(pc)
      PROVE  RInv'
  <2>1. /\ Become("merger", Merger') /\ Plans(Merger', cards, intents)
        /\ Merger'.pc = pc
    BY <1>2, MergerMovedPlans
  <2> QED
    BY <2>1, QuietRefreshes DEF Working
<1> QED
  BY <1>1, <1>2 DEF Resume, LockForMerge

LEMMA MergerEndsRefreshes ==
    ASSUME IInv, IInv', RInv,
           \/ ObserveMerge \/ Decline \/ RefreshError \/ UpdateNotSeen \/ VerifyMerge
    PROVE  RInv'
<1>1. UNCHANGED <<cards, intents>> /\ "merger" \in Process /\ Become("merger", Idle)
  BY DEF ObserveMerge, Decline, RefreshError, UpdateNotSeen, VerifyMerge, Finish,
         MergerEnds, database, Process
<1> QED
  BY <1>1, IdleRefreshes

\* reserve_branch_refresh: the earlier intents are all in the chain.
LEMMA ReserveRefreshes ==
    ASSUME IInv, IInv', RInv, Reserve
    PROVE  RInv'
<1> DEFINE intent == [ebase |-> Evidence.base, ehead |-> Evidence.head,
                      done |-> FALSE, nbase |-> NoCommit, nhead |-> NoCommit]
           n == Len(intents)
<1>1. /\ Merger.pc = "decide" /\ n = Snap.refreshes
      /\ Snap.refreshes < MAX_BRANCH_REFRESH_COUNT
      /\ intents' = Append(intents, intent)
      /\ MergerGoes("refresh") /\ UNCHANGED cards
  BY DEF Reserve, MergerAt, MayRefresh
<1>2. /\ cards \in Seq(WellMade) /\ Later(cards, cards)
      /\ intents \in Seq(BranchRefreshIntent) /\ DOMAIN proc = Process
      /\ intents' \in Seq(BranchRefreshIntent)
  BY Stores DEF IInv, StoresOK
<1>3. intent \in BranchRefreshIntent
  <2>1. Evidence \in PullRequest
    BY <1>1, MergerHolds DEF Holding
  <2> QED
    BY <2>1 DEF BranchRefreshIntent, PullRequest
<1> HIDE DEF intent
<1>4. /\ Len(intents') = n + 1 /\ n \in Nat
      /\ \A i \in 1 .. n : intents'[i] = intents[i]
  BY <1>1, <1>2, <1>3
<1>5. Keeps(intents, intents')
  BY <1>4 DEF Keeps
<1>6. RefreshesOK'
  <2>1. \A i \in 1 .. Len(cards) : Applies(cards[i], intents')
    BY <1>2, <1>5, AppliesKept DEF RInv, RefreshesOK
  <2>2. Covered(cards, Len(cards), Len(intents') - 1)
    <3>1. Snap \in Merger.snap
      BY <1>1 DEF IInv, ProcessesOK, Remembers, Holding, Merger, Process, Snap
    <3>2. Covered(cards, Len(cards), Snap.refreshes)
      BY <3>1 DEF RInv, Plans, Merger, Process
    <3>3. Len(intents') - 1 = Snap.refreshes
      BY <1>1, <1>4
    <3> QED
      BY <3>2, <3>3
  <2>3. Len(intents') <= MAX_BRANCH_REFRESH_COUNT
    BY <1>1, <1>4, MaxRefreshAssumption
  <2>4. NoFix => \A i, j \in 1 .. Len(cards) : SameRefresh(cards[i], cards[j]) => i = j
    BY DEF RInv, RefreshesOK
  <2> QED
    BY <1>1, <2>1, <2>2, <2>3, <2>4 DEF RefreshesOK
<1>7. /\ Become("merger", Merger') /\ Plans(Merger', cards, intents)
      /\ Merger'.pc = "refresh"
  BY <1>1, MergerMovedPlans
<1>8. ASSUME NEW q \in Process PROVE Plans(proc'[q], cards, intents')
  <2>1. Plans(proc'[q], cards, intents)
    BY <1>1, <1>2, <1>7 DEF Become, RInv
  <2> QED
    BY <1>2, <1>5, <2>1, PlansKept
<1>9. MergerOK'
  BY <1>7 DEF MergerOK
<1> QED
  BY <1>1, <1>6, <1>8, <1>9 DEF RInv

\* A refresh that is found, or made and read back.
LEMMA FoundRefreshes ==
    ASSUME IInv, IInv', RInv, NEW seen, NEW qs,
           Merger.pc \in Holding, Ahead, UNCHANGED cards,
           Become("merger", [Merger EXCEPT !.pc = "record", !.pr = qs]),
           seen = CHOOSE e \in qs : TRUE,
           \/ /\ Intent.done /\ Intent.nbase = seen.base /\ Intent.nhead = seen.head
              /\ UNCHANGED intents
           \/ ~Intent.done /\ CompleteIntent(seen)
    PROVE  RInv'
<1> DEFINE s == [Merger EXCEPT !.pc = "record", !.pr = qs]
<1>1. /\ cards \in Seq(WellMade) /\ Later(cards, cards)
      /\ intents \in Seq(BranchRefreshIntent) /\ DOMAIN proc = Process
      /\ intents' \in Seq(BranchRefreshIntent) /\ "merger" \in Process
      /\ Keeps(intents, intents)
  BY Stores DEF IInv, StoresOK, Process
<1>2. intents # <<>>
  <2>1. Snap.refreshes \in Nat
    BY MergerHolds DEF OkSnap
  <2> QED
    BY <2>1 DEF Ahead
<1>3. /\ Keeps(intents, intents') /\ Len(intents') = Len(intents)
      /\ intents'[Len(intents)].done
      /\ intents'[Len(intents)].nbase = seen.base
      /\ intents'[Len(intents)].nhead = seen.head
  BY <1>1, <1>2, CompleteKeeps DEF Intent
<1>4. /\ Become("merger", s) /\ s.pc = "record" /\ s.snap = Merger.snap
      /\ s.pr = qs /\ s.card = Merger.card
  BY MergerPlans DEF Memory
<1> HIDE DEF s
<1>5. Plans(s, cards, intents)
  BY <1>4, MergerPlans
<1>6. Merger' = s
  BY <1>4, MergerAfter
<1>7. Snap' = Snap /\ Evidence' = seen
  BY <1>4, <1>6 DEF Snap, Evidence
<1>8. MergerOK'
  BY <1>3, <1>4, <1>6, <1>7 DEF MergerOK, Ahead, Intent
<1>9. Plans(s, cards, intents')
  BY <1>1, <1>3, <1>5, PlansKept
<1> QED
  BY <1>1, <1>3, <1>4, <1>8, <1>9, MoveRefreshes

LEMMA RefreshRefreshes ==
    ASSUME IInv, IInv', RInv, RefreshFound \/ UpdateSeen
    PROVE  RInv'
<1>1. CASE RefreshFound
  <2>1. /\ Merger.pc = "refresh" /\ Merger.pc \in Holding /\ Ahead
        /\ UNCHANGED cards /\ MergerGoes("record")
        /\ \/ /\ Intent.done /\ Intent.nbase = Evidence.base
              /\ Intent.nhead = Evidence.head /\ UNCHANGED intents
           \/ ~Intent.done /\ CompleteIntent(Evidence)
    BY <1>1 DEF RefreshFound, MergerAt, IntentFits, Holding
  <2>2. Merger \in Memory
    BY DEF IInv, ProcessesOK, Merger, Process
  <2>3. [Merger EXCEPT !.pc = "record"]
          = [Merger EXCEPT !.pc = "record", !.pr = Merger.pr]
    BY <2>2 DEF Memory
  <2>4. Become("merger", [Merger EXCEPT !.pc = "record", !.pr = Merger.pr])
    BY <2>1, <2>3 DEF MergerGoes
  <2> QED
    BY <2>1, <2>4, FoundRefreshes DEF Evidence
<1>2. CASE UpdateSeen
  <2>1. /\ Merger.pc = "poll" /\ Merger.pc \in Holding /\ UNCHANGED cards
        /\ CompleteIntent(pr)
        /\ Become("merger", [Merger EXCEPT !.pc = "record", !.pr = {pr}])
    BY <1>2 DEF UpdateSeen, MergerAt, Holding
  <2>2. Ahead /\ ~Intent.done
    BY <2>1 DEF RInv, MergerOK
  <2>3. pr = CHOOSE e \in {pr} : TRUE
    OBVIOUS
  <2> QED
    BY <2>1, <2>2, <2>3, FoundRefreshes
<1> QED
  BY <1>1, <1>2

LEMMA UpdateRefreshes ==
    ASSUME IInv, IInv', RInv, LockForRefresh \/ RequestUpdate
    PROVE  RInv'
<1>1. /\ UNCHANGED <<cards, intents>> /\ "merger" \in Process
      /\ Keeps(intents, intents') /\ Len(intents') = Len(intents)
  BY Stores DEF LockForRefresh, RequestUpdate, database, Process
<1>2. CASE Become("merger", Idle)
  BY <1>1, <1>2, IdleRefreshes
<1>3. ASSUME NEW pc \in {"update", "poll"}, MergerGoes(pc), Ahead, ~Intent.done
      PROVE  RInv'
  <2>1. /\ Become("merger", Merger') /\ Plans(Merger', cards, intents)
        /\ Merger'.pc = pc /\ Snap' = Snap
    BY <1>3, MergerMovedPlans
  <2>2. MergerOK'
    BY <1>1, <1>3, <2>1 DEF MergerOK, Ahead, Intent
  <2> QED
    BY <1>1, <2>1, <2>2, MoveRefreshes
<1>4. CASE LockForRefresh
  BY <1>3, <1>4 DEF LockForRefresh, IntentFits
<1>5. CASE RequestUpdate
  <2>1. Ahead /\ ~Intent.done
    BY <1>5 DEF RequestUpdate, MergerAt, RInv, MergerOK
  <2> QED
    BY <1>2, <1>3, <1>5, <2>1 DEF RequestUpdate, MergerEnds
<1> QED
  BY <1>4, <1>5

LEMMA RequestMergeRefreshes ==
    ASSUME IInv, IInv', RInv, RequestMerge
    PROVE  RInv'
<1>1. UNCHANGED <<cards, intents>> /\ "merger" \in Process
  BY DEF RequestMerge, Process
<1>2. CASE Become("merger", Idle)
  BY <1>1, <1>2, IdleRefreshes
<1>3. CASE MergerGoes("verify")
  <2>1. /\ Become("merger", Merger') /\ Plans(Merger', cards, intents)
        /\ Merger'.pc = "verify"
    BY <1>3, MergerMovedPlans
  <2> QED
    BY <1>1, <2>1, QuietRefreshes DEF Working
<1> QED
  BY <1>2, <1>3 DEF RequestMerge, Finish, MergerEnds

\* GitHub, agents and the world change no card but to complete it.
LEMMA OutsideRefreshes ==
    ASSUME IInv, IInv', RInv,
           \/ World
           \/ \E request \in wire : Answer(request) \/ Refuse(request) \/ Lose(request)
           \/ UNCHANGED vars
    PROVE  RInv'
<1>1. UNCHANGED <<cards, intents, proc>>
  BY DEF World, Push, BaseAdvances, MayMove, HumanMerge, Cancel, Expire, Answer,
         Refuse, Lose, vars, database
<1>2. Later(cards, cards')
  BY <1>1, Stores
<1> QED
  BY <1>1, <1>2, StillRefreshes

LEMMA AgentRefreshes ==
    ASSUME IInv, IInv', RInv, NEW i \in OpenCards, Agent(i)
    PROVE  RInv'
<1>1. \E result, after : Submit(i, result, after)
  BY DEF Agent, AgentBuild, AgentReview, AgentDeepCheck, AgentFix
<1>2. PICK result, after : Submit(i, result, after)
  BY <1>1
<1>3. cards' = [cards EXCEPT ![i].result = {result}] /\ UNCHANGED <<intents, proc>>
  BY <1>2 DEF Submit, database
<1>4. cards \in Seq(WellMade) /\ i \in 1 .. Len(cards) /\ cards[i].result = {}
  BY Stores DEF OpenCards
<1>5. Len(cards') = Len(cards) /\ Later(cards, cards')
  <2> DEFINE d == [cards[i] EXCEPT !.result = {result}]
  <2>1. cards[i] \in Card
    BY <1>4 DEF WellMade
  <2>2. SameCard(cards[i], d)
    BY <2>1 DEF Card, SameCard
  <2>3. cards' = [cards EXCEPT ![i] = d]
    BY <1>3
  <2> HIDE DEF d
  <2>4. /\ Len(cards') = Len(cards)
        /\ \A j \in 1 .. Len(cards) : cards'[j] = IF j = i THEN d ELSE cards[j]
    BY <1>4, <2>3
  <2>5. \A j \in 1 .. Len(cards) : SameCard(cards[j], cards[j])
    BY DEF SameCard
  <2> QED
    BY <1>4, <2>2, <2>4, <2>5 DEF Later
<1> QED
  BY <1>3, <1>5, StillRefreshes

LEMMA InitRefreshes == Init => RInv
<1> SUFFICES ASSUME Init PROVE RInv
  OBVIOUS
<1>1. /\ cards = <<>> /\ intents = <<>> /\ proc = [p \in Process |-> Idle]
  BY DEF Init
<1>2. RefreshesOK
  BY <1>1, MaxRefreshAssumption DEF RefreshesOK, Covered
<1>3. \A p \in Process : Plans(proc[p], cards, intents)
  BY <1>1, IdlePlans
<1>4. MergerOK
  BY <1>1 DEF MergerOK, Merger, Process, Idle
<1> QED
  BY <1>2, <1>3, <1>4 DEF RInv

LEMMA NextRefreshes == IInv /\ IInv' /\ RInv /\ [Next]_vars => RInv'
<1> SUFFICES ASSUME IInv, IInv', RInv, [Next]_vars PROVE RInv'
  OBVIOUS
<1>1. ASSUME NEW p \in Process, Load(p) \/ Crash(p) PROVE RInv'
  <2>1. Crash(p) => Become(p, Idle) /\ UNCHANGED <<cards, intents>>
    BY DEF Crash, database
  <2> QED
    BY <1>1, <2>1, ScanRefreshes, PlanRefreshes, IdleRefreshes DEF Load
<1>2. CASE WorkerCreate
  BY <1>2, WorkerCreateRefreshes
<1>3. CASE Decide
  BY <1>3, DecideRefreshes, MergerEndsRefreshes, ReserveRefreshes DEF Decide
<1>4. CASE Refresh
  BY <1>4, RefreshRefreshes, UpdateRefreshes, MergerEndsRefreshes, RecordRefreshes
     DEF Refresh
<1>5. CASE Merge
  BY <1>5, RequestMergeRefreshes, MergerEndsRefreshes DEF Merge
<1>6. ASSUME NEW request \in wire,
             Answer(request) \/ Refuse(request) \/ Lose(request)
      PROVE  RInv'
  BY <1>6, OutsideRefreshes
<1>7. ASSUME NEW i \in OpenCards, Agent(i) PROVE RInv'
  BY <1>7, AgentRefreshes
<1>8. CASE World \/ UNCHANGED vars
  BY <1>8, OutsideRefreshes
<1> QED
  BY <1>1, <1>2, <1>3, <1>4, <1>5, <1>6, <1>7, <1>8 DEF Next, GitHub

LEMMA RefreshInvariant == Spec => [](IInv /\ RInv)
<1>1. Init => IInv /\ RInv
  BY InitInv, InitRefreshes
<1>2. (IInv /\ RInv) /\ [Next]_vars => (IInv /\ RInv)'
  BY NextInv, NextRefreshes
<1> QED
  BY <1>1, <1>2, PTL DEF Spec

\* The refreshes that are in the chain are 1 to n, where n counts the intents,
\* or all but the newest.
LEMMA CountsRefreshes ==
    ASSUME IInv, RInv, NoFix
    PROVE  RefreshesAreReserved
<1> DEFINE S == {i \in 1 .. Len(cards) : cards[i].kind = "branch_refresh"}
           f == [i \in S |-> cards[i].refreshes]
           m == Len(intents)
<1>1. /\ cards \in Seq(WellMade) /\ m \in Nat /\ Len(cards) \in Nat
  BY Stores
<1>2. ASSUME NEW i \in S
      PROVE  /\ f[i] \in 1 .. m /\ intents[f[i]].done
             /\ \A j \in S : f[i] = f[j] => i = j
  <2>1. f[i] \in 1 .. m /\ intents[f[i]].done
    BY DEF RInv, RefreshesOK, Applies, Recorded
  <2>2. ASSUME NEW j \in S, f[i] = f[j] PROVE i = j
    BY <2>2 DEF RInv, RefreshesOK, SameRefresh
  <2> QED
    BY <2>1, <2>2
<1>3. \A k \in 1 .. m - 1 : \E i \in S : f[i] = k
  BY DEF RInv, RefreshesOK, Covered
<1> HIDE DEF f
<1>4. PICK n \in {m, m - 1} :
        /\ n \in Nat
        /\ f \in [S -> 1 .. n]
        /\ \A k \in 1 .. n : \E i \in S : f[i] = k
  <2>0. f \in [S -> 1 .. m]
    BY <1>2 DEF f
  <2>1. CASE m = 0 \/ \E i \in S : f[i] = m
    <3>1. \A k \in 1 .. m : k \in 1 .. m - 1 \/ k = m
      BY <1>1
    <3> QED
      BY <1>1, <1>3, <2>0, <2>1, <3>1
  <2>2. CASE m # 0 /\ ~\E i \in S : f[i] = m
    <3>1. m - 1 \in Nat /\ \A k \in 1 .. m : k # m => k \in 1 .. m - 1
      BY <1>1, <2>2
    <3>2. f \in [S -> 1 .. m - 1]
      BY <2>0, <2>2, <3>1
    <3> QED
      BY <1>3, <3>1, <3>2
  <2> QED
    BY <2>1, <2>2
<1>5. Cardinality(S) = n
  <2>1. f \in Bijection(S, 1 .. n)
    BY <1>2, <1>4, Fun_IsBij
  <2>2. ExistsBijection(S, 1 .. n)
    BY <2>1, Fun_ExistsBij
  <2>3. IsFiniteSet(S)
    <3>1. IsFiniteSet(1 .. Len(cards))
      BY <1>1, FS_Interval
    <3> QED
      BY <3>1, FS_Subset
  <2>4. Cardinality(1 .. n) = n
    <3>1. Cardinality(1 .. n) = IF 1 > n THEN 0 ELSE n - 1 + 1
      BY <1>4, FS_Interval
    <3> QED
      BY <1>4, <3>1
  <2> HIDE DEF S
  <2> QED
    BY <2>2, <2>3, <2>4, FS_Bijection
<1>6. \A k \in 1 .. n : intents[k].done
  BY <1>2, <1>4
<1>7. m \in {n, n + 1}
  BY <1>1, <1>4
<1>8. m <= MAX_BRANCH_REFRESH_COUNT
  BY DEF RInv, RefreshesOK
<1> QED
  BY <1>5, <1>6, <1>7, <1>8 DEF RefreshesAreReserved, IntentsFit

\* What holds of the two stores whatever the flow.
IntentsLead ==
    /\ \A i \in 1 .. Len(cards) :
          cards[i].kind = "branch_refresh" => Recorded(cards[i], intents)
    /\ Covered(cards, Len(cards), Len(intents) - 1)
    /\ Len(intents) <= MAX_BRANCH_REFRESH_COUNT

\* reserve_branch_refresh and record_branch_refresh_result: the intent table is
\* written before the chain.  A card for a branch refresh names the commits of a
\* completed intent, every intent but the newest is in the chain, and there are
\* never more of them than a Task may have.
THEOREM RefreshesFollowIntents == Spec => []IntentsLead
<1>1. RInv => IntentsLead
  BY DEF RInv, RefreshesOK, Applies, IntentsLead
<1> QED
  BY <1>1, RefreshInvariant, PTL

\* Without Fix the chain has one card for every refresh it shows, and it is
\* behind the intent table by at most one.
THEOREM RefreshesReserved ==
    ASSUME NoFix
    PROVE  Spec => []RefreshesAreReserved
<1>1. IInv /\ RInv => RefreshesAreReserved
  BY CountsRefreshes
<1> QED
  BY <1>1, RefreshInvariant, PTL

-----------------------------------------------------------------------------
(* A chain and its last card                                               *)

\* Every card has at most one result.
Single(cs) == \A i \in 1 .. Len(cs) : \A x \in cs[i].result : cs[i].result = {x}

\* A flow that waits for a Review, a Deep Check or a Fix holds the one result
\* the next card will continue, and for a Fix the notes of that result.
Sourced(acc) ==
    acc.flow.step \in {"review", "deep_check", "fix"} =>
       /\ acc.flow.source = acc.summary
       /\ \A x \in acc.summary : acc.summary = {x}
       /\ acc.flow.step = "fix" => \A x \in acc.flow.notes : acc.flow.notes = {x}

Follow(acc, cs, i) ==
    acc.ok => /\ acc.last = i /\ acc.flow.task = Own
              /\ ~acc.open => Sourced(acc)
              /\ \A j \in 2 .. i : cs[j].kind \in Changes => cs[j].step = "build"

\* What recording a result leaves in the flow.
LEMMA RecordSources ==
    ASSUME NEW s \in Flow, NEW r, r.commit \in Commit
    PROVE  LET after == RecordTaskResult(s, r, r.commit)
           IN  /\ after.source = {r} /\ after.task = s.task
               /\ after.step = "fix" => after.notes = {r.text}
<1> DEFINE after == RecordTaskResult(s, r, r.commit)
<1> SUFFICES /\ after.source = {r} /\ after.task = s.task
             /\ after.step = "fix" => after.notes = {r.text}
  OBVIOUS
<1> HIDE DEF after
<1>1. s \in TaskFlowState
  BY DEF Flow
<1>2. ASSUME NEW t \in TaskFlowState, NEW next \in {"none", "review", "deep_check"}
      PROVE  /\ Complete(t, r, next).source = {r}
             /\ Complete(t, r, next).task = t.task
             /\ Complete(t, r, next).step # "fix"
  BY DEF Complete, TaskFlowState
<1>3. ASSUME NEW t \in TaskFlowState
      PROVE  /\ RequestFix(t, r).source = {r} /\ RequestFix(t, r).task = t.task
             /\ RequestFix(t, r).notes = {r.text}
  BY DEF RequestFix, TaskFlowState
<1>4. CASE r.kind = "build"
  <2>1. PICK next \in {"none", "review"} : after = Complete(s, r, next)
    BY <1>4 DEF RecordTaskResult, RecordBuild, after
  <2> QED
    BY <1>1, <1>2, <2>1
<1>5. CASE r.kind = "review"
  <2>1. \/ after = RequestFix(s, r)
        \/ after = Complete(s, r, "none") \/ after = Complete(s, r, "deep_check")
    BY <1>5 DEF RecordTaskResult, RecordReview, after
  <2> QED
    BY <1>1, <1>2, <1>3, <2>1
<1>6. CASE r.kind # "build" /\ r.kind # "review"
  <2> DEFINE moved == [s EXCEPT !.commit = r.commit]
  <2>1. after = RequestFix(moved, r) \/ after = Complete(moved, r, "none")
    BY <1>6 DEF RecordTaskResult, RecordDeepCheck, after
  <2>2. moved \in TaskFlowState /\ moved.task = s.task
    BY <1>1 DEF TaskFlowState
  <2> HIDE DEF moved
  <2> QED
    BY <1>2, <1>3, <2>1, <2>2
<1> QED
  BY <1>4, <1>5, <1>6

LEMMA ObserveTask ==
    ASSUME NEW s \in Flow, NEW base, NEW commit
    PROVE  ObserveCurrentCommit(s, base, commit).task = s.task
<1>1. s \in TaskFlowState
  BY DEF Flow
<1> QED
  BY <1>1 DEF ObserveCurrentCommit, Restart, AtBuild, TaskFlowState

LEMMA ReplayRootFollows ==
    ASSUME NEW cs, Chain(cs), Single(cs)
    PROVE  Follow(ReplayRoot(cs[1]), cs, 1)
<1> DEFINE c == cs[1]
           r == CHOOSE x \in c.result : TRUE
           start == StartTaskFlow(Own, Selected, r.base, r.commit)
           a == ReplayRoot(c)
<1>1. c \in WellMade /\ c.step = "build" /\ c.result # {} /\ 1 \in 1 .. Len(cs)
  BY DEF Chain
<1>2. r \in BuildResult /\ r \in c.result
  BY <1>1, WellMadeFields DEF Results
<1>3. c.result = {r}
  BY <1>1, <1>2 DEF Single
<1>4. start \in Flow /\ start.task = Own
  <2>1. start \in Flow
    BY <1>2, StartFlow, ResultFields
  <2> QED
    BY <2>1 DEF StartTaskFlow, AtBuild
<1> DEFINE after == RecordTaskResult(start, r, r.commit)
<1>5. /\ after.source = {r} /\ after.task = Own
      /\ after.step \in {"none", "review"}
  <2> HIDE DEF start, r
  <2> QED
    BY <1>2, <1>4, RecordSources, BuildFlow, ResultFields
<1>6. a.last = 1 /\ a.flow = after /\ a.summary = c.result
  BY DEF ReplayRoot
<1> HIDE DEF after, a, c, r, start
<1>7. Sourced(a)
  BY <1>3, <1>5, <1>6 DEF Sourced
<1>8. Follow(a, cs, 1)
  BY <1>5, <1>6, <1>7 DEF Follow
<1> QED
  BY <1>8 DEF a, c

LEMMA ReplayCardFollows ==
    ASSUME NEW cs, Chain(cs), Single(cs), NEW i \in 2 .. Len(cs), NEW acc,
           ReplayInv(acc, cs, i - 1), Follow(acc, cs, i - 1)
    PROVE  Follow(ReplayCard(acc, cs[i], i), cs, i)
<1> DEFINE c == cs[i]
           at == StateAtCard(acc, c)
           r == CHOOSE x \in c.result : TRUE
           n == RefreshesAtCard(acc, c)
           accept == IF c.step = "fix" THEN AcceptsFixProof(at, r, r.commit)
                                       ELSE AcceptsResult(at, r, r.commit)
           after == IF c.step = "fix" THEN RecordFixProof(at, r.commit)
                                      ELSE RecordTaskResult(at, r, r.commit)
           moved == [acc EXCEPT !.last = i, !.refreshes = n]
           new == ReplayCard(acc, c, i)
<1>1. c \in WellMade /\ acc \in Replayed /\ i \in 1 .. Len(cs) /\ i \in Nat
  BY DEF Chain, ReplayInv
<1>2. new = IF ~acc.ok THEN acc
            ELSE IF ~FitsChain(acc, c, i) THEN [acc EXCEPT !.ok = FALSE]
            ELSE IF c.result = {}
              THEN [moved EXCEPT !.flow = MarkTaskStepRunning(at), !.open = TRUE]
            ELSE IF ~accept THEN [acc EXCEPT !.ok = FALSE]
            ELSE [moved EXCEPT !.flow = after, !.summary = c.result]
  BY DEF ReplayCard
<1>3. CASE ~new.ok
  BY <1>3 DEF Follow
<1>4. CASE ~acc.ok \/ new = [acc EXCEPT !.ok = FALSE]
  <2>1. ~new.ok
    <3> HIDE DEF new
    <3> QED
      BY <1>1, <1>2, <1>4 DEF Replayed
  <2> QED
    BY <1>3, <2>1
<1>5. ASSUME acc.ok, FitsChain(acc, c, i)
      PROVE  /\ at \in Flow /\ at.status = "running" /\ at.task = Own
             /\ \A j \in 2 .. i : cs[j].kind \in Changes => cs[j].step = "build"
  <2>1. at \in Flow /\ at.status = "running"
    BY <1>1, <1>5, StateAtCardFlow
  <2>2. acc.flow \in Flow /\ acc.flow.task = Own
    BY <1>1, <1>5 DEF Replayed, Follow
  <2>3. at.task = Own
    BY <2>2, ObserveTask DEF StateAtCard
  <2>4. c.kind \in Changes => c.step = "build"
    BY <1>5 DEF FitsChain
  <2>5. \A j \in 2 .. i : j = i \/ j \in 2 .. i - 1
    BY <1>1
  <2> QED
    BY <1>5, <2>1, <2>3, <2>4, <2>5 DEF Follow
<1>6. CASE acc.ok /\ FitsChain(acc, c, i) /\ c.result = {}
  <2> DEFINE mark == MarkTaskStepRunning(at)
  <2>1. mark.task = Own
    <3>1. at \in TaskFlowState /\ at.task = Own
      BY <1>5, <1>6 DEF Flow
    <3> HIDE DEF at
    <3> QED
      BY <3>1 DEF MarkTaskStepRunning, TaskFlowState
  <2>2. new = [moved EXCEPT !.flow = mark, !.open = TRUE]
    BY <1>2, <1>6
  <2> HIDE DEF new, mark, n
  <2>3. new.last = i /\ new.flow = mark /\ new.open
    BY <1>1, <2>2 DEF Replayed
  <2>4. Follow(new, cs, i)
    BY <1>5, <1>6, <2>1, <2>3 DEF Follow
  <2> QED
    BY <2>4 DEF new, c
<1>7. CASE acc.ok /\ FitsChain(acc, c, i) /\ c.result # {} /\ accept
  <2>1. r \in c.result /\ c.result = {r}
    BY <1>1, <1>7 DEF Single
  <2>2. r \in Results(c.step)
    BY <1>1, <2>1, WellMadeFields
  <2>3. /\ after.task = Own
        /\ after.step \in {"review", "deep_check", "fix"} => after.source = {r}
        /\ after.step = "fix" => after.notes = {r.text}
    <3>0. at \in Flow /\ at.task = Own
      BY <1>5, <1>7
    <3>1. CASE c.step = "fix"
      <4>1. after = Restart(at, at.base, r.commit)
        BY <3>1 DEF RecordFixProof
      <4> HIDE DEF at, r, after
      <4> QED
        BY <3>0, <4>1 DEF Restart, AtBuild
    <3>2. CASE c.step # "fix"
      <4>1. after = RecordTaskResult(at, r, r.commit)
        BY <3>2
      <4>2. r.commit \in Commit
        BY <1>1, <2>2, <3>2, ResultFields, WellMadeFields DEF Results, TaskSteps
      <4> HIDE DEF at, r, after
      <4> QED
        BY <3>0, <4>1, <4>2, RecordSources
    <3> QED
      BY <3>1, <3>2
  <2>4. new = [moved EXCEPT !.flow = after, !.summary = c.result]
    BY <1>2, <1>7
  <2> HIDE DEF new, after, n, r
  <2>5. new.last = i /\ new.flow = after /\ new.summary = {r}
    BY <1>1, <2>1, <2>4 DEF Replayed
  <2>6. Sourced(new)
    BY <2>3, <2>5 DEF Sourced
  <2>7. Follow(new, cs, i)
    BY <1>5, <1>7, <2>3, <2>5, <2>6 DEF Follow
  <2> QED
    BY <2>7 DEF new, c
<1> QED
  BY <1>2, <1>4, <1>6, <1>7

LEMMA ReplayFollows ==
    ASSUME NEW cs, Chain(cs), Single(cs)
    PROVE  Follow(Replay(cs), cs, Len(cs))
<1>1. Len(cs) \in Nat \ {0}
  BY DEF Chain
<1>2. PICK f : /\ Replay(cs) = f[Len(cs)]
               /\ f[1] = ReplayRoot(cs[1])
               /\ \A i \in 2 .. Len(cs) : f[i] = ReplayCard(f[i - 1], cs[i], i)
  BY <1>1, ReplayUnfolds
<1> DEFINE T == {n \in Nat \ {0} : n <= Len(cs) =>
                    ReplayInv(f[n], cs, n) /\ Follow(f[n], cs, n)}
<1>3. 1 \in T
  BY <1>2, ReplayRootInv, ReplayRootFollows
<1>4. ASSUME NEW n \in Nat \ {0}, n \in T PROVE n + 1 \in T
  <2>1. SUFFICES ASSUME n + 1 <= Len(cs)
                 PROVE  ReplayInv(f[n + 1], cs, n + 1) /\ Follow(f[n + 1], cs, n + 1)
    OBVIOUS
  <2>2. n + 1 \in 2 .. Len(cs) /\ (n + 1) - 1 = n /\ n <= Len(cs)
    BY <1>1, <2>1
  <2>3. ReplayInv(f[n], cs, n) /\ Follow(f[n], cs, n)
    BY <1>4, <2>2
  <2>4. f[n + 1] = ReplayCard(f[n], cs[n + 1], n + 1)
    BY <1>2, <2>2
  <2>5. ReplayInv(ReplayCard(f[n], cs[n + 1], n + 1), cs, n + 1)
    BY <2>2, <2>3, ReplayCardInv
  <2>6. Follow(ReplayCard(f[n], cs[n + 1], n + 1), cs, n + 1)
    BY <2>2, <2>3, ReplayCardFollows
  <2> QED
    BY <2>4, <2>5, <2>6
<1> HIDE DEF T
<1>5. Len(cs) \in T
  BY <1>1, <1>3, <1>4, Induction
<1> QED
  BY <1>1, <1>2, <1>5 DEF T

\* The replay takes the last card after all the others.
LEMMA ReplaySplits ==
    ASSUME NEW cs \in Seq(WellMade), Len(cs) >= 2,
           NEW front, front = SubSeq(cs, 1, Len(cs) - 1)
    PROVE  Replay(cs) = ReplayCard(Replay(front), cs[Len(cs)], Len(cs))
<1> DEFINE m == Len(cs) - 1
<1>1. /\ Len(cs) \in Nat \ {0} /\ m \in Nat \ {0} /\ Len(front) = m
      /\ \A i \in 1 .. m : front[i] = cs[i]
      /\ m + 1 = Len(cs)
  OBVIOUS
<1>2. PICK f : /\ Replay(cs) = f[Len(cs)]
               /\ f[1] = ReplayRoot(cs[1])
               /\ \A i \in 2 .. Len(cs) : f[i] = ReplayCard(f[i - 1], cs[i], i)
  BY <1>1, ReplayUnfolds
<1>3. PICK g : /\ Replay(front) = g[Len(front)]
               /\ g[1] = ReplayRoot(front[1])
               /\ \A i \in 2 .. Len(front) :
                     g[i] = ReplayCard(g[i - 1], front[i], i)
  <2>1. Len(front) \in Nat \ {0}
    BY <1>1
  <2> QED
    BY <2>1, ReplayUnfolds
<1> HIDE DEF m
<1> DEFINE T == {i \in Nat \ {0} : i <= m => f[i] = g[i]}
<1>4. 1 \in T
  <2>1. front[1] = cs[1]
    BY <1>1
  <2> QED
    BY <1>2, <1>3, <2>1
<1>5. ASSUME NEW i \in Nat \ {0}, i \in T PROVE i + 1 \in T
  <2>1. SUFFICES ASSUME i + 1 <= m PROVE f[i + 1] = g[i + 1]
    OBVIOUS
  <2>2. /\ i + 1 \in 2 .. m /\ i + 1 \in 2 .. Len(cs) /\ (i + 1) - 1 = i
        /\ i <= m /\ i + 1 \in 1 .. m
    BY <1>1, <2>1
  <2>3. f[i] = g[i] /\ front[i + 1] = cs[i + 1] /\ i + 1 \in 2 .. Len(front)
    BY <1>1, <1>5, <2>2
  <2>4. f[i + 1] = ReplayCard(f[i], cs[i + 1], i + 1)
    BY <1>2, <2>2
  <2>5. g[i + 1] = ReplayCard(g[i], front[i + 1], i + 1)
    BY <1>3, <2>2, <2>3
  <2> QED
    BY <2>3, <2>4, <2>5
<1> HIDE DEF T
<1>6. m \in T
  BY <1>1, <1>4, <1>5, Induction
<1>7. f[m] = g[m]
  BY <1>1, <1>6 DEF T
<1>8. Len(cs) \in 2 .. Len(cs) /\ Len(cs) - 1 = m
  BY <1>1
<1> QED
  BY <1>2, <1>3, <1>7, <1>8

LEMMA ReplayAppends ==
    ASSUME NEW cs \in Seq(WellMade), cs # <<>>, NEW c \in WellMade
    PROVE  Replay(Append(cs, c)) = ReplayCard(Replay(cs), c, Len(cs) + 1)
<1> DEFINE ds == Append(cs, c)
           n == Len(cs)
<1>1. /\ ds \in Seq(WellMade) /\ Len(ds) = n + 1 /\ ds[n + 1] = c
      /\ \A i \in 1 .. n : ds[i] = cs[i]
      /\ n \in Nat \ {0} /\ n + 1 >= 2 /\ (n + 1) - 1 = n
  OBVIOUS
<1> DEFINE front == SubSeq(ds, 1, n)
<1>2. front = cs
  <2> HIDE DEF ds
  <2>1. front \in Seq(WellMade) /\ Len(front) = n /\ \A i \in 1 .. n : front[i] = ds[i]
    BY <1>1
  <2> HIDE DEF front
  <2> QED
    BY <1>1, <2>1
<1> HIDE DEF ds, n, front
<1>3. front = SubSeq(ds, 1, Len(ds) - 1)
  BY <1>1 DEF front
<1>4. Replay(ds) = ReplayCard(Replay(front), ds[Len(ds)], Len(ds))
  BY <1>1, <1>3, ReplaySplits
<1> QED
  BY <1>1, <1>2, <1>4 DEF ds, n

\* The flow that card i was made for, and what a result makes of it.
Before(cs, i) == StateAtCard(Replay(SubSeq(cs, 1, i - 1)), cs[i])
Accepts(s, step, r) == IF step = "fix" THEN AcceptsFixProof(s, r, r.commit)
                                       ELSE AcceptsResult(s, r, r.commit)
After(s, step, r) == IF step = "fix" THEN RecordFixProof(s, r.commit)
                                     ELSE RecordTaskResult(s, r, r.commit)

\* A card that fits speaks of the flow it finds.
LEMMA FitsFlow ==
    ASSUME NEW acc \in Replayed, NEW c \in WellMade, NEW i, FitsChain(acc, c, i),
           NEW at, at = StateAtCard(acc, c)
    PROVE  /\ at.step = c.step /\ at.base = c.base /\ at.commit = c.head
           /\ at.notes = c.notes
           /\ c.kind \notin Changes => at = acc.flow /\ c.src = acc.summary
           /\ c.kind \in Changes => c.step = "build"
<1>1. acc.flow \in Flow
  BY DEF Replayed
<1>2. CASE c.kind \in Changes
  <2>1. c.base \in Commit /\ c.head \in Commit
    BY <1>2, WellMadeFields DEF Changes
  <2>2. at = ObserveCurrentCommit(acc.flow, c.base, c.head)
    BY <1>2 DEF StateAtCard
  <2>3. at.base = c.base /\ at.commit = c.head
    BY <1>1, <2>1, <2>2, ObserveFlow
  <2> QED
    BY <1>2, <2>3 DEF FitsChain
<1>3. CASE c.kind \notin Changes
  <2>1. at = acc.flow
    BY <1>3 DEF StateAtCard
  <2>2. c.step # "none" /\ c.step = NextTaskAction(acc.flow)
    BY <1>3, WellMadeFields DEF FitsChain, ExpectedStep, TaskSteps
  <2>3. c.step = acc.flow.step
    BY <2>2 DEF NextTaskAction
  <2> QED
    BY <1>3, <2>1, <2>3 DEF FitsChain
<1> QED
  BY <1>2, <1>3

LEMMA FrontChain ==
    ASSUME NEW cs, Chain(cs), Single(cs), NEW n \in 1 .. Len(cs)
    PROVE  LET front == SubSeq(cs, 1, n)
           IN  /\ Chain(front) /\ Single(front) /\ Len(front) = n
               /\ \A i \in 1 .. n : front[i] = cs[i]
<1> DEFINE front == SubSeq(cs, 1, n)
<1>1. /\ cs \in Seq(WellMade) /\ cs[1].step = "build" /\ cs[1].result # {}
  BY DEF Chain
<1>2. /\ front \in Seq(WellMade) /\ Len(front) = n /\ 1 \in 1 .. n
      /\ \A i \in 1 .. n : front[i] = cs[i]
  BY <1>1
<1> HIDE DEF front
<1>3. front # <<>> /\ \A i \in 1 .. n : i \in 1 .. Len(cs)
  BY <1>2
<1>4. Chain(front)
  BY <1>1, <1>2, <1>3 DEF Chain
<1>5. Single(front)
  BY <1>2, <1>3 DEF Single
<1> QED
  BY <1>2, <1>4, <1>5 DEF front

\* Only the last card can be open, and the flow waits for exactly its result.
LEMMA OpenCard ==
    ASSUME NEW cs, Chain(cs), Single(cs), Replay(cs).ok,
           NEW i \in 1 .. Len(cs), cs[i].result = {},
           NEW s, s = Before(cs, i)
    PROVE  /\ i = Len(cs) /\ i >= 2
           /\ FitsChain(Replay(SubSeq(cs, 1, i - 1)), cs[i], i)
           /\ Replay(SubSeq(cs, 1, i - 1)) \in Replayed
           /\ Replay(SubSeq(cs, 1, i - 1)).ok
           /\ s \in Flow /\ s.status = "running" /\ s.task = Own
           /\ s.step = cs[i].step /\ s.commit = cs[i].head
           /\ s.step # "build" => /\ s.source = cs[i].src
                                  /\ \A x \in cs[i].src : s.source = {x}
           /\ s.step = "fix" => \A x \in cs[i].notes : s.notes = {x}
           /\ Replay(cs).open /\ Replay(cs).flow = MarkTaskStepRunning(s)
           /\ Replay(cs).flow.base = s.base /\ Replay(cs).flow.commit = s.commit
           /\ Replay(cs).flow.status = "running"
           /\ Replay(cs).refreshes
                = RefreshesAtCard(Replay(SubSeq(cs, 1, i - 1)), cs[i])
<1> DEFINE n == Len(cs)
           front == SubSeq(cs, 1, n - 1)
           pre == Replay(front)
           acc == Replay(cs)
           c == cs[n]
<1>1. /\ cs \in Seq(WellMade) /\ cs[1].result # {} /\ i # 1 /\ n \in Nat /\ n >= 2
      /\ n - 1 \in 1 .. n /\ n \in 1 .. n /\ n - 1 \in Nat
  BY DEF Chain
<1>2. /\ Chain(front) /\ Single(front) /\ Len(front) = n - 1
      /\ \A j \in 1 .. n - 1 : front[j] = cs[j]
  BY <1>1, FrontChain
<1> HIDE DEF front, pre, acc
<1>3. acc = ReplayCard(pre, c, n)
  BY <1>1, ReplaySplits DEF acc, pre, front
<1>4. ReplayInv(pre, front, n - 1) /\ Follow(pre, front, n - 1)
  BY <1>2, ReplayTyped, ReplayFollows DEF pre
<1>5. pre \in Replayed /\ c \in WellMade /\ acc.ok /\ c.step \in TaskSteps
  BY <1>1, <1>4, WellMadeFields DEF ReplayInv, acc
<1>6. pre.ok /\ FitsChain(pre, c, n)
  BY <1>3, <1>5 DEF ReplayCard, Replayed
<1>7. ~pre.open /\ \A j \in 1 .. n - 1 : cs[j].result # {}
  BY <1>2, <1>4, <1>5, <1>6, StateAtCardFlow DEF ReplayInv
<1>8. i = n
  BY <1>1, <1>7
<1> DEFINE at == StateAtCard(pre, c)
           m == RefreshesAtCard(pre, c)
           mark == MarkTaskStepRunning(at)
<1>9. s = at
  BY <1>8 DEF Before, pre, front
<1>10. acc = [[pre EXCEPT !.last = n, !.refreshes = m]
                EXCEPT !.flow = mark, !.open = TRUE]
  BY <1>3, <1>6, <1>8 DEF ReplayCard
<1>11. at \in Flow /\ at.status = "running" /\ m \in Nat
  BY <1>5, <1>6, StateAtCardFlow
<1>12. /\ at.step = c.step /\ at.base = c.base /\ at.commit = c.head
       /\ at.notes = c.notes
       /\ c.kind \notin Changes => at = pre.flow /\ c.src = pre.summary
       /\ c.kind \in Changes => c.step = "build"
  BY <1>5, <1>6, FitsFlow
<1> HIDE DEF at, m, n, c
<1>13. /\ mark.base = at.base /\ mark.commit = at.commit
       /\ mark.status = "running"
  <2>1. at \in TaskFlowState
    BY <1>11 DEF Flow
  <2> QED
    BY <1>11, <2>1 DEF MarkTaskStepRunning, TaskFlowState
<1>14. at.task = Own
  <2>1. pre.flow \in Flow /\ pre.flow.task = Own
    BY <1>4, <1>5, <1>6 DEF Replayed, Follow
  <2> QED
    BY <2>1, ObserveTask DEF StateAtCard, at
<1> HIDE DEF mark
<1>15. acc.open /\ acc.flow = mark /\ acc.refreshes = m
  BY <1>5, <1>10 DEF Replayed
<1>16. Sourced(pre)
  BY <1>4, <1>6, <1>7 DEF Follow
<1>17. at.step # "build" => /\ at.source = c.src
                            /\ \A x \in c.src : at.source = {x}
                            /\ at.step = "fix" => \A x \in c.notes : at.notes = {x}
  <2> SUFFICES ASSUME at.step # "build"
               PROVE  /\ at.source = c.src
                      /\ \A x \in c.src : at.source = {x}
                      /\ at.step = "fix" => \A x \in c.notes : at.notes = {x}
    OBVIOUS
  <2>1. at = pre.flow /\ c.src = pre.summary
    BY <1>12
  <2>2. pre.flow.step \in {"review", "deep_check", "fix"}
    BY <1>5, <1>12, <2>1 DEF TaskSteps
  <2> QED
    BY <1>12, <1>16, <2>1, <2>2 DEF Sourced
<1>18. pre = Replay(SubSeq(cs, 1, i - 1)) /\ c = cs[i]
  BY <1>8 DEF pre, front, c
<1> HIDE DEF pre
<1> QED
  BY <1>1, <1>5, <1>6, <1>8, <1>9, <1>11, <1>12, <1>13, <1>14, <1>15, <1>17, <1>18
     DEF mark, m, acc, n

\* An accepted result keeps the base and sets the commit.
LEMMA AfterPair ==
    ASSUME NEW s \in Flow, NEW step \in TaskSteps, NEW r \in Results(step),
           Accepts(s, step, r)
    PROVE  After(s, step, r).base = s.base /\ After(s, step, r).commit = r.commit
<1>1. s \in TaskFlowState
  BY DEF Flow
<1>2. ASSUME NEW t \in TaskFlowState, NEW next
      PROVE  /\ Complete(t, r, next).base = t.base
             /\ Complete(t, r, next).commit = t.commit
  BY DEF Complete, TaskFlowState
<1>3. ASSUME NEW t \in TaskFlowState
      PROVE  /\ RequestFix(t, r).base = t.base
             /\ RequestFix(t, r).commit = t.commit
  BY DEF RequestFix, TaskFlowState
<1>4. CASE step = "fix"
  <2>1. After(s, step, r) = Restart(s, s.base, r.commit)
    BY <1>4 DEF After, RecordFixProof
  <2> QED
    BY <2>1 DEF Restart, AtBuild
<1>5. CASE step = "build"
  <2>1. r.kind = "build" /\ s.commit = r.commit
    BY <1>5, ResultFields DEF Results, Accepts, AcceptsResult
  <2>2. PICK next \in {"none", "review"} : After(s, step, r) = Complete(s, r, next)
    BY <1>5, <2>1 DEF After, RecordTaskResult, RecordBuild
  <2> QED
    BY <1>1, <1>2, <2>1, <2>2
<1>6. CASE step = "review"
  <2>1. r.kind = "review" /\ s.commit = r.commit
    BY <1>6, ResultFields DEF Results, Accepts, AcceptsResult
  <2>2. \/ After(s, step, r) = RequestFix(s, r)
        \/ After(s, step, r) = Complete(s, r, "none")
        \/ After(s, step, r) = Complete(s, r, "deep_check")
    BY <1>6, <2>1 DEF After, RecordTaskResult, RecordReview
  <2> QED
    BY <1>1, <1>2, <1>3, <2>1, <2>2
<1>7. CASE step = "deep_check"
  <2> DEFINE moved == [s EXCEPT !.commit = r.commit]
  <2>1. r.kind = "deep_check" /\ r.commit \in Commit
    BY <1>7, ResultFields DEF Results
  <2>2. \/ After(s, step, r) = RequestFix(moved, r)
        \/ After(s, step, r) = Complete(moved, r, "none")
    BY <1>7, <2>1 DEF After, RecordTaskResult, RecordDeepCheck
  <2>3. moved \in TaskFlowState /\ moved.base = s.base /\ moved.commit = r.commit
    BY <1>1, <2>1 DEF TaskFlowState
  <2> HIDE DEF moved
  <2> QED
    BY <1>2, <1>3, <2>2, <2>3
<1> QED
  BY <1>4, <1>5, <1>6, <1>7 DEF TaskSteps

\* Two cards that differ at most in their result are the same for the chain.
SameSpec(c, d) ==
    /\ d.step = c.step /\ d.kind = c.kind /\ d.parent = c.parent
    /\ d.base = c.base /\ d.head = c.head /\ d.refreshes = c.refreshes
    /\ d.fix_count = c.fix_count /\ d.notes = c.notes /\ d.src = c.src
    /\ d.run = c.run

LEMMA FitsSame ==
    ASSUME NEW acc, NEW c, NEW d, SameSpec(c, d), NEW i
    PROVE  /\ FitsChain(acc, d, i) <=> FitsChain(acc, c, i)
           /\ StateAtCard(acc, d) = StateAtCard(acc, c)
           /\ RefreshesAtCard(acc, d) = RefreshesAtCard(acc, c)
           /\ Key(d) = Key(c)
<1>3. StateAtCard(acc, d) = StateAtCard(acc, c)
  BY DEF SameSpec, StateAtCard
<1>4. RefreshesAtCard(acc, d) = RefreshesAtCard(acc, c)
  BY DEF SameSpec, RefreshesAtCard
<1>5. ExpectedStep(acc, d) = ExpectedStep(acc, c)
  BY DEF SameSpec, ExpectedStep
<1>6. FitsChain(acc, d, i) <=> FitsChain(acc, c, i)
  BY <1>3, <1>4, <1>5 DEF SameSpec, FitsChain
<1>7. Key(d) = Key(c)
  BY DEF SameSpec, Key
<1> QED
  BY <1>3, <1>4, <1>6, <1>7

LEMMA WithResult ==
    ASSUME NEW c \in WellMade, NEW r \in Results(c.step)
    PROVE  LET d == [c EXCEPT !.result = {r}]
           IN  d \in WellMade /\ SameSpec(c, d) /\ d.result = {r}
<1> DEFINE d == [c EXCEPT !.result = {r}]
<1>1. {r} \subseteq Results(c.step)
  OBVIOUS
<1>2. {r} \subseteq Anything
  BY <1>1 DEF Results, Anything, TaskResult
<1>3. c \in Card
  BY DEF WellMade
<1>4. d \in Card /\ SameSpec(c, d) /\ d.result = {r}
  BY <1>2, <1>3 DEF Card, Anything, SameSpec
<1> HIDE DEF d
<1>5. d \in WellMade
  BY <1>1, <1>3, <1>4 DEF WellMade, SameSpec
<1> QED
  BY <1>4, <1>5 DEF d

LEMMA ReplacedAt ==
    ASSUME NEW S, NEW cs \in Seq(S), NEW i \in 1 .. Len(cs), NEW d \in S,
           NEW ds, ds = [cs EXCEPT ![i] = d]
    PROVE  /\ ds \in Seq(S) /\ Len(ds) = Len(cs)
           /\ \A j \in 1 .. Len(cs) : ds[j] = IF j = i THEN d ELSE cs[j]
OBVIOUS

\* The chain after card i got its result.
WithReport(cs, i, r) == [cs EXCEPT ![i].result = {r}]

\* The open card gets a result the flow accepts.
LEMMA ResultReplays ==
    ASSUME NEW cs, Chain(cs), Single(cs), Replay(cs).ok,
           NEW i \in 1 .. Len(cs), cs[i].result = {}, NEW s, s = Before(cs, i),
           NEW r \in Results(cs[i].step), Accepts(s, cs[i].step, r),
           NEW ds, ds = WithReport(cs, i, r)
    PROVE  /\ Chain(ds) /\ Single(ds)
           /\ Replay(ds).ok /\ ~Replay(ds).open
           /\ Replay(ds).refreshes = Replay(cs).refreshes
           /\ Replay(ds).flow = After(s, cs[i].step, r)
<1>0. Accepts(s, cs[i].step, r)
  OBVIOUS
<1> DEFINE n == Len(cs)
           front == SubSeq(cs, 1, n - 1)
           pre == Replay(front)
           c == cs[i]
           d == [c EXCEPT !.result = {r}]
<1>1. /\ i = n /\ n >= 2 /\ FitsChain(pre, c, n) /\ pre \in Replayed /\ pre.ok
      /\ s = StateAtCard(pre, c)
      /\ Replay(cs).refreshes = RefreshesAtCard(pre, c)
  BY OpenCard DEF Before
<1>2. /\ cs \in Seq(WellMade) /\ cs[1].step = "build" /\ cs[1].result # {}
      /\ c \in WellMade /\ n \in Nat /\ n \in 1 .. n
  BY <1>1 DEF Chain
<1>4. d \in WellMade /\ SameSpec(c, d) /\ d.result = {r}
  BY <1>2, WithResult
<1>5. ds = [cs EXCEPT ![i] = d]
  BY DEF WithReport
<1> HIDE DEF d, pre
<1>3. /\ FitsChain(pre, d, n) /\ StateAtCard(pre, d) = s
      /\ RefreshesAtCard(pre, d) = RefreshesAtCard(pre, c)
      /\ d.step = c.step /\ d.result = {r}
  <2>1. d.step = c.step /\ d.result = {r}
    BY ONLY <1>4 DEF SameSpec
  <2> QED
    BY ONLY <1>1, <1>4, <2>1, FitsSame
<1>6. /\ ds \in Seq(WellMade) /\ Len(ds) = n /\ ds[n] = d
      /\ \A j \in 1 .. n : j # n => ds[j] = cs[j]
  <2>1. /\ ds \in Seq(WellMade) /\ Len(ds) = n
        /\ \A j \in 1 .. n : ds[j] = IF j = i THEN d ELSE cs[j]
    BY ONLY <1>1, <1>2, <1>4, <1>5, ReplacedAt
  <2> HIDE DEF n
  <2> QED
    BY <1>1, <1>2, <2>1
<1>7. front = SubSeq(ds, 1, n - 1)
  <2> DEFINE a == SubSeq(cs, 1, n - 1)
             b == SubSeq(ds, 1, n - 1)
  <2>1. /\ a \in Seq(WellMade) /\ b \in Seq(WellMade)
        /\ Len(a) = n - 1 /\ Len(b) = n - 1
        /\ \A j \in 1 .. n - 1 : a[j] = cs[j] /\ b[j] = ds[j]
    BY <1>1, <1>2, <1>6
  <2>2. \A j \in 1 .. n - 1 : j \in 1 .. n /\ j # n
    BY <1>2
  <2> HIDE DEF a, b
  <2>3. \A j \in 1 .. n - 1 : a[j] = b[j]
    BY <1>6, <2>1, <2>2
  <2>4. a = b
    BY <2>1, <2>3
  <2> QED
    BY <2>4 DEF a, b
<1>8. Replay(ds) = ReplayCard(pre, d, n)
  BY <1>1, <1>6, <1>7, ReplaySplits DEF pre
<1>9. Chain(ds)
  <2>1. ds[1] = cs[1] /\ ds # <<>>
    BY <1>1, <1>2, <1>6
  <2> QED
    BY <1>2, <1>6, <2>1 DEF Chain
<1>10. Single(ds)
  BY <1>2, <1>3, <1>6 DEF Single
<1> DEFINE m == RefreshesAtCard(pre, c)
<1>11. m \in Nat /\ ~pre.open
  BY <1>1, <1>2, StateAtCardFlow
<1>12. (CHOOSE x \in d.result : TRUE) = r
  BY <1>3
<1> HIDE DEF pre, c, n
<1>13. ReplayCard(pre, d, n)
         = [[pre EXCEPT !.last = n, !.refreshes = m]
              EXCEPT !.flow = After(s, c.step, r), !.summary = {r}]
  BY <1>0, <1>1, <1>3, <1>12 DEF ReplayCard, After, Accepts, c
<1> HIDE DEF m
<1>14. /\ Replay(ds).ok /\ ~Replay(ds).open /\ Replay(ds).refreshes = m
       /\ Replay(ds).flow = After(s, c.step, r)
  BY <1>1, <1>8, <1>11, <1>13 DEF Replayed
<1> QED
  BY <1>1, <1>9, <1>10, <1>14 DEF c, m

-----------------------------------------------------------------------------
(* Which card is missing                                                   *)

Ready(acc) == acc.flow.status = "ready_to_merge"

\* The pull request shows the pair the flow speaks of.
At(q, acc) == q.base = acc.flow.base /\ q.head = acc.flow.commit

\* The newest intent is not in the chain yet; once it is done it shows what
\* the branch refresh made of the pull request.
Awaits(acc, q, log) ==
    LET intent == log[Len(log)]
    IN  /\ Ready(acc) /\ Len(log) = acc.refreshes + 1
        /\ intent.ebase = acc.flow.base /\ intent.ehead = acc.flow.commit
        /\ intent.done => /\ intent.nbase = q.base /\ intent.nhead = q.head
                          /\ ~At(q, acc)

\* The chain replays and the pull request moved only while the flow was ready.
Healthy(acc, q, log) ==
    /\ acc.ok /\ IntentsFit(log, acc.refreshes)
    /\ \/ Len(log) = acc.refreshes /\ (At(q, acc) \/ Ready(acc))
       \/ Awaits(acc, q, log)

\* The cards a replay that ended in acc may lack.
Restarted(acc, q, kind, n) ==
    [step |-> "build", kind |-> kind, parent |-> acc.last, base |-> q.base,
     head |-> q.head, refreshes |-> n, fix_count |-> acc.flow.fix_count,
     notes |-> {}, src |-> {}, run |-> acc.last, result |-> {}]

Onward(acc, q) ==
    [step |-> acc.flow.step, kind |-> "continue", parent |-> acc.last,
     base |-> q.base, head |-> q.head, refreshes |-> acc.refreshes,
     fix_count |-> acc.flow.fix_count, notes |-> acc.flow.notes,
     src |-> acc.summary, run |-> acc.last, result |-> {}]

LEMMA SnapshotFields ==
    ASSUME NEW cs, Chain(cs), NEW acc, acc = Replay(cs), NEW q, ~q.merged,
           NEW log, NEW rec, rec = PendingRecovery(acc, q, log),
           NEW snap, snap = Snapshot(cs, q, log)
    PROVE  /\ snap.status = "ok" <=>
                acc.ok /\ IntentsFit(log, acc.refreshes) /\ rec # "error"
           /\ snap.status # "ok" => snap.status = "error" /\ snap.recovery = "wait"
           /\ snap.status = "ok" =>
                /\ snap.recovery = rec /\ snap.base = q.base /\ snap.head = q.head
                /\ snap.last = acc.last /\ snap.open = acc.open
                /\ snap.summary = acc.summary
                /\ snap.flow = IF acc.open THEN acc.flow
                               ELSE ObserveCurrentCommit(acc.flow, q.base, q.head)
                /\ rec \in {"apply", "complete"} =>
                     /\ snap.refreshes = acc.refreshes + 1
                     /\ snap.pending = "branch_refresh"
                /\ rec = "wait" =>
                     /\ snap.refreshes = acc.refreshes
                     /\ snap.pending =
                          IF /\ Len(log) = acc.refreshes
                             /\ snap.flow # acc.flow /\ snap.flow.step = "build"
                            THEN "commit_change" ELSE "continue"
<1>1. cs # <<>> /\ cs[1].result # {}
  BY DEF Chain
<1>2. snap = CHOOSE s \in {ReplayedSnapshot(a, PendingRecovery(a, q, log), q, log) :
                              a \in {Replay(cs)}} : TRUE
  BY <1>1 DEF Snapshot
<1>3. snap = ReplayedSnapshot(acc, rec, q, log)
  BY <1>2
<1>4. Seen(q).base = q.base /\ Seen(q).head = q.head
  BY DEF Seen
<1> DEFINE bad == ~acc.ok \/ ~IntentsFit(log, acc.refreshes) \/ rec = "error"
           obs == IF acc.open THEN acc.flow
                  ELSE ObserveCurrentCommit(acc.flow, q.base, q.head)
           apply == rec \in {"apply", "complete"}
           pend == IF apply THEN "branch_refresh"
                   ELSE IF /\ Len(log) = acc.refreshes
                           /\ obs # acc.flow /\ obs.step = "build"
                     THEN "commit_change" ELSE "continue"
           made == [status |-> "ok", recovery |-> rec, flow |-> obs,
                    base |-> q.base, head |-> q.head, last |-> acc.last,
                    open |-> acc.open, summary |-> acc.summary, pending |-> pend,
                    refreshes |-> acc.refreshes + (IF apply THEN 1 ELSE 0)]
<1>5. snap = IF bad THEN [NoSnapshot EXCEPT !.status = "error"] ELSE made
  BY <1>3, <1>4 DEF ReplayedSnapshot
<1>6. acc.refreshes \in Nat
  BY ReplayTyped DEF ReplayInv, Replayed
<1>7. CASE bad
  <2>1. snap.status = "error" /\ snap.recovery = "wait"
    BY <1>5, <1>7 DEF NoSnapshot
  <2> HIDE DEF obs, apply, pend, made
  <2> QED
    BY <1>7, <2>1
<1>8. CASE ~bad
  <2>1. snap = made
    BY <1>5, <1>8
  <2>2. /\ snap.status = "ok" /\ snap.recovery = rec /\ snap.base = q.base
        /\ snap.head = q.head /\ snap.last = acc.last /\ snap.open = acc.open
        /\ snap.summary = acc.summary /\ snap.flow = obs /\ snap.pending = pend
        /\ snap.refreshes = acc.refreshes + (IF apply THEN 1 ELSE 0)
    BY <2>1
  <2> HIDE DEF made, obs
  <2> QED
    BY <1>6, <1>8, <2>2 DEF obs
<1> QED
  BY <1>7, <1>8

\* A flow that was ready starts again when the pull request moves.
LEMMA ObserveReady ==
    ASSUME NEW s \in Flow, s.status = "ready_to_merge", NEW base, NEW commit,
           NEW after, after = ObserveCurrentCommit(s, base, commit)
    PROVE  /\ base = s.base /\ commit = s.commit => after = s
           /\ ~(base = s.base /\ commit = s.commit) =>
                /\ after = Restart(s, base, commit) /\ after # s
                /\ after.step = "build" /\ after.status = "running"
                /\ after.fix_count = s.fix_count /\ after.notes = {}
                /\ after.base = base /\ after.commit = commit
<1>1. s.step = "none"
  <2>1. s.status = "running" <=> s.step # "none"
    BY DEF Flow
  <2> QED
    BY <2>1
<1>2. ~(base = s.base /\ commit = s.commit) => after = Restart(s, base, commit)
  BY <1>1 DEF ObserveCurrentCommit
<1>3. /\ Restart(s, base, commit).step = "build"
      /\ Restart(s, base, commit).status = "running"
      /\ Restart(s, base, commit).fix_count = s.fix_count
      /\ Restart(s, base, commit).notes = {}
      /\ Restart(s, base, commit).base = base
      /\ Restart(s, base, commit).commit = commit
  BY DEF Restart, AtBuild
<1> QED
  BY <1>2, <1>3 DEF ObserveCurrentCommit

\* What a snapshot makes of a flow that is ready, whatever the intents.
LEMMA ReadySnapshot ==
    ASSUME NEW cs, Chain(cs), NEW acc, acc = Replay(cs), Ready(acc),
           NEW q, ~q.merged, NEW log, NEW snap, snap = Snapshot(cs, q, log)
    PROVE  /\ snap.recovery = "complete" =>
                /\ snap.status = "ok" /\ acc.ok /\ IntentsFit(log, acc.refreshes)
                /\ Len(log) = acc.refreshes + 1 /\ ~log[Len(log)].done
                /\ log[Len(log)].ebase = acc.flow.base
                /\ log[Len(log)].ehead = acc.flow.commit
                /\ ~At(q, acc)
           /\ snap.status = "ok" /\ snap.flow.status = "ready_to_merge" =>
                /\ acc.ok /\ IntentsFit(log, acc.refreshes)
                /\ At(q, acc) /\ snap.flow = acc.flow /\ snap.last = acc.last
                /\ snap.base = q.base /\ snap.head = q.head
                /\ snap.refreshes = acc.refreshes
           /\ \A c \in NextCards(snap) :
                /\ acc.ok /\ IntentsFit(log, acc.refreshes) /\ ~At(q, acc)
                /\ c = Restarted(acc, q, IF Len(log) = acc.refreshes
                                           THEN "commit_change"
                                           ELSE "branch_refresh", Len(log))
                /\ Len(log) # acc.refreshes /\ log[Len(log)].done =>
                     /\ log[Len(log)].nbase = q.base
                     /\ log[Len(log)].nhead = q.head
           /\ snap.status = "ok" /\ ~At(q, acc) /\ acc.ok =>
                NextCards(snap) # {}
<1> DEFINE rec == PendingRecovery(acc, q, log)
<1>1. ReplayInv(acc, cs, Len(cs))
  BY ReplayTyped
<1>2. /\ acc \in Replayed /\ acc.flow \in Flow /\ acc.refreshes \in Nat
      /\ acc.ok => ~acc.open
  BY <1>1 DEF ReplayInv, Replayed, Ready
<1> HIDE DEF rec
<1>3. /\ snap.status = "ok" <=>
           acc.ok /\ IntentsFit(log, acc.refreshes) /\ rec # "error"
      /\ snap.status # "ok" => snap.status = "error" /\ snap.recovery = "wait"
      /\ snap.status = "ok" =>
           /\ snap.recovery = rec /\ snap.base = q.base /\ snap.head = q.head
           /\ snap.last = acc.last /\ snap.open = acc.open
           /\ snap.summary = acc.summary
           /\ snap.flow = IF acc.open THEN acc.flow
                          ELSE ObserveCurrentCommit(acc.flow, q.base, q.head)
           /\ rec \in {"apply", "complete"} =>
                /\ snap.refreshes = acc.refreshes + 1
                /\ snap.pending = "branch_refresh"
           /\ rec = "wait" =>
                /\ snap.refreshes = acc.refreshes
                /\ snap.pending =
                     IF /\ Len(log) = acc.refreshes
                        /\ snap.flow # acc.flow /\ snap.flow.step = "build"
                       THEN "commit_change" ELSE "continue"
  BY SnapshotFields DEF rec
<1>4. CASE snap.status # "ok"
  <2>1. NextCards(snap) = {}
    BY <1>3, <1>4 DEF NextCards
  <2> QED
    BY <1>3, <1>4, <2>1
<1>5. CASE snap.status = "ok"
  <2>1. /\ acc.ok /\ ~acc.open /\ IntentsFit(log, acc.refreshes)
        /\ snap.flow = ObserveCurrentCommit(acc.flow, q.base, q.head)
        /\ rec \in {"wait", "apply", "complete"}
        /\ Len(log) \in {acc.refreshes, acc.refreshes + 1}
    BY <1>2, <1>3, <1>5, RecoveryValues DEF rec, IntentsFit
  <2>2. rec \in {"apply", "complete"} =>
          /\ Len(log) = acc.refreshes + 1 /\ ~At(q, acc)
          /\ rec = "complete" => ~log[Len(log)].done
          /\ rec = "apply" => /\ log[Len(log)].done
                              /\ log[Len(log)].nbase = q.base
                              /\ log[Len(log)].nhead = q.head
          /\ log[Len(log)].ebase = acc.flow.base
          /\ log[Len(log)].ehead = acc.flow.commit
    BY DEF rec, PendingRecovery, Recovery, Seen, At
  <2>3. Len(log) = acc.refreshes + 1 /\ ~At(q, acc) => rec # "wait"
    BY <2>1 DEF rec, PendingRecovery, Recovery, Seen, At
  <2>4. CASE At(q, acc)
    <3>1. snap.flow = acc.flow
      BY <1>2, <2>1, <2>4, ObserveReady DEF At, Ready
    <3>2. NextCards(snap) = {}
      BY <1>5, <3>1 DEF NextCards, Ready
    <3>3. rec = "wait"
      BY <2>1, <2>2, <2>4
    <3> QED
      BY <1>3, <1>5, <2>1, <2>4, <3>1, <3>2, <3>3
  <2>5. CASE ~At(q, acc)
    <3>1. /\ snap.flow # acc.flow /\ snap.flow.step = "build"
          /\ snap.flow.status = "running" /\ snap.flow.notes = {}
          /\ snap.flow.fix_count = acc.flow.fix_count
      BY <1>2, <2>1, <2>5, ObserveReady DEF At, Ready
    <3> DEFINE kind == IF Len(log) = acc.refreshes THEN "commit_change"
                                                   ELSE "branch_refresh"
    <3>2. snap.pending = kind /\ snap.refreshes = Len(log)
      <4>1. CASE Len(log) = acc.refreshes
        <5>1. rec = "wait"
          BY <1>2, <2>1, <2>2, <4>1
        <5> QED
          BY <1>3, <1>5, <3>1, <4>1, <5>1
      <4>2. CASE Len(log) # acc.refreshes
        <5>1. rec \in {"apply", "complete"} /\ Len(log) = acc.refreshes + 1
          BY <2>1, <2>3, <2>5, <4>2
        <5> QED
          BY <1>3, <1>5, <4>2, <5>1
      <4> QED
        BY <4>1, <4>2
    <3>3. NextCards(snap) = {StepCard(snap)}
      BY <1>3, <1>5, <2>1, <3>1, <3>2 DEF NextCards, SourceIsCurrent, Changes
    <3>4. StepCard(snap) = Restarted(acc, q, kind, Len(log))
      <4>1. snap.base = q.base /\ snap.head = q.head /\ snap.last = acc.last
        BY <1>3, <1>5
      <4> HIDE DEF kind
      <4>2. kind \in Changes
        BY DEF kind, Changes
      <4> QED
        BY ONLY <3>1, <3>2, <4>1, <4>2 DEF StepCard, Restarted
    <3>5. Len(log) # acc.refreshes => rec \in {"apply", "complete"}
      BY <2>1, <2>3, <2>5
    <3>6. snap.flow.status # "ready_to_merge"
      BY <3>1
    <3> QED
      BY <1>3, <1>5, <2>1, <2>2, <2>5, <3>3, <3>4, <3>5, <3>6
  <2> QED
    BY <2>4, <2>5
<1> QED
  BY <1>4, <1>5

\* The snapshot of a healthy chain is no error; it asks for a card that goes on
\* only where the pull request stands.
LEMMA HealthySnapshot ==
    ASSUME NEW cs, Chain(cs), NEW acc, acc = Replay(cs), NEW q, ~q.merged,
           NEW log, Healthy(acc, q, log), NEW snap, snap = Snapshot(cs, q, log)
    PROVE  /\ snap.status = "ok"
           /\ acc.open => /\ NextCards(snap) = {} /\ ~Ready(acc)
                          /\ At(q, acc) /\ Len(log) = acc.refreshes
           /\ ~acc.open /\ ~Ready(acc) =>
                \A c \in NextCards(snap) :
                   /\ c = Onward(acc, q) /\ acc.flow.status = "running"
                   /\ At(q, acc) /\ Len(log) = acc.refreshes
           /\ snap.flow.status = "ready_to_merge" =>
                /\ Ready(acc) /\ At(q, acc) /\ ~acc.open
                /\ snap.refreshes = acc.refreshes
<1> DEFINE rec == PendingRecovery(acc, q, log)
           intent == log[Len(log)]
<1>1. /\ acc \in Replayed /\ acc.ok /\ acc.refreshes \in Nat
      /\ acc.open => acc.flow.status = "running"
      /\ IntentsFit(log, acc.refreshes)
  BY ReplayTyped DEF ReplayInv, Replayed, Healthy
<1>2. acc.open => ~Ready(acc)
  BY <1>1 DEF Ready
<1>3. ~Ready(acc) => At(q, acc) /\ Len(log) = acc.refreshes
  BY DEF Healthy, Awaits
<1>4. rec # "error"
  <2>1. CASE Len(log) = acc.refreshes
    <3>1. rec = "wait"
      BY <1>1, <2>1 DEF PendingRecovery
    <3> QED
      BY <3>1
  <2>2. CASE Len(log) # acc.refreshes
    <3>1. /\ Awaits(acc, q, log) /\ Len(log) = acc.refreshes + 1
          /\ ~acc.open
      BY <1>2, <2>2 DEF Healthy, Awaits
    <3>2. rec = Recovery(intent, acc.flow, q)
      BY <1>1, <3>1 DEF PendingRecovery
    <3>3. /\ intent.ebase = acc.flow.base /\ intent.ehead = acc.flow.commit
          /\ intent.done => /\ intent.nbase = q.base /\ intent.nhead = q.head
                            /\ ~At(q, acc)
      BY <3>1 DEF Awaits
    <3> HIDE DEF intent, rec
    <3> QED
      BY <3>2, <3>3 DEF Recovery, Seen, At
  <2> QED
    BY <2>1, <2>2
<1> HIDE DEF rec
<1>5. /\ snap.status = "ok" /\ snap.base = q.base /\ snap.head = q.head
      /\ snap.last = acc.last /\ snap.open = acc.open
      /\ snap.summary = acc.summary
      /\ snap.flow = IF acc.open THEN acc.flow
                     ELSE ObserveCurrentCommit(acc.flow, q.base, q.head)
      /\ rec = "wait" =>
           /\ snap.refreshes = acc.refreshes
           /\ snap.pending =
                IF /\ Len(log) = acc.refreshes
                   /\ snap.flow # acc.flow /\ snap.flow.step = "build"
                  THEN "commit_change" ELSE "continue"
  BY <1>1, <1>4, SnapshotFields DEF rec
<1>6. acc.open => NextCards(snap) = {}
  BY <1>5 DEF NextCards
<1>7. ASSUME ~acc.open, ~Ready(acc), NEW c \in NextCards(snap)
      PROVE  c = Onward(acc, q) /\ acc.flow.status = "running"
  <2>1. At(q, acc) /\ Len(log) = acc.refreshes
    BY <1>3, <1>7
  <2>2. rec = "wait"
    BY <1>1, <2>1 DEF PendingRecovery, rec
  <2>3. snap.flow = acc.flow
    BY <1>5, <1>7, <2>1 DEF ObserveCurrentCommit, At
  <2>4. snap.pending = "continue" /\ snap.refreshes = acc.refreshes
    BY <1>5, <2>2, <2>3
  <2>5. c = StepCard(snap) /\ snap.flow.status = "running"
    BY <1>5 DEF NextCards
  <2>6. snap.pending \notin Changes
    BY <2>4 DEF Changes
  <2> QED
    BY <1>5, <2>3, <2>4, <2>5, <2>6 DEF StepCard, Onward
<1>8. snap.flow.status = "ready_to_merge" =>
        Ready(acc) /\ At(q, acc) /\ ~acc.open /\ snap.refreshes = acc.refreshes
  <2> SUFFICES ASSUME snap.flow.status = "ready_to_merge"
               PROVE  Ready(acc) /\ At(q, acc) /\ ~acc.open
                      /\ snap.refreshes = acc.refreshes
    OBVIOUS
  <2>1. ~acc.open
    BY <1>1, <1>5
  <2>2. CASE Ready(acc)
    <3>1. At(q, acc) /\ snap.refreshes = acc.refreshes
      BY <1>5, <2>2, ReadySnapshot
    <3> QED
      BY <2>1, <2>2, <3>1
  <2>3. CASE ~Ready(acc)
    <3>1. At(q, acc)
      BY <1>3, <2>3
    <3>2. snap.flow = acc.flow
      BY <1>5, <2>1, <3>1 DEF ObserveCurrentCommit, At
    <3> QED
      BY <2>3, <3>2 DEF Ready
  <2> QED
    BY <2>2, <2>3
<1> QED
  BY <1>2, <1>3, <1>5, <1>6, <1>7, <1>8

\* Any other snapshot of the chain: an open card keeps it from asking, and it
\* is ready only for a flow that is.
LEMMA OpenAsksNothing ==
    ASSUME NEW cs, Chain(cs), NEW acc, acc = Replay(cs),
           NEW q \in PullRequest, ~q.merged,
           NEW log, NEW snap, snap = Snapshot(cs, q, log), snap.status = "ok"
    PROVE  /\ acc.ok
           /\ acc.open => NextCards(snap) = {} /\ snap.flow.status = "running"
                          /\ snap.recovery = "wait"
           /\ snap.flow.status = "ready_to_merge" => ~acc.open /\ Ready(acc)
<1> DEFINE rec == PendingRecovery(acc, q, log)
<1>1. /\ acc \in Replayed /\ acc.flow \in Flow
      /\ acc.ok /\ acc.open => acc.flow.status = "running"
  BY ReplayTyped DEF ReplayInv, Replayed
<1>2. acc.open => rec \in {"wait", "error"}
  BY DEF PendingRecovery
<1> HIDE DEF rec
<1>3. /\ acc.ok /\ rec # "error" /\ snap.recovery = rec /\ snap.open = acc.open
      /\ snap.flow = IF acc.open THEN acc.flow
                     ELSE ObserveCurrentCommit(acc.flow, q.base, q.head)
  BY SnapshotFields DEF rec
<1>4. acc.open => NextCards(snap) = {}
  BY <1>3 DEF NextCards
<1>5. snap.flow.status = "ready_to_merge" => ~acc.open /\ Ready(acc)
  <2> SUFFICES ASSUME snap.flow.status = "ready_to_merge"
               PROVE  ~acc.open /\ Ready(acc)
    OBVIOUS
  <2>1. ~acc.open
    BY <1>1, <1>3
  <2>2. q.base \in Commit /\ q.head \in Commit
    BY DEF PullRequest
  <2>3. snap.flow = acc.flow
    BY ONLY <1>1, <1>3, <2>1, <2>2, ObservedFlow, snap.flow.status = "ready_to_merge"
  <2> QED
    BY <2>1, <2>3 DEF Ready
<1> QED
  BY <1>1, <1>2, <1>3, <1>4, <1>5

\* A card that fits and has no result yet is taken as the open card.
LEMMA OpenedCard ==
    ASSUME NEW cs, Chain(cs), Single(cs), Replay(cs).ok,
           NEW c \in WellMade, c.result = {},
           FitsChain(Replay(cs), c, Len(cs) + 1)
    PROVE  LET ds == Append(cs, c)
               b == Replay(ds)
               at == StateAtCard(Replay(cs), c)
           IN  /\ Chain(ds) /\ Single(ds) /\ b.ok /\ b.open
               /\ b.refreshes = RefreshesAtCard(Replay(cs), c)
               /\ b.flow.base = at.base /\ b.flow.commit = at.commit
<1> DEFINE n == Len(cs)
           acc == Replay(cs)
           ds == Append(cs, c)
           b == Replay(ds)
           at == StateAtCard(acc, c)
           m == RefreshesAtCard(acc, c)
           mark == MarkTaskStepRunning(at)
<1> SUFFICES /\ Chain(ds) /\ Single(ds) /\ b.ok /\ b.open /\ b.refreshes = m
             /\ b.flow.base = at.base /\ b.flow.commit = at.commit
  OBVIOUS
<1>1. /\ cs \in Seq(WellMade) /\ cs # <<>> /\ acc \in Replayed
      /\ cs[1].step = "build" /\ cs[1].result # {} /\ 1 \in 1 .. n
  BY ReplayTyped DEF Chain, ReplayInv
<1>2. /\ ds \in Seq(WellMade) /\ Len(ds) = n + 1 /\ ds[n + 1] = c
      /\ \A i \in 1 .. n : ds[i] = cs[i]
      /\ n \in Nat
  BY <1>1
<1>0. acc.ok /\ FitsChain(acc, c, n + 1)
  OBVIOUS
<1> HIDE DEF ds, acc
<1>3. Chain(ds)
  BY <1>1, <1>2 DEF Chain
<1>4. Single(ds)
  <2>1. \A i \in 1 .. n + 1 : i \in 1 .. n \/ i = n + 1
    BY <1>2
  <2> QED
    BY <1>2, <2>1 DEF Single
<1>5. at \in Flow /\ m \in Nat
  BY <1>0, <1>1, StateAtCardFlow
<1> HIDE DEF b
<1>6. b = [[acc EXCEPT !.last = n + 1, !.refreshes = m]
             EXCEPT !.flow = mark, !.open = TRUE]
  <2>1. b = ReplayCard(acc, c, n + 1)
    BY <1>1, ReplayAppends DEF b, ds, acc
  <2> QED
    BY <1>0, <2>1 DEF ReplayCard
<1>7. mark.base = at.base /\ mark.commit = at.commit
  <2> HIDE DEF at
  <2> QED
    BY <1>5 DEF MarkTaskStepRunning, Flow, TaskFlowState
<1> HIDE DEF at, m, mark
<1>8. b.ok /\ b.open /\ b.refreshes = m /\ b.flow = mark
  BY <1>0, <1>1, <1>6 DEF Replayed
<1> QED
  BY <1>3, <1>4, <1>7, <1>8

\* The missing card of a healthy chain continues it.
LEMMA AppendHealthy ==
    ASSUME NEW cs, Chain(cs), Single(cs), NEW acc, acc = Replay(cs),
           NEW q \in PullRequest, ~q.merged,
           NEW log \in Seq(BranchRefreshIntent), Healthy(acc, q, log),
           Len(log) <= MAX_BRANCH_REFRESH_COUNT,
           NEW c \in NextCards(Snapshot(cs, q, log)), Applies(c, log)
    PROVE  LET ds == Append(cs, c)
               b == Replay(ds)
           IN  /\ Chain(ds) /\ Single(ds) /\ b.open /\ b.refreshes = Len(log)
               /\ At(q, b) /\ Healthy(b, q, log)
<1> DEFINE n == Len(cs)
           ds == Append(cs, c)
           b == Replay(ds)
<1> SUFFICES /\ Chain(ds) /\ Single(ds) /\ b.open /\ b.refreshes = Len(log)
             /\ At(q, b) /\ Healthy(b, q, log)
  OBVIOUS
<1>1. /\ cs \in Seq(WellMade) /\ cs # <<>> /\ acc \in Replayed /\ acc.flow \in Flow
      /\ cs[1].step = "build" /\ n \in Nat /\ Len(log) \in Nat
      /\ acc.ok /\ IntentsFit(log, acc.refreshes) /\ acc.refreshes \in Nat
      /\ acc.last = n /\ q.base \in Commit /\ q.head \in Commit
  BY ReplayTyped, ReplayFollows
     DEF Chain, ReplayInv, Healthy, Replayed, Follow, PullRequest
<1>2. c \in WellMade
  BY <1>1, NextCardsMade, SeenTyped
<1>3. ~acc.open
  BY HealthySnapshot
<1>4. /\ c.result = {} /\ FitsChain(acc, c, n + 1)
      /\ RefreshesAtCard(acc, c) = Len(log)
      /\ StateAtCard(acc, c).base = q.base /\ StateAtCard(acc, c).commit = q.head
      /\ c.kind = "branch_refresh" <=> Len(log) # acc.refreshes
  <2>1. CASE Ready(acc)
    <3> DEFINE kind == IF Len(log) = acc.refreshes THEN "commit_change"
                                                   ELSE "branch_refresh"
               at == ObserveCurrentCommit(acc.flow, q.base, q.head)
    <3>1. ~At(q, acc) /\ c = Restarted(acc, q, kind, Len(log))
      BY <2>1, ReadySnapshot
    <3>2. /\ at.step = "build" /\ at.status = "running"
          /\ at.fix_count = acc.flow.fix_count /\ at.notes = {}
          /\ at.base = q.base /\ at.commit = q.head
      BY <1>1, <2>1, <3>1, ObserveReady DEF At, Ready
    <3>3. kind \in Changes /\ (kind = "branch_refresh" <=> Len(log) # acc.refreshes)
      BY DEF Changes
    <3>4. Len(log) # acc.refreshes => Len(log) = acc.refreshes + 1
      BY <1>1 DEF IntentsFit
    <3> HIDE DEF kind, at
    <3>5. /\ c.step = "build" /\ c.kind = kind /\ c.parent = n /\ c.run = acc.last
          /\ c.base = q.base /\ c.head = q.head /\ c.refreshes = Len(log)
          /\ c.fix_count = acc.flow.fix_count /\ c.notes = {} /\ c.result = {}
      BY <1>1, <3>1 DEF Restarted
    <3>6. StateAtCard(acc, c) = at
      BY <3>3, <3>5 DEF StateAtCard, at
    <3>7. RefreshesAtCard(acc, c) = Len(log)
      BY <3>3, <3>4, <3>5 DEF RefreshesAtCard
    <3>8. ExpectedStep(acc, c) = "build"
      BY <2>1, <3>3, <3>5 DEF ExpectedStep, NextTaskAction, Ready
    <3>9. FitsChain(acc, c, n + 1)
      BY <1>1, <1>3, <3>2, <3>3, <3>5, <3>6, <3>7, <3>8 DEF FitsChain
    <3> QED
      BY <3>2, <3>3, <3>5, <3>6, <3>7, <3>9
  <2>2. CASE ~Ready(acc)
    <3>1. /\ c = Onward(acc, q) /\ acc.flow.status = "running"
          /\ At(q, acc) /\ Len(log) = acc.refreshes
      BY <1>3, <2>2, HealthySnapshot
    <3>2. /\ c.step = acc.flow.step /\ c.kind = "continue" /\ c.parent = n
          /\ c.run = acc.last /\ c.base = q.base /\ c.head = q.head
          /\ c.refreshes = acc.refreshes /\ c.fix_count = acc.flow.fix_count
          /\ c.notes = acc.flow.notes /\ c.result = {} /\ c.src = acc.summary
      BY <1>1, <3>1 DEF Onward
    <3>3. c.kind \notin Changes
      BY <3>2 DEF Changes
    <3>4. /\ StateAtCard(acc, c) = acc.flow
          /\ RefreshesAtCard(acc, c) = acc.refreshes
      BY <3>2, <3>3 DEF StateAtCard, RefreshesAtCard
    <3>5. ExpectedStep(acc, c) = acc.flow.step
      BY <3>1, <3>3 DEF ExpectedStep, NextTaskAction
    <3>6. FitsChain(acc, c, n + 1)
      BY <1>1, <1>3, <3>1, <3>2, <3>3, <3>4, <3>5 DEF FitsChain, At
    <3> QED
      BY <3>1, <3>2, <3>4, <3>6 DEF At
  <2> QED
    BY <2>1, <2>2
<1>5. /\ Chain(ds) /\ Single(ds) /\ b.ok /\ b.open
      /\ b.refreshes = Len(log) /\ b.flow.base = q.base /\ b.flow.commit = q.head
  <2>1. Replay(cs).ok /\ c.result = {} /\ FitsChain(Replay(cs), c, Len(cs) + 1)
    BY <1>1, <1>4
  <2> QED
    BY <1>2, <1>4, <2>1, OpenedCard
<1> HIDE DEF ds, b
<1>6. At(q, b)
  BY <1>5 DEF At
<1>7. \A i \in 1 .. Len(log) : log[i].done
  <2>1. CASE Len(log) = acc.refreshes
    BY <1>1, <2>1 DEF IntentsFit
  <2>2. CASE Len(log) # acc.refreshes
    <3>1. c.kind = "branch_refresh" /\ Len(log) = acc.refreshes + 1
      BY <1>1, <1>4, <2>2 DEF IntentsFit
    <3>2. c.refreshes = Len(log)
      BY <1>4 DEF FitsChain
    <3>3. log[Len(log)].done
      BY <3>1, <3>2 DEF Applies, Recorded
    <3>4. \A i \in 1 .. Len(log) : i \in 1 .. acc.refreshes \/ i = Len(log)
      BY <1>1, <3>1
    <3> QED
      BY <1>1, <3>3, <3>4 DEF IntentsFit
  <2> QED
    BY <2>1, <2>2
<1>8. IntentsFit(log, b.refreshes)
  BY <1>5, <1>7 DEF IntentsFit
<1> QED
  BY <1>5, <1>6, <1>8 DEF Healthy

\* What an agent reports of the card it works on, when a Build pushes nothing.
Reports(i, r) ==
    LET c == cards[i]
    IN  /\ cards' = [cards EXCEPT ![i].result = {r}]
        /\ pr'.base = pr.base /\ pr'.head = r.commit /\ pr'.merged = pr.merged
        /\ \/ pr' = pr /\ top' = top
           \/ ~pr.merged /\ pr'.head \in Fresh /\ top' = pr'.head
        /\ r.task = Own
        /\ c.step = "build" => /\ r.base = pr.base /\ ~r.remaining
                               /\ r.commit = pr.head
        /\ c.step # "build" => pr.head = c.head /\ r.source \in c.src
        /\ c.step = "review" => r.commit = c.head
        /\ c.step = "deep_check" => r.reviewed = c.head
        /\ c.step = "fix" => r.text \in c.notes

LEMMA AgentReports ==
    ASSUME IInv, ~BuildPushes, NEW i \in OpenCards, Agent(i)
    PROVE  /\ UNCHANGED <<intents, wire, proc>>
           /\ \E r \in Results(cards[i].step) : Reports(i, r)
<1>1. /\ cards[i] \in WellMade /\ pr \in PullRequest /\ pr.base \in Commit
      /\ pr.head \in Commit /\ Fresh \subseteq Commit /\ Own \in Task
      /\ top \in Nat /\ pr.head \in Nat /\ pr.head <= top
  BY OwnAssumption, CommitAssumption
     DEF IInv, StoresOK, Begun, OpenCards, PullRequest, Fresh
<1>2. /\ cards[i].src \subseteq Sources(cards[i].step)
      /\ cards[i].step # "build" => cards[i].head \in Commit
      /\ cards[i].notes \subseteq Text
  BY <1>1 DEF WellMade, Card
<1>3. ASSUME NEW r, Submit(i, r, pr)
      PROVE  /\ cards' = [cards EXCEPT ![i].result = {r}] /\ pr' = pr /\ top' = top
             /\ UNCHANGED <<intents, wire, proc>>
  BY <1>1, <1>3 DEF Submit, database
<1>4. ASSUME NEW r, NEW c \in Fresh, Submit(i, r, Pushed(c))
      PROVE  /\ cards' = [cards EXCEPT ![i].result = {r}]
             /\ pr'.base = pr.base /\ pr'.head = c /\ pr'.merged = pr.merged
             /\ top' = c /\ UNCHANGED <<intents, wire, proc>>
  <2>1. c \in Nat /\ c > top
    BY <1>1, CommitAssumption DEF Fresh
  <2>2. /\ Pushed(c).head = c /\ Pushed(c).base = pr.base
        /\ Pushed(c).merged = pr.merged
    BY <1>1 DEF Pushed, Updated, PullRequest
  <2> QED
    BY <1>4, <2>1, <2>2 DEF Submit, database
<1>5. CASE AgentBuild(i)
  <2>1. PICK x \in Text, c \in {pr.head} \cup (IF BuildPushes /\ Behind(pr)
                                               THEN Fresh ELSE {}) :
          Submit(i, [kind |-> "build", task |-> Own, base |-> pr.base,
                     commit |-> c, remaining |-> FALSE, text |-> x],
                 IF c = pr.head THEN pr ELSE Updated(c))
    BY <1>5 DEF AgentBuild
  <2> DEFINE r == [kind |-> "build", task |-> Own, base |-> pr.base,
                   commit |-> c, remaining |-> FALSE, text |-> x]
  <2>2. cards[i].step = "build" /\ c = pr.head
    BY <1>5, <2>1 DEF AgentBuild
  <2>3. r \in Results(cards[i].step)
    BY <1>1, <2>2 DEF Results, BuildResult
  <2>4. /\ r.task = Own /\ r.base = pr.base /\ r.commit = pr.head
        /\ ~r.remaining /\ Submit(i, r, pr)
    BY <2>1, <2>2
  <2> HIDE DEF r
  <2>5. UNCHANGED <<intents, wire, proc>>
    BY <1>3, <2>4
  <2>6. Reports(i, r)
    BY <1>3, <2>2, <2>4 DEF Reports
  <2> QED
    BY <2>3, <2>5, <2>6
<1>6. CASE AgentReview(i)
  <2>1. PICK x \in Text, ok \in BOOLEAN, build \in cards[i].src :
          Submit(i, [kind |-> "review", task |-> Own, commit |-> pr.head,
                     source |-> build, approve |-> ok, text |-> x],
                 pr)
    BY <1>6 DEF AgentReview
  <2> DEFINE r == [kind |-> "review", task |-> Own, commit |-> pr.head,
                   source |-> build, approve |-> ok, text |-> x]
  <2>2. cards[i].step = "review" /\ pr.head = cards[i].head
    BY <1>6 DEF AgentReview
  <2>3. r \in Results(cards[i].step)
    BY <1>1, <1>2, <2>2 DEF Results, ReviewResult, Sources
  <2>4. /\ r.task = Own /\ r.commit = pr.head /\ r.source \in cards[i].src
        /\ Submit(i, r, pr)
    BY <2>1
  <2> HIDE DEF r
  <2>5. UNCHANGED <<intents, wire, proc>>
    BY <1>3, <2>4
  <2>6. Reports(i, r)
    BY <1>3, <2>2, <2>4 DEF Reports
  <2> QED
    BY <2>3, <2>5, <2>6
<1>7. CASE AgentDeepCheck(i)
  <2>1. PICK c \in Fresh, x \in Text, ok \in BOOLEAN, review \in cards[i].src :
          Submit(i, [kind |-> "deep_check", task |-> Own,
                     reviewed |-> cards[i].head, commit |-> c,
                     source |-> review, approve |-> ok, text |-> x],
                 Pushed(c))
    BY <1>7 DEF AgentDeepCheck
  <2> DEFINE r == [kind |-> "deep_check", task |-> Own,
                   reviewed |-> cards[i].head, commit |-> c,
                   source |-> review, approve |-> ok, text |-> x]
  <2>2. cards[i].step = "deep_check" /\ ~pr.merged /\ pr.head = cards[i].head
    BY <1>7 DEF AgentDeepCheck
  <2>3. r \in Results(cards[i].step)
    BY <1>1, <1>2, <2>2 DEF Results, DeepCheckResult, Sources
  <2>4. /\ r.task = Own /\ r.commit = c /\ r.source \in cards[i].src
        /\ r.reviewed = cards[i].head /\ Submit(i, r, Pushed(c))
    BY <2>1
  <2> HIDE DEF r
  <2>5. UNCHANGED <<intents, wire, proc>>
    BY <1>4, <2>4
  <2>6. Reports(i, r)
    BY <1>4, <2>2, <2>4 DEF Reports
  <2> QED
    BY <2>3, <2>5, <2>6
<1>8. CASE AgentFix(i)
  <2>1. PICK c \in Fresh, x \in cards[i].notes, rejection \in cards[i].src :
          Submit(i, [kind |-> "fix_proof", task |-> Own, commit |-> c,
                     source |-> rejection, text |-> x],
                 Pushed(c))
    BY <1>8 DEF AgentFix
  <2> DEFINE r == [kind |-> "fix_proof", task |-> Own, commit |-> c,
                   source |-> rejection, text |-> x]
  <2>2. cards[i].step = "fix" /\ ~pr.merged /\ pr.head = cards[i].head
    BY <1>8 DEF AgentFix
  <2>3. r \in Results(cards[i].step)
    BY <1>1, <1>2, <2>2 DEF Results, StepProof, Sources
  <2>4. /\ r.task = Own /\ r.commit = c /\ r.source \in cards[i].src
        /\ r.text \in cards[i].notes /\ Submit(i, r, Pushed(c))
    BY <2>1
  <2> HIDE DEF r
  <2>5. UNCHANGED <<intents, wire, proc>>
    BY <1>4, <2>4
  <2>6. Reports(i, r)
    BY <1>4, <2>2, <2>4 DEF Reports
  <2> QED
    BY <2>3, <2>5, <2>6
<1> QED
  BY <1>5, <1>6, <1>7, <1>8 DEF Agent

\* The flow accepts what an agent reports of the open card.
LEMMA ReportAccepted ==
    ASSUME Chain(cards), Single(cards), Replay(cards).ok, At(pr, Replay(cards)),
           NEW i \in OpenCards, NEW s, s = Before(cards, i),
           NEW r \in Results(cards[i].step), Reports(i, r)
    PROVE  /\ Accepts(s, cards[i].step, r) /\ s \in Flow /\ s.base = pr.base
           /\ cards[i].step \in TaskSteps
<1> DEFINE c == cards[i]
<1>1. /\ i \in 1 .. Len(cards) /\ c.result = {} /\ c \in WellMade
      /\ c.step \in TaskSteps
  BY WellMadeFields DEF OpenCards, Chain
<1>2. /\ s \in Flow /\ s.status = "running" /\ s.task = Own
      /\ s.step = c.step /\ s.commit = c.head
      /\ s.step # "build" => s.source = c.src /\ \A x \in c.src : s.source = {x}
      /\ s.step = "fix" => \A x \in c.notes : s.notes = {x}
      /\ Replay(cards).flow.base = s.base /\ Replay(cards).flow.commit = s.commit
  BY <1>1, OpenCard
<1>3. s.base = pr.base /\ s.commit = pr.head
  BY <1>2 DEF At
<1> HIDE DEF c
<1>4. /\ r.task = Own
      /\ c.step = "build" => /\ r.base = pr.base /\ ~r.remaining
                             /\ r.commit = pr.head
      /\ c.step # "build" => pr.head = c.head /\ r.source \in c.src
      /\ c.step = "review" => r.commit = c.head
      /\ c.step = "deep_check" => r.reviewed = c.head
      /\ c.step = "fix" => r.text \in c.notes
  BY DEF Reports, c
<1>5. CASE c.step = "fix"
  <2>1. s.source = {r.source} /\ s.notes = {r.text}
    BY <1>2, <1>4, <1>5
  <2> QED
    BY <1>1, <1>2, <1>3, <1>4, <1>5, <2>1 DEF Accepts, AcceptsFixProof, c
<1>6. CASE c.step # "fix"
  <2>1. r.kind = c.step
    BY <1>1, <1>6, ResultFields DEF Results, TaskSteps, c
  <2>2. c.step # "build" => s.source = {r.source}
    BY <1>2, <1>4
  <2>3. AcceptsResult(s, r, r.commit)
    BY <1>1, <1>2, <1>3, <1>4, <1>6, <2>1, <2>2
       DEF AcceptsResult, BindsTo, TaskSteps
  <2> QED
    BY <1>1, <1>2, <1>3, <1>6, <2>3 DEF Accepts, c
<1> QED
  BY <1>5, <1>6

\* The chain stays healthy when its open card gets its result.
LEMMA AgentHealthy ==
    ASSUME Chain(cards), Single(cards), pr \in PullRequest,
           Healthy(Replay(cards), pr, intents),
           NEW i \in OpenCards, NEW r \in Results(cards[i].step), Reports(i, r)
    PROVE  LET a == Replay(cards)
               b == Replay(cards')
           IN  /\ Chain(cards') /\ Single(cards') /\ Healthy(b, pr', intents)
               /\ a.open /\ ~b.open /\ At(pr', b) /\ b.refreshes = a.refreshes
               /\ Len(intents) = a.refreshes
<1> DEFINE a == Replay(cards)
           b == Replay(cards')
           s == Before(cards, i)
           step == cards[i].step
<1>1. /\ i \in 1 .. Len(cards) /\ cards[i].result = {}
      /\ cards' = [cards EXCEPT ![i].result = {r}]
  BY DEF OpenCards, Reports
<1>2. a.ok /\ IntentsFit(intents, a.refreshes)
  BY DEF Healthy
<1>3. a.open /\ a.flow.status = "running"
  BY <1>1, <1>2, OpenCard
<1>4. At(pr, a) /\ Len(intents) = a.refreshes
  BY <1>3 DEF Healthy, Awaits, Ready
<1>5. Accepts(s, step, r) /\ s \in Flow /\ s.base = pr.base /\ step \in TaskSteps
  BY <1>2, <1>4, ReportAccepted
<1> HIDE DEF s
<1>6. /\ Chain(cards') /\ Single(cards') /\ b.ok /\ ~b.open
      /\ b.refreshes = a.refreshes /\ b.flow = After(s, step, r)
  <2>1. /\ Chain(cards) /\ Single(cards) /\ Replay(cards).ok
        /\ i \in 1 .. Len(cards) /\ cards[i].result = {}
        /\ r \in Results(cards[i].step)
        /\ s = Before(cards, i) /\ Accepts(s, cards[i].step, r)
        /\ cards' = WithReport(cards, i, r)
    BY <1>1, <1>2, <1>5 DEF s, WithReport
  <2>2. /\ Chain(cards') /\ Single(cards')
        /\ Replay(cards').ok /\ ~Replay(cards').open
        /\ Replay(cards').refreshes = Replay(cards).refreshes
        /\ Replay(cards').flow = After(s, cards[i].step, r)
    BY ONLY <2>1, ResultReplays
  <2> QED
    BY <2>2
<1>7. After(s, step, r).base = s.base /\ After(s, step, r).commit = r.commit
  BY <1>5, AfterPair
<1> HIDE DEF a, b, step
<1>8. At(pr', b)
  BY <1>5, <1>6, <1>7 DEF At, Reports
<1>9. Healthy(b, pr', intents)
  BY <1>2, <1>4, <1>6, <1>8 DEF Healthy, IntentsFit
<1> QED
  BY <1>3, <1>4, <1>6, <1>8, <1>9 DEF a, b

LEMMA OnlyOne == \A m, n \in Nat : 1 <= n /\ n <= m /\ m <= 1 => n = 1 /\ m = 1
OBVIOUS

LEMMA EmptyLength == \A cs : cs = <<>> => Len(cs) = 0
OBVIOUS

\* The first Build starts the chain where the pull request stands.
LEMMA RootReported ==
    ASSUME IInv, IInv', Single(cards), ~Built, Len(cards) <= 1,
           NEW i \in OpenCards, NEW r \in Results(cards[i].step), Reports(i, r)
    PROVE  LET b == Replay(cards')
           IN  /\ Chain(cards') /\ Single(cards') /\ b.ok /\ ~b.open
               /\ At(pr', b) /\ b.refreshes = 0
<1> DEFINE b == Replay(cards')
           d == [cards[1] EXCEPT !.result = {r}]
           start == StartTaskFlow(Own, Selected, r.base, r.commit)
<1>1. /\ cards \in Seq(WellMade) /\ i = 1 /\ Len(cards) = 1
      /\ cards[1] \in WellMade /\ cards[1].step = "build"
  <2>1. cards \in Seq(WellMade) /\ i \in 1 .. Len(cards)
    BY DEF OpenCards, IInv, Begun
  <2>2. i = 1 /\ Len(cards) = 1
    <3>1. Len(cards) \in Nat /\ Len(cards) <= 1
      BY <2>1
    <3>2. i \in Nat /\ 1 <= i /\ i <= Len(cards)
      BY <2>1, <3>1
    <3> QED
      BY ONLY <3>1, <3>2, OnlyOne
  <2>3. cards # <<>>
    <3>1. cards = <<>> => Len(cards) = 0
      BY EmptyLength
    <3> QED
      BY ONLY <2>2, <3>1
  <2> QED
    BY <2>1, <2>2, <2>3 DEF IInv, Begun
<1>2. r \in Results("build") /\ "build" \in TaskSteps /\ Results("build") = BuildResult
  BY <1>1 DEF Results, TaskSteps
<1>3. /\ r.task = Own /\ r.base = pr.base /\ ~r.remaining
      /\ pr'.base = pr.base /\ pr'.head = r.commit
      /\ cards' = [cards EXCEPT ![1].result = {r}]
  BY <1>1 DEF Reports
<1>4. d \in WellMade /\ SameSpec(cards[1], d) /\ d.result = {r}
  BY <1>1, <1>2, WithResult
<1>5. cards' = [cards EXCEPT ![1] = d]
  BY <1>3
<1> HIDE DEF d
<1>6. cards' \in Seq(WellMade) /\ Len(cards') = 1 /\ cards'[1] = d
  <2>1. 1 \in 1 .. Len(cards)
    BY <1>1
  <2>2. d \in WellMade /\ cards \in Seq(WellMade)
    BY <1>1, <1>4
  <2>3. /\ cards' \in Seq(WellMade) /\ Len(cards') = Len(cards)
        /\ \A j \in 1 .. Len(cards) : cards'[j] = IF j = 1 THEN d ELSE cards[j]
    BY ONLY <1>5, <2>1, <2>2, ReplacedAt
  <2> QED
    BY <1>1, <2>1, <2>3
<1>7. d.step = "build"
  BY <1>1, <1>4 DEF SameSpec
<1>8. Chain(cards')
  <2>1. cards' # <<>>
    <3>1. cards' = <<>> => Len(cards') = 0
      BY EmptyLength
    <3> QED
      BY ONLY <1>6, <3>1
  <2> QED
    BY <1>4, <1>6, <1>7, <2>1 DEF Chain
<1>9. Single(cards')
  BY <1>4, <1>6 DEF Single
<1>10. b = ReplayRoot(d)
  <2>1. Len(cards') \in Nat \ {0}
    BY <1>6
  <2> QED
    BY <1>6, <2>1, ReplayUnfolds
<1>11. /\ start \in Flow /\ start.task = Own /\ start.base = r.base
       /\ start.commit = r.commit /\ start.step = "build"
       /\ start.status = "running"
  <2>1. start \in Flow
    BY <1>2, StartFlow, ResultFields
  <2> QED
    BY <2>1 DEF StartTaskFlow, AtBuild
<1>12. (CHOOSE x \in d.result : TRUE) = r
  BY <1>4
<1> HIDE DEF start, b
<1>13. AcceptsResult(start, r, r.commit)
  BY <1>2, <1>3, <1>11, ResultFields DEF AcceptsResult, BindsTo
<1>14. /\ RecordTaskResult(start, r, r.commit).base = r.base
       /\ RecordTaskResult(start, r, r.commit).commit = r.commit
  <2>1. Accepts(start, "build", r)
    BY <1>13 DEF Accepts
  <2>2. After(start, "build", r) = RecordTaskResult(start, r, r.commit)
    BY DEF After
  <2> QED
    BY <1>2, <1>11, <2>1, <2>2, AfterPair
<1>15. b = [ok |-> AcceptsResult(start, r, r.commit),
            flow |-> RecordTaskResult(start, r, r.commit),
            last |-> 1, open |-> FALSE, refreshes |-> 0, summary |-> d.result]
  BY <1>10, <1>12 DEF ReplayRoot, start
<1>16. b.ok /\ ~b.open /\ b.refreshes = 0 /\ At(pr', b)
  BY <1>3, <1>13, <1>14, <1>15 DEF At
<1> QED
  BY <1>8, <1>9, <1>16 DEF b

-----------------------------------------------------------------------------
(* What two processes may hold while only a ready flow moves               *)

Calm == MovesWhen = "ready" /\ ~ForcePush /\ ~BuildPushes

HasBegun(cs) == cs # <<>> /\ cs[1].result # {}
Settled(cs) == HasBegun(cs) /\ Replay(cs).ok /\ ~Replay(cs).open
SamePair(q, r) == q.base = r.base /\ q.head = r.head

\* The refresh that the replay a of an earlier stand awaited is in the chain.
Overtaken(cs, a) == Replay(cs).refreshes > a.refreshes /\ Ready(a)

\* The pull request left the pair of the flow and can never show it again.
Past(acc, q, n) == acc.flow.base <= n /\ acc.flow.commit <= n /\ ~At(q, acc)

\* The cards a process has scanned are the chain, or what it lacks of the chain
\* keeps it from asking for a card of its own.
ReadFollows(p, s, cs, q, n, log) ==
    LET a == Replay(s.cards)
    IN  \/ cs = s.cards
        \/ Overtaken(cs, a)
        \/ p = "merger" /\ Len(log) = a.refreshes /\ (Ready(a) => Past(a, q, n))

\* The same once the process has seen the pull request e.
PlanFollows(p, s, cs, q, log) ==
    LET a == Replay(s.cards)
    IN  \A e \in s.pr :
          \/ /\ cs = s.cards
             /\ \/ SamePair(e, q)
                \/ /\ Ready(a) /\ At(e, a)
                   /\ p = "merger" => Len(log) = a.refreshes + 1
          \/ Overtaken(cs, a)
          \/ p = "merger" /\ Len(log) = a.refreshes /\ ~(Ready(a) /\ At(e, a))

\* A planned card is in the chain, or it is the one card missing now.
Due(c, cs, q, log) == HasKey(cs, c) \/ c \in NextCards(Snapshot(cs, q, log))

\* The snapshot the merger decides on still holds, or its refresh is applied.
Stands(s, snap, cs, q, log) ==
    LET acc == Replay(cs)
    IN  \/ acc.refreshes > snap.refreshes
        \/ /\ Ready(acc) /\ snap.refreshes = acc.refreshes
           /\ snap.flow = acc.flow /\ snap.last = acc.last
           /\ snap.base = acc.flow.base /\ snap.head = acc.flow.commit
           /\ Len(log) = acc.refreshes => At(q, acc)
           /\ \A e \in s.pr : \/ SamePair(e, q)
                              \/ At(e, acc) /\ Len(log) = acc.refreshes + 1

Follows(p, s, cs, q, n, log) ==
    /\ s.pc = "read" /\ Settled(s.cards) => ReadFollows(p, s, cs, q, n, log)
    /\ s.pc = "plan" /\ Settled(s.cards) => PlanFollows(p, s, cs, q, log)
    /\ \A c \in s.card : Due(c, cs, q, log)
    /\ p = "merger" /\ s.pc \in Holding =>
          \A snap \in s.snap : Stands(s, snap, cs, q, log)

ChainOK(cs, q, n, log) ==
    /\ q.base <= n /\ Single(cs)
    /\ cs # <<>> => cs[1].kind = "root"
    /\ HasBegun(cs) => /\ Healthy(Replay(cs), q, log)
                       /\ Replay(cs).flow.base <= n
                       /\ Replay(cs).flow.commit <= n
    /\ ~HasBegun(cs) => Len(cs) <= 1 /\ log = <<>>

LEMMA BegunChain ==
    ASSUME NEW cs, Begun(cs), HasBegun(cs)
    PROVE  Chain(cs)
BY DEF Begun, HasBegun, Chain

LEMMA AccTyped ==
    ASSUME NEW cs, Chain(cs)
    PROVE  LET acc == Replay(cs)
           IN  /\ acc \in Replayed /\ acc.flow \in Flow /\ acc.refreshes \in Nat
               /\ acc.flow.base \in Nat /\ acc.flow.commit \in Nat
<1>1. Replay(cs) \in Replayed
  BY ReplayTyped DEF ReplayInv
<1>2. Replay(cs).flow \in Flow /\ Replay(cs).refreshes \in Nat
  BY <1>1 DEF Replayed
<1>3. Replay(cs).flow.base \in Commit /\ Replay(cs).flow.commit \in Commit
  BY <1>2 DEF Flow, TaskFlowState
<1> QED
  BY <1>1, <1>2, <1>3, CommitAssumption

\* A process that remembers a settled chain or a snapshot knows it has begun.
LEMMA BegunLater ==
    ASSUME NEW cs, Begun(cs), NEW q, NEW s, Remembers(s, cs, q)
    PROVE  /\ HasBegun(s.cards) => HasBegun(cs) /\ Chain(s.cards)
           /\ s.snap # {} => HasBegun(cs)
           /\ s.pc \in Holding => HasBegun(cs)
<1>1. Begun(s.cards) /\ Later(s.cards, cs)
  BY DEF Remembers
<1>2. ASSUME HasBegun(s.cards) PROVE HasBegun(cs) /\ Chain(s.cards)
  <2>1. Chain(s.cards)
    BY <1>1, <1>2, BegunChain
  <2>2. s.cards \in Seq(WellMade) /\ Len(s.cards) >= 1
    BY <2>1 DEF Chain
  <2>3. cs[1] = s.cards[1] /\ Len(cs) >= 1 /\ cs \in Seq(WellMade)
    BY <1>1, <1>2, <2>2 DEF Later, HasBegun, Begun
  <2>4. cs # <<>>
    BY <2>3, EmptyLength
  <2> QED
    BY <1>2, <2>1, <2>3, <2>4 DEF HasBegun
<1>3. ASSUME s.snap # {} PROVE HasBegun(cs)
  <2>1. PICK snap \in s.snap : ProvenIn(cs, snap.base, snap.head)
    BY <1>3 DEF Remembers
  <2>2. PICK n \in 1 .. Len(cs) : Chain(SubSeq(cs, 1, n))
    BY <2>1 DEF ProvenIn, Proves
  <2>3. cs \in Seq(WellMade) /\ n \in Nat /\ Len(cs) \in Nat
    BY DEF Begun
  <2>4. SubSeq(cs, 1, n)[1] = cs[1] /\ Len(cs) >= 1
    BY <2>3
  <2>5. cs # <<>>
    BY <2>4, EmptyLength
  <2> QED
    BY <2>2, <2>4, <2>5 DEF Chain, HasBegun
<1>4. s.pc \in Holding => s.snap # {}
  BY DEF Remembers
<1> QED
  BY <1>2, <1>3, <1>4

\* A root card whose Build still runs asks for nothing.
LEMMA UnbegunAsks ==
    ASSUME NEW cs, cs # <<>>, ~HasBegun(cs), NEW q, NEW log
    PROVE  NextCards(Snapshot(cs, q, log)) = {}
<1>1. Snapshot(cs, q, log).status \in {"waiting", "error"}
  BY DEF Snapshot, HasBegun, NoSnapshot
<1> QED
  BY <1>1 DEF NextCards

-----------------------------------------------------------------------------
(* A process at rest while something else moves                            *)

\* An agent finishes the open card.
LEMMA FollowsAgent ==
    ASSUME NEW cs, NEW ds, Begun(cs), cs # <<>>,
           NEW q, NEW r, NEW n \in Nat, NEW m \in Nat, NEW log,
           HasBegun(cs) => /\ Replay(cs).open /\ ~Ready(Replay(cs))
                           /\ Replay(ds).refreshes = Replay(cs).refreshes
                           /\ NextCards(Snapshot(cs, q, log)) = {},
           \A c : HasKey(cs, c) => HasKey(ds, c),
           \/ r = q /\ m = n
           \/ r.base = q.base /\ r.head = m /\ n < m,
           NEW p, NEW s \in Memory, Remembers(s, cs, q),
           Follows(p, s, cs, q, n, log)
    PROVE  Follows(p, s, ds, r, m, log)
<1> DEFINE a == Replay(s.cards)
<1>1. Settled(s.cards) => /\ HasBegun(cs) /\ cs # s.cards /\ Chain(s.cards)
                          /\ a.refreshes \in Nat /\ a.flow.base \in Nat
                          /\ a.flow.commit \in Nat
  BY BegunLater, AccTyped DEF Settled
<1>2. ASSUME s.pc = "read", Settled(s.cards)
      PROVE  ReadFollows(p, s, ds, r, m, log)
  <2>1. \/ Overtaken(cs, a)
        \/ p = "merger" /\ Len(log) = a.refreshes /\ (Ready(a) => Past(a, q, n))
    BY <1>1, <1>2 DEF Follows, ReadFollows
  <2>2. Overtaken(cs, a) => Overtaken(ds, a)
    BY <1>1, <1>2 DEF Overtaken
  <2>3. Past(a, q, n) => Past(a, r, m)
    BY <1>1, <1>2 DEF Past, At
  <2> QED
    BY <2>1, <2>2, <2>3 DEF ReadFollows
<1>3. ASSUME s.pc = "plan", Settled(s.cards)
      PROVE  PlanFollows(p, s, ds, r, log)
  <2>1. \A e \in s.pr :
          \/ Overtaken(cs, a)
          \/ p = "merger" /\ Len(log) = a.refreshes /\ ~(Ready(a) /\ At(e, a))
    BY <1>1, <1>3 DEF Follows, PlanFollows
  <2>2. Overtaken(cs, a) => Overtaken(ds, a)
    BY <1>1, <1>3 DEF Overtaken
  <2> QED
    BY <2>1, <2>2 DEF PlanFollows
<1>4. ASSUME NEW c \in s.card PROVE Due(c, ds, r, log)
  <2>1. NextCards(Snapshot(cs, q, log)) = {}
    BY UnbegunAsks
  <2>2. HasKey(cs, c)
    BY <2>1 DEF Follows, Due
  <2> QED
    BY <2>2 DEF Due
<1>5. ASSUME p = "merger", s.pc \in Holding, NEW snap \in s.snap
      PROVE  Stands(s, snap, ds, r, log)
  <2>1. Stands(s, snap, cs, q, log) /\ HasBegun(cs)
    BY <1>5, BegunLater DEF Follows
  <2> QED
    BY <2>1 DEF Stands
<1> QED
  BY <1>2, <1>3, <1>4, <1>5 DEF Follows

\* The pull request of a ready flow moves to a commit nobody has seen.
LEMMA FollowsMove ==
    ASSUME NEW cs, Chain(cs), Begun(cs), Ready(Replay(cs)),
           NEW q, ~q.merged, At(q, Replay(cs)), NEW r,
           NEW n \in Nat, NEW m \in Nat, n < m,
           \/ r.base = q.base /\ r.head = m
           \/ r.base = m /\ r.head = q.head,
           NEW log, NEW p, NEW s \in Memory,
           p = "merger" /\ s.pc # "idle" => Len(log) = Replay(cs).refreshes + 1,
           Remembers(s, cs, q), Follows(p, s, cs, q, n, log)
    PROVE  Follows(p, s, cs, r, m, log)
<1> DEFINE a == Replay(s.cards)
           acc == Replay(cs)
<1>1. Settled(s.cards) => /\ HasBegun(cs) /\ Chain(s.cards)
                          /\ a.refreshes \in Nat /\ a.flow.base \in Nat
                          /\ a.flow.commit \in Nat
  BY BegunLater, AccTyped DEF Settled
<1>2. ASSUME s.pc = "read", Settled(s.cards)
      PROVE  ReadFollows(p, s, cs, r, m, log)
  <2>1. Past(a, q, n) => Past(a, r, m)
    BY <1>1, <1>2 DEF Past, At
  <2> QED
    BY <1>2, <2>1 DEF Follows, ReadFollows
<1>3. ASSUME s.pc = "plan", Settled(s.cards), NEW e \in s.pr
      PROVE  \/ /\ cs = s.cards
                /\ \/ SamePair(e, r)
                   \/ /\ Ready(a) /\ At(e, a)
                      /\ p = "merger" => Len(log) = a.refreshes + 1
             \/ Overtaken(cs, a)
             \/ p = "merger" /\ Len(log) = a.refreshes /\ ~(Ready(a) /\ At(e, a))
  <2>1. \/ /\ cs = s.cards
           /\ \/ SamePair(e, q)
              \/ /\ Ready(a) /\ At(e, a)
                 /\ p = "merger" => Len(log) = a.refreshes + 1
        \/ Overtaken(cs, a)
        \/ p = "merger" /\ Len(log) = a.refreshes /\ ~(Ready(a) /\ At(e, a))
    BY <1>3 DEF Follows, PlanFollows
  <2>2. cs = s.cards /\ SamePair(e, q) => Ready(a) /\ At(e, a)
    BY DEF SamePair, At
  <2>3. cs = s.cards /\ p = "merger" => Len(log) = a.refreshes + 1
    BY <1>3
  <2> HIDE DEF a
  <2> QED
    BY <2>1, <2>2, <2>3
<1>4. ASSUME NEW c \in s.card PROVE Due(c, cs, r, log)
  <2>1. NextCards(Snapshot(cs, q, log)) = {}
    BY ReadySnapshot
  <2>2. HasKey(cs, c)
    BY <2>1 DEF Follows, Due
  <2> QED
    BY <2>2 DEF Due
<1>5. ASSUME p = "merger", s.pc \in Holding, NEW snap \in s.snap
      PROVE  Stands(s, snap, cs, r, log)
  <2>1. Stands(s, snap, cs, q, log) /\ Len(log) = acc.refreshes + 1
    BY <1>5 DEF Follows, Holding
  <2>2. acc.refreshes \in Nat
    BY AccTyped
  <2>3. \A e \in s.pr : SamePair(e, q) => At(e, acc)
    BY DEF SamePair, At
  <2> QED
    BY <2>1, <2>2, <2>3 DEF Stands
<1> QED
  BY <1>2, <1>3, <1>4, <1>5 DEF Follows, PlanFollows

LEMMA NextCardsOne ==
    ASSUME NEW snap, NEW c \in NextCards(snap), NEW d \in NextCards(snap)
    PROVE  c = d
BY DEF NextCards

LEMMA KeysAppend ==
    ASSUME NEW cs \in Seq(WellMade), NEW w \in WellMade
    PROVE  /\ \A c : HasKey(cs, c) => HasKey(Append(cs, w), c)
           /\ HasKey(Append(cs, w), w)
<1> DEFINE ds == Append(cs, w)
<1>1. /\ Len(cs) \in Nat /\ Len(ds) = Len(cs) + 1 /\ ds[Len(cs) + 1] = w
      /\ \A i \in 1 .. Len(cs) : ds[i] = cs[i]
  OBVIOUS
<1> HIDE DEF ds
<1>2. HasKey(ds, w)
  <2>1. Len(cs) + 1 \in 1 .. Len(ds)
    BY <1>1
  <2> QED
    BY <1>1, <2>1 DEF HasKey
<1>3. \A c : HasKey(cs, c) => HasKey(ds, c)
  <2>1. 1 .. Len(cs) \subseteq 1 .. Len(ds)
    BY <1>1
  <2> QED
    BY <1>1, <2>1 DEF HasKey
<1> QED
  BY <1>2, <1>3 DEF ds

\* Which card a chain that has begun lacks.
LEMMA MissingCard ==
    ASSUME NEW cs, Chain(cs), NEW q, ~q.merged, NEW log, Healthy(Replay(cs), q, log),
           NEW w \in NextCards(Snapshot(cs, q, log))
    PROVE  LET acc == Replay(cs)
           IN  /\ Len(log) = acc.refreshes \/ Len(log) = acc.refreshes + 1
               /\ Len(log) # acc.refreshes =>
                    Ready(acc) /\ w.kind = "branch_refresh"
               /\ Ready(acc) => ~At(q, acc)
               /\ w.kind = "branch_refresh" =>
                    Ready(acc) /\ Len(log) = acc.refreshes + 1
<1> DEFINE acc == Replay(cs)
<1>1. IntentsFit(log, acc.refreshes) /\ acc.refreshes \in Nat
  BY AccTyped DEF Healthy
<1>2. Len(log) = acc.refreshes \/ Len(log) = acc.refreshes + 1
  BY <1>1 DEF IntentsFit
<1>3. CASE Ready(acc)
  <2>1. /\ ~At(q, acc)
        /\ w = Restarted(acc, q, IF Len(log) = acc.refreshes THEN "commit_change"
                                 ELSE "branch_refresh", Len(log))
    BY <1>3, ReadySnapshot
  <2>2. w.kind = IF Len(log) = acc.refreshes THEN "commit_change"
                 ELSE "branch_refresh"
    BY <2>1 DEF Restarted
  <2> QED
    BY <1>1, <1>2, <1>3, <2>1, <2>2
<1>4. CASE ~Ready(acc)
  <2>1. ~acc.open
    BY HealthySnapshot
  <2>2. w = Onward(acc, q) /\ Len(log) = acc.refreshes
    BY <1>4, <2>1, HealthySnapshot
  <2>3. w.kind = "continue"
    BY <2>2 DEF Onward
  <2> QED
    BY <1>4, <2>2, <2>3
<1> QED
  BY <1>3, <1>4

\* The missing card is created.
LEMMA AppendOK ==
    ASSUME NEW cs, Begun(cs), NEW q \in PullRequest, ~q.merged, NEW n \in Nat,
           q.head <= n, NEW log \in Seq(BranchRefreshIntent),
           Len(log) <= MAX_BRANCH_REFRESH_COUNT, ChainOK(cs, q, n, log),
           NEW w \in WellMade, w \in NextCards(Snapshot(cs, q, log)),
           Applies(w, log)
    PROVE  /\ ChainOK(Append(cs, w), q, n, log)
           /\ HasBegun(cs) => Replay(Append(cs, w)).refreshes = Len(log)
<1> DEFINE ds == Append(cs, w)
           b == Replay(ds)
<1>1. cs \in Seq(WellMade) /\ (cs # <<>> => cs[1].kind = "root")
  BY DEF Begun, ChainOK
<1>2. /\ ds # <<>> /\ Len(ds) = Len(cs) + 1
      /\ cs # <<>> => ds[1] = cs[1]
      /\ cs = <<>> => ds[1] = w
  BY <1>1
<1>3. CASE cs = <<>>
  <2>1. w = RootCard
    BY <1>3 DEF Snapshot, NextCards, NoSnapshot
  <2>2. w.kind = "root" /\ w.result = {}
    BY <2>1 DEF RootCard
  <2>3. Len(ds) = 1 /\ ds[1] = w
    BY <1>2, <1>3, EmptyLength
  <2> HIDE DEF ds
  <2>4. ~HasBegun(ds) /\ ~HasBegun(cs)
    BY <1>3, <2>2, <2>3 DEF HasBegun
  <2>5. Single(ds)
    BY <2>2, <2>3 DEF Single
  <2>6. log = <<>> /\ q.base <= n
    BY <2>4 DEF ChainOK
  <2>7. ChainOK(ds, q, n, log)
    BY <2>2, <2>3, <2>4, <2>5, <2>6 DEF ChainOK
  <2> QED
    BY <2>4, <2>7 DEF ds
<1>4. CASE cs # <<>>
  <2>1. HasBegun(cs)
    BY <1>4, UnbegunAsks
  <2>2. Chain(cs) /\ Single(cs) /\ Healthy(Replay(cs), q, log) /\ q.base <= n
    BY <2>1, BegunChain DEF ChainOK
  <2>3. Single(ds) /\ b.refreshes = Len(log) /\ At(q, b) /\ Healthy(b, q, log)
    BY <2>2, AppendHealthy
  <2> HIDE DEF b, ds
  <2>4. HasBegun(ds) /\ ds[1].kind = "root"
    BY <1>1, <1>2, <1>4, <2>1 DEF HasBegun
  <2>5. b.flow.base <= n /\ b.flow.commit <= n
    BY <2>2, <2>3 DEF At
  <2>6. ChainOK(ds, q, n, log)
    BY <2>2, <2>3, <2>4, <2>5 DEF ChainOK, b
  <2> QED
    BY <2>3, <2>6 DEF b, ds
<1> QED
  BY <1>3, <1>4

LEMMA FollowsAppend ==
    ASSUME NEW cs, Begun(cs), NEW q \in PullRequest, ~q.merged, NEW n \in Nat,
           q.head <= n, NEW log \in Seq(BranchRefreshIntent),
           Len(log) <= MAX_BRANCH_REFRESH_COUNT, ChainOK(cs, q, n, log),
           NEW w \in WellMade, w \in NextCards(Snapshot(cs, q, log)),
           Applies(w, log),
           NEW p, p # "merger" => w.kind = "branch_refresh",
           NEW s \in Memory, Remembers(s, cs, q), Follows(p, s, cs, q, n, log)
    PROVE  Follows(p, s, Append(cs, w), q, n, log)
<1> DEFINE ds == Append(cs, w)
           a == Replay(s.cards)
           acc == Replay(cs)
<1>1. cs \in Seq(WellMade)
  BY DEF Begun
<1>2. HasBegun(cs) =>
        /\ Chain(cs) /\ Healthy(acc, q, log)
        /\ acc.refreshes \in Nat /\ Replay(ds).refreshes = Len(log)
        /\ Len(log) \in Nat
        /\ acc.flow.base <= n /\ acc.flow.commit <= n
        /\ Len(log) = acc.refreshes \/ Len(log) = acc.refreshes + 1
        /\ Len(log) # acc.refreshes => Ready(acc)
        /\ w.kind = "branch_refresh" => Len(log) = acc.refreshes + 1
        /\ Ready(acc) => ~At(q, acc)
  <2>1. HasBegun(cs) => /\ Chain(cs) /\ Healthy(acc, q, log)
                        /\ acc.flow.base <= n /\ acc.flow.commit <= n
    BY BegunChain DEF ChainOK
  <2>2. HasBegun(cs) => Replay(ds).refreshes = Len(log)
    BY AppendOK
  <2>3. HasBegun(cs) => acc.refreshes \in Nat
    BY <2>1, AccTyped
  <2>4. HasBegun(cs) =>
          /\ Len(log) = acc.refreshes \/ Len(log) = acc.refreshes + 1
          /\ Len(log) # acc.refreshes => Ready(acc) /\ w.kind = "branch_refresh"
          /\ Ready(acc) => ~At(q, acc)
          /\ w.kind = "branch_refresh" =>
               Ready(acc) /\ Len(log) = acc.refreshes + 1
    BY <2>1, MissingCard
  <2> HIDE DEF acc, ds
  <2> QED
    BY <2>1, <2>2, <2>3, <2>4
<1>3. Settled(s.cards) => HasBegun(cs) /\ a.refreshes \in Nat
  BY BegunLater, AccTyped DEF Settled
<1>4. Settled(s.cards) /\ Overtaken(cs, a) => Overtaken(ds, a)
  <2> HIDE DEF ds
  <2> QED
    BY <1>2, <1>3 DEF Overtaken
<1>5. Settled(s.cards) /\ cs = s.cards /\ p # "merger" => Overtaken(ds, a)
  <2> HIDE DEF ds
  <2> QED
    BY <1>2, <1>3 DEF Overtaken
<1>6. Settled(s.cards) /\ cs = s.cards /\ p = "merger" =>
        \/ Overtaken(ds, a)
        \/ Len(log) = a.refreshes /\ (Ready(a) => Past(a, q, n) /\ ~At(q, a))
  <2> HIDE DEF ds
  <2> QED
    BY <1>2, <1>3 DEF Overtaken, Past
<1> HIDE DEF a, ds
<1>7. ASSUME s.pc = "read", Settled(s.cards)
      PROVE  ReadFollows(p, s, ds, q, n, log)
  <2>1. \/ cs = s.cards
        \/ Overtaken(cs, a)
        \/ p = "merger" /\ Len(log) = a.refreshes /\ (Ready(a) => Past(a, q, n))
    BY <1>7 DEF Follows, ReadFollows, a
  <2>2. \/ Overtaken(ds, a)
        \/ p = "merger" /\ Len(log) = a.refreshes /\ (Ready(a) => Past(a, q, n))
    BY <1>4, <1>5, <1>6, <1>7, <2>1
  <2> QED
    BY <2>2 DEF ReadFollows, a
<1>8. ASSUME s.pc = "plan", Settled(s.cards), NEW e \in s.pr
      PROVE  \/ Overtaken(ds, a)
             \/ p = "merger" /\ Len(log) = a.refreshes /\ ~(Ready(a) /\ At(e, a))
  <2>1. \/ /\ cs = s.cards
           /\ \/ SamePair(e, q)
              \/ /\ Ready(a) /\ At(e, a)
                 /\ p = "merger" => Len(log) = a.refreshes + 1
        \/ Overtaken(cs, a)
        \/ p = "merger" /\ Len(log) = a.refreshes /\ ~(Ready(a) /\ At(e, a))
    BY <1>8 DEF Follows, PlanFollows, a
  <2>2. SamePair(e, q) /\ ~At(q, a) => ~At(e, a)
    BY DEF SamePair, At
  <2>3. a.refreshes \in Nat
    BY <1>3, <1>8
  <2>4. Len(log) = a.refreshes + 1 => Len(log) # a.refreshes
    BY <2>3
  <2> QED
    BY <1>4, <1>5, <1>6, <1>8, <2>1, <2>2, <2>4
<1>9. ASSUME NEW c \in s.card PROVE Due(c, ds, q, log)
  <2>1. HasKey(cs, c) \/ c = w
    BY NextCardsOne DEF Follows, Due
  <2>2. HasKey(ds, c)
    BY <1>1, <2>1, KeysAppend DEF ds
  <2> QED
    BY <2>2 DEF Due
<1>10. ASSUME p = "merger", s.pc \in Holding, NEW snap \in s.snap
       PROVE  Stands(s, snap, ds, q, log)
  <2>1. Stands(s, snap, cs, q, log) /\ HasBegun(cs)
    BY <1>10, BegunLater DEF Follows
  <2>2. snap.refreshes \in Nat
    BY DEF Memory, OkSnap
  <2>3. Replay(ds).refreshes > snap.refreshes
    BY <1>2, <2>1, <2>2 DEF Stands
  <2> QED
    BY <2>3 DEF Stands
<1>11. Follows(p, s, ds, q, n, log)
  BY <1>7, <1>8, <1>9, <1>10 DEF Follows, PlanFollows, a
<1> QED
  BY <1>11 DEF ds

-----------------------------------------------------------------------------
(* The intents                                                             *)

\* The newest intent is completed with what the pull request shows.
Completes(log, new, q) ==
    LET n == Len(log)
    IN  /\ Len(new) = n /\ n \in Nat \ {0} /\ ~log[n].done
        /\ \A i \in 1 .. n - 1 : new[i] = log[i]
        /\ new[n].done /\ new[n].nbase = q.base /\ new[n].nhead = q.head
        /\ new[n].ebase = log[n].ebase /\ new[n].ehead = log[n].ehead

LEMMA CompletedOK ==
    ASSUME NEW cs, Chain(cs), NEW q, ~q.merged, NEW log, NEW new,
           Healthy(Replay(cs), q, log), Completes(log, new, q), ~At(q, Replay(cs))
    PROVE  /\ Healthy(Replay(cs), q, new)
           /\ \A c : Due(c, cs, q, log) => Due(c, cs, q, new)
<1> DEFINE acc == Replay(cs)
<1>1. acc.refreshes \in Nat /\ acc.ok /\ IntentsFit(log, acc.refreshes)
  BY AccTyped DEF Healthy
<1>2. Len(log) = acc.refreshes + 1
  BY <1>1 DEF IntentsFit, Completes
<1>3. Awaits(acc, q, log)
  BY <1>1, <1>2 DEF Healthy
<1>4. IntentsFit(new, acc.refreshes) /\ Len(new) = Len(log)
  BY <1>1, <1>2 DEF IntentsFit, Completes
<1>5. Awaits(acc, q, new)
  BY <1>2, <1>3 DEF Awaits, Completes
<1>6. Healthy(acc, q, new)
  BY <1>1, <1>4, <1>5 DEF Healthy
<1>7. Ready(acc)
  BY <1>3 DEF Awaits
<1>8. ASSUME NEW c \in NextCards(Snapshot(cs, q, log))
      PROVE  c \in NextCards(Snapshot(cs, q, new))
  <2>1. c = Restarted(acc, q, IF Len(log) = acc.refreshes THEN "commit_change"
                              ELSE "branch_refresh", Len(log))
    BY <1>7, ReadySnapshot
  <2>2. Snapshot(cs, q, new).status = "ok"
    BY <1>6, HealthySnapshot
  <2>3. NextCards(Snapshot(cs, q, new)) # {}
    BY <1>1, <1>7, <2>2, ReadySnapshot
  <2>4. PICK d \in NextCards(Snapshot(cs, q, new)) : TRUE
    BY <2>3
  <2>5. d = Restarted(acc, q, IF Len(new) = acc.refreshes THEN "commit_change"
                              ELSE "branch_refresh", Len(new))
    BY <1>7, ReadySnapshot
  <2> QED
    BY <1>4, <2>1, <2>4, <2>5
<1> QED
  BY <1>6, <1>8 DEF Due

LEMMA FollowsComplete ==
    ASSUME NEW cs, Chain(cs), NEW q, ~q.merged, NEW log, NEW new, NEW n,
           Healthy(Replay(cs), q, log), Completes(log, new, q), ~At(q, Replay(cs)),
           NEW p, NEW s, Follows(p, s, cs, q, n, log)
    PROVE  Follows(p, s, cs, q, n, new)
<1>1. Len(new) = Len(log)
  BY DEF Completes
<1>2. \A c \in s.card : Due(c, cs, q, new)
  BY CompletedOK DEF Follows
<1>3. ASSUME NEW snap, Stands(s, snap, cs, q, log)
      PROVE  Stands(s, snap, cs, q, new)
  BY <1>1, <1>3 DEF Stands
<1> QED
  BY <1>1, <1>2, <1>3 DEF Follows, ReadFollows, PlanFollows

\* A new intent names the pair of the ready flow.
Reserves(log, new, acc) ==
    LET n == Len(log)
    IN  /\ n = acc.refreshes /\ Len(new) = n + 1 /\ ~new[n + 1].done
        /\ \A i \in 1 .. n : new[i] = log[i]
        /\ new[n + 1].ebase = acc.flow.base /\ new[n + 1].ehead = acc.flow.commit

LEMMA ReservedOK ==
    ASSUME NEW cs, Chain(cs), NEW q, ~q.merged, NEW log, NEW new,
           Healthy(Replay(cs), q, log), Ready(Replay(cs)), At(q, Replay(cs)),
           Reserves(log, new, Replay(cs))
    PROVE  /\ Healthy(Replay(cs), q, new)
           /\ \A c : Due(c, cs, q, log) => HasKey(cs, c)
<1> DEFINE acc == Replay(cs)
<1>1. acc.refreshes \in Nat /\ acc.ok /\ IntentsFit(log, acc.refreshes)
  BY AccTyped DEF Healthy
<1>2. IntentsFit(new, acc.refreshes)
  BY <1>1 DEF IntentsFit, Reserves
<1>3. Awaits(acc, q, new)
  BY DEF Awaits, Reserves
<1>4. \A c : c \notin NextCards(Snapshot(cs, q, log))
  BY ReadySnapshot
<1> QED
  BY <1>1, <1>2, <1>3, <1>4 DEF Healthy, Due

LEMMA FollowsReserve ==
    ASSUME NEW cs, Chain(cs), NEW q, ~q.merged, NEW log, NEW new, NEW n,
           Healthy(Replay(cs), q, log), Ready(Replay(cs)), At(q, Replay(cs)),
           Reserves(log, new, Replay(cs)),
           NEW p, p # "merger", NEW s, Follows(p, s, cs, q, n, log)
    PROVE  Follows(p, s, cs, q, n, new)
<1>1. \A c \in s.card : Due(c, cs, q, new)
  BY ReservedOK DEF Follows, Due
<1> QED
  BY <1>1 DEF Follows, ReadFollows, PlanFollows

-----------------------------------------------------------------------------
(* Loading a Task                                                          *)

LEMMA IdleFollows ==
    ASSUME NEW p, NEW cs, NEW q, NEW n, NEW log
    PROVE  Follows(p, Idle, cs, q, n, log)
BY DEF Follows, Idle, Holding

LEMMA ScanFollows ==
    ASSUME NEW p, NEW cs, NEW q, NEW n, NEW log,
           NEW s, s = [Idle EXCEPT !.pc = "read", !.cards = cs]
    PROVE  Follows(p, s, cs, q, n, log)
<1>1. s.pc = "read" /\ s.cards = cs /\ s.card = {}
  BY DEF Idle
<1> QED
  BY <1>1 DEF Follows, ReadFollows, Holding

LEMMA SeenFollows ==
    ASSUME NEW p, NEW cs, NEW q, NEW n, NEW log, NEW old \in Memory,
           old.pc = "read", Follows(p, old, cs, q, n, log),
           NEW s, s = [old EXCEPT !.pc = "plan", !.pr = {q}]
    PROVE  Follows(p, s, cs, q, n, log)
<1>1. /\ s.pc = "plan" /\ s.pr = {q} /\ s.cards = old.cards
      /\ s.card = old.card
  BY DEF Memory
<1>2. Settled(s.cards) => PlanFollows(p, s, cs, q, log)
  <2>1. Settled(old.cards) => ReadFollows(p, old, cs, q, n, log)
    BY DEF Follows
  <2> QED
    BY <1>1, <2>1 DEF ReadFollows, PlanFollows, SamePair, Past
<1> QED
  BY <1>1, <1>2 DEF Follows, Holding

\* The chain shows every refresh it counts under the key of its card.
LEMMA RefreshHasKey ==
    ASSUME NEW cs, Chain(cs), Single(cs), Replay(cs).ok, NEW log,
           \A i \in 1 .. Len(cs) : Applies(cs[i], log),
           NEW k, k = Replay(cs).refreshes, k # 0,
           NEW c, c.kind = "branch_refresh", c.step = "build", c.refreshes = k,
           c.base = log[k].nbase, c.head = log[k].nhead
    PROVE  HasKey(cs, c)
<1>1. k \in 1 .. k
  BY AccTyped
<1>2. Covered(cs, Len(cs), k)
  BY ReplayCovers DEF Covers
<1>3. PICK j \in 1 .. Len(cs) : cs[j].kind = "branch_refresh" /\ cs[j].refreshes = k
  BY <1>1, <1>2 DEF Covered
<1>4. cs[j].base = c.base /\ cs[j].head = c.head
  BY <1>3 DEF Applies, Recorded
<1>5. cs[j].step = "build"
  <2>1. cs \in Seq(WellMade) /\ cs[1].step = "build"
    BY DEF Chain
  <2>2. \A i \in 2 .. Len(cs) : cs[i].kind \in Changes => cs[i].step = "build"
    BY ReplayFollows DEF Follow
  <2>3. j = 1 \/ j \in 2 .. Len(cs)
    BY <2>1
  <2> QED
    BY <1>3, <2>1, <2>2, <2>3 DEF Changes
<1>6. Key(cs[j]) = Key(c)
  <2>1. cs[j].kind = "branch_refresh" /\ cs[j].refreshes = c.refreshes
    BY <1>3
  <2> QED
    BY ONLY c.kind = "branch_refresh", c.step = "build", <1>4, <1>5, <2>1
    DEF Key, Changes
<1> QED
  BY <1>6 DEF HasKey

\* Two views of the same commits give the same snapshot.
LEMMA SameView ==
    ASSUME NEW cs, NEW e, NEW q, SamePair(e, q), ~e.merged, ~q.merged, NEW log
    PROVE  Snapshot(cs, e, log) = Snapshot(cs, q, log)
<1>1. Seen(e) = Seen(q)
  BY DEF Seen, SamePair
<1>2. ASSUME NEW acc PROVE PendingRecovery(acc, e, log) = PendingRecovery(acc, q, log)
  BY <1>1 DEF PendingRecovery, Recovery
<1>3. ASSUME NEW acc, NEW rec
      PROVE  ReplayedSnapshot(acc, rec, e, log) = ReplayedSnapshot(acc, rec, q, log)
  BY <1>1 DEF ReplayedSnapshot
<1> QED
  BY <1>2, <1>3 DEF Snapshot

\* What a snapshot of scanned cards knows about a chain it may act on.
LEMMA ScannedChain ==
    ASSUME NEW cs, Begun(cs), NEW q, ~q.merged, NEW s \in Memory,
           Remembers(s, cs, q), NEW e \in s.pr, NEW log,
           NEW snap, snap = Snapshot(s.cards, e, log), snap.status = "ok"
    PROVE  /\ e \in PullRequest /\ ~e.merged
           /\ HasBegun(cs) /\ Chain(s.cards) /\ Chain(cs)
           /\ Replay(s.cards).ok /\ HasBegun(s.cards)
           /\ \/ NextCards(snap) # {}
              \/ snap.flow.status = "ready_to_merge"
              \/ snap.recovery = "complete"
              => Settled(s.cards)
<1>1. e \in PullRequest /\ ~e.merged
  BY DEF Memory, Remembers
<1>2. HasBegun(s.cards)
  BY DEF Snapshot, NoSnapshot, HasBegun
<1>3. HasBegun(cs) /\ Chain(s.cards)
  BY <1>2, BegunLater
<1>4. Chain(cs)
  BY <1>3, BegunChain
<1>5. /\ Replay(s.cards).ok
      /\ Replay(s.cards).open => /\ NextCards(snap) = {}
                                 /\ snap.flow.status = "running"
                                 /\ snap.recovery = "wait"
  BY <1>1, <1>3, OpenAsksNothing
<1> QED
  BY <1>1, <1>2, <1>3, <1>4, <1>5 DEF Settled

\* The counts of the chain and of the replay of an earlier stand.
LEMMA CountsFit ==
    ASSUME NEW cs, Chain(cs), NEW q, NEW log, Healthy(Replay(cs), q, log),
           NEW old, Chain(old), IntentsFit(log, Replay(old).refreshes),
           Replay(cs).refreshes > Replay(old).refreshes
    PROVE  LET k == Replay(cs).refreshes
           IN  /\ k = Len(log) /\ k = Replay(old).refreshes + 1 /\ k # 0
               /\ log[k].done
<1> DEFINE k == Replay(cs).refreshes
           j == Replay(old).refreshes
<1>1. k \in Nat /\ j \in Nat
  BY AccTyped
<1>2. IntentsFit(log, k)
  BY DEF Healthy
<1>3. k > j
  OBVIOUS
<1> HIDE DEF k, j
<1>4. Len(log) \in {k, k + 1} /\ Len(log) \in {j, j + 1}
  BY <1>2 DEF IntentsFit, j
<1>5. k = Len(log) /\ k = j + 1 /\ k # 0
  BY <1>1, <1>3, <1>4
<1>6. k \in 1 .. k
  BY <1>1, <1>5
<1>7. log[k].done
  BY <1>2, <1>6 DEF IntentsFit
<1> QED
  BY <1>5, <1>7 DEF k, j

\* A card the worker plans from what it has read is due.
LEMMA PlanDue ==
    ASSUME NEW cs, Begun(cs), NEW q, ~q.merged, NEW n, NEW log,
           ChainOK(cs, q, n, log), \A i \in 1 .. Len(cs) : Applies(cs[i], log),
           NEW s \in Memory, s.pc = "plan", Remembers(s, cs, q),
           NEW p, p # "merger", Follows(p, s, cs, q, n, log),
           NEW e \in s.pr, NEW c \in NextCards(Snapshot(s.cards, e, log))
    PROVE  Due(c, cs, q, log)
<1> DEFINE snap == Snapshot(s.cards, e, log)
           a == Replay(s.cards)
           k == Replay(cs).refreshes
<1>1. CASE s.cards = <<>>
  <2>1. c = RootCard
    BY <1>1 DEF Snapshot, NextCards, NoSnapshot
  <2>2. CASE cs = <<>>
    BY <2>1, <2>2 DEF Due, Snapshot, NextCards, NoSnapshot
  <2>3. CASE cs # <<>>
    <3>1. cs \in Seq(WellMade) /\ cs[1].kind = "root"
      BY <2>3 DEF Begun, ChainOK
    <3>2. 1 \in 1 .. Len(cs)
      BY <2>3, <3>1
    <3>3. Key(cs[1]) = Key(c)
      <4>1. c.kind = "root"
        BY <2>1 DEF RootCard
      <4> QED
        BY ONLY <3>1, <4>1 DEF Key, Changes
    <3> QED
      BY <3>2, <3>3 DEF Due, HasKey
  <2> QED
    BY <2>2, <2>3
<1>2. CASE s.cards # <<>>
  <2>1. HasBegun(s.cards)
    BY <1>2, UnbegunAsks
  <2>2. snap.status \in {"ok", "missing"}
    BY DEF NextCards
  <2>3. snap.status = "ok"
    <3>1. s.cards \in Seq(WellMade) /\ (s.cards # <<>> => s.cards[1].step = "build")
      BY DEF Remembers, Begun
    <3>2. Seen(e) \in [base : Commit, head : Commit]
      BY SeenTyped DEF Memory
    <3>3. snap.status = "missing" => s.cards = <<>>
      BY <3>1, <3>2, SnapshotTyped
    <3> QED
      BY <1>2, <2>2, <3>3
  <2>4. /\ e \in PullRequest /\ ~e.merged /\ Settled(s.cards)
        /\ HasBegun(cs) /\ Chain(s.cards) /\ Chain(cs) /\ a.ok
    BY <2>3, ScannedChain
  <2>5. \/ cs = s.cards /\ (SamePair(e, q) \/ (Ready(a) /\ At(e, a)))
        \/ Overtaken(cs, a)
    <3>1. PlanFollows(p, s, cs, q, log)
      BY <2>4 DEF Follows
    <3> QED
      BY ONLY <3>1, e \in s.pr, p # "merger" DEF PlanFollows, a
  <2>6. ASSUME Ready(a)
        PROVE  /\ IntentsFit(log, a.refreshes) /\ ~At(e, a)
               /\ c = Restarted(a, e, IF Len(log) = a.refreshes
                                        THEN "commit_change"
                                        ELSE "branch_refresh", Len(log))
               /\ Len(log) # a.refreshes /\ log[Len(log)].done =>
                    /\ log[Len(log)].nbase = e.base
                    /\ log[Len(log)].nhead = e.head
    BY <2>4, <2>6, ReadySnapshot
  <2>7. CASE cs = s.cards /\ SamePair(e, q)
    BY <2>4, <2>7, SameView DEF Due
  <2>8. CASE Overtaken(cs, a)
    <3>1. Ready(a) /\ k > a.refreshes
      BY <2>8 DEF Overtaken
    <3>2. Healthy(Replay(cs), q, log) /\ Single(cs)
      BY <2>4 DEF ChainOK
    <3>3. k = Len(log) /\ k = a.refreshes + 1 /\ k # 0 /\ log[k].done
      BY <2>4, <2>6, <3>1, <3>2, CountsFit
    <3>4. a.refreshes \in Nat
      BY <2>4, AccTyped
    <3> HIDE DEF k, a
    <3>5. c = Restarted(a, e, "branch_refresh", k)
      BY <2>6, <3>1, <3>3, <3>4
    <3>6. log[k].nbase = e.base /\ log[k].nhead = e.head
      BY <2>6, <3>1, <3>3, <3>4
    <3>7. /\ c.kind = "branch_refresh" /\ c.step = "build" /\ c.refreshes = k
          /\ c.base = log[k].nbase /\ c.head = log[k].nhead
      BY <3>5, <3>6 DEF Restarted
    <3>8. Replay(cs).ok
      BY <3>2 DEF Healthy
    <3>9. HasKey(cs, c)
      BY <2>4, <3>2, <3>3, <3>7, <3>8, RefreshHasKey DEF k
    <3> QED
      BY <3>9 DEF Due
  <2> HIDE DEF a
  <2> QED
    BY <2>5, <2>6, <2>7, <2>8
<1> QED
  BY <1>1, <1>2

\* The merger goes on only with a snapshot that stands.
LEMMA PlanStands ==
    ASSUME NEW cs, Begun(cs), NEW q, ~q.merged, NEW n, NEW log,
           NEW s \in Memory, s.pc = "plan", Remembers(s, cs, q),
           Follows("merger", s, cs, q, n, log),
           NEW e \in s.pr, NEW snap, snap = Snapshot(s.cards, e, log),
           snap.status = "ok", snap.flow.status = "ready_to_merge",
           NEW t, t.pr = {}
    PROVE  Stands(t, snap, cs, q, log) /\ snap.recovery # "complete"
<1> DEFINE a == Replay(s.cards)
<1>1. /\ e \in PullRequest /\ ~e.merged /\ Settled(s.cards)
      /\ HasBegun(cs) /\ Chain(s.cards) /\ a.ok
  BY ScannedChain
<1>2. Ready(a)
  BY <1>1, OpenAsksNothing
<1>3. /\ At(e, a) /\ snap.flow = a.flow /\ snap.last = a.last
      /\ snap.base = e.base /\ snap.head = e.head /\ snap.refreshes = a.refreshes
      /\ snap.recovery # "complete"
  BY <1>1, <1>2, ReadySnapshot
<1>4. \/ cs = s.cards /\ SamePair(e, q)
      \/ cs = s.cards /\ Len(log) = a.refreshes + 1
      \/ Overtaken(cs, a)
  BY <1>1, <1>2, <1>3 DEF Follows, PlanFollows
<1>5. a.refreshes \in Nat
  BY <1>1, AccTyped
<1>6. CASE Overtaken(cs, a)
  BY <1>3, <1>6 DEF Overtaken, Stands
<1>7. CASE cs = s.cards /\ (SamePair(e, q) \/ Len(log) = a.refreshes + 1)
  <2>1. Len(log) = a.refreshes => At(q, a)
    <3>1. Len(log) = a.refreshes + 1 => Len(log) # a.refreshes
      BY <1>5
    <3>2. SamePair(e, q) => At(q, a)
      BY <1>3 DEF SamePair, At
    <3> QED
      BY <1>7, <3>1, <3>2
  <2> HIDE DEF a
  <2>2. a = Replay(cs)
    BY <1>7 DEF a
  <2> QED
    BY <1>2, <1>3, <2>1, <2>2 DEF Stands, At
<1> QED
  BY <1>3, <1>4, <1>6, <1>7

\* The replay completes an intent with what the pull request shows now.
LEMMA PlanCompletes ==
    ASSUME NEW cs, Begun(cs), NEW q, ~q.merged, NEW n, NEW log,
           ChainOK(cs, q, n, log),
           NEW s \in Memory, s.pc = "plan", Remembers(s, cs, q),
           NEW p, Follows(p, s, cs, q, n, log),
           NEW e \in s.pr, NEW snap, snap = Snapshot(s.cards, e, log),
           snap.status = "ok", snap.recovery = "complete"
    PROVE  /\ HasBegun(cs) /\ ~log[Len(log)].done /\ Len(log) # 0
           /\ Seen(e).base = q.base /\ Seen(e).head = q.head
           /\ ~At(q, Replay(cs))
<1> DEFINE a == Replay(s.cards)
           rec == PendingRecovery(a, e, log)
<1>1. /\ e \in PullRequest /\ ~e.merged /\ Settled(s.cards)
      /\ HasBegun(cs) /\ Chain(s.cards) /\ Chain(cs) /\ a.ok
  BY ScannedChain
<1>2. rec = "complete" /\ IntentsFit(log, a.refreshes)
  BY <1>1, SnapshotFields
<1>3. Seen(e).base = e.base /\ Seen(e).head = e.head
  BY <1>1 DEF Seen
<1>4. Len(log) = a.refreshes + 1 /\ ~At(e, a) /\ ~log[Len(log)].done
  BY <1>2, <1>3, RecoveryMeans DEF At
<1>5. a.refreshes \in Nat
  BY <1>1, AccTyped
<1>6. Healthy(Replay(cs), q, log)
  BY <1>1 DEF ChainOK
<1>7. ~(Replay(cs).refreshes > a.refreshes)
  BY <1>1, <1>2, <1>4, <1>6, CountsFit
<1>8. cs = s.cards /\ SamePair(e, q)
  <2>1. Len(log) # a.refreshes
    BY <1>4, <1>5
  <2>2. \/ cs = s.cards /\ (SamePair(e, q) \/ (Ready(a) /\ At(e, a)))
        \/ Overtaken(cs, a)
        \/ Len(log) = a.refreshes
    <3>1. PlanFollows(p, s, cs, q, log)
      BY <1>1 DEF Follows
    <3> QED
      BY ONLY <3>1, e \in s.pr DEF PlanFollows, a
  <2> HIDE DEF a, rec
  <2> QED
    BY <1>4, <1>7, <2>1, <2>2 DEF Overtaken
<1>9. ~At(q, Replay(cs))
  BY <1>4, <1>8 DEF SamePair, At
<1> QED
  BY <1>1, <1>3, <1>4, <1>5, <1>8, <1>9 DEF SamePair

-----------------------------------------------------------------------------
(* The invariant of a calm Task                                            *)

\* A branch update that GitHub would still do is the one the newest intent is
\* there for.
Updates ==
    \A m \in wire : m.op = "update" =>
       /\ m.sha <= top
       /\ m.sha = pr.head =>
             /\ Built /\ Len(intents) = Replay(cards).refreshes + 1
             /\ ~Intent.done /\ At(pr, Replay(cards))

Steady ==
    ~pr.merged =>
       /\ ChainOK(cards, pr, top, intents) /\ Updates
       /\ \A p \in Process : Follows(p, proc[p], cards, pr, top, intents)

LEMMA SteadyFacts ==
    ASSUME IInv, RInv, Steady, ~pr.merged
    PROVE  /\ Begun(cards) /\ cards \in Seq(WellMade) /\ pr \in PullRequest
           /\ top \in Nat /\ pr.head \in Nat /\ pr.head <= top
           /\ pr.base \in Nat /\ pr.base <= top
           /\ intents \in Seq(BranchRefreshIntent)
           /\ Len(intents) <= MAX_BRANCH_REFRESH_COUNT
           /\ ChainOK(cards, pr, top, intents) /\ Updates
           /\ \A i \in 1 .. Len(cards) : Applies(cards[i], intents)
           /\ \A p \in Process : /\ proc[p] \in Memory
                                 /\ Remembers(proc[p], cards, pr)
                                 /\ Follows(p, proc[p], cards, pr, top, intents)
           /\ Built <=> HasBegun(cards)
           /\ Built => /\ Chain(cards) /\ Single(cards) /\ Replay(cards).ok
                       /\ Healthy(Replay(cards), pr, intents)
<1>1. /\ Begun(cards) /\ cards \in Seq(WellMade) /\ pr \in PullRequest
      /\ top \in Commit /\ pr.head <= top
      /\ intents \in Seq(BranchRefreshIntent)
  BY DEF IInv, StoresOK, Begun
<1>2. pr.head \in Commit /\ pr.base \in Commit
  BY <1>1 DEF PullRequest
<1>3. ChainOK(cards, pr, top, intents) /\ Updates
  BY DEF Steady
<1>4. /\ Len(intents) <= MAX_BRANCH_REFRESH_COUNT
      /\ \A i \in 1 .. Len(cards) : Applies(cards[i], intents)
  BY DEF RInv, RefreshesOK
<1>5. \A p \in Process : /\ proc[p] \in Memory
                         /\ Remembers(proc[p], cards, pr)
                         /\ Follows(p, proc[p], cards, pr, top, intents)
  BY DEF Steady, IInv, ProcessesOK
<1>6. Built <=> HasBegun(cards)
  BY DEF Built, HasBegun
<1>7. Built => /\ Chain(cards) /\ Single(cards) /\ Replay(cards).ok
               /\ Healthy(Replay(cards), pr, intents)
  BY <1>1, <1>3, <1>6, BegunChain DEF ChainOK, Healthy
<1>8. pr.base <= top
  BY <1>3 DEF ChainOK
<1> QED
  BY <1>1, <1>2, <1>3, <1>4, <1>5, <1>6, <1>7, <1>8, CommitAssumption

\* A process moves, and what the other one remembers still fits.
LEMMA SteadyStep ==
    ASSUME IInv, NEW p \in Process, NEW s, Become(p, s),
           ~pr'.merged =>
              /\ ChainOK(cards', pr', top', intents') /\ Updates'
              /\ Follows(p, s, cards', pr', top', intents')
              /\ \A o \in Process : o # p =>
                    Follows(o, proc[o], cards', pr', top', intents')
    PROVE  Steady'
<1>1. DOMAIN proc = Process
  BY Stores
<1>2. \A o \in Process : proc'[o] = IF o = p THEN s ELSE proc[o]
  BY <1>1 DEF Become
<1> QED
  BY <1>2 DEF Steady

\* Only a process moves, or requests disappear.
LEMMA SteadyMove ==
    ASSUME IInv, RInv, Steady, UNCHANGED <<cards, pr, top, intents>>,
           \A m \in wire' : m.op = "update" => m \in wire,
           \/ UNCHANGED proc
           \/ \E p \in Process : \E s :
                 /\ Become(p, s)
                 /\ ~pr.merged => Follows(p, s, cards, pr, top, intents)
    PROVE  Steady'
<1>1. Updates => Updates'
  BY DEF Updates, Built, Intent
<1>2. CASE UNCHANGED proc
  BY <1>1, <1>2 DEF Steady
<1>3. ASSUME NEW p \in Process, NEW s, Become(p, s),
             ~pr.merged => Follows(p, s, cards, pr, top, intents)
      PROVE  Steady'
  <2>1. ~pr'.merged =>
           /\ ChainOK(cards', pr', top', intents') /\ Updates'
           /\ Follows(p, s, cards', pr', top', intents')
           /\ \A o \in Process : o # p =>
                 Follows(o, proc[o], cards', pr', top', intents')
    BY <1>1, <1>3 DEF Steady
  <2> QED
    BY <1>3, <2>1, SteadyStep
<1> QED
  BY <1>2, <1>3

\* No update GitHub would still do is under way.
LEMMA NoUpdates ==
    ASSUME Updates,
           ~(/\ Built /\ Len(intents) = Replay(cards).refreshes + 1
             /\ ~Intent.done /\ At(pr, Replay(cards)))
    PROVE  \A m \in wire : m.op = "update" => m.sha <= top /\ m.sha # pr.head
BY DEF Updates

LEMMA IdleSteady ==
    ASSUME IInv, RInv, Steady, UNCHANGED <<cards, pr, top, intents>>,
           \A m \in wire' : m.op = "update" => m \in wire,
           NEW p \in Process, Become(p, Idle)
    PROVE  Steady'
BY SteadyMove, IdleFollows

\* A creator finds the key taken, or creates the card that is missing.
LEMMA CreateSteady ==
    ASSUME IInv, RInv, Steady, NEW p \in Process, NEW c \in WellMade,
           Applies(c, intents), p = "merger" => c.kind = "branch_refresh",
           ~pr.merged => Due(c, cards, pr, intents), CreateCard(p, c)
    PROVE  Steady'
<1>1. /\ Become(p, Idle) /\ UNCHANGED <<pr, top, intents, wire>>
      /\ \/ cards' = cards
         \/ cards' = Append(cards, c) /\ ~HasKey(cards, c)
  BY DEF CreateCard, database
<1>2. CASE cards' = cards
  BY <1>1, <1>2, IdleSteady
<1>3. CASE cards' = Append(cards, c) /\ ~HasKey(cards, c)
  <2> SUFFICES ASSUME ~pr'.merged
               PROVE  /\ ChainOK(cards', pr', top', intents') /\ Updates'
                      /\ Follows(p, Idle, cards', pr', top', intents')
                      /\ \A o \in Process : o # p =>
                            Follows(o, proc[o], cards', pr', top', intents')
    BY <1>1, SteadyStep
  <2>1. ~pr.merged
    BY <1>1
  <2>2. c \in NextCards(Snapshot(cards, pr, intents))
    BY <1>3, <2>1 DEF Due
  <2>3. /\ Begun(cards) /\ pr \in PullRequest /\ top \in Nat /\ pr.head <= top
        /\ intents \in Seq(BranchRefreshIntent)
        /\ Len(intents) <= MAX_BRANCH_REFRESH_COUNT
        /\ ChainOK(cards, pr, top, intents) /\ Updates
    BY <2>1, SteadyFacts
  <2>4. ChainOK(Append(cards, c), pr, top, intents)
    BY <2>1, <2>2, <2>3, AppendOK
  <2>5. ASSUME NEW o \in Process, o # p
        PROVE  Follows(o, proc[o], Append(cards, c), pr, top, intents)
    <3>1. /\ proc[o] \in Memory /\ Remembers(proc[o], cards, pr)
          /\ Follows(o, proc[o], cards, pr, top, intents)
      BY <2>1, SteadyFacts
    <3>2. o # "merger" => c.kind = "branch_refresh"
      BY <2>5 DEF Process
    <3> QED
      BY <2>1, <2>2, <2>3, <3>1, <3>2, FollowsAppend
  <2>6. Updates'
    <3>1. ~(/\ Built /\ Len(intents) = Replay(cards).refreshes + 1
            /\ ~Intent.done /\ At(pr, Replay(cards)))
      <4>1. ASSUME Built PROVE Chain(cards) /\ Healthy(Replay(cards), pr, intents)
        BY <2>1, <4>1, SteadyFacts
      <4>2. ASSUME Built, Len(intents) = Replay(cards).refreshes + 1
            PROVE  ~At(pr, Replay(cards))
        <5>1. Replay(cards).refreshes \in Nat
          BY <4>1, <4>2, AccTyped
        <5>2. Len(intents) # Replay(cards).refreshes
          BY <4>2, <5>1
        <5>3. Ready(Replay(cards))
          BY <4>1, <4>2, <5>2 DEF Healthy, Awaits
        <5> QED
          BY <2>1, <2>2, <4>1, <4>2, <5>3, ReadySnapshot
      <4> QED
        BY <4>2
    <3>2. \A m \in wire : m.op = "update" => m.sha <= top /\ m.sha # pr.head
      BY <2>3, <3>1, NoUpdates
    <3> QED
      BY <1>1, <3>2 DEF Updates
  <2> QED
    BY <1>1, <1>3, <2>4, <2>5, <2>6, IdleFollows
<1> QED
  BY <1>1, <1>2, <1>3

\* Somebody completes the newest intent with what the pull request shows.
LEMMA CompleteSteady ==
    ASSUME IInv, RInv, Steady, UNCHANGED <<cards, pr, top, wire>>,
           NEW seen, CompleteIntent(seen), NEW p \in Process, NEW s, Become(p, s),
           ~pr.merged =>
              /\ Built /\ intents # <<>> /\ ~Intent.done
              /\ seen.base = pr.base /\ seen.head = pr.head
              /\ ~At(pr, Replay(cards))
              /\ Follows(p, s, cards, pr, top, intents)
    PROVE  Steady'
<1> SUFFICES ASSUME ~pr'.merged
             PROVE  /\ ChainOK(cards', pr', top', intents') /\ Updates'
                    /\ Follows(p, s, cards', pr', top', intents')
                    /\ \A o \in Process : o # p =>
                          Follows(o, proc[o], cards', pr', top', intents')
  BY SteadyStep
<1>1. ~pr.merged
  OBVIOUS
<1>2. /\ intents \in Seq(BranchRefreshIntent) /\ Updates
      /\ ChainOK(cards, pr, top, intents)
      /\ Built /\ HasBegun(cards) /\ Chain(cards)
      /\ Healthy(Replay(cards), pr, intents)
      /\ \A o \in Process : Follows(o, proc[o], cards, pr, top, intents)
  BY <1>1, SteadyFacts
<1> DEFINE n == Len(intents)
           new == [intents[n] EXCEPT !.done = TRUE, !.nbase = seen.base,
                                     !.nhead = seen.head]
<1>3. n \in Nat \ {0} /\ n \in 1 .. n /\ intents[n] \in BranchRefreshIntent
  BY <1>1, <1>2
<1>4. intents' = [intents EXCEPT ![n] = new]
  BY DEF CompleteIntent
<1>5. /\ new.done /\ new.nbase = seen.base /\ new.nhead = seen.head
      /\ new.ebase = intents[n].ebase /\ new.ehead = intents[n].ehead
  BY <1>3 DEF BranchRefreshIntent
<1>6. ~intents[n].done
  BY <1>1 DEF Intent
<1> HIDE DEF new
<1>7. /\ Len(intents') = n /\ intents'[n] = new
      /\ \A i \in 1 .. n - 1 : intents'[i] = intents[i]
  BY <1>2, <1>3, <1>4
<1>8. Completes(intents, intents', pr)
  <2> HIDE DEF n
  <2> QED
    BY <1>1, <1>3, <1>5, <1>6, <1>7 DEF Completes, n
<1> HIDE DEF n
<1>9. Healthy(Replay(cards), pr, intents')
  BY <1>1, <1>2, <1>8, CompletedOK
<1>10. ChainOK(cards, pr, top, intents')
  BY <1>2, <1>9 DEF ChainOK
<1>11. ASSUME NEW o, NEW t, Follows(o, t, cards, pr, top, intents)
       PROVE  Follows(o, t, cards, pr, top, intents')
  BY <1>1, <1>2, <1>8, <1>11, FollowsComplete
<1>12. \A m \in wire : m.op = "update" => m.sha <= top /\ m.sha # pr.head
  BY <1>1, <1>2, NoUpdates
<1>13. Updates'
  BY <1>12 DEF Updates
<1> QED
  BY <1>1, <1>2, <1>10, <1>11, <1>13

-----------------------------------------------------------------------------
(* Steps of loading and of the worker                                      *)

LEMMA LoadSteady ==
    ASSUME IInv, RInv, Steady, NEW p \in Process, Scan(p) \/ Read(p) \/ Crash(p)
    PROVE  Steady'
<1>1. UNCHANGED <<cards, pr, top, intents, wire>>
  BY DEF Scan, Read, Crash, database
<1>2. CASE Scan(p)
  <2>1. Become(p, [Idle EXCEPT !.pc = "read", !.cards = cards])
    BY <1>2 DEF Scan
  <2> QED
    BY <1>1, <2>1, SteadyMove, ScanFollows
<1>3. CASE Become(p, Idle)
  BY <1>1, <1>3, IdleSteady
<1>4. CASE proc[p].pc = "read" /\ Become(p, [proc[p] EXCEPT !.pc = "plan", !.pr = {pr}])
  <2> DEFINE s == [proc[p] EXCEPT !.pc = "plan", !.pr = {pr}]
  <2>1. ASSUME ~pr.merged PROVE Follows(p, s, cards, pr, top, intents)
    <3>1. proc[p] \in Memory /\ Follows(p, proc[p], cards, pr, top, intents)
      BY <2>1, SteadyFacts
    <3> QED
      BY <1>4, <3>1, SeenFollows
  <2> HIDE DEF s
  <2> QED
    BY <1>1, <1>4, <2>1, SteadyMove DEF s
<1> QED
  BY <1>2, <1>3, <1>4 DEF Read, Crash

\* What a process does with its snapshot fits the chain as it is now.
LEMMA ContinueFollows ==
    ASSUME IInv, RInv, Steady, ~pr.merged, NEW p \in Process, proc[p].pc = "plan",
           NEW seen \in proc[p].pr,
           NEW snap, snap = Snapshot(proc[p].cards, seen, intents)
    PROVE  Follows(p, Continue(p, snap), cards, pr, top, intents)
<1> SUFFICES ASSUME NEW s, s = Continue(p, snap)
             PROVE  Follows(p, s, cards, pr, top, intents)
  OBVIOUS
<1>1. /\ Begun(cards) /\ ChainOK(cards, pr, top, intents)
      /\ \A i \in 1 .. Len(cards) : Applies(cards[i], intents)
      /\ proc[p] \in Memory /\ Remembers(proc[p], cards, pr)
      /\ Follows(p, proc[p], cards, pr, top, intents)
  BY SteadyFacts
<1>2. CASE s = Idle
  BY <1>2, IdleFollows
<1>3. ASSUME p # "merger", NEW made, made \subseteq NextCards(snap),
             s = [Idle EXCEPT !.pc = "create", !.card = made]
      PROVE  Follows(p, s, cards, pr, top, intents)
  <2>1. s.pc = "create" /\ s.card = made
    BY <1>3 DEF Idle
  <2>2. \A c \in made : Due(c, cards, pr, intents)
    BY <1>1, <1>3, PlanDue
  <2> QED
    BY <2>1, <2>2 DEF Follows, Holding
<1>4. ASSUME p = "merger", snap.status = "ok",
             snap.flow.status = "ready_to_merge",
             s = [Idle EXCEPT !.pc = "evidence", !.snap = {snap}]
      PROVE  Follows(p, s, cards, pr, top, intents)
  <2>1. /\ s.pc = "evidence" /\ s.card = {} /\ s.snap = {snap} /\ s.pr = {}
    BY <1>4 DEF Idle
  <2>2. Stands(s, snap, cards, pr, intents)
    BY <1>1, <1>4, <2>1, PlanStands
  <2> QED
    BY <2>1, <2>2 DEF Follows
<1>5. \/ s = Idle
      \/ /\ p # "merger"
         /\ \E made : /\ made \subseteq NextCards(snap)
                      /\ s = [Idle EXCEPT !.pc = "create", !.card = made]
      \/ /\ p = "merger" /\ snap.status = "ok"
         /\ snap.flow.status = "ready_to_merge"
         /\ s = [Idle EXCEPT !.pc = "evidence", !.snap = {snap}]
  BY DEF Continue, Process
<1> QED
  BY <1>2, <1>3, <1>4, <1>5

LEMMA PlanSteady ==
    ASSUME IInv, RInv, Steady, NEW p \in Process, Plan(p)
    PROVE  Steady'
<1>1. proc[p].pc = "plan" /\ UNCHANGED <<cards, pr, top, wire>>
  BY DEF Plan
<1>2. PICK seen \in proc[p].pr :
        LET snap == Snapshot(proc[p].cards, seen, intents)
        IN  \/ Become(p, Idle) /\ UNCHANGED intents
            \/ /\ IF snap.recovery = "complete"
                    THEN lock = "free" /\ CompleteIntent(Seen(seen))
                    ELSE UNCHANGED intents
               /\ Become(p, Continue(p, snap))
  BY DEF Plan
<1> DEFINE snap == Snapshot(proc[p].cards, seen, intents)
           s == Continue(p, snap)
<1>3. ~pr.merged => Follows(p, s, cards, pr, top, intents)
  BY <1>1, ContinueFollows
<1> HIDE DEF s
<1>4. CASE Become(p, Idle) /\ UNCHANGED intents
  BY <1>1, <1>4, IdleSteady
<1>5. CASE UNCHANGED intents /\ Become(p, s)
  BY <1>1, <1>3, <1>5, SteadyMove
<1>6. CASE /\ snap.recovery = "complete" /\ CompleteIntent(Seen(seen))
           /\ Become(p, s)
  <2>1. ASSUME ~pr.merged
        PROVE  /\ Built /\ intents # <<>> /\ ~Intent.done
               /\ Seen(seen).base = pr.base /\ Seen(seen).head = pr.head
               /\ ~At(pr, Replay(cards))
    <3>1. /\ Begun(cards) /\ ChainOK(cards, pr, top, intents)
          /\ proc[p] \in Memory /\ Remembers(proc[p], cards, pr)
          /\ Follows(p, proc[p], cards, pr, top, intents)
          /\ Built <=> HasBegun(cards)
      BY <2>1, SteadyFacts
    <3>2. snap.status = "ok"
      <4>1. /\ proc[p].cards \in Seq(WellMade)
            /\ proc[p].cards # <<>> => proc[p].cards[1].step = "build"
        BY <3>1 DEF Remembers, Begun
      <4>2. Seen(seen) \in [base : Commit, head : Commit]
        BY <3>1, SeenTyped DEF Memory
      <4> QED
        BY <1>6, <4>1, <4>2, SnapshotTyped
    <3>3. /\ HasBegun(cards) /\ ~intents[Len(intents)].done /\ Len(intents) # 0
          /\ Seen(seen).base = pr.base /\ Seen(seen).head = pr.head
          /\ ~At(pr, Replay(cards))
      <4> HIDE DEF snap
      <4> QED
        BY <1>1, <1>6, <2>1, <3>1, <3>2, PlanCompletes DEF snap
    <3>4. intents # <<>>
      <4>1. intents = <<>> => Len(intents) = 0
        BY EmptyLength
      <4> QED
        BY ONLY <3>3, <4>1
    <3> QED
      BY <3>1, <3>3, <3>4 DEF Intent
  <2> QED
    BY <1>1, <1>3, <1>6, <2>1, CompleteSteady
<1> QED
  BY <1>2, <1>4, <1>5, <1>6 DEF s

LEMMA WorkerCreateSteady ==
    ASSUME IInv, RInv, Steady, WorkerCreate
    PROVE  Steady'
<1>1. PICK c \in proc["worker"].card : CreateCard("worker", c)
  BY DEF WorkerCreate
<1>2. "worker" \in Process
  BY DEF Process
<1>3. c \in WellMade /\ Applies(c, intents)
  BY <1>2 DEF IInv, ProcessesOK, Memory, RInv, Plans
<1>4. ASSUME ~pr.merged PROVE Due(c, cards, pr, intents)
  <2>1. Follows("worker", proc["worker"], cards, pr, top, intents)
    BY <1>2, <1>4, SteadyFacts
  <2> QED
    BY <2>1 DEF Follows
<1> QED
  BY <1>1, <1>2, <1>3, <1>4, CreateSteady

-----------------------------------------------------------------------------
(* Steps of the merger                                                     *)

LEMMA MergerStands ==
    ASSUME IInv, RInv, Steady, ~pr.merged, Merger.pc \in Holding
    PROVE  /\ Merger \in Memory /\ Remembers(Merger, cards, pr)
           /\ Follows("merger", Merger, cards, pr, top, intents)
           /\ Built /\ Chain(cards) /\ Healthy(Replay(cards), pr, intents)
           /\ Replay(cards).refreshes \in Nat
           /\ Snap \in OkSnap /\ Snap.refreshes \in Nat
           /\ Stands(Merger, Snap, cards, pr, intents)
           /\ \A snap \in Merger.snap : Stands(Merger, snap, cards, pr, intents)
           /\ Merger.pc # "evidence" => Evidence \in Merger.pr
<1>1. /\ Merger \in Memory /\ Remembers(Merger, cards, pr)
      /\ Follows("merger", Merger, cards, pr, top, intents)
  BY SteadyFacts DEF Merger, Process
<1>2. HasBegun(cards) /\ Built
  BY <1>1, SteadyFacts, BegunLater
<1>3. Chain(cards) /\ Healthy(Replay(cards), pr, intents)
  BY <1>2, SteadyFacts
<1>4. Snap \in OkSnap /\ Snap.refreshes \in Nat /\ Snap \in Merger.snap
  BY <1>1, MergerHolds DEF OkSnap, Remembers, Snap
<1>5. \A snap \in Merger.snap : Stands(Merger, snap, cards, pr, intents)
  BY <1>1 DEF Follows
<1>6. Merger.pc # "evidence" => Evidence \in Merger.pr
  BY <1>1 DEF Remembers, Evidence
<1> QED
  BY <1>1, <1>2, <1>3, <1>4, <1>5, <1>6, AccTyped

\* While the intent of its snapshot is open, the merger sees the chain as it is.
LEMMA MergerCurrent ==
    ASSUME IInv, RInv, Steady, ~pr.merged, Merger.pc \in Holding,
           Ahead, ~Intent.done
    PROVE  LET acc == Replay(cards)
           IN  /\ Ready(acc) /\ Len(intents) = acc.refreshes + 1
               /\ Snap.refreshes = acc.refreshes
               /\ Snap.base = acc.flow.base /\ Snap.head = acc.flow.commit
               /\ \A e \in Merger.pr : SamePair(e, pr) \/ At(e, acc)
<1> DEFINE k == Replay(cards).refreshes
<1>1. /\ Healthy(Replay(cards), pr, intents) /\ k \in Nat
      /\ Snap.refreshes \in Nat /\ Stands(Merger, Snap, cards, pr, intents)
  BY MergerStands
<1>2. Len(intents) = Snap.refreshes + 1 /\ ~intents[Len(intents)].done
  BY DEF Ahead, Intent
<1>3. ~(k > Snap.refreshes)
  <2>1. IntentsFit(intents, k)
    BY <1>1 DEF Healthy
  <2> HIDE DEF k
  <2> QED
    BY <1>1, <1>2, <2>1 DEF IntentsFit
<1> QED
  BY <1>2, <1>3 , <1>1 DEF Stands

\* The merger keeps its snapshot and goes to another place.
LEMMA GoesFollows ==
    ASSUME NEW old \in Memory, old.pc \in Holding, NEW pc \in Holding,
           NEW cs, NEW q, NEW n, NEW log,
           Follows("merger", old, cs, q, n, log),
           NEW s, s = [old EXCEPT !.pc = pc]
    PROVE  /\ Follows("merger", s, cs, q, n, log)
           /\ s.pc = pc /\ s.snap = old.snap /\ s.pr = old.pr /\ s.card = old.card
<1>1. s.pc = pc /\ s.snap = old.snap /\ s.pr = old.pr /\ s.card = old.card
  BY DEF Memory
<1>2. \A snap \in s.snap : Stands(s, snap, cs, q, log)
  BY <1>1 DEF Follows, Stands
<1> QED
  BY <1>1, <1>2 DEF Follows, Holding

\* The merger reads the pull request again.
LEMMA EvidenceFollows ==
    ASSUME NEW old \in Memory, old.pc \in Holding, NEW pc \in Holding,
           NEW cs, NEW q, NEW n, NEW log,
           Follows("merger", old, cs, q, n, log),
           NEW s, s = [old EXCEPT !.pc = pc, !.pr = {q}]
    PROVE  Follows("merger", s, cs, q, n, log)
<1>1. s.pc = pc /\ s.snap = old.snap /\ s.pr = {q} /\ s.card = old.card
  BY DEF Memory
<1>2. \A snap \in s.snap : Stands(s, snap, cs, q, log)
  BY <1>1 DEF Follows, Stands, SamePair
<1> QED
  BY <1>1, <1>2 DEF Follows, Holding

LEMMA GoesSteady ==
    ASSUME IInv, RInv, Steady, UNCHANGED <<cards, pr, top, intents>>,
           \A m \in wire' : m.op = "update" => m \in wire,
           Merger.pc \in Holding, NEW pc \in Holding, MergerGoes(pc)
    PROVE  Steady'
<1> DEFINE s == [Merger EXCEPT !.pc = pc]
<1>1. ~pr.merged => Follows("merger", s, cards, pr, top, intents)
  BY MergerStands, GoesFollows
<1>2. Become("merger", s) /\ "merger" \in Process
  BY DEF MergerGoes, Process
<1> HIDE DEF s
<1> QED
  BY <1>1, <1>2, SteadyMove

LEMMA DecideSteady ==
    ASSUME IInv, RInv, Steady,
           \/ ReadEvidence \/ Resume \/ LockForMerge \/ LockForRefresh
    PROVE  Steady'
<1>1. UNCHANGED <<cards, pr, top, intents, wire>> /\ Merger.pc \in Holding
  BY DEF ReadEvidence, Resume, LockForMerge, LockForRefresh, database, MergerAt,
         Holding
<1>2. CASE ReadEvidence
  <2> DEFINE s == [Merger EXCEPT !.pc = "decide", !.pr = {pr}]
  <2>1. ~pr.merged => Follows("merger", s, cards, pr, top, intents)
    BY <1>1, MergerStands, EvidenceFollows DEF Holding
  <2>2. Become("merger", s) /\ "merger" \in Process
    BY <1>2 DEF ReadEvidence, Process
  <2> HIDE DEF s
  <2> QED
    BY <1>1, <2>1, <2>2, SteadyMove
<1>3. ASSUME NEW pc \in Holding, MergerGoes(pc) PROVE Steady'
  BY <1>1, <1>3, GoesSteady
<1> QED
  BY <1>2, <1>3 DEF Resume, LockForMerge, LockForRefresh, Holding

LEMMA MergerEndsSteady ==
    ASSUME IInv, RInv, Steady,
           \/ ObserveMerge \/ Decline \/ RefreshError \/ UpdateNotSeen \/ VerifyMerge
    PROVE  Steady'
<1>1. /\ UNCHANGED <<cards, pr, top, intents, wire>> /\ "merger" \in Process
      /\ Become("merger", Idle)
  BY DEF ObserveMerge, Decline, RefreshError, UpdateNotSeen, VerifyMerge, Finish,
         MergerEnds, database, Process
<1> QED
  BY <1>1, IdleSteady

LEMMA RequestMergeSteady ==
    ASSUME IInv, RInv, Steady, RequestMerge
    PROVE  Steady'
<1>1. /\ UNCHANGED <<cards, pr, top, intents>> /\ "merger" \in Process
      /\ Merger.pc \in Holding
      /\ \/ MergerGoes("verify")
            /\ wire' = wire \cup {[op |-> "merge", sha |-> Snap.head]}
         \/ Become("merger", Idle) /\ UNCHANGED wire
  BY DEF RequestMerge, Finish, MergerEnds, MergerAt, Holding, Process
<1>2. \A m \in wire' : m.op = "update" => m \in wire
  BY <1>1
<1>3. "verify" \in Holding
  BY DEF Holding
<1> QED
  BY <1>1, <1>2, <1>3, IdleSteady, GoesSteady

\* The merger asks GitHub for the update its open intent is there for.
LEMMA RequestUpdateSteady ==
    ASSUME IInv, RInv, Steady, RequestUpdate
    PROVE  Steady'
<1>1. /\ UNCHANGED <<cards, pr, top, intents>> /\ "merger" \in Process
      /\ Merger.pc = "update" /\ Merger.pc \in Holding /\ "poll" \in Holding
  BY DEF RequestUpdate, database, MergerAt, Holding, Process
<1>2. CASE Become("merger", Idle) /\ UNCHANGED wire
  BY <1>1, <1>2, IdleSteady
<1>3. CASE /\ Matches(pr) /\ MergerGoes("poll")
           /\ wire' = wire \cup {[op |-> "update", sha |-> Snap.head]}
  <2> DEFINE s == [Merger EXCEPT !.pc = "poll"]
  <2> SUFFICES ASSUME ~pr'.merged
               PROVE  /\ ChainOK(cards', pr', top', intents') /\ Updates'
                      /\ Follows("merger", s, cards', pr', top', intents')
                      /\ \A o \in Process : o # "merger" =>
                            Follows(o, proc[o], cards', pr', top', intents')
    <3>1. Become("merger", s)
      BY <1>3 DEF MergerGoes
    <3> HIDE DEF s
    <3> QED
      BY <1>1, <3>1, SteadyStep
  <2>1. ~pr.merged
    BY <1>1
  <2>2. Ahead /\ ~Intent.done
    BY <1>1 DEF RInv, MergerOK
  <2>3. /\ Len(intents) = Replay(cards).refreshes + 1
        /\ Snap.base = Replay(cards).flow.base
        /\ Snap.head = Replay(cards).flow.commit
    BY <1>1, <2>1, <2>2, MergerCurrent
  <2>4. /\ Merger \in Memory /\ Built
        /\ Follows("merger", Merger, cards, pr, top, intents)
    BY <1>1, <2>1, MergerStands
  <2>5. Follows("merger", s, cards, pr, top, intents)
    BY <1>1, <2>4, GoesFollows
  <2>6. /\ ChainOK(cards, pr, top, intents) /\ Updates /\ pr.head <= top
        /\ \A o \in Process : Follows(o, proc[o], cards, pr, top, intents)
    BY <2>1, SteadyFacts
  <2>7. pr.base = Snap.base /\ pr.head = Snap.head /\ At(pr, Replay(cards))
    BY <1>3, <2>3 DEF Matches, At
  <2>8. Updates'
    <3> SUFFICES ASSUME NEW m \in wire', m.op = "update"
                 PROVE  /\ m.sha <= top
                        /\ m.sha = pr.head =>
                             /\ Built
                             /\ Len(intents) = Replay(cards).refreshes + 1
                             /\ ~Intent.done /\ At(pr, Replay(cards))
      BY <1>1 DEF Updates, Built, Intent
    <3>1. CASE m \in wire
      BY <2>6, <3>1 DEF Updates
    <3>2. CASE m = [op |-> "update", sha |-> Snap.head]
      <4>1. m.sha = pr.head
        BY <2>7, <3>2
      <4> QED
        BY <2>2, <2>3, <2>4, <2>6, <2>7, <4>1
    <3> QED
      BY <1>3, <3>1, <3>2
  <2> HIDE DEF s
  <2> QED
    BY <1>1, <2>5, <2>6, <2>8
<1> QED
  BY <1>1, <1>2, <1>3 DEF RequestUpdate, MergerEnds

LEMMA ReserveSteady ==
    ASSUME IInv, RInv, Steady, Reserve
    PROVE  Steady'
<1> DEFINE s == [Merger EXCEPT !.pc = "refresh"]
           acc == Replay(cards)
           n == Len(intents)
           intent == [ebase |-> Evidence.base, ehead |-> Evidence.head,
                      done |-> FALSE, nbase |-> NoCommit, nhead |-> NoCommit]
<1>1. /\ UNCHANGED <<cards, pr, top, wire>> /\ "merger" \in Process
      /\ Merger.pc = "decide" /\ Merger.pc \in Holding /\ "refresh" \in Holding
      /\ n = Snap.refreshes /\ Matches(Evidence)
      /\ intents' = Append(intents, intent) /\ Become("merger", s)
  BY DEF Reserve, MayRefresh, MergerAt, MergerGoes, Holding, Process
<1> SUFFICES ASSUME ~pr'.merged
             PROVE  /\ ChainOK(cards', pr', top', intents') /\ Updates'
                    /\ Follows("merger", s, cards', pr', top', intents')
                    /\ \A o \in Process : o # "merger" =>
                          Follows(o, proc[o], cards', pr', top', intents')
  <2> HIDE DEF s
  <2> QED
    BY <1>1, SteadyStep
<1>2. ~pr.merged
  BY <1>1
<1>3. /\ Merger \in Memory /\ Built /\ Chain(cards)
      /\ Healthy(acc, pr, intents) /\ acc.refreshes \in Nat
      /\ Follows("merger", Merger, cards, pr, top, intents)
      /\ Stands(Merger, Snap, cards, pr, intents)
      /\ \A snap \in Merger.snap : Stands(Merger, snap, cards, pr, intents)
  BY <1>1, <1>2, MergerStands
<1>4. /\ intents \in Seq(BranchRefreshIntent) /\ Updates
      /\ ChainOK(cards, pr, top, intents)
      /\ \A o \in Process : Follows(o, proc[o], cards, pr, top, intents)
  BY <1>2, SteadyFacts
<1>5. /\ acc.refreshes = n /\ Ready(acc) /\ At(pr, acc)
      /\ Snap.base = acc.flow.base /\ Snap.head = acc.flow.commit
  <2>1. n \in {acc.refreshes, acc.refreshes + 1}
    BY <1>3 DEF Healthy, IntentsFit
  <2>2. ~(acc.refreshes > Snap.refreshes)
    <3> HIDE DEF n, acc
    <3> QED
      BY <1>1, <1>3, <2>1
  <2> QED
    BY <1>1, <1>3, <2>2 DEF Stands
<1>6. /\ intent.ebase = acc.flow.base /\ intent.ehead = acc.flow.commit
      /\ ~intent.done
  BY <1>1, <1>5 DEF Matches
<1> HIDE DEF intent
<1>7. /\ Len(intents') = n + 1 /\ n \in Nat /\ intents'[n + 1] = intent
      /\ \A i \in 1 .. n : intents'[i] = intents[i]
  BY <1>1, <1>4
<1>8. Reserves(intents, intents', acc)
  <2> HIDE DEF n, acc
  <2> QED
    BY <1>5, <1>6, <1>7 DEF Reserves, n
<1>9. Healthy(acc, pr, intents')
  BY <1>2, <1>3, <1>5, <1>8, ReservedOK
<1>10. ChainOK(cards, pr, top, intents')
  BY <1>3, <1>4, <1>9, SteadyFacts, <1>2 DEF ChainOK
<1>11. ASSUME NEW o \in Process, o # "merger"
       PROVE  Follows(o, proc[o], cards, pr, top, intents')
  BY <1>2, <1>3, <1>4, <1>5, <1>8, <1>11, FollowsReserve
<1>12. Follows("merger", s, cards, pr, top, intents')
  <2>1. /\ Follows("merger", s, cards, pr, top, intents)
        /\ s.pc = "refresh" /\ s.snap = Merger.snap /\ s.pr = Merger.pr
        /\ s.card = Merger.card
    BY <1>1, <1>3, GoesFollows
  <2> HIDE DEF s
  <2>2. \A c \in s.card : Due(c, cards, pr, intents')
    <3>1. \A c \in s.card : Due(c, cards, pr, intents)
      BY <2>1 DEF Follows
    <3>2. \A c \in s.card : HasKey(cards, c)
      BY <1>2, <1>3, <1>5, <1>8, <3>1, ReservedOK
    <3> QED
      BY <3>2 DEF Due
  <2>3. ASSUME NEW snap \in s.snap PROVE Stands(s, snap, cards, pr, intents')
    <3>1. Stands(s, snap, cards, pr, intents)
      BY <2>1 DEF Follows, Holding
    <3>2. Len(intents') # acc.refreshes /\ Len(intents) # acc.refreshes + 1
      BY <1>3, <1>5, <1>7
    <3> HIDE DEF acc
    <3> QED
      BY <3>1, <3>2 DEF Stands, acc
  <2> QED
    BY <2>1, <2>2, <2>3 DEF Follows
<1>13. Updates'
  <2>1. n # acc.refreshes + 1
    BY <1>3, <1>5
  <2>2. \A m \in wire : m.op = "update" => m.sha <= top /\ m.sha # pr.head
    BY <1>4, <2>1, NoUpdates
  <2> QED
    BY <1>1, <2>2 DEF Updates
<1> HIDE DEF s
<1> QED
  BY <1>1, <1>10, <1>11, <1>12, <1>13

LEMMA RefreshFoundSteady ==
    ASSUME IInv, RInv, Steady, RefreshFound
    PROVE  Steady'
<1> DEFINE s == [Merger EXCEPT !.pc = "record"]
<1>1. /\ UNCHANGED <<cards, pr, top, wire>> /\ "merger" \in Process
      /\ Merger.pc = "refresh" /\ Merger.pc \in Holding /\ "record" \in Holding
      /\ Ahead /\ Intent.ebase = Snap.base /\ Intent.ehead = Snap.head
      /\ MergerGoes("record") /\ Become("merger", s)
  BY DEF RefreshFound, MergerAt, MergerGoes, Holding, Process, IntentFits
<1>2. CASE UNCHANGED intents
  BY <1>1, <1>2, GoesSteady
<1>3. CASE ~Intent.done /\ RefreshSeen /\ CompleteIntent(Evidence)
  <2>1. ASSUME ~pr.merged
        PROVE  /\ Built /\ intents # <<>> /\ ~Intent.done
               /\ Evidence.base = pr.base /\ Evidence.head = pr.head
               /\ ~At(pr, Replay(cards))
               /\ Follows("merger", s, cards, pr, top, intents)
    <3>1. /\ Merger \in Memory /\ Built /\ Evidence \in Merger.pr
          /\ Snap.refreshes \in Nat
          /\ Follows("merger", Merger, cards, pr, top, intents)
      BY <1>1, <2>1, MergerStands
    <3>2. Follows("merger", s, cards, pr, top, intents)
      BY <1>1, <3>1, GoesFollows
    <3>3. /\ Snap.base = Replay(cards).flow.base
          /\ Snap.head = Replay(cards).flow.commit
          /\ SamePair(Evidence, pr) \/ At(Evidence, Replay(cards))
      BY <1>1, <1>3, <2>1, <3>1, MergerCurrent
    <3>4. ~At(Evidence, Replay(cards))
      BY <1>1, <1>3, <3>3 DEF RefreshSeen, At
    <3>5. Evidence.base = pr.base /\ Evidence.head = pr.head
      BY <3>3, <3>4 DEF SamePair
    <3>6. intents # <<>>
      <4>1. Len(intents) # 0
        BY <1>1, <3>1 DEF Ahead
      <4> QED
        BY <4>1, EmptyLength
    <3> HIDE DEF s
    <3> QED
      BY <1>3, <3>1, <3>2, <3>4, <3>5, <3>6 DEF At
  <2> HIDE DEF s
  <2> QED
    BY <1>1, <1>3, <2>1, CompleteSteady
<1> QED
  BY <1>1, <1>2, <1>3 DEF RefreshFound

LEMMA UpdateSeenSteady ==
    ASSUME IInv, RInv, Steady, UpdateSeen
    PROVE  Steady'
<1> DEFINE s == [Merger EXCEPT !.pc = "record", !.pr = {pr}]
<1>1. /\ UNCHANGED <<cards, pr, top, wire>> /\ "merger" \in Process
      /\ Merger.pc = "poll" /\ Merger.pc \in Holding /\ "record" \in Holding
      /\ pr.head # Snap.head /\ CompleteIntent(pr) /\ Become("merger", s)
  BY DEF UpdateSeen, MergerAt, Holding, Process
<1>2. Ahead /\ ~Intent.done
  BY <1>1 DEF RInv, MergerOK
<1>3. ASSUME ~pr.merged
      PROVE  /\ Built /\ intents # <<>> /\ ~At(pr, Replay(cards))
             /\ Follows("merger", s, cards, pr, top, intents)
  <2>1. /\ Merger \in Memory /\ Built /\ Snap.refreshes \in Nat
        /\ Follows("merger", Merger, cards, pr, top, intents)
    BY <1>1, <1>3, MergerStands
  <2>2. Follows("merger", s, cards, pr, top, intents)
    BY <1>1, <2>1, EvidenceFollows
  <2>3. Snap.head = Replay(cards).flow.commit
    BY <1>1, <1>2, <1>3, MergerCurrent
  <2>4. ~At(pr, Replay(cards))
    BY <1>1, <2>3 DEF At
  <2>5. intents # <<>>
    <3>1. Len(intents) # 0
      BY <1>2, <2>1 DEF Ahead
    <3> QED
      BY <3>1, EmptyLength
  <2> HIDE DEF s
  <2> QED
    BY <2>1, <2>2, <2>4, <2>5
<1> HIDE DEF s
<1> QED
  BY <1>1, <1>2, <1>3, CompleteSteady

\* The card the merger writes down is the card the chain lacks.
LEMMA RefreshCardRestarts ==
    ASSUME IInv, Merger.pc = "record", NEW acc, Snap.flow = acc.flow,
           Snap.last = acc.last, Snap.refreshes = acc.refreshes,
           NEW q, q.base = Evidence.base, q.head = Evidence.head
    PROVE  RefreshCard = Restarted(acc, q, "branch_refresh", acc.refreshes + 1)
<1> DEFINE restarted == Restart(Snap.flow, Evidence.base, Evidence.head)
           n == Snap.refreshes + 1
           next == [Snap EXCEPT !.flow = restarted, !.base = Evidence.base,
                                !.head = Evidence.head, !.refreshes = n,
                                !.pending = "branch_refresh"]
<1>1. Snap \in OkSnap
  BY MergerHolds DEF Holding
<1>2. RefreshCard = StepCard(next)
  BY DEF RefreshCard
<1>3. /\ restarted.step = "build" /\ restarted.fix_count = acc.flow.fix_count
      /\ restarted.notes = {}
  BY DEF Restart, AtBuild
<1> HIDE DEF restarted, n
<1>4. /\ next.flow = restarted /\ next.refreshes = n /\ next.last = acc.last
      /\ next.pending = "branch_refresh"
      /\ next.base = Evidence.base /\ next.head = Evidence.head
  BY <1>1 DEF OkSnap
<1> HIDE DEF next
<1>5. n = acc.refreshes + 1 /\ "branch_refresh" \in Changes
  BY DEF n, Changes
<1> QED
  BY <1>2, <1>3, <1>4, <1>5 DEF StepCard, Restarted

LEMMA RecordSteady ==
    ASSUME IInv, RInv, Steady, RecordRefresh
    PROVE  Steady'
<1>1. /\ "merger" \in Process /\ CreateCard("merger", RefreshCard)
      /\ Merger.pc = "record" /\ Merger.pc \in Holding
  BY DEF RecordRefresh, MergerAt, Process, Holding
<1>2. /\ Len(intents) = Snap.refreshes + 1 /\ intents[Len(intents)].done
      /\ intents[Len(intents)].nbase = Evidence.base
      /\ intents[Len(intents)].nhead = Evidence.head
  BY <1>1 DEF RInv, MergerOK, Ahead, Intent
<1>3. Snap.refreshes \in Nat
  BY <1>1, MergerHolds DEF OkSnap
<1>4. /\ RefreshCard \in WellMade /\ RefreshCard.step = "build"
      /\ RefreshCard.kind = "branch_refresh"
      /\ RefreshCard.refreshes = Snap.refreshes + 1
      /\ RefreshCard.base = Evidence.base /\ RefreshCard.head = Evidence.head
  BY <1>1, RefreshCardMade
<1>5. Applies(RefreshCard, intents)
  BY <1>2, <1>3, <1>4 DEF Applies, Recorded
<1>6. ASSUME ~pr.merged PROVE Due(RefreshCard, cards, pr, intents)
  <2> DEFINE acc == Replay(cards)
  <2>1. /\ Built /\ Chain(cards) /\ Healthy(acc, pr, intents)
        /\ acc.refreshes \in Nat
        /\ Stands(Merger, Snap, cards, pr, intents)
    BY <1>1, <1>6, MergerStands
  <2>2. /\ Single(cards) /\ acc.ok
        /\ \A i \in 1 .. Len(cards) : Applies(cards[i], intents)
    BY <1>6, <2>1, SteadyFacts
  <2>3. CASE acc.refreshes > Snap.refreshes
    <3>1. Len(intents) \in {acc.refreshes, acc.refreshes + 1}
      BY <2>1 DEF Healthy, IntentsFit
    <3> HIDE DEF acc
    <3>2. acc.refreshes = Len(intents) /\ acc.refreshes # 0
      BY <1>2, <1>3, <2>1, <2>3, <3>1
    <3>3. HasKey(cards, RefreshCard)
      BY <1>2, <1>4, <2>1, <2>2, <3>2, RefreshHasKey DEF acc
    <3> QED
      BY <3>3 DEF Due
  <2>4. CASE ~(acc.refreshes > Snap.refreshes)
    <3>1. /\ Ready(acc) /\ Snap.refreshes = acc.refreshes
          /\ Snap.flow = acc.flow /\ Snap.last = acc.last
      BY <2>1, <2>4 DEF Stands
    <3>2. Len(intents) = acc.refreshes + 1 /\ Len(intents) # acc.refreshes
      BY <1>2, <2>1, <3>1
    <3>3. Awaits(acc, pr, intents)
      BY <2>1, <3>2 DEF Healthy
    <3>4. pr.base = Evidence.base /\ pr.head = Evidence.head /\ ~At(pr, acc)
      BY <1>2, <3>3 DEF Awaits
    <3>5. RefreshCard = Restarted(acc, pr, "branch_refresh", acc.refreshes + 1)
      <4> HIDE DEF acc
      <4> QED
        BY <1>1, <3>1, <3>4, RefreshCardRestarts
    <3>6. Snapshot(cards, pr, intents).status = "ok"
      BY <1>6, <2>1, HealthySnapshot
    <3>7. PICK d \in NextCards(Snapshot(cards, pr, intents)) : TRUE
      BY <1>6, <2>1, <2>2, <3>1, <3>4, <3>6, ReadySnapshot
    <3>8. d = Restarted(acc, pr, IF Len(intents) = acc.refreshes
                                   THEN "commit_change"
                                   ELSE "branch_refresh", Len(intents))
      BY <1>6, <2>1, <3>1, ReadySnapshot
    <3>9. d = RefreshCard
      <4> HIDE DEF acc
      <4> QED
        BY <3>2, <3>5, <3>8
    <3> QED
      BY <3>7, <3>9 DEF Due
  <2> QED
    BY <2>3, <2>4
<1> QED
  BY <1>1, <1>4, <1>5, <1>6, CreateSteady

-----------------------------------------------------------------------------
(* Steps of agents, GitHub and the world                                   *)

\* A result leaves every key in the chain.
LEMMA KeysReported ==
    ASSUME NEW cs \in Seq(WellMade), NEW i \in 1 .. Len(cs),
           NEW r \in Results(cs[i].step)
    PROVE  LET ds == [cs EXCEPT ![i].result = {r}]
           IN  /\ \A c : HasKey(cs, c) => HasKey(ds, c)
               /\ ds[1].kind = cs[1].kind
<1> DEFINE d == [cs[i] EXCEPT !.result = {r}]
           ds == [cs EXCEPT ![i].result = {r}]
<1>1. cs[i] \in WellMade
  OBVIOUS
<1>2. d \in WellMade /\ SameSpec(cs[i], d)
  BY <1>1, WithResult
<1>3. ds = [cs EXCEPT ![i] = d]
  OBVIOUS
<1> HIDE DEF d, ds
<1>4. Key(d) = Key(cs[i])
  BY <1>2, FitsSame
<1>5. /\ Len(ds) = Len(cs)
      /\ \A j \in 1 .. Len(cs) : ds[j] = IF j = i THEN d ELSE cs[j]
  BY ONLY <1>2, <1>3, cs \in Seq(WellMade), i \in 1 .. Len(cs), ReplacedAt
<1>6. 1 \in 1 .. Len(cs)
  OBVIOUS
<1>7. ds[1].kind = cs[1].kind
  BY <1>2, <1>5, <1>6 DEF SameSpec
<1>8. \A j \in 1 .. Len(cs) : Key(ds[j]) = Key(cs[j])
  BY <1>4, <1>5
<1>9. \A c : HasKey(cs, c) => HasKey(ds, c)
  BY <1>5, <1>8 DEF HasKey
<1> QED
  BY <1>7, <1>9 DEF ds

LEMMA AgentSteady ==
    ASSUME IInv, IInv', RInv, Steady, ~BuildPushes, NEW i \in OpenCards, Agent(i)
    PROVE  Steady'
<1> SUFFICES ASSUME ~pr'.merged PROVE Steady'
  BY DEF Steady
<1>1. UNCHANGED <<intents, wire, proc>>
  BY AgentReports
<1>2. PICK r \in Results(cards[i].step) : Reports(i, r)
  BY AgentReports
<1>3. /\ cards' = [cards EXCEPT ![i].result = {r}]
      /\ ~pr.merged /\ pr'.base = pr.base
      /\ \/ pr' = pr /\ top' = top
         \/ pr'.head = top + 1 /\ top' = top + 1
  BY <1>2 DEF Reports, Fresh
<1>4. /\ Begun(cards) /\ cards \in Seq(WellMade) /\ pr \in PullRequest
      /\ top \in Nat /\ pr.base \in Nat /\ pr.base <= top
      /\ ChainOK(cards, pr, top, intents) /\ Updates
      /\ Built <=> HasBegun(cards)
      /\ Built => /\ Chain(cards) /\ Single(cards)
                  /\ Healthy(Replay(cards), pr, intents)
      /\ \A p \in Process : /\ proc[p] \in Memory
                            /\ Remembers(proc[p], cards, pr)
                            /\ Follows(p, proc[p], cards, pr, top, intents)
  BY <1>3, SteadyFacts
<1>5. i \in 1 .. Len(cards) /\ cards # <<>>
  BY <1>4 DEF OpenCards
<1>6. Single(cards) /\ cards[1].kind = "root"
  BY <1>4, <1>5 DEF ChainOK
<1>7. /\ \A c : HasKey(cards, c) => HasKey(cards', c)
      /\ cards'[1].kind = "root"
  BY <1>2, <1>3, <1>4, <1>5, <1>6, KeysReported
<1>8. top' \in Nat /\ top <= top' /\ pr'.head <= top'
  BY <1>3, <1>4 DEF IInv, StoresOK
<1> DEFINE a == Replay(cards)
           b == Replay(cards')
<1>9. /\ Chain(cards') /\ Single(cards') /\ Healthy(b, pr', intents) /\ At(pr', b)
  <2>1. CASE ~Built
    <3>1. Len(cards) <= 1 /\ intents = <<>>
      BY <1>4, <2>1 DEF ChainOK
    <3>2. /\ Chain(cards') /\ Single(cards') /\ b.ok /\ ~b.open
          /\ At(pr', b) /\ b.refreshes = 0
      BY <1>2, <1>6, <2>1, <3>1, RootReported
    <3> HIDE DEF b
    <3>3. Len(intents) = 0
      BY <3>1, EmptyLength
    <3>4. Healthy(b, pr', intents)
      BY <3>2, <3>3 DEF Healthy, IntentsFit
    <3> QED
      BY <3>2, <3>4
  <2>2. CASE Built
    BY <1>2, <1>4, <2>2, AgentHealthy
  <2> QED
    BY <2>1, <2>2
<1>10. Built => /\ a.open /\ ~Ready(a) /\ b.refreshes = a.refreshes
                /\ Len(intents) = a.refreshes
                /\ NextCards(Snapshot(cards, pr, intents)) = {}
  <2> SUFFICES ASSUME Built
               PROVE  /\ a.open /\ ~Ready(a) /\ b.refreshes = a.refreshes
                      /\ Len(intents) = a.refreshes
                      /\ NextCards(Snapshot(cards, pr, intents)) = {}
    OBVIOUS
  <2>1. a.open /\ b.refreshes = a.refreshes /\ Len(intents) = a.refreshes
    BY <1>2, <1>4, AgentHealthy
  <2>2. ~Ready(a) /\ NextCards(Snapshot(cards, pr, intents)) = {}
    BY <1>3, <1>4, <2>1, HealthySnapshot
  <2> QED
    BY <2>1, <2>2
<1>11. ChainOK(cards', pr', top', intents)
  <2>1. HasBegun(cards')
    BY <1>9 DEF Chain, HasBegun
  <2>2. b.flow.base <= top' /\ b.flow.commit <= top'
    BY <1>3, <1>4, <1>8, <1>9 DEF At
  <2>3. pr'.base <= top'
    BY <1>3, <1>4, <1>8
  <2> QED
    BY <1>7, <1>9, <2>1, <2>2, <2>3 DEF ChainOK
<1>12. ASSUME NEW p \in Process
       PROVE  Follows(p, proc[p], cards', pr', top', intents)
  <2>1. HasBegun(cards) => /\ Replay(cards).open /\ ~Ready(Replay(cards))
                           /\ Replay(cards').refreshes = Replay(cards).refreshes
                           /\ NextCards(Snapshot(cards, pr, intents)) = {}
    BY <1>4, <1>10
  <2>2. \/ pr' = pr /\ top' = top
        \/ pr'.base = pr.base /\ pr'.head = top' /\ top < top'
    BY <1>3, <1>4
  <2>3. /\ proc[p] \in Memory /\ Remembers(proc[p], cards, pr)
        /\ Follows(p, proc[p], cards, pr, top, intents)
    BY <1>4
  <2> QED
    BY <1>4, <1>5, <1>7, <1>8, <2>1, <2>2, <2>3, FollowsAgent
<1>13. Updates'
  <2>1. ~(Built /\ Len(intents) = a.refreshes + 1)
    <3>1. Built => a.refreshes \in Nat
      BY <1>4, AccTyped
    <3> HIDE DEF a, b
    <3> QED
      BY <1>10, <3>1
  <2>2. \A m \in wire : m.op = "update" => m.sha <= top /\ m.sha # pr.head
    BY <1>4, <2>1, NoUpdates
  <2>3. \A m \in wire : m.sha \in Nat
    BY CommitAssumption DEF IInv, StoresOK
  <2>4. \A m \in wire : m.op = "update" => m.sha <= top' /\ m.sha # pr'.head
    BY <1>3, <1>4, <2>2, <2>3
  <2> QED
    BY <1>1, <2>4 DEF Updates
<1> QED
  BY <1>1, <1>11, <1>12, <1>13 DEF Steady

-----------------------------------------------------------------------------
(* The pull request of a ready flow moves                                  *)

LEMMA MoveSteady ==
    ASSUME IInv, RInv, Steady, UNCHANGED <<cards, intents, proc>>,
           wire' \subseteq wire, ~pr.merged, top' = top + 1,
           Built, Ready(Replay(cards)), At(pr, Replay(cards)),
           \/ /\ Len(intents) = Replay(cards).refreshes + 1 /\ ~Intent.done
              /\ pr'.base = pr.base /\ pr'.head = top'
           \/ /\ Len(intents) = Replay(cards).refreshes /\ Merger.pc = "idle"
              /\ \/ pr'.base = pr.base /\ pr'.head = top'
                 \/ pr'.base = top' /\ pr'.head = pr.head
    PROVE  Steady'
<1> DEFINE acc == Replay(cards)
<1>1. /\ Begun(cards) /\ top \in Nat /\ pr.base \in Nat /\ pr.base <= top
      /\ pr.head \in Nat /\ pr.head <= top
      /\ ChainOK(cards, pr, top, intents) /\ Updates
      /\ HasBegun(cards) /\ Chain(cards)
      /\ Healthy(acc, pr, intents)
      /\ \A p \in Process : /\ proc[p] \in Memory
                            /\ Remembers(proc[p], cards, pr)
                            /\ Follows(p, proc[p], cards, pr, top, intents)
  BY SteadyFacts
<1>2. acc.refreshes \in Nat /\ acc.flow.base \in Nat /\ acc.flow.commit \in Nat
  BY <1>1, AccTyped
<1>3. /\ top' \in Nat /\ top < top' /\ pr'.base <= top'
  BY <1>1
<1>4. Healthy(acc, pr', intents)
  BY <1>1, <1>2 DEF Healthy, Awaits, Intent
<1>5. ChainOK(cards, pr', top', intents)
  <2>1. acc.flow.base <= top' /\ acc.flow.commit <= top'
    BY <1>1, <1>2, <1>3 DEF At
  <2> QED
    BY <1>1, <1>3, <1>4, <2>1 DEF ChainOK
<1>6. ASSUME NEW p \in Process
      PROVE  Follows(p, proc[p], cards, pr', top', intents)
  <2>1. /\ proc[p] \in Memory /\ Remembers(proc[p], cards, pr)
        /\ Follows(p, proc[p], cards, pr, top, intents)
    BY <1>1
  <2>2. p = "merger" /\ proc[p].pc # "idle" => Len(intents) = acc.refreshes + 1
    BY DEF Merger
  <2>3. \/ pr'.base = pr.base /\ pr'.head = top'
        \/ pr'.base = top' /\ pr'.head = pr.head
    OBVIOUS
  <2> QED
    BY <1>1, <1>3, <2>1, <2>2, <2>3, FollowsMove
<1>7. Updates'
  <2>1. ASSUME NEW m \in wire', m.op = "update"
        PROVE  m.sha <= top' /\ m.sha # pr'.head
    <3>1. m \in wire /\ m.sha \in Nat
      BY CommitAssumption DEF IInv, StoresOK
    <3>2. m.sha <= top
      BY <1>1, <2>1, <3>1 DEF Updates
    <3>3. CASE pr'.head = top'
      BY <1>1, <1>3, <3>1, <3>2, <3>3
    <3>4. CASE pr'.head = pr.head /\ Len(intents) = acc.refreshes
      <4>1. ~(Len(intents) = acc.refreshes + 1)
        BY ONLY <1>2, <3>4
      <4>2. m.sha # pr.head
        BY <1>1, <2>1, <3>1, <4>1, NoUpdates
      <4> QED
        BY <1>1, <1>3, <3>1, <3>2, <3>4, <4>2
    <3> QED
      BY <3>3, <3>4
  <2> QED
    BY <2>1 DEF Updates
<1> QED
  BY <1>5, <1>6, <1>7 DEF Steady

LEMMA AnswerSteady ==
    ASSUME IInv, RInv, Steady, NEW request \in wire, Answer(request)
    PROVE  Steady'
<1>1. pr \in PullRequest /\ top \in Nat
  BY CommitAssumption DEF IInv, StoresOK
<1>2. ~pr.merged /\ pr.head = request.sha /\ wire' \subseteq wire
      /\ UNCHANGED <<cards, intents, proc>>
  BY DEF Answer, database
<1>3. CASE pr' = [pr EXCEPT !.merged = TRUE, !.mbase = pr.base,
                            !.mhead = pr.head, !.by = "merger"]
  <2>1. pr'.merged
    BY <1>1, <1>3 DEF PullRequest
  <2> QED
    BY <2>1 DEF Steady
<1>4. ASSUME NEW c \in Fresh, request.op = "update", pr' = Updated(c), top' = c
      PROVE  Steady'
  <2>1. top' = top + 1 /\ pr'.base = pr.base /\ pr'.head = top'
    BY <1>1, <1>4 DEF Fresh, Updated, PullRequest
  <2>2. Updates
    BY <1>2, SteadyFacts
  <2>3. /\ Built /\ Len(intents) = Replay(cards).refreshes + 1
        /\ ~Intent.done /\ At(pr, Replay(cards))
    BY <1>2, <1>4, <2>2 DEF Updates
  <2>4. Chain(cards) /\ Healthy(Replay(cards), pr, intents)
    BY <1>2, <2>3, SteadyFacts
  <2>5. Replay(cards).refreshes \in Nat
    BY <2>4, AccTyped
  <2>6. Len(intents) # Replay(cards).refreshes
    BY <2>3, <2>5
  <2>7. Ready(Replay(cards))
    BY <2>4, <2>6 DEF Healthy, Awaits
  <2> QED
    BY <1>2, <2>1, <2>3, <2>7, MoveSteady
<1> QED
  BY <1>3, <1>4 DEF Answer

\* Somebody pushes, or the base branch advances.
LEMMA OutsideSteady ==
    ASSUME IInv, RInv, Steady, Calm, Push \/ BaseAdvances
    PROVE  Steady'
<1> DEFINE snap == Snapshot(cards, pr, intents)
           acc == Replay(cards)
<1>1. MayMove
  BY DEF Push, BaseAdvances
<1>2. /\ Built /\ ~pr.merged /\ UNCHANGED <<cards, intents, proc, wire>>
      /\ snap.flow.status = "ready_to_merge" /\ Len(intents) = snap.refreshes
      /\ Merger.pc = "idle"
  BY <1>1 DEF MayMove, Calm, database
<1>3. Chain(cards) /\ Healthy(acc, pr, intents)
  BY <1>2, SteadyFacts
<1>4. Ready(acc) /\ At(pr, acc) /\ snap.refreshes = acc.refreshes
  BY <1>2, <1>3, HealthySnapshot
<1>5. pr \in PullRequest /\ top \in Nat
  BY CommitAssumption DEF IInv, StoresOK
<1>6. /\ top' = top + 1
      /\ \/ pr'.base = pr.base /\ pr'.head = top'
         \/ pr'.base = top' /\ pr'.head = pr.head
  <2>1. CASE Push
    <3>1. PICK c \in Fresh :
            /\ pr' = IF c > top THEN Pushed(c) ELSE [pr EXCEPT !.head = c]
            /\ top' = IF c > top THEN c ELSE top
      BY <2>1 DEF Push, Calm
    <3>2. c = top + 1 /\ c > top
      BY <1>5 DEF Fresh
    <3>3. pr' = Pushed(c) /\ top' = c
      BY <3>1, <3>2
    <3> QED
      BY <1>5, <3>2, <3>3 DEF Pushed, Updated, PullRequest
  <2>2. CASE BaseAdvances
    BY <1>5, <2>2 DEF BaseAdvances, Fresh, PullRequest
  <2> QED
    BY <2>1, <2>2
<1> HIDE DEF snap
<1> QED
  BY <1>2, <1>4, <1>6, MoveSteady

LEMMA WorldSteady ==
    ASSUME IInv, RInv, Steady, Calm, World \/ UNCHANGED vars
    PROVE  Steady'
<1>1. CASE Push \/ BaseAdvances
  BY <1>1, OutsideSteady
<1>2. CASE HumanMerge
  <2>1. pr'.merged
    BY <1>2 DEF HumanMerge, IInv, StoresOK, PullRequest
  <2> QED
    BY <2>1 DEF Steady
<1>3. CASE UNCHANGED <<cards, pr, top, intents, wire, proc>>
  BY <1>3, SteadyMove
<1> QED
  BY <1>1, <1>2, <1>3 DEF World, Cancel, Expire, vars

LEMMA GitHubSteady ==
    ASSUME IInv, RInv, Steady, NEW request \in wire,
           Answer(request) \/ Refuse(request) \/ Lose(request)
    PROVE  Steady'
<1>1. CASE Answer(request)
  BY <1>1, AnswerSteady
<1>2. CASE Refuse(request) \/ Lose(request)
  <2>1. UNCHANGED <<cards, pr, top, intents, proc>> /\ wire' \subseteq wire
    BY <1>2 DEF Refuse, Lose, database
  <2> QED
    BY <2>1, SteadyMove
<1> QED
  BY <1>1, <1>2

-----------------------------------------------------------------------------
(* The calm Task                                                           *)

LEMMA InitSteady == Init => Steady
<1> SUFFICES ASSUME Init PROVE Steady
  OBVIOUS
<1>1. /\ cards = <<>> /\ intents = <<>> /\ wire = {} /\ top = 2 /\ pr.base = 1
      /\ proc = [p \in Process |-> Idle]
  BY DEF Init
<1>2. ChainOK(cards, pr, top, intents)
  BY <1>1 DEF ChainOK, HasBegun, Single
<1>3. Updates
  BY <1>1 DEF Updates
<1>4. \A p \in Process : Follows(p, proc[p], cards, pr, top, intents)
  BY <1>1, IdleFollows
<1> QED
  BY <1>2, <1>3, <1>4 DEF Steady

LEMMA NextSteady ==
    ASSUME Calm
    PROVE  IInv /\ IInv' /\ RInv /\ Steady /\ [Next]_vars => Steady'
<1> SUFFICES ASSUME IInv, IInv', RInv, Steady, [Next]_vars PROVE Steady'
  OBVIOUS
<1>1. ASSUME NEW p \in Process, Load(p) \/ Crash(p) PROVE Steady'
  BY <1>1, LoadSteady, PlanSteady DEF Load
<1>2. CASE WorkerCreate
  BY <1>2, WorkerCreateSteady
<1>3. CASE Decide
  BY <1>3, DecideSteady, MergerEndsSteady, ReserveSteady DEF Decide
<1>4. CASE Refresh
  BY <1>4, RefreshFoundSteady, DecideSteady, MergerEndsSteady,
     RequestUpdateSteady, UpdateSeenSteady, RecordSteady DEF Refresh
<1>5. CASE Merge
  BY <1>5, RequestMergeSteady, MergerEndsSteady DEF Merge
<1>6. ASSUME NEW request \in wire,
             Answer(request) \/ Refuse(request) \/ Lose(request)
      PROVE  Steady'
  BY <1>6, GitHubSteady
<1>7. ASSUME NEW i \in OpenCards, Agent(i) PROVE Steady'
  BY <1>7, AgentSteady DEF Calm
<1>8. CASE World \/ UNCHANGED vars
  BY <1>8, WorldSteady
<1> QED
  BY <1>1, <1>2, <1>3, <1>4, <1>5, <1>6, <1>7, <1>8 DEF Next, GitHub

\* Before the Build has a result there is at most the root card.
LEMMA SteadyReplays ==
    ASSUME IInv, RInv, Steady
    PROVE  ChainStaysReplayable
<1> SUFFICES ASSUME ~pr.merged
             PROVE  Snapshot(cards, pr, intents).status # "error"
  BY DEF ChainStaysReplayable
<1>1. CASE Built
  <2>1. Chain(cards) /\ Healthy(Replay(cards), pr, intents)
    BY <1>1, SteadyFacts
  <2>2. Snapshot(cards, pr, intents).status = "ok"
    BY <2>1, HealthySnapshot
  <2> QED
    BY <2>2
<1>2. CASE ~Built
  <2>1. Len(cards) <= 1 /\ cards \in Seq(WellMade)
    BY <1>2, SteadyFacts DEF ChainOK
  <2>2. CASE cards = <<>>
    <3>1. Snapshot(cards, pr, intents) = NoSnapshot
      BY <2>2 DEF Snapshot
    <3> QED
      BY <3>1 DEF NoSnapshot
  <2>3. CASE cards # <<>>
    <3>1. cards[1].result = {}
      BY <1>2, <2>3 DEF Built
    <3>2. Len(cards) = 1
      <4>1. Len(cards) \in Nat /\ Len(cards) # 0
        BY <2>1, <2>3
      <4>2. Len(cards) <= 1
        BY <2>1
      <4> QED
        BY ONLY <4>1, <4>2
    <3>3. Snapshot(cards, pr, intents) = [NoSnapshot EXCEPT !.status = "waiting"]
      BY <2>3, <3>1, <3>2 DEF Snapshot
    <3> QED
      BY <3>3 DEF NoSnapshot
  <2> QED
    BY <2>2, <2>3
<1> QED
  BY <1>1, <1>2

\* record_branch_refresh_result and _create_card, read with _replay_cards: while
\* pushes and base advances meet only a flow that waits for its merge, and no
\* Build pushes, the cards the worker and the merger make from snapshots of any
\* age, with crashes, lost requests and late answers in between, always form a
\* chain the replay accepts.
THEOREM CalmChainReplays ==
    ASSUME Calm
    PROVE  Spec => []ChainStaysReplayable
<1>1. Init => IInv /\ RInv /\ Steady
  BY InitInv, InitRefreshes, InitSteady
<1>2. (IInv /\ RInv /\ Steady) /\ [Next]_vars => (IInv /\ RInv /\ Steady)'
  BY NextInv, NextRefreshes, NextSteady
<1>3. IInv /\ RInv /\ Steady => ChainStaysReplayable
  BY SteadyReplays
<1> QED
  BY <1>1, <1>2, <1>3, PTL DEF Spec
=============================================================================
