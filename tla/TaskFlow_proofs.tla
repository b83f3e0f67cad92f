--------------------------- MODULE TaskFlow_proofs ---------------------------
(* Proofs about TaskFlow, for any sets of Tasks, commits and texts and any *)
(* number of Fix cards.                                                    *)
EXTENDS TaskFlow, SequenceTheorems, TLAPS

-----------------------------------------------------------------------------
(* The inductive invariant                                                 *)

\* What the flow holds at each step on its way to ready_to_merge.
Coherent(s) ==
    /\ s.status = "running" <=> s.step # "none"
    /\ s.step = "build" => s.source = {} /\ s.completed = <<>>
    /\ s.step = "review" =>
          /\ s.task_flow # "build"
          /\ s.completed = <<"build">>
          /\ \E b \in BuildResult :
                s.source = {b} /\ BuildProves(b, s) /\ b.commit = s.commit
    /\ s.step = "deep_check" =>
          /\ s.task_flow = "build_review_deep_check"
          /\ s.completed = <<"build", "review">>
          /\ \E r \in ReviewResult :
                /\ s.source = {r} /\ ReviewProves(r, s) /\ r.approve
                /\ r.commit = s.commit
    /\ s.status = "ready_to_merge" =>
          /\ Proven(s)
          /\ s.completed = RequiredSteps(s.task_flow)

Budget ==
    /\ flow.fix_count = fixes + (IF flow.step = "fix" THEN 1 ELSE 0)
    /\ rejections = flow.fix_count + (IF flow.status = "failed" THEN 1 ELSE 0)
    /\ flow.status = "failed" => flow.fix_count = MAX_FIXES

IInv == TypeOK /\ Coherent(flow) /\ EvidenceIsFresh /\ Budget

-----------------------------------------------------------------------------
(* The rules, one by one                                                   *)

\* A result that comes with a step of the flow is a task result.
LEMMA ResultsAreTaskResults ==
    /\ BuildResult \subseteq TaskResult
    /\ ReviewResult \subseteq TaskResult
    /\ DeepCheckResult \subseteq TaskResult
BY DEF TaskResult

\* A restart leaves a typed, coherent flow without evidence.
LEMMA AtBuildLemma ==
    ASSUME NEW t \in Task, NEW f \in TaskFlows, NEW base \in Commit,
           NEW commit \in Commit, NEW n \in 0 .. MAX_FIXES
    PROVE  /\ AtBuild(t, f, base, commit, n) \in TaskFlowState
           /\ Coherent(AtBuild(t, f, base, commit, n))
           /\ AtBuild(t, f, base, commit, n).source = {}
           /\ AtBuild(t, f, base, commit, n).fix_count = n
           /\ AtBuild(t, f, base, commit, n).step = "build"
           /\ AtBuild(t, f, base, commit, n).status = "running"
<1>1. <<>> \in Seq(TaskSteps) /\ {} \in SUBSET TaskResult
  OBVIOUS
<1>2. AtBuild(t, f, base, commit, n) \in TaskFlowState
  BY <1>1 DEF AtBuild, TaskFlowState, TaskSteps, TaskFlowStatuses
<1> QED
  BY <1>2 DEF AtBuild, Coherent

\* The fields every outcome of a result sets.
LEMMA OutcomeType ==
    ASSUME NEW s \in TaskFlowState, NEW step \in TaskSteps \cup {"none"},
           NEW status \in TaskFlowStatuses
    PROVE  [s EXCEPT !.step = step, !.status = status, !.running = FALSE]
              \in TaskFlowState
BY DEF TaskFlowState

\* A rejection asks for a Fix, or fails the Task when none is left.
LEMMA RequestFixLemma ==
    ASSUME NEW s \in TaskFlowState, NEW r \in TaskResult, s.status = "running",
           r.text \in Text
    PROVE  /\ RequestFix(s, r) \in TaskFlowState
           /\ Coherent(RequestFix(s, r))
           /\ RequestFix(s, r).source = {r}
           /\ s.fix_count >= MAX_FIXES =>
                 /\ RequestFix(s, r).step = "none"
                 /\ RequestFix(s, r).status = "failed"
                 /\ RequestFix(s, r).fix_count = s.fix_count
           /\ s.fix_count < MAX_FIXES =>
                 /\ RequestFix(s, r).step = "fix"
                 /\ RequestFix(s, r).status = "running"
                 /\ RequestFix(s, r).fix_count = s.fix_count + 1
<1> USE MaxFixesAssumption
<1>1. /\ s.fix_count >= MAX_FIXES \/ s.fix_count < MAX_FIXES
      /\ ~(s.fix_count >= MAX_FIXES /\ s.fix_count < MAX_FIXES)
  BY DEF TaskFlowState
<1>2. CASE s.fix_count >= MAX_FIXES
  <2> DEFINE a == [s EXCEPT !.step = "none", !.status = "failed",
                            !.running = FALSE]
  <2>1. a \in TaskFlowState
    BY OutcomeType DEF TaskSteps, TaskFlowStatuses
  <2>2. [a EXCEPT !.source = {r}, !.notes = {r.text}] \in TaskFlowState
    <3> HIDE DEF a
    <3> QED  BY <2>1 DEF TaskFlowState
  <2>3. RequestFix(s, r) = [a EXCEPT !.source = {r}, !.notes = {r.text}]
    BY <1>2 DEF RequestFix
  <2>4. /\ RequestFix(s, r).source = {r} /\ RequestFix(s, r).step = "none"
        /\ RequestFix(s, r).status = "failed"
        /\ RequestFix(s, r).fix_count = s.fix_count
    BY <1>2 DEF RequestFix, TaskFlowState
  <2> QED
    BY <1>1, <1>2, <2>2, <2>3, <2>4 DEF Coherent
<1>3. CASE s.fix_count < MAX_FIXES
  <2> DEFINE a == [s EXCEPT !.step = "fix", !.running = FALSE,
                            !.fix_count = @ + 1]
  <2>0. s.fix_count + 1 \in 0 .. MAX_FIXES
    BY <1>3 DEF TaskFlowState
  <2>1. a \in TaskFlowState
    BY <2>0 DEF TaskFlowState, TaskSteps
  <2>2. [a EXCEPT !.source = {r}, !.notes = {r.text}] \in TaskFlowState
    <3> HIDE DEF a
    <3> QED  BY <2>1 DEF TaskFlowState
  <2>3. RequestFix(s, r) = [a EXCEPT !.source = {r}, !.notes = {r.text}]
    BY <1>1, <1>3 DEF RequestFix
  <2>4. /\ RequestFix(s, r).source = {r} /\ RequestFix(s, r).step = "fix"
        /\ RequestFix(s, r).status = "running"
        /\ RequestFix(s, r).fix_count = s.fix_count + 1
    BY <1>1, <1>3 DEF RequestFix, TaskFlowState
  <2> QED
    BY <1>1, <1>3, <2>2, <2>3, <2>4 DEF Coherent
<1> QED
  BY <1>1, <1>2, <1>3

\* Completing a step keeps the type and holds exactly the new result.
LEMMA CompleteLemma ==
    ASSUME NEW s \in TaskFlowState, NEW r \in TaskResult,
           r.kind \in TaskSteps, NEW next \in TaskSteps \cup {"none"}
    PROVE  /\ Complete(s, r, next) \in TaskFlowState
           /\ Complete(s, r, next).source = {r}
           /\ Complete(s, r, next).step = next
           /\ Complete(s, r, next).fix_count = s.fix_count
           /\ Complete(s, r, next).completed = Append(s.completed, r.kind)
           /\ Complete(s, r, next).task = s.task
           /\ Complete(s, r, next).task_flow = s.task_flow
           /\ Complete(s, r, next).base = s.base
           /\ Complete(s, r, next).commit = s.commit
           /\ Complete(s, r, next).status =
                 (IF next = "none" THEN "ready_to_merge" ELSE "running")
<1> DEFINE status == IF next = "none" THEN "ready_to_merge" ELSE "running"
           a == [s EXCEPT !.step = next, !.status = status, !.running = FALSE]
<1>1. a \in TaskFlowState
  BY OutcomeType DEF TaskFlowStatuses
<1>2. a.completed \in Seq(TaskSteps)
  BY <1>1 DEF TaskFlowState
<1>3. [a EXCEPT !.completed = Append(@, r.kind), !.source = {r}]
         \in TaskFlowState
  <2>1. Append(a.completed, r.kind) \in Seq(TaskSteps)
    BY <1>2
  <2> HIDE DEF a
  <2> QED  BY <1>1, <2>1 DEF TaskFlowState
<1>4. Complete(s, r, next) \in TaskFlowState
  BY <1>3 DEF Complete
<1>5. /\ Complete(s, r, next).source = {r} /\ Complete(s, r, next).step = next
      /\ Complete(s, r, next).fix_count = s.fix_count
      /\ Complete(s, r, next).completed = Append(s.completed, r.kind)
      /\ Complete(s, r, next).status = status
  BY DEF Complete, TaskFlowState
<1>6. /\ Complete(s, r, next).task = s.task
      /\ Complete(s, r, next).task_flow = s.task_flow
      /\ Complete(s, r, next).base = s.base
      /\ Complete(s, r, next).commit = s.commit
  BY DEF Complete, TaskFlowState
<1> QED
  BY <1>4, <1>5, <1>6

\* What appending does to a sequence of one or of two elements.
LEMMA AppendToOne ==
    ASSUME NEW S, NEW a \in S, NEW b \in S
    PROVE  Append(<<a>>, b) = <<a, b>>
<1> DEFINE s == Append(<<a>>, b)
           t == <<a, b>>
<1>1. /\ <<a>> \in Seq(S) /\ t \in Seq(S) /\ Len(<<a>>) = 1 /\ <<a>>[1] = a
      /\ Len(t) = 2 /\ t[1] = a /\ t[2] = b
  OBVIOUS
<1>2. s \in Seq(S) /\ Len(s) = 2 /\ s[1] = a /\ s[2] = b
  BY <1>1, AppendProperties
<1> HIDE DEF s, t
<1>3. \A i \in 1 .. Len(s) : s[i] = t[i]
  BY <1>1, <1>2
<1>4. s \in Seq(S) /\ t \in Seq(S) /\ Len(s) = Len(t)
  BY <1>1, <1>2
<1>5. s = t
  BY <1>3, <1>4, SeqEqual, Zenon
<1> QED
  BY <1>5 DEF s, t

LEMMA AppendToTwo ==
    ASSUME NEW S, NEW a \in S, NEW b \in S, NEW c \in S
    PROVE  Append(<<a, b>>, c) = <<a, b, c>>
<1> DEFINE s == Append(<<a, b>>, c)
           t == <<a, b, c>>
<1>1. /\ <<a, b>> \in Seq(S) /\ t \in Seq(S) /\ Len(<<a, b>>) = 2
      /\ <<a, b>>[1] = a /\ <<a, b>>[2] = b
      /\ Len(t) = 3 /\ t[1] = a /\ t[2] = b /\ t[3] = c
  OBVIOUS
<1>2. s \in Seq(S) /\ Len(s) = 3 /\ s[1] = a /\ s[2] = b /\ s[3] = c
  BY <1>1, AppendProperties
<1> HIDE DEF s, t
<1>3. \A i \in 1 .. Len(s) : s[i] = t[i]
  BY <1>1, <1>2
<1>4. s \in Seq(S) /\ t \in Seq(S) /\ Len(s) = Len(t)
  BY <1>1, <1>2
<1>5. s = t
  BY <1>3, <1>4, SeqEqual, Zenon
<1> QED
  BY <1>5 DEF s, t

\* Coherence only looks at the fields below.
LEMMA CoherentFields ==
    ASSUME NEW s, NEW t, Coherent(s),
           t.step = s.step, t.status = s.status, t.completed = s.completed,
           t.source = s.source, t.task = s.task, t.task_flow = s.task_flow,
           t.base = s.base, t.commit = s.commit
    PROVE  Coherent(t)
BY DEF Coherent, Proven, BuildProves, ReviewProves, DeepCheckProves,
       RequiredSteps

\* Where each kind of accepted result comes from.
LEMMA KindOfResult ==
    /\ \A r \in BuildResult : r.kind = "build"
    /\ \A r \in ReviewResult : r.kind = "review" /\ r.source \in BuildResult
    /\ \A r \in DeepCheckResult :
          r.kind = "deep_check" /\ r.source \in ReviewResult
    /\ \A r \in TaskResult :
          r.text \in Text /\ r.commit \in Commit /\ r.kind \in TaskSteps
BY DEF BuildResult, ReviewResult, DeepCheckResult, TaskResult, TaskSteps

-----------------------------------------------------------------------------
(* Each action preserves the invariant                                     *)

LEMMA InitInv == Init => IInv
<1> SUFFICES ASSUME Init PROVE IInv
  OBVIOUS
<1> USE MaxFixesAssumption
<1>1. PICK t \in Task, f \in TaskFlows, base \in Commit, commit \in Commit :
         flow = StartTaskFlow(t, f, base, commit)
  BY DEF Init
<1>2. flow = AtBuild(t, f, base, commit, 0)
  BY <1>1 DEF StartTaskFlow
<1>3. 0 \in 0 .. MAX_FIXES
  OBVIOUS
<1>4. /\ flow \in TaskFlowState /\ Coherent(flow)
      /\ flow.source = {} /\ flow.fix_count = 0
      /\ flow.step = "build" /\ flow.status = "running"
  BY <1>2, <1>3, AtBuildLemma
<1>5. accepted = {} /\ rejections = 0 /\ fixes = 0
  BY DEF Init
<1> QED
  BY <1>4, <1>5 DEF IInv, TypeOK, EvidenceIsFresh, Budget

LEMMA MarkRunningInv == IInv /\ MarkRunning => IInv'
<1> SUFFICES ASSUME IInv, MarkRunning PROVE IInv'
  OBVIOUS
<1>1. /\ flow \in TaskFlowState
      /\ flow' = [flow EXCEPT !.running = TRUE]
      /\ UNCHANGED <<accepted, rejections, fixes>>
  BY DEF IInv, TypeOK, MarkRunning, MarkTaskStepRunning
<1>2. /\ flow'.step = flow.step /\ flow'.status = flow.status
      /\ flow'.completed = flow.completed /\ flow'.source = flow.source
      /\ flow'.task = flow.task /\ flow'.task_flow = flow.task_flow
      /\ flow'.base = flow.base /\ flow'.commit = flow.commit
      /\ flow'.fix_count = flow.fix_count
  BY <1>1 DEF TaskFlowState
<1>3. flow' \in TaskFlowState
  BY <1>1 DEF TaskFlowState
<1>4. Coherent(flow')
  BY <1>2, CoherentFields DEF IInv
<1> QED
  BY <1>1, <1>2, <1>3, <1>4 DEF IInv, TypeOK, EvidenceIsFresh, Budget

\* A Build result starts the chain of evidence.
LEMMA RecordBuildInv ==
    ASSUME IInv, NEW r \in BuildResult, Record(r, r.commit) PROVE IInv'
<1> DEFINE next == IF flow.task_flow = "build" THEN "none" ELSE "review"
<1>1. /\ flow \in TaskFlowState /\ Coherent(flow) /\ flow.status = "running"
      /\ r \in TaskResult /\ r.kind = "build" /\ flow.step = "build"
      /\ r.commit = flow.commit /\ r.task = flow.task /\ r.base = flow.base
  BY KindOfResult, ResultsAreTaskResults
  DEF IInv, TypeOK, Record, AcceptsResult, BindsTo
<1>2. flow.completed = <<>>
  BY <1>1 DEF Coherent
<1>3. flow' = Complete(flow, r, next)
  BY <1>1 DEF Record, RecordTaskResult, RecordBuild
<1>4. next \in TaskSteps \cup {"none"} /\ r.kind \in TaskSteps
  BY <1>1 DEF TaskSteps
<1>5. /\ flow' \in TaskFlowState
      /\ flow'.source = {r} /\ flow'.step = next
      /\ flow'.fix_count = flow.fix_count
      /\ flow'.completed = Append(flow.completed, r.kind)
      /\ flow'.task = flow.task /\ flow'.task_flow = flow.task_flow
      /\ flow'.base = flow.base /\ flow'.commit = flow.commit
      /\ flow'.status = (IF next = "none" THEN "ready_to_merge" ELSE "running")
  BY <1>1, <1>3, <1>4, CompleteLemma
<1>6. flow'.completed = <<"build">>
  BY <1>1, <1>2, <1>5
<1>7. Coherent(flow')
  BY <1>1, <1>5, <1>6
  DEF Coherent, Proven, BuildProves, RequiredSteps
<1>8. accepted' = accepted \cup {r} /\ UNCHANGED <<rejections, fixes>>
  BY <1>1 DEF Record
<1>9. EvidenceIsFresh'
  BY <1>1, <1>5, <1>8 DEF EvidenceIsFresh, Chain
<1>10. Budget'
  BY <1>1, <1>5, <1>8 DEF IInv, Budget
<1> QED
  BY <1>1, <1>5, <1>7, <1>8, <1>9, <1>10 DEF IInv, TypeOK
\* A rejection keeps the invariant whichever result brought it; s is the flow
\* with the commit the result was bound to.
LEMMA RejectInv ==
    ASSUME IInv, NEW r \in TaskResult, NEW s \in TaskFlowState,
           flow.status = "running", flow.step # "fix",
           s.status = "running", s.fix_count = flow.fix_count,
           flow' = RequestFix(s, r), accepted' = accepted \cup {r},
           rejections' = rejections + 1, fixes' = fixes,
           Chain(r) \subseteq accepted'
    PROVE  IInv'
<1> USE MaxFixesAssumption
<1>1. r.text \in Text
  BY KindOfResult
<1>2. /\ flow' \in TaskFlowState /\ Coherent(flow') /\ flow'.source = {r}
      /\ flow.fix_count >= MAX_FIXES =>
            /\ flow'.step = "none" /\ flow'.status = "failed"
            /\ flow'.fix_count = flow.fix_count
      /\ flow.fix_count < MAX_FIXES =>
            /\ flow'.step = "fix" /\ flow'.status = "running"
            /\ flow'.fix_count = flow.fix_count + 1
  BY <1>1, RequestFixLemma
<1>3. flow.fix_count \in 0 .. MAX_FIXES
  BY DEF IInv, TypeOK, TaskFlowState
<1>4. TypeOK'
  BY <1>2 DEF IInv, TypeOK
<1>5. EvidenceIsFresh'
  BY <1>2 DEF EvidenceIsFresh
<1>6. Budget'
  BY <1>2, <1>3 DEF IInv, TypeOK, Budget
<1> QED
  BY <1>2, <1>4, <1>5, <1>6 DEF IInv

\* A Review either extends the chain of its Build or asks for a Fix.
LEMMA RecordReviewInv ==
    ASSUME IInv, NEW r \in ReviewResult, Record(r, r.commit) PROVE IInv'
<1>1. /\ flow \in TaskFlowState /\ Coherent(flow) /\ flow.status = "running"
      /\ r \in TaskResult /\ r.kind = "review" /\ flow.step = "review"
      /\ r.commit = flow.commit /\ r.task = flow.task
      /\ flow.source = {r.source}
  BY KindOfResult, ResultsAreTaskResults
  DEF IInv, TypeOK, Record, AcceptsResult, BindsTo
<1>2. /\ accepted' = accepted \cup {r} /\ fixes' = fixes
      /\ rejections' = IF r.approve THEN rejections ELSE rejections + 1
  BY <1>1 DEF Record
<1>3. /\ flow.task_flow # "build" /\ flow.completed = <<"build">>
      /\ BuildProves(r.source, flow) /\ r.source.commit = flow.commit
      /\ r.source.kind = "build"
  <2>1. PICK b \in BuildResult : flow.source = {b} /\ BuildProves(b, flow)
                                 /\ b.commit = flow.commit
    BY <1>1 DEF Coherent
  <2>2. b = r.source
    BY <1>1, <2>1
  <2> QED
    BY <1>1, <2>1, <2>2, KindOfResult DEF Coherent
<1>4. Chain(r) \subseteq accepted'
  <2>1. Chain(r) = {r, r.source}
    BY <1>1 DEF Chain
  <2>2. Chain(r.source) = {r.source}
    BY <1>3 DEF Chain
  <2>3. r.source \in accepted
    BY <1>1, <2>2 DEF IInv, EvidenceIsFresh
  <2> QED
    BY <1>2, <2>1, <2>3
<1>5. CASE ~r.approve
  <2>1. flow' = RequestFix(flow, r)
    BY <1>1, <1>5 DEF Record, RecordTaskResult, RecordReview
  <2> QED
    BY <1>1, <1>2, <1>4, <1>5, <2>1, RejectInv
<1>6. CASE r.approve
  <2> DEFINE next == IF flow.task_flow = "build_review"
                       THEN "none" ELSE "deep_check"
  <2>1. flow' = Complete(flow, r, next)
    BY <1>1, <1>6 DEF Record, RecordTaskResult, RecordReview
  <2>2. next \in TaskSteps \cup {"none"} /\ r.kind \in TaskSteps
    BY <1>1 DEF TaskSteps
  <2>3. /\ flow' \in TaskFlowState
        /\ flow'.source = {r} /\ flow'.step = next
        /\ flow'.fix_count = flow.fix_count
        /\ flow'.completed = Append(flow.completed, r.kind)
        /\ flow'.task = flow.task /\ flow'.task_flow = flow.task_flow
        /\ flow'.base = flow.base /\ flow'.commit = flow.commit
        /\ flow'.status =
              (IF next = "none" THEN "ready_to_merge" ELSE "running")
    BY <1>1, <2>1, <2>2, CompleteLemma
  <2>4. flow'.completed = <<"build", "review">>
    <3>1. Append(<<"build">>, "review") = <<"build", "review">>
      BY AppendToOne, "build" \in TaskSteps, "review" \in TaskSteps
      DEF TaskSteps
    <3> QED
      BY <1>1, <1>3, <2>3, <3>1
  <2>5. ReviewProves(r, flow')
    BY <1>1, <1>3, <2>3 DEF ReviewProves, BuildProves
  <2>6. flow.task_flow = "build_review" \/
        flow.task_flow = "build_review_deep_check"
    BY <1>1, <1>3 DEF TaskFlowState, TaskFlows
  <2>7. Coherent(flow')
    <3>1. CASE flow.task_flow = "build_review"
      <4>1. RequiredSteps(flow'.task_flow) = <<"build", "review">>
        BY <2>3, <3>1 DEF RequiredSteps
      <4>2. Proven(flow')
        BY <1>1, <1>6, <2>3, <2>5, <4>1 DEF Proven
      <4> QED
        BY <2>3, <2>4, <3>1, <4>1, <4>2 DEF Coherent
    <3>2. CASE flow.task_flow = "build_review_deep_check"
      BY <1>1, <1>6, <2>3, <2>4, <2>5, <3>2 DEF Coherent
    <3> QED
      BY <2>6, <3>1, <3>2
  <2>8. EvidenceIsFresh'
    BY <1>4, <2>3 DEF EvidenceIsFresh
  <2>9. Budget'
    BY <1>1, <1>2, <1>6, <2>3 DEF IInv, Budget
  <2> QED
    BY <1>1, <1>2, <1>6, <2>3, <2>7, <2>8, <2>9 DEF IInv, TypeOK
<1> QED
  BY <1>5, <1>6

\* A Deep Check ends the chain, on the commit its own tests made current.
LEMMA RecordDeepCheckInv ==
    ASSUME IInv, NEW r \in DeepCheckResult, Record(r, r.commit) PROVE IInv'
<1> DEFINE s == [flow EXCEPT !.commit = r.commit]
<1>1. /\ flow \in TaskFlowState /\ Coherent(flow) /\ flow.status = "running"
      /\ r \in TaskResult /\ r.kind = "deep_check" /\ flow.step = "deep_check"
      /\ r.reviewed = flow.commit /\ r.task = flow.task /\ r.commit \in Commit
      /\ flow.source = {r.source}
  BY KindOfResult, ResultsAreTaskResults
  DEF IInv, TypeOK, Record, AcceptsResult, BindsTo
<1>2. /\ accepted' = accepted \cup {r} /\ fixes' = fixes
      /\ rejections' = IF r.approve THEN rejections ELSE rejections + 1
  BY <1>1 DEF Record
<1>3. /\ s \in TaskFlowState /\ s.status = flow.status /\ s.task = flow.task
      /\ s.task_flow = flow.task_flow /\ s.base = flow.base
      /\ s.commit = r.commit /\ s.completed = flow.completed
      /\ s.fix_count = flow.fix_count
  BY <1>1 DEF TaskFlowState
<1>4. /\ flow.task_flow = "build_review_deep_check"
      /\ flow.completed = <<"build", "review">>
      /\ ReviewProves(r.source, flow) /\ r.source.approve
      /\ r.source.commit = flow.commit
      /\ r.source \in ReviewResult
  <2>1. PICK v \in ReviewResult :
           flow.source = {v} /\ ReviewProves(v, flow) /\ v.approve
           /\ v.commit = flow.commit
    BY <1>1 DEF Coherent
  <2>2. v = r.source
    BY <1>1, <2>1
  <2> QED
    BY <1>1, <2>1, <2>2 DEF Coherent
<1>5. Chain(r) \subseteq accepted'
  <2>1. Chain(r) = {r, r.source, r.source.source}
    BY <1>1 DEF Chain
  <2>2. Chain(r.source) = {r.source, r.source.source}
    BY <1>4, KindOfResult DEF Chain
  <2>3. {r.source, r.source.source} \subseteq accepted
    BY <1>1, <2>2 DEF IInv, EvidenceIsFresh
  <2> QED
    BY <1>2, <2>1, <2>3
<1>6. CASE ~r.approve
  <2>1. flow' = RequestFix(s, r)
    BY <1>1, <1>6 DEF Record, RecordTaskResult, RecordDeepCheck
  <2> HIDE DEF s
  <2> QED
    BY <1>1, <1>2, <1>3, <1>5, <1>6, <2>1, RejectInv
<1>7. CASE r.approve
  <2>1. flow' = Complete(s, r, "none")
    BY <1>1, <1>7 DEF Record, RecordTaskResult, RecordDeepCheck
  <2>2. r.kind \in TaskSteps
    BY <1>1 DEF TaskSteps
  <2>3. /\ flow' \in TaskFlowState
        /\ flow'.source = {r} /\ flow'.step = "none"
        /\ flow'.fix_count = s.fix_count
        /\ flow'.completed = Append(s.completed, r.kind)
        /\ flow'.task = s.task /\ flow'.task_flow = s.task_flow
        /\ flow'.base = s.base /\ flow'.commit = s.commit
        /\ flow'.status = "ready_to_merge"
    <3> HIDE DEF s
    <3> QED  BY <1>1, <1>3, <2>1, <2>2, CompleteLemma
  <2> HIDE DEF s
  <2>4. flow'.completed = <<"build", "review", "deep_check">>
    <3>1. Append(<<"build", "review">>, "deep_check")
             = <<"build", "review", "deep_check">>
      BY AppendToTwo, "build" \in TaskSteps, "review" \in TaskSteps,
         "deep_check" \in TaskSteps
      DEF TaskSteps
    <3> QED
      BY <1>1, <1>3, <1>4, <2>3, <3>1
  <2>5. RequiredSteps(flow'.task_flow) = <<"build", "review", "deep_check">>
    BY <1>3, <1>4, <2>3 DEF RequiredSteps
  <2>6. DeepCheckProves(r, flow')
    BY <1>1, <1>3, <1>4, <2>3
    DEF DeepCheckProves, ReviewProves, BuildProves
  <2>7. Coherent(flow')
    <3>1. Proven(flow')
      BY <1>1, <1>3, <1>7, <2>3, <2>5, <2>6 DEF Proven
    <3> QED
      BY <2>3, <2>4, <2>5, <3>1 DEF Coherent
  <2>8. EvidenceIsFresh'
    BY <1>5, <2>3 DEF EvidenceIsFresh
  <2>9. Budget'
    BY <1>1, <1>2, <1>3, <1>7, <2>3 DEF IInv, Budget
  <2> QED
    BY <1>1, <1>2, <1>7, <2>3, <2>7, <2>8, <2>9 DEF IInv, TypeOK
<1> QED
  BY <1>6, <1>7

\* A Fix proof restarts the flow and answers exactly one rejection.
LEMMA RecordProofInv ==
    ASSUME IInv, NEW p, NEW commit \in Commit, RecordProof(p, commit)
    PROVE  IInv'
<1>1. /\ flow \in TaskFlowState /\ flow.step = "fix"
      /\ flow.status = "running"
      /\ flow' = AtBuild(flow.task, flow.task_flow, flow.base, commit,
                         flow.fix_count)
      /\ accepted' = {} /\ fixes' = fixes + 1 /\ rejections' = rejections
  BY DEF IInv, TypeOK, RecordProof, AcceptsFixProof, RecordFixProof, Restart
<1>2. /\ flow.task \in Task /\ flow.task_flow \in TaskFlows
      /\ flow.base \in Commit /\ flow.fix_count \in 0 .. MAX_FIXES
  BY <1>1 DEF TaskFlowState
<1>3. /\ flow' \in TaskFlowState /\ Coherent(flow') /\ flow'.source = {}
      /\ flow'.fix_count = flow.fix_count
      /\ flow'.step = "build" /\ flow'.status = "running"
  BY <1>1, <1>2, AtBuildLemma
<1>4. flow.fix_count = fixes + 1 /\ rejections = flow.fix_count
  BY <1>1 DEF IInv, Budget
<1> QED
  BY <1>1, <1>3, <1>4 DEF IInv, TypeOK, EvidenceIsFresh, Budget

\* An observed base or head either restarts the flow or, where no result
\* stands, only moves its commits.
LEMMA ObserveInv ==
    ASSUME IInv, NEW base \in Commit, NEW commit \in Commit,
           Observe(base, commit)
    PROVE  IInv'
<1>1. /\ flow \in TaskFlowState /\ Coherent(flow)
      /\ ~(base = flow.base /\ commit = flow.commit)
      /\ rejections' = rejections /\ fixes' = fixes
  BY DEF IInv, TypeOK, Observe
<1>2. CASE flow.status = "failed" \/ flow.step = "fix"
  <2>1. /\ flow' = [flow EXCEPT !.base = base, !.commit = commit]
        /\ accepted' = accepted
    BY <1>1, <1>2 DEF Observe, ObserveCurrentCommit
  <2>2. /\ flow' \in TaskFlowState /\ flow'.step = flow.step
        /\ flow'.status = flow.status /\ flow'.source = flow.source
        /\ flow'.fix_count = flow.fix_count
    BY <1>1, <2>1 DEF TaskFlowState
  <2>3. Coherent(flow')
    BY <1>1, <1>2, <2>2 DEF Coherent
  <2> QED
    BY <1>1, <2>1, <2>2, <2>3 DEF IInv, TypeOK, EvidenceIsFresh, Budget
<1>3. CASE ~(flow.status = "failed" \/ flow.step = "fix")
  <2>1. /\ flow' = AtBuild(flow.task, flow.task_flow, base, commit,
                           flow.fix_count)
        /\ accepted' = {}
    BY <1>1, <1>3 DEF Observe, ObserveCurrentCommit, Restart
  <2>2. /\ flow.task \in Task /\ flow.task_flow \in TaskFlows
        /\ flow.fix_count \in 0 .. MAX_FIXES
    BY <1>1 DEF TaskFlowState
  <2>3. /\ flow' \in TaskFlowState /\ Coherent(flow') /\ flow'.source = {}
        /\ flow'.fix_count = flow.fix_count
        /\ flow'.step = "build" /\ flow'.status = "running"
    BY <2>1, <2>2, AtBuildLemma
  <2> QED
    BY <1>1, <1>3, <2>1, <2>3 DEF IInv, TypeOK, EvidenceIsFresh, Budget
<1> QED
  BY <1>2, <1>3

\* Any result the flow accepts, whichever form it came in.
LEMMA RecordAnyInv == ASSUME IInv, RecordAny PROVE IInv'
<1>1. /\ flow \in TaskFlowState /\ Coherent(flow)
  BY DEF IInv, TypeOK
<1>2. CASE \E r \in BuildResult : Record(r, r.commit)
  BY <1>2, RecordBuildInv
<1>3. CASE \E src \in flow.source :
           \E r \in [kind : {"review"}, task : Task, commit : Commit,
                     source : {src}, approve : BOOLEAN, text : Text] :
               Record(r, r.commit)
  <2>1. PICK src \in flow.source :
          \E r \in [kind : {"review"}, task : Task, commit : Commit,
                    source : {src}, approve : BOOLEAN, text : Text] :
              Record(r, r.commit)
    BY <1>3
  <2>2. PICK r \in [kind : {"review"}, task : Task, commit : Commit,
                    source : {src}, approve : BOOLEAN, text : Text] :
              Record(r, r.commit)
    BY <2>1
  <2>3. r.kind = "review" /\ r.source = src
    OBVIOUS
  <2>4. flow.step = "review"
    BY <2>2, <2>3 DEF Record, AcceptsResult
  <2>5. src \in BuildResult
    BY <1>1, <2>1, <2>4 DEF Coherent
  <2>6. r \in ReviewResult
    BY <2>5 DEF ReviewResult
  <2> QED
    BY <2>2, <2>6, RecordReviewInv
<1>4. CASE \E src \in flow.source :
           \E r \in [kind : {"deep_check"}, task : Task, reviewed : Commit,
                     commit : Commit, source : {src}, approve : BOOLEAN,
                     text : Text] :
               Record(r, r.commit)
  <2>1. PICK src \in flow.source :
          \E r \in [kind : {"deep_check"}, task : Task, reviewed : Commit,
                    commit : Commit, source : {src}, approve : BOOLEAN,
                    text : Text] :
              Record(r, r.commit)
    BY <1>4
  <2>2. PICK r \in [kind : {"deep_check"}, task : Task, reviewed : Commit,
                    commit : Commit, source : {src}, approve : BOOLEAN,
                    text : Text] :
              Record(r, r.commit)
    BY <2>1
  <2>3. r.kind = "deep_check" /\ r.source = src
    OBVIOUS
  <2>4. flow.step = "deep_check"
    BY <2>2, <2>3 DEF Record, AcceptsResult
  <2>5. src \in ReviewResult
    BY <1>1, <2>1, <2>4 DEF Coherent
  <2>6. r \in DeepCheckResult
    BY <2>5 DEF DeepCheckResult
  <2> QED
    BY <2>2, <2>6, RecordDeepCheckInv
<1> QED
  BY <1>2, <1>3, <1>4 DEF RecordAny

-----------------------------------------------------------------------------
(* The theorems                                                            *)

\* IInv holds in every reachable state.
THEOREM Invariance == Spec => []IInv
<1>1. Init => IInv
  BY InitInv
<1>2. IInv /\ [Next]_vars => IInv'
  <2> SUFFICES ASSUME IInv, [Next]_vars PROVE IInv'
    OBVIOUS
  <2>1. CASE MarkRunning
    BY <2>1, MarkRunningInv
  <2>2. CASE RecordAny
    BY <2>2, RecordAnyInv
  <2>3. CASE ProveAny
    <3>1. PICK src \in flow.source :
            \E p \in [kind : {"fix_proof"}, task : Task, commit : Commit,
                      source : {src}, text : Text] : RecordProof(p, p.commit)
      BY <2>3 DEF ProveAny
    <3> QED
      BY <3>1, RecordProofInv
  <2>4. CASE \E base, commit \in Commit : Observe(base, commit)
    BY <2>4, ObserveInv
  <2>5. CASE UNCHANGED vars
    BY <2>5 DEF vars, IInv, TypeOK, EvidenceIsFresh, Budget
  <2> QED
    BY <2>1, <2>2, <2>3, <2>4, <2>5 DEF Next
<1> QED
  BY <1>1, <1>2, PTL DEF Spec

\* Every field of a flow keeps its type, the sequence of completed steps and
\* the nested evidence included.
THEOREM TypeCorrect == Spec => []TypeOK
<1>1. IInv => TypeOK
  BY DEF IInv
<1> QED
  BY <1>1, Invariance, PTL

\* A flow is ready to merge only on a chain of results for its exact base and
\* head, one for each selected step, all of its own Task.
THEOREM ReadyFlowsAreProven == Spec => []ReadyIsProven
<1>1. IInv => ReadyIsProven
  BY DEF IInv, Coherent, ReadyIsProven
<1> QED
  BY <1>1, Invariance, PTL

\* The steps recorded as completed are then exactly the selected ones.
THEOREM ReadyFlowsAreComplete == Spec => []ReadyIsComplete
<1>1. IInv => ReadyIsComplete
  BY DEF IInv, Coherent, ReadyIsComplete
<1> QED
  BY <1>1, Invariance, PTL

\* No evidence from before a push, a base change or a Fix is ever used again.
THEOREM EvidenceNeverSurvivesRestart == Spec => []EvidenceIsFresh
<1>1. IInv => EvidenceIsFresh
  BY DEF IInv
<1> QED
  BY <1>1, Invariance, PTL

\* A Task has at most MAX_FIXES fixes and fails at the rejection after them.
THEOREM FixesAreBounded == Spec => []FixBudget
<1>1. IInv => FixBudget
  BY MaxFixesAssumption
  DEF IInv, TypeOK, TaskFlowState, Budget, Coherent, FixBudget
<1> QED
  BY <1>1, Invariance, PTL

\* A failed flow accepts nothing more: pushes only move its commits.
THEOREM FailureIsFinal == Spec => FailedIsFinal
<1>1. IInv /\ [Next]_vars =>
        [flow.status = "failed" =>
           flow'.status = "failed" /\ flow'.source = flow.source]_vars
  <2> SUFFICES ASSUME IInv, Next, flow.status = "failed"
               PROVE  flow'.status = "failed" /\ flow'.source = flow.source
    OBVIOUS
  <2>1. ~MarkRunning /\ ~RecordAny /\ ~ProveAny
    BY DEF MarkRunning, CanMarkRunning, RecordAny, Record, AcceptsResult,
           ProveAny, RecordProof, AcceptsFixProof
  <2>2. PICK base \in Commit, commit \in Commit : Observe(base, commit)
    BY <2>1 DEF Next
  <2>3. flow' = [flow EXCEPT !.base = base, !.commit = commit]
    BY <2>2 DEF Observe, ObserveCurrentCommit
  <2> QED
    BY <2>3 DEF IInv, TypeOK, TaskFlowState
<1> QED
  BY <1>1, Invariance, PTL DEF Spec, FailedIsFinal
=============================================================================
