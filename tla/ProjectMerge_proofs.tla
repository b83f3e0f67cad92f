------------------------- MODULE ProjectMerge_proofs -------------------------
(* Proofs about ProjectMerge, for any projects and order, any number of runs *)
(* that overlap, and any bounds on edits and faults.                         *)
EXTENDS ProjectMerge, FiniteSetTheorems, TLAPS

-----------------------------------------------------------------------------
(* The inductive invariant                                                   *)

\* Steps of a run that holds the permit, of one that may still ask GitHub to
\* merge, and of one that has found all projects mergeable.
Guarded == {"fresh", "put", "after", "mark"}
Asking == {"guard", "fresh", "put"}
Decided == Steps \ {"idle", "load", "observe", "decide", "resolve", "converge"}

\* The permit is the write lock, and it keeps the Task active and the
\* reservation in place; until its run has asked, nobody has.
Permit(w) ==
    /\ at[w].step \in Guarded =>
          writer = w /\ Active /\ row[Current(w)].state = "waiting_for_help"
    /\ at[w].step \in Asking =>
          row[Current(w)].state # "ready" /\ puts[Current(w)] = 0

\* What a run knows or has observed of a project, its flow has proven.
Proven(w) ==
    /\ at[w].known \subseteq done
    /\ at[w].step = "observe" => at[w].todo \subseteq done
    /\ \A p \in Project : at[w].proof[p] # "blocked" => p \in done
    /\ at[w].step \in Decided =>
          \A p \in Project : at[w].proof[p] # "blocked"

\* The merges a run goes by are on GitHub: those it has observed, and those it
\* has left behind it in the order.
Witnessed(w) ==
    /\ \A p \in Project : at[w].proof[p] = "merged" => Exact(p)
    /\ at[w].step \in {"resolve", "converge"} => at[w].todo \subseteq Observed(w)
    /\ at[w].step \in {"adopt", "regain", "mark"} => Exact(Current(w))
    /\ \A j \in DOMAIN Order : j < at[w].i => Exact(Order[j])
    /\ at[w].step = "partial" => at[w].i > 1

RunInv(w) == Permit(w) /\ Proven(w) /\ Witnessed(w)

\* No two runs may ask for one project.
Exclusive ==
    \A w, v \in Worker :
        at[w].step \in Asking /\ at[v].step \in Asking
        /\ Current(w) = Current(v) => w = v

\* A row that is not reserved was never asked for, and a stored proof is one.
Stored ==
    /\ \A p \in Project : row[p].state = "ready" => puts[p] = 0
    /\ \A p \in Project : row[p].proof => p \in done

IInv ==
    /\ TypeOK /\ (\A w \in Worker : RunInv(w)) /\ Exclusive /\ Stored
    /\ OnePut /\ InOrder /\ RecordsAreTrue

-----------------------------------------------------------------------------
(* How a step changes the record of its run                                  *)

Run == [step : Steps, snap : [Project -> RowState], todo : SUBSET Project,
        known : SUBSET Project, proof : [Project -> Proof], i : DOMAIN Order,
        created : {"none", "yes", "no"}, started : BOOLEAN]

\* Only run w moves.
Alone(w) ==
    at' \in [Worker -> Run] /\ \A v \in Worker \ {w} : at'[v] = at[v]

\* It goes by what it has read.
Keeps(w) ==
    /\ at'[w].todo = at[w].todo /\ at'[w].known = at[w].known
    /\ at'[w].proof = at[w].proof /\ at'[w].i = at[w].i

\* There is a first project, and the order is a sequence of all of them.
LEMMA OrderFacts ==
    /\ 1 \in DOMAIN Order /\ Len(Order) \in Nat /\ DOMAIN Order = 1..Len(Order)
    /\ \A i \in DOMAIN Order : Order[i] \in Project
    /\ \A p \in Project : \E i \in DOMAIN Order : Order[i] = p
<1>1. Cardinality(Project) \in Nat \ {0}
  BY MergeAssumption, FS_CardinalityType, FS_EmptySet
<1>2. Order \in Seq(Project) /\ DOMAIN Order = 1..Cardinality(Project)
  BY <1>1, MergeAssumption
<1>3. \A p \in Project : \E i \in DOMAIN Order : Order[i] = p
  BY MergeAssumption
<1> QED
  BY <1>1, <1>2, <1>3

\* No project comes twice in it.
LEMMA OrderIsInjective ==
    \A i, j \in DOMAIN Order : Order[i] = Order[j] => i = j
<1> DEFINE n == Cardinality(Project)
<1>1. n \in Nat /\ IsFiniteSet(Project)
  BY MergeAssumption, FS_CardinalityType
<1>2. IsFiniteSet(1..n) /\ Cardinality(1..n) = Cardinality(Project)
  BY <1>1, FS_Interval
<1>3. Order \in Surjection(1..n, Project)
  BY MergeAssumption DEF Surjection
<1>4. Order \in Injection(1..n, Project)
  <2> HIDE DEF n
  <2> QED
    BY <1>1, <1>2, <1>3, FS_SurjSameCardinalityImpliesInj
<1> QED
  BY <1>4, MergeAssumption DEF Injection, IsInjective

LEMMA RunType ==
    ASSUME TypeOK
    PROVE  /\ at \in [Worker -> Run]
           /\ \A w \in Worker : at[w] \in Run /\ Current(w) \in Project
BY OrderFacts DEF TypeOK, Run, Current

LEMMA IdleType == Idle \in Run
BY OrderFacts DEF Idle, Run, Steps, RowState, Proof

LEMMA ReturnFacts ==
    ASSUME TypeOK, NEW w \in Worker, Return(w)
    PROVE  Alone(w) /\ at'[w] = Idle
BY RunType, IdleType DEF Return, Alone

LEMMA MoveFacts ==
    ASSUME TypeOK, NEW w \in Worker, NEW step \in Steps, Move(w, step)
    PROVE  Alone(w) /\ Keeps(w) /\ at'[w].step = step
<1> DEFINE r == [at[w] EXCEPT !.step = step]
<1>1. r \in Run /\ r.step = step
      /\ r.todo = at[w].todo /\ r.known = at[w].known
      /\ r.proof = at[w].proof /\ r.i = at[w].i
  BY RunType DEF Run
<1>2. at' = [at EXCEPT ![w] = r]
  BY RunType DEF Move
<1> HIDE DEF r
<1> QED
  BY <1>1, <1>2, RunType DEF Alone, Keeps

\* A run that is over claims nothing.
LEMMA IdleInv ==
    ASSUME NEW w \in Worker, at'[w] = Idle
    PROVE  RunInv(w)'
BY OrderFacts DEF RunInv, Permit, Proven, Witnessed, Idle, Guarded, Asking,
                 Decided

\* The next project of the order, once the current one has merged.
LEMMA AdvanceFacts ==
    ASSUME TypeOK, NEW w \in Worker, Advance(w)
    PROVE  /\ Alone(w) /\ at'[w].known = at[w].known
           /\ at'[w].proof = at[w].proof
           /\ at'[w].step \in {"finish", "reserve"}
           /\ \A j \in DOMAIN Order : j < at'[w].i => j < at[w].i \/ j = at[w].i
<1> DEFINE f == [at[w] EXCEPT !.step = "finish"]
           n == [at[w] EXCEPT !.step = "reserve", !.i = at[w].i + 1,
                              !.created = "none", !.started = FALSE]
<1>1. f \in Run /\ f.step = "finish" /\ f.known = at[w].known
      /\ f.proof = at[w].proof /\ f.i = at[w].i
  BY RunType DEF Run, Steps
<1>2. at[w].i \in Int /\ at[w].i \in DOMAIN Order
      /\ (at[w].i # Len(Order) => at[w].i + 1 \in DOMAIN Order)
  BY RunType, OrderFacts DEF Run
<1>3. ASSUME at[w].i # Len(Order)
      PROVE  n \in Run /\ n.step = "reserve" /\ n.known = at[w].known
             /\ n.proof = at[w].proof /\ n.i = at[w].i + 1
  BY ZenonT(60), <1>2, <1>3, RunType DEF Run, Steps
<1>4. at' = [at EXCEPT ![w] = IF at[w].i = Len(Order) THEN f ELSE n]
  BY RunType DEF Advance
<1> HIDE DEF f, n
<1>5. CASE at[w].i = Len(Order)
  BY <1>1, <1>4, <1>5, RunType DEF Alone
<1>6. CASE at[w].i # Len(Order)
  <2>1. Alone(w) /\ at'[w] = n
    BY <1>3, <1>4, <1>6, RunType DEF Alone
  <2>2. \A j \in DOMAIN Order : j < at[w].i + 1 => j < at[w].i \/ j = at[w].i
    BY <1>2, OrderFacts
  <2> QED
    BY <2>1, <2>2, <1>3, <1>6
<1> QED
  BY <1>5, <1>6

-----------------------------------------------------------------------------
(* What a step of one run may do to the others                               *)

\* The types of what a step changes beside its run.
Counted == wire' \subseteq Project /\ faults' \in 0..MaxFaults
           /\ edits' = edits /\ expired' = expired

\* The write lock is taken only while it is free, and given back by its holder.
LockKept(w) ==
    /\ writer' \in Worker \cup {NoWorker}
    /\ writer' = writer \/ writer \in {w, NoWorker}

\* Run w does not begin to ask for a project another run may ask for.
AsksAlone(w) ==
    at'[w].step \in Asking =>
        \/ at[w].step \in Asking /\ at'[w].i = at[w].i
        \/ row[Order[at'[w].i]].state = "ready"

\* The rows only move away from where nothing was asked, and record only what
\* is merged; the Task is active and nobody else holds the permit.
RowsMove ==
    /\ row' \in [Project -> Row]
    /\ \A p \in Project : row'[p].state = "ready" => row[p].state = "ready"
    /\ \A p \in Project : row'[p].proof => p \in done
    /\ \A p \in Project : row[p].state = "merged" => row'[p] = row[p]
    /\ \A p \in Project :
          row'[p].state = "merged" => row'[p].proof /\ Exact(p)

LEMMA TypeKept ==
    ASSUME TypeOK, NEW w \in Worker, Alone(w), LockKept(w), Counted,
           row' \in [Project -> Row], life' \in Life,
           UNCHANGED <<done, remote, puts>>
    PROVE  TypeOK'
BY DEF TypeOK, Alone, LockKept, Counted, Run

\* Another run does not notice a step that keeps to these rules.
LEMMA OthersKeep ==
    ASSUME IInv, NEW w \in Worker, Alone(w), LockKept(w),
           UNCHANGED <<done, remote, puts>>,
           row' \in [Project -> Row],
           \A p \in Project : row'[p].state = "ready" => row[p].state = "ready",
           \/ UNCHANGED <<row, life>>
           \/ writer \in {w, NoWorker},
           NEW v \in Worker, v # w
    PROVE  RunInv(v)'
<1>1. RunInv(v) /\ at'[v] = at[v] /\ Current(v) \in Project
      /\ NoWorker \notin Worker
  BY RunType, MergeAssumption DEF IInv, Alone
<1>2. Permit(v)'
  <2>1. at[v].step \in Guarded =>
           writer' = v /\ Active' /\ row'[Current(v)].state = "waiting_for_help"
    BY <1>1 DEF RunInv, Permit, LockKept, Active
  <2>2. at[v].step \in Asking =>
           row'[Current(v)].state # "ready" /\ puts'[Current(v)] = 0
    BY <1>1 DEF RunInv, Permit
  <2> QED
    BY <1>1, <2>1, <2>2 DEF Permit, Current, Active
<1>3. Proven(v)' /\ Witnessed(v)'
  BY <1>1 DEF RunInv, Proven, Witnessed, Observed, Current, Exact
<1> QED
  BY <1>2, <1>3 DEF RunInv

LEMMA ExclusiveKept ==
    ASSUME IInv, NEW w \in Worker, Alone(w), AsksAlone(w)
    PROVE  Exclusive'
<1> SUFFICES ASSUME NEW v \in Worker, NEW u \in Worker,
                    (at[v].step \in Asking)', (at[u].step \in Asking)',
                    (Current(v) = Current(u))'
             PROVE  v = u
  BY DEF Exclusive
<1>1. ASSUME NEW x \in Worker, x # w, (at[x].step \in Asking)',
             (Current(x) = Current(w))', (at[w].step \in Asking)'
      PROVE  FALSE
  <2>1. at'[x] = at[x] /\ at[x].step \in Asking
        /\ row[Current(x)].state # "ready" /\ Order[at'[w].i] = Current(x)
    BY <1>1 DEF Alone, IInv, RunInv, Permit, Current
  <2>2. at[w].step \in Asking /\ Current(w) = Current(x)
    BY <1>1, <2>1 DEF AsksAlone, Current
  <2> QED
    BY <1>1, <2>1, <2>2 DEF IInv, Exclusive
<1>2. CASE v # w /\ u # w
  BY <1>2 DEF IInv, Exclusive, Alone, Current
<1> QED
  BY <1>1, <1>2

\* A step that reads, or moves only its own run and its lock.
LEMMA QuietStep ==
    ASSUME IInv, NEW w \in Worker, Alone(w), LockKept(w), AsksAlone(w), Counted,
           UNCHANGED <<row, life, done, remote, puts>>, RunInv(w)'
    PROVE  IInv'
<1>1. row' \in [Project -> Row] /\ life' \in Life
      /\ \A p \in Project : row'[p].state = "ready" => row[p].state = "ready"
  BY DEF IInv, TypeOK
<1>2. TypeOK'
  BY <1>1, TypeKept DEF IInv
<1>3. \A v \in Worker : RunInv(v)'
  BY <1>1, OthersKeep
<1>4. Exclusive'
  BY ExclusiveKept
<1>5. Stored' /\ OnePut' /\ InOrder' /\ RecordsAreTrue'
  BY DEF IInv, Stored, OnePut, InOrder, RecordsAreTrue, Exact
<1> QED
  BY <1>2, <1>3, <1>4, <1>5 DEF IInv

\* A transaction on the rows of an active Task.
LEMMA RowStep ==
    ASSUME IInv, NEW w \in Worker, Alone(w), LockKept(w), AsksAlone(w), Counted,
           Active, writer \in {w, NoWorker}, RowsMove,
           UNCHANGED <<life, done, remote, puts>>, RunInv(w)'
    PROVE  IInv'
<1>1. TypeOK'
  BY TypeKept DEF IInv, RowsMove, TypeOK
<1>2. \A v \in Worker : RunInv(v)'
  BY OthersKeep DEF RowsMove
<1>3. Exclusive'
  BY ExclusiveKept
<1>4. Stored' /\ OnePut' /\ InOrder'
  BY DEF IInv, Stored, OnePut, InOrder, Exact, RowsMove
<1>5. RecordsAreTrue'
  BY DEF IInv, RecordsAreTrue, RowsMove, Exact, Active
<1> QED
  BY <1>1, <1>2, <1>3, <1>4, <1>5 DEF IInv

\* Runs that only move on, and do not come to a step that claims more.
LEMMA MoveInv ==
    ASSUME IInv, NEW w \in Worker, NEW step \in Steps, Move(w, step),
           UNCHANGED <<row, life, done, remote, puts>>,
           step \notin {"load", "observe", "resolve", "converge"},
           step \in Guarded =>
              writer' = w /\ Active /\ row[Current(w)].state = "waiting_for_help",
           step \in Asking => at[w].step \in Asking,
           step \in Decided => at[w].step \in Decided
              \/ \A p \in Project : at[w].proof[p] # "blocked",
           step \in {"adopt", "regain", "mark"} => Exact(Current(w)),
           step = "partial" => at[w].i > 1
    PROVE  Alone(w) /\ AsksAlone(w) /\ RunInv(w)'
<1>1. Alone(w) /\ Keeps(w) /\ at'[w].step = step
  BY MoveFacts DEF IInv
<1>2. RunInv(w) /\ (Current(w) = Current(w)')
  BY <1>1 DEF IInv, Current, Keeps
<1>3. AsksAlone(w)
  BY <1>1, <1>2 DEF AsksAlone, Keeps
<1>4. Permit(w)'
  BY <1>1, <1>2 DEF RunInv, Permit, Active
<1>5. Proven(w)'
  BY <1>1, <1>2 DEF RunInv, Proven, Keeps
<1>6. Witnessed(w)'
  BY <1>1, <1>2 DEF RunInv, Witnessed, Keeps, Exact
<1> QED
  BY <1>1, <1>3, <1>4, <1>5, <1>6 DEF RunInv

LEMMA ReturnInv ==
    ASSUME IInv, NEW w \in Worker, Return(w)
    PROVE  Alone(w) /\ AsksAlone(w) /\ RunInv(w)'
<1>1. Alone(w) /\ at'[w] = Idle
  BY ReturnFacts DEF IInv
<1>2. AsksAlone(w)
  BY <1>1 DEF AsksAlone, Idle, Asking
<1>3. RunInv(w)'
  BY <1>1, IdleInv
<1> QED
  BY <1>1, <1>2, <1>3

\* What an action that is External, or fails a call, leaves alone.
LEMMA ExternalFacts ==
    ASSUME IInv
    PROVE  /\ UNCHANGED External =>
                 Counted /\ UNCHANGED <<done, remote, puts>>
           /\ \A kind : Fault(kind) => faults' \in 0..MaxFaults
           /\ \A w \in Worker :
                 /\ writer' = writer => LockKept(w)
                 /\ Rollback(w) => LockKept(w)
                 /\ Transaction => writer \in {w, NoWorker}
<1>1. UNCHANGED External => Counted /\ UNCHANGED <<done, remote, puts>>
  BY DEF External, Counted, IInv, TypeOK
<1>2. ASSUME NEW kind, Fault(kind) PROVE faults' \in 0..MaxFaults
  BY <1>2, MergeAssumption DEF IInv, TypeOK, Fault
<1>3. ASSUME NEW w \in Worker
      PROVE  /\ writer' = writer => LockKept(w)
             /\ Rollback(w) => LockKept(w)
             /\ Transaction => writer \in {w, NoWorker}
  BY DEF IInv, TypeOK, LockKept, Rollback, Transaction
<1> QED
  BY <1>1, <1>2, <1>3

\* The next project is one that is still to be read.
LEMMA DueFacts ==
    ASSUME IInv, NEW w \in Worker, NEW p \in Due(w)
    PROVE  p \in at[w].todo /\ p \in Project /\ at[w] \in Run
<1>1. at[w] \in Run
  BY RunType DEF IInv
<1>2. PICK i \in DOMAIN Rows : p = Rows[i] /\ Rows[i] \in at[w].todo
  BY DEF Due
<1> QED
  BY <1>1, <1>2 DEF Run

-----------------------------------------------------------------------------
(* A run reads                                                               *)

LEMMA LoadStep ==
    ASSUME IInv, NEW w \in Worker, Load(w)
    PROVE  IInv'
<1> DEFINE r == [Idle EXCEPT !.step = "load", !.todo = Project,
                             !.snap = [p \in Project |-> row[p].state],
                             !.known = {p \in Project : row[p].proof}]
<1>1. [p \in Project |-> row[p].state] \in [Project -> RowState]
  BY DEF IInv, TypeOK, Row
<1>2. r \in Run
  BY <1>1, IdleType DEF Run, Steps
<1>3. r.step = "load" /\ r.known = {p \in Project : row[p].proof}
      /\ r.proof = [p \in Project |-> "blocked"] /\ r.i = 1
  BY DEF Idle
<1>4. at' = [at EXCEPT ![w] = r] /\ UNCHANGED <<Database, External>>
  BY DEF Load
<1> HIDE DEF r
<1>5. Alone(w) /\ at'[w] = r
  BY <1>2, <1>4, RunType DEF Alone, IInv
<1>6. RunInv(w)'
  BY <1>3, <1>4, <1>5, OrderFacts
     DEF RunInv, Permit, Proven, Witnessed, Guarded, Asking, Decided, IInv,
         Stored, External
<1>7. AsksAlone(w)
  BY <1>3, <1>5 DEF AsksAlone, Asking
<1> QED
  BY <1>4, <1>5, <1>6, <1>7, QuietStep, ExternalFacts DEF Database

LEMMA ReplayStep ==
    ASSUME IInv, NEW w \in Worker, Replay(w)
    PROVE  IInv'
<1>1. At(w, "load") /\ UNCHANGED <<Database, External>>
      /\ UNCHANGED <<row, life, writer>>
      /\ LockKept(w) /\ Counted /\ UNCHANGED <<done, remote, puts>>
  BY ExternalFacts DEF Replay, Database
<1>2. CASE Return(w)
  BY <1>1, <1>2, ReturnInv, QuietStep
<1>3. CASE ~Return(w)
  <2>1. PICK p \in Due(w) :
           LET todo == at[w].todo \ {p}
               known == IF Known(w, p) THEN at[w].known \cup {p}
                                       ELSE at[w].known
           IN at' = [at EXCEPT
                ![w].todo = IF todo = {} THEN known ELSE todo,
                ![w].known = known,
                ![w].step = IF todo = {} THEN "observe" ELSE @]
    BY <1>3 DEF Replay
  <2> DEFINE todo == at[w].todo \ {p}
             known == IF Known(w, p) THEN at[w].known \cup {p} ELSE at[w].known
             left == IF todo = {} THEN known ELSE todo
             step == IF todo = {} THEN "observe" ELSE "load"
             r == [at[w] EXCEPT !.todo = left, !.known = known, !.step = step]
  <2>2. p \in Project /\ at[w] \in Run /\ at[w].step = "load"
    BY <1>1, DueFacts DEF At
  <2>3. /\ known \in SUBSET Project /\ left \in SUBSET Project
        /\ step \in {"observe", "load"}
    BY <2>2 DEF Run
  <2>4. RunInv(w) /\ known \subseteq done /\ (step = "observe" => left = known)
    BY DEF IInv, RunInv, Proven, Known
  <2>5. at' = [at EXCEPT ![w] = r]
    BY <2>1, <2>2, RunType DEF IInv
  <2> HIDE DEF todo, known, left, step
  <2>6. /\ r \in Run /\ r.todo = left /\ r.known = known /\ r.step = step
        /\ r.proof = at[w].proof /\ r.i = at[w].i
    BY <2>2, <2>3 DEF Run, Steps
  <2> HIDE DEF r
  <2>7. Alone(w) /\ at'[w] = r
    BY <2>5, <2>6, RunType DEF Alone, IInv
  <2>8. RunInv(w)'
    <3>1. Permit(w)'
      BY <2>3, <2>6, <2>7 DEF Permit, Guarded, Asking
    <3>2. Proven(w)'
      BY <1>1, <2>3, <2>4, <2>6, <2>7 DEF RunInv, Proven, Decided
    <3>3. Witnessed(w)'
      BY <1>1, <2>3, <2>4, <2>6, <2>7 DEF RunInv, Witnessed, Exact
    <3> QED
      BY <3>1, <3>2, <3>3 DEF RunInv
  <2>9. AsksAlone(w)
    BY <2>3, <2>6, <2>7 DEF AsksAlone, Asking
  <2> QED
    BY <1>1, <2>7, <2>8, <2>9, QuietStep
<1> QED
  BY <1>2, <1>3

\* Only an exact merge is taken for one, and only a flow that is known for more
\* than blocked.
LEMMA EvidenceFacts ==
    ASSUME TypeOK, NEW p \in Project
    PROVE  Evidence(p) \in Proof /\ (Evidence(p) = "merged" <=> Exact(p))
BY DEF Evidence, Proof, Unmoved, Exact, TypeOK

LEMMA ObserveStep ==
    ASSUME IInv, NEW w \in Worker, Observe(w)
    PROVE  IInv'
<1>1. At(w, "observe") /\ UNCHANGED <<row, life, writer>>
      /\ LockKept(w) /\ Counted /\ UNCHANGED <<done, remote, puts>>
  BY ExternalFacts DEF Observe, Database
<1>2. CASE at[w].todo = {}
  <2>1. Move(w, "decide") /\ "decide" \in Steps
    BY <1>2 DEF Observe, Steps
  <2>2. Alone(w) /\ AsksAlone(w) /\ RunInv(w)'
    BY <1>1, <2>1, MoveInv DEF Guarded, Asking, Decided
  <2> QED
    BY <1>1, <2>2, QuietStep
<1>3. CASE at[w].todo # {}
  <2>1. PICK p \in Due(w) : at' = [at EXCEPT ![w].todo = @ \ {p},
                                             ![w].proof[p] = Evidence(p)]
    BY <1>3 DEF Observe
  <2> DEFINE todo == at[w].todo \ {p}
             proof == [at[w].proof EXCEPT ![p] = Evidence(p)]
             r == [at[w] EXCEPT !.todo = todo, !.proof = proof]
  <2>2. p \in Project /\ at[w] \in Run /\ at[w].step = "observe"
        /\ p \in at[w].todo
    BY <1>1, DueFacts DEF At
  <2>3. /\ todo \in SUBSET Project /\ proof \in [Project -> Proof]
        /\ \A q \in Project : proof[q] = IF q = p THEN Evidence(p)
                                                  ELSE at[w].proof[q]
    BY <2>2, EvidenceFacts DEF Run, IInv
  <2>4. RunInv(w) /\ at[w].todo \subseteq done /\ todo \subseteq done
    BY <2>2 DEF IInv, RunInv, Proven
  <2>5. at' = [at EXCEPT ![w] = r]
    BY <2>1, <2>2, RunType DEF IInv
  <2> HIDE DEF todo, proof
  <2>6. /\ r \in Run /\ r.todo = todo /\ r.proof = proof /\ r.i = at[w].i
        /\ r.step = "observe" /\ r.known = at[w].known
    BY <2>2, <2>3 DEF Run
  <2> HIDE DEF r
  <2>7. Alone(w) /\ at'[w] = r
    BY <2>5, <2>6, RunType DEF Alone, IInv
  <2>8. RunInv(w)'
    <3>1. Permit(w)'
      BY <2>6, <2>7 DEF Permit, Guarded, Asking
    <3>2. Proven(w)'
      BY <1>1, <2>2, <2>3, <2>4, <2>6, <2>7 DEF RunInv, Proven, Decided
    <3>3. Witnessed(w)'
      BY <1>1, <2>3, <2>4, <2>6, <2>7, EvidenceFacts
         DEF RunInv, Witnessed, Exact, IInv
    <3> QED
      BY <3>1, <3>2, <3>3 DEF RunInv
  <2>9. AsksAlone(w)
    BY <2>6, <2>7 DEF AsksAlone, Asking
  <2> QED
    BY <1>1, <2>7, <2>8, <2>9, QuietStep
<1> QED
  BY <1>2, <1>3

LEMMA DecideStep ==
    ASSUME IInv, NEW w \in Worker, Decide(w)
    PROVE  IInv'
<1> DEFINE step == IF Pending(w) # {} THEN "resolve"
                   ELSE IF /\ Automatic /\ ~expired
                           /\ \A p \in Project : at[w].proof[p] # "blocked"
                     THEN "barrier"
                   ELSE "converge"
           r == [at[w] EXCEPT !.todo = Observed(w), !.step = step]
<1>1. At(w, "decide") /\ UNCHANGED <<row, life, writer>>
      /\ LockKept(w) /\ Counted /\ UNCHANGED <<done, remote, puts>>
  BY ExternalFacts DEF Decide, Database
<1>2. /\ step \in {"resolve", "barrier", "converge"}
      /\ step = "barrier" => \A p \in Project : at[w].proof[p] # "blocked"
  OBVIOUS
<1>3. at[w] \in Run /\ RunInv(w)
  BY RunType DEF IInv
<1>4. at' = [at EXCEPT ![w] = r]
  BY DEF Decide
<1> HIDE DEF step
<1>5. /\ r \in Run /\ r.todo = Observed(w) /\ r.step = step
      /\ r.proof = at[w].proof /\ r.i = at[w].i /\ r.known = at[w].known
  BY <1>2, <1>3 DEF Run, Steps, Observed
<1> HIDE DEF r
<1>6. Alone(w) /\ at'[w] = r
  BY <1>4, <1>5, RunType DEF Alone, IInv
<1>7. RunInv(w)'
  <2>1. Permit(w)'
    BY <1>2, <1>5, <1>6 DEF Permit, Guarded, Asking
  <2>2. Proven(w)'
    BY <1>1, <1>2, <1>3, <1>5, <1>6 DEF RunInv, Proven, Decided
  <2>3. Witnessed(w)'
    BY <1>1, <1>2, <1>3, <1>5, <1>6 DEF RunInv, Witnessed, Exact, Observed
  <2> QED
    BY <2>1, <2>2, <2>3 DEF RunInv
<1>8. AsksAlone(w)
  BY <1>2, <1>5, <1>6 DEF AsksAlone, Asking
<1> QED
  BY <1>1, <1>6, <1>7, <1>8, QuietStep

-----------------------------------------------------------------------------
(* Recording, and the end of the Task                                        *)

\* The row of an exact merge says so from now on.
LEMMA RecordFacts ==
    ASSUME IInv, NEW p \in Project, RecordMerged(p), Exact(p), p \in done
    PROVE  RowsMove
<1> DEFINE m == [state |-> "merged", proof |-> TRUE]
<1>1. /\ row \in [Project -> Row] /\ m \in Row
      /\ m.state = "merged" /\ m.proof = TRUE
  BY DEF IInv, TypeOK, Row, RowState
<1>2. row[p].state = "merged" => row[p] = m
  BY <1>1 DEF IInv, RecordsAreTrue, Row
<1>3. row' = [row EXCEPT ![p] = m]
  BY DEF RecordMerged
<1> HIDE DEF m
<1>4. /\ row' \in [Project -> Row]
      /\ \A q \in Project : row'[q] = IF q = p THEN m ELSE row[q]
  BY <1>1, <1>3
<1>5. /\ \A q \in Project : row[q].proof => q \in done
      /\ \A q \in Project : row[q].state = "merged" => row[q].proof /\ Exact(q)
  BY DEF IInv, Stored, RecordsAreTrue
<1>6. \A q \in Project : row[q].state = "merged" => row'[q] = row[q]
  BY <1>2, <1>4
<1>7. \A q \in Project : row'[q].state = "merged" => row'[q].proof /\ Exact(q)
  BY <1>1, <1>4, <1>5
<1>8. /\ \A q \in Project : row'[q].state = "ready" => row[q].state = "ready"
      /\ \A q \in Project : row'[q].proof => q \in done
  BY <1>1, <1>4, <1>5
<1> QED
  BY <1>4, <1>6, <1>7, <1>8 DEF RowsMove

\* Every flow that was found ready is ready, and the Task is decided on them.
LEMMA DecidedIsDone ==
    ASSUME IInv, NEW w \in Worker, at[w].step \in Decided
    PROVE  done = Project
BY DEF IInv, TypeOK, RunInv, Proven

LEMMA ExactIsDone ==
    ASSUME IInv, NEW w \in Worker, NEW p \in Observed(w)
    PROVE  p \in Project /\ p \in done /\ Exact(p)
BY DEF IInv, RunInv, Proven, Witnessed, Observed

LEMMA ConvergeStep ==
    ASSUME IInv, NEW w \in Worker, Converge(w)
    PROVE  IInv'
<1>1. /\ at[w].step \in {"resolve", "converge"} /\ UNCHANGED <<life, writer>>
      /\ LockKept(w) /\ Counted /\ UNCHANGED <<done, remote, puts>>
  BY ExternalFacts DEF Converge
<1>2. RunInv(w) /\ at[w].todo \subseteq Observed(w)
  BY <1>1 DEF IInv, RunInv, Witnessed
<1>3. CASE Return(w) /\ UNCHANGED row
  BY <1>1, <1>3, ReturnInv, QuietStep
<1>4. CASE Observed(w) = Project /\ Move(w, "finish") /\ UNCHANGED row
  <2>1. "finish" \in Steps /\ \A p \in Project : at[w].proof[p] # "blocked"
    BY <1>4 DEF Steps, Observed
  <2>2. Alone(w) /\ AsksAlone(w) /\ RunInv(w)'
    BY <1>1, <1>4, <2>1, MoveInv DEF Guarded, Asking
  <2> QED
    BY <1>1, <1>4, <2>2, QuietStep
<1>5. ASSUME NEW p \in Due(w), Transaction, Adoptable(w, p), RecordMerged(p),
             at' = [at EXCEPT ![w].todo = @ \ {p}]
      PROVE  IInv'
  <2> DEFINE todo == at[w].todo \ {p}
             r == [at[w] EXCEPT !.todo = todo]
  <2>1. p \in at[w].todo /\ p \in Project /\ at[w] \in Run
    BY DueFacts
  <2>2. p \in done /\ Exact(p)
    BY <1>2, <2>1, ExactIsDone
  <2>3. todo \in SUBSET Project /\ todo \subseteq Observed(w)
    BY <1>2, <2>1 DEF Run
  <2>4. at' = [at EXCEPT ![w] = r]
    BY <1>5, <2>1
  <2> HIDE DEF todo
  <2>5. /\ r \in Run /\ r.todo = todo /\ r.step = at[w].step
        /\ r.proof = at[w].proof /\ r.i = at[w].i /\ r.known = at[w].known
    BY <2>1, <2>3 DEF Run
  <2> HIDE DEF r
  <2>6. Alone(w) /\ at'[w] = r
    BY <2>4, <2>5, RunType DEF Alone, IInv
  <2>7. RunInv(w)'
    <3>1. Permit(w)'
      BY <1>1, <2>5, <2>6 DEF Permit, Guarded, Asking
    <3>2. Proven(w)'
      BY <1>1, <1>2, <2>5, <2>6 DEF RunInv, Proven, Decided
    <3>3. Witnessed(w)'
      BY <1>1, <1>2, <2>3, <2>5, <2>6 DEF RunInv, Witnessed, Exact, Observed
    <3> QED
      BY <3>1, <3>2, <3>3 DEF RunInv
  <2>8. AsksAlone(w)
    BY <1>1, <2>5, <2>6 DEF AsksAlone, Asking
  <2>9. Active /\ writer \in {w, NoWorker} /\ RowsMove
    BY <1>5, <2>1, <2>2, RecordFacts DEF Adoptable, Transaction
  <2> QED
    BY <1>1, <2>6, <2>7, <2>8, <2>9, RowStep
<1> QED
  BY <1>3, <1>4, <1>5 DEF Converge

\* A transaction that may end the Task: nobody holds the permit.
LEMMA EndingStep ==
    ASSUME IInv, NEW w \in Worker, Return(w), Transaction,
           UNCHANGED <<writer, External>>, life' \in Life,
           row' \in [Project -> Row], RecordsAreTrue',
           \A p \in Project : row'[p].state = "ready" => row[p].state = "ready",
           \A p \in Project : row'[p].proof => p \in done
    PROVE  IInv'
<1>1. LockKept(w) /\ Counted /\ UNCHANGED <<done, remote, puts>>
      /\ writer \in {w, NoWorker}
  BY ExternalFacts
<1>2. Alone(w) /\ AsksAlone(w) /\ RunInv(w)'
  BY ReturnInv
<1>3. TypeOK'
  BY <1>1, <1>2, TypeKept DEF IInv
<1>4. \A v \in Worker : RunInv(v)'
  BY <1>1, <1>2, OthersKeep
<1>5. Exclusive'
  BY <1>2, ExclusiveKept
<1>6. Stored' /\ OnePut' /\ InOrder'
  BY <1>1 DEF IInv, Stored, OnePut, InOrder, Exact
<1> QED
  BY <1>3, <1>4, <1>5, <1>6 DEF IInv

LEMMA FinishStep ==
    ASSUME IInv, NEW w \in Worker, Finish(w)
    PROVE  IInv'
<1>1. Return(w) /\ Transaction /\ UNCHANGED <<row, writer, External>>
  BY DEF Finish
<1>2. row' \in [Project -> Row] /\ RecordsAreTrue /\ life \in Life
      /\ \A p \in Project : row'[p].proof => p \in done
  BY <1>1 DEF IInv, TypeOK, Stored
<1>3. CASE life' = life
  <2>1. RecordsAreTrue'
    BY <1>1, <1>2, <1>3 DEF RecordsAreTrue, Exact, External
  <2> QED
    BY <1>1, <1>2, <1>3, <2>1, EndingStep
<1>4. CASE /\ \A p \in Project : row[p].state = "merged"
           /\ life' = [Event("merged") EXCEPT !.merged = Project]
  <2>1. life' \in Life /\ life'.event = "merged"
    BY <1>4 DEF Event, Life
  <2>2. RecordsAreTrue'
    BY <1>1, <1>2, <1>4, <2>1 DEF RecordsAreTrue, Exact, External
  <2> QED
    BY <1>1, <1>2, <2>1, <2>2, EndingStep
<1> QED
  BY <1>3, <1>4 DEF Finish

LEMMA PartialStep ==
    ASSUME IInv, NEW w \in Worker, Partial(w)
    PROVE  IInv'
<1> DEFINE p == Current(w)
<1>1. Return(w) /\ Transaction /\ UNCHANGED <<writer, External>>
      /\ at[w].step = "partial" /\ p \in Project
  BY RunType DEF Partial, At, IInv
<1>2. row \in [Project -> Row] /\ RecordsAreTrue /\ life \in Life
      /\ \A q \in Project : row[q].proof => q \in done
  BY DEF IInv, TypeOK, Stored
<1>3. CASE UNCHANGED <<row, life>>
  <2>1. RecordsAreTrue'
    BY <1>1, <1>2, <1>3 DEF RecordsAreTrue, Exact, External
  <2> QED
    BY <1>1, <1>2, <1>3, <2>1, EndingStep
<1>4. CASE /\ \A q \in MergedIds(w) : row[q].state = "merged"
           /\ \A q \in Remaining(w) : row[q].state # "merged"
           /\ row[p].state \in {"ready", "waiting_for_help"}
           /\ row' = [row EXCEPT ![p].state = "failed"]
           /\ life' = [event |-> "partially_merged", failed |-> {p},
                       merged |-> MergedIds(w), remaining |-> Remaining(w)]
  <2>1. /\ row' \in [Project -> Row]
        /\ \A q \in Project : /\ row'[q].proof = row[q].proof
                              /\ row'[q].state = IF q = p THEN "failed"
                                                 ELSE row[q].state
    BY <1>1, <1>2, <1>4 DEF Row, RowState
  <2>2. /\ at[w].i \in 1..Len(Order) /\ at[w].i > 1 /\ Len(Order) \in Nat
        /\ p = Order[at[w].i]
    BY <1>1, RunType, OrderFacts DEF IInv, RunInv, Witnessed, Run, Current
  <2>3. /\ MergedIds(w) \subseteq Project /\ Remaining(w) \subseteq Project
        /\ Project = MergedIds(w) \cup {p} \cup Remaining(w)
        /\ MergedIds(w) # {}
    <3>1. \A q \in MergedIds(w) : q \in Project
      BY <2>2, OrderFacts DEF MergedIds
    <3>2. \A q \in Remaining(w) : q \in Project
      BY <2>2, OrderFacts DEF Remaining
    <3>3. Order[1] \in MergedIds(w)
      BY <2>2 DEF MergedIds
    <3>4. ASSUME NEW q \in Project
          PROVE  q \in MergedIds(w) \cup {p} \cup Remaining(w)
      <4>1. PICK j \in 1..Len(Order) : Order[j] = q
        BY OrderFacts
      <4>2. j < at[w].i \/ j = at[w].i \/ j > at[w].i
        BY <2>2
      <4> QED
        BY <2>2, <4>1, <4>2 DEF MergedIds, Remaining
    <3> QED
      BY <1>1, <3>1, <3>2, <3>3, <3>4
  <2>4. life' \in Life /\ life'.event = "partially_merged"
        /\ life'.merged = MergedIds(w) /\ life'.failed = {p}
        /\ life'.remaining = Remaining(w)
    BY <1>1, <1>4, <2>3 DEF Life
  <2>5. MergedIds(w) = {q \in Project : row'[q].state = "merged"}
    BY <1>1, <1>4, <2>1, <2>3
  <2>6. RecordsAreTrue'
    <3>1. \A q \in Project :
             row'[q].state = "merged" => row'[q].proof /\ Exact(q)'
      BY <1>1, <1>2, <2>1 DEF RecordsAreTrue, Exact, External
    <3> QED
      BY <1>1, <2>1, <2>3, <2>4, <2>5, <3>1 DEF RecordsAreTrue
  <2> QED
    BY <1>1, <1>2, <2>1, <2>4, <2>6, EndingStep
<1> QED
  BY <1>3, <1>4 DEF Partial

-----------------------------------------------------------------------------
(* The ordered merges                                                        *)

\* A change of one row that was not merged and does not become so.
LEMMA RowFacts ==
    ASSUME IInv, done = Project, NEW p \in Project, NEW r \in Row,
           row[p].state # "merged", r.state \notin {"merged", "ready"},
           row' = [row EXCEPT ![p] = r]
    PROVE  RowsMove
<1>1. row \in [Project -> Row]
      /\ \A q \in Project : row[q].state = "merged" => row[q].proof /\ Exact(q)
  BY DEF IInv, TypeOK, RecordsAreTrue
<1>2. /\ row' \in [Project -> Row]
      /\ \A q \in Project : row'[q] = IF q = p THEN r ELSE row[q]
  BY <1>1
<1> QED
  BY <1>1, <1>2 DEF RowsMove

LEMMA BarrierStep ==
    ASSUME IInv, NEW w \in Worker, Barrier(w)
    PROVE  IInv'
<1>1. /\ at[w].step = "barrier" /\ UNCHANGED <<life, writer>>
      /\ writer \in {w, NoWorker}
      /\ LockKept(w) /\ Counted /\ UNCHANGED <<done, remote, puts>>
  BY ExternalFacts DEF Barrier, At
<1>2. CASE Return(w) /\ UNCHANGED row
  BY <1>1, <1>2, ReturnInv, QuietStep
<1>3. CASE /\ Active /\ Move(w, "reserve")
           /\ row' = [p \in Project |-> [row[p] EXCEPT !.proof = TRUE]]
  <2>1. done = Project /\ RunInv(w)
    BY <1>1, DecidedIsDone DEF Decided, Steps, IInv
  <2>2. Alone(w) /\ Keeps(w) /\ at'[w].step = "reserve"
    BY <1>3, MoveFacts DEF IInv, Steps
  <2>3. row \in [Project -> Row]
        /\ \A q \in Project : row[q].state = "merged" => row[q].proof /\ Exact(q)
    BY DEF IInv, TypeOK, RecordsAreTrue
  <2>4. /\ row' \in [Project -> Row]
        /\ \A q \in Project : row'[q].state = row[q].state /\ row'[q].proof
        /\ \A q \in Project : row[q].proof => row'[q] = row[q]
    BY <1>3, <2>3 DEF Row
  <2>5. RowsMove
    BY <2>1, <2>3, <2>4 DEF RowsMove
  <2>6. RunInv(w)'
    <3>1. Permit(w)'
      BY <2>2 DEF Permit, Guarded, Asking
    <3>2. Proven(w)'
      BY <1>1, <2>1, <2>2 DEF RunInv, Proven, Keeps, Decided, Steps
    <3>3. Witnessed(w)'
      BY <1>1, <2>1, <2>2 DEF RunInv, Witnessed, Keeps, Exact
    <3> QED
      BY <3>1, <3>2, <3>3 DEF RunInv
  <2>7. AsksAlone(w)
    BY <2>2 DEF AsksAlone, Asking
  <2> QED
    BY <1>1, <1>3, <2>2, <2>5, <2>6, <2>7, RowStep
<1> QED
  BY <1>2, <1>3 DEF Barrier

\* Whoever turns the row to waiting_for_help is the first to ask.
LEMMA ReserveStep ==
    ASSUME IInv, NEW w \in Worker, Reserve(w)
    PROVE  IInv'
<1> DEFINE p == Current(w)
<1>1. /\ at[w].step = "reserve" /\ UNCHANGED <<life, writer>>
      /\ writer \in {w, NoWorker}
      /\ LockKept(w) /\ Counted /\ UNCHANGED <<done, remote, puts>>
  BY ExternalFacts DEF Reserve, At
<1>2. /\ done = Project /\ RunInv(w) /\ at[w] \in Run /\ p \in Project
      /\ \A q \in Project : at[w].proof[q] # "blocked"
  BY <1>1, DecidedIsDone, RunType DEF Decided, Steps, IInv, RunInv, Proven
<1>3. CASE Move(w, "recover") /\ UNCHANGED row
  <2>1. Alone(w) /\ AsksAlone(w) /\ RunInv(w)'
    BY <1>1, <1>2, <1>3, MoveInv DEF Steps, Guarded, Asking
  <2> QED
    BY <1>1, <1>3, <2>1, QuietStep
<1>4. CASE /\ at' = [at EXCEPT ![w] = [@ EXCEPT !.step = "reread",
                                                !.created = "no"]]
           /\ UNCHANGED row
  <2> DEFINE r == [at[w] EXCEPT !.step = "reread", !.created = "no"]
  <2>1. /\ r \in Run /\ r.todo = at[w].todo /\ r.step = "reread"
        /\ r.proof = at[w].proof /\ r.i = at[w].i /\ r.known = at[w].known
    BY <1>2 DEF Run, Steps
  <2>2. at' = [at EXCEPT ![w] = r]
    BY <1>4
  <2> HIDE DEF r
  <2>3. Alone(w) /\ at'[w] = r
    BY <2>1, <2>2, RunType DEF Alone, IInv
  <2>4. RunInv(w)'
    BY <1>1, <1>2, <2>1, <2>3
       DEF RunInv, Permit, Proven, Witnessed, Guarded, Asking, Exact
  <2>5. AsksAlone(w)
    BY <2>1, <2>3 DEF AsksAlone, Asking
  <2> QED
    BY <1>1, <1>4, <2>3, <2>4, <2>5, QuietStep
<1>5. CASE /\ Active /\ row[p].state = "ready"
           /\ row' = [row EXCEPT ![p].state = "waiting_for_help"]
           /\ at' = [at EXCEPT ![w] = [@ EXCEPT !.step = "guard",
                                                !.created = "yes"]]
  <2> DEFINE r == [at[w] EXCEPT !.step = "guard", !.created = "yes"]
             m == [row[p] EXCEPT !.state = "waiting_for_help"]
  <2>1. /\ r \in Run /\ r.todo = at[w].todo /\ r.step = "guard"
        /\ r.proof = at[w].proof /\ r.i = at[w].i /\ r.known = at[w].known
    BY <1>2 DEF Run, Steps
  <2>2. at' = [at EXCEPT ![w] = r]
    BY <1>5
  <2> HIDE DEF r
  <2>3. Alone(w) /\ at'[w] = r
    BY <2>1, <2>2, RunType DEF Alone, IInv
  <2>4. /\ m \in Row /\ m.state = "waiting_for_help"
        /\ row \in [Project -> Row]
    BY <1>2 DEF IInv, TypeOK, Row, RowState
  <2>5. row' = [row EXCEPT ![p] = m]
    BY <1>5
  <2> HIDE DEF m
  <2>6. RowsMove /\ row'[p].state = "waiting_for_help"
    BY <1>2, <1>5, <2>4, <2>5, RowFacts
  <2>7. puts[p] = 0
    BY <1>2, <1>5 DEF IInv, Stored
  <2>8. RunInv(w)'
    <3>1. Permit(w)'
      BY <1>1, <2>1, <2>3, <2>6, <2>7 DEF Permit, Guarded, Current
    <3>2. Proven(w)'
      BY <1>1, <1>2, <2>1, <2>3 DEF RunInv, Proven
    <3>3. Witnessed(w)'
      BY <1>1, <1>2, <2>1, <2>3 DEF RunInv, Witnessed, Exact
    <3> QED
      BY <3>1, <3>2, <3>3 DEF RunInv
  <2>9. AsksAlone(w)
    BY <1>5, <2>1, <2>3 DEF AsksAlone, Current
  <2> QED
    BY <1>1, <1>5, <2>3, <2>6, <2>8, <2>9, RowStep
<1> QED
  BY <1>3, <1>4, <1>5 DEF Reserve

LEMMA RereadStep ==
    ASSUME IInv, NEW w \in Worker, Reread(w)
    PROVE  IInv'
<1>1. /\ at[w].step = "reread" /\ UNCHANGED <<row, life, writer>>
      /\ LockKept(w) /\ Counted /\ UNCHANGED <<done, remote, puts>>
  BY ExternalFacts DEF Reread, At, Database
<1>2. Current(w) \in Project
  BY RunType DEF IInv
<1>3. CASE Return(w)
  BY <1>1, <1>3, ReturnInv, QuietStep
<1>4. CASE Exact(Current(w)) /\ Move(w, "adopt")
  <2>1. Alone(w) /\ AsksAlone(w) /\ RunInv(w)'
    BY <1>1, <1>4, MoveInv DEF Steps, Guarded, Asking, Decided
  <2> QED
    BY <1>1, <2>1, QuietStep
<1>5. CASE Move(w, "recover")
  <2>1. Alone(w) /\ AsksAlone(w) /\ RunInv(w)'
    BY <1>1, <1>5, MoveInv DEF Steps, Guarded, Asking, Decided
  <2> QED
    BY <1>1, <2>1, QuietStep
<1> QED
  BY <1>2, <1>3, <1>4, <1>5, EvidenceFacts DEF Reread, IInv

\* The current project is recorded, and the run goes on to the next one.
LEMMA NextProject ==
    ASSUME IInv, NEW w \in Worker, Advance(w), RecordMerged(Current(w)),
           Exact(Current(w)), at[w].step \in Decided,
           Active, writer \in {w, NoWorker}, LockKept(w), Counted,
           UNCHANGED <<life, done, remote, puts>>
    PROVE  IInv'
<1>1. /\ done = Project /\ RunInv(w) /\ Current(w) \in Project
      /\ \A q \in Project : at[w].proof[q] # "blocked"
  BY DecidedIsDone, RunType DEF IInv, RunInv, Proven
<1>2. RowsMove
  BY <1>1, RecordFacts
<1>3. /\ Alone(w) /\ at'[w].known = at[w].known
      /\ at'[w].proof = at[w].proof
      /\ at'[w].step \in {"finish", "reserve"}
      /\ \A j \in DOMAIN Order : j < at'[w].i => j < at[w].i \/ j = at[w].i
  BY AdvanceFacts DEF IInv
<1>4. RunInv(w)'
  <2>1. Permit(w)'
    BY <1>3 DEF Permit, Guarded, Asking
  <2>2. Proven(w)'
    BY <1>1, <1>3 DEF RunInv, Proven
  <2>3. Witnessed(w)'
    BY <1>1, <1>3 DEF RunInv, Witnessed, Exact, Current
  <2> QED
    BY <2>1, <2>2, <2>3 DEF RunInv
<1>5. AsksAlone(w)
  BY <1>3 DEF AsksAlone, Asking
<1> QED
  BY <1>2, <1>3, <1>4, <1>5, RowStep

LEMMA AdoptStep ==
    ASSUME IInv, NEW w \in Worker, Adopt(w)
    PROVE  IInv'
<1>1. /\ at[w].step \in {"adopt", "regain"} /\ UNCHANGED <<life, writer>>
      /\ writer \in {w, NoWorker}
      /\ LockKept(w) /\ Counted /\ UNCHANGED <<done, remote, puts>>
  BY ExternalFacts DEF Adopt
<1>2. RunInv(w) /\ Exact(Current(w)) /\ at[w].step \in Decided
  BY <1>1 DEF IInv, RunInv, Witnessed, Decided, Steps
<1>3. CASE Return(w) /\ UNCHANGED row
  BY <1>1, <1>3, ReturnInv, QuietStep
<1>4. CASE Move(w, "recover") /\ UNCHANGED row
  <2>1. Alone(w) /\ AsksAlone(w) /\ RunInv(w)'
    BY <1>1, <1>2, <1>4, MoveInv DEF Steps, Guarded, Asking
  <2> QED
    BY <1>1, <1>4, <2>1, QuietStep
<1>5. CASE Active /\ RecordMerged(Current(w)) /\ Advance(w)
  BY <1>1, <1>2, <1>5, NextProject
<1> QED
  BY <1>3, <1>4, <1>5 DEF Adopt, Adoptable

LEMMA MarkStep ==
    ASSUME IInv, NEW w \in Worker, Mark(w)
    PROVE  IInv'
<1>1. /\ at[w].step = "mark" /\ life' = life
      /\ LockKept(w) /\ Counted /\ UNCHANGED <<done, remote, puts>>
      /\ RecordMerged(Current(w)) /\ Advance(w)
  BY ExternalFacts DEF Mark, At
<1>2. /\ writer = w /\ Active /\ Exact(Current(w)) /\ at[w].step \in Decided
  BY <1>1 DEF IInv, RunInv, Permit, Witnessed, Guarded, Decided, Steps
<1> QED
  BY <1>1, <1>2, NextProject

LEMMA GuardStep ==
    ASSUME IInv, NEW w \in Worker, Guard(w)
    PROVE  IInv'
<1>1. /\ at[w].step = "guard" /\ UNCHANGED <<row, life>>
      /\ writer = NoWorker /\ Counted /\ UNCHANGED <<done, remote, puts>>
  BY ExternalFacts DEF Guard, At, Transaction
<1>2. CASE /\ Active /\ row[Current(w)].state = "waiting_for_help"
           /\ Move(w, "fresh") /\ writer' = w
  <2>1. Alone(w) /\ AsksAlone(w) /\ RunInv(w)'
    BY <1>1, <1>2, MoveInv DEF Steps, Asking, Decided
  <2>2. LockKept(w)
    BY <1>1, <1>2 DEF LockKept
  <2> QED
    BY <1>1, <2>1, <2>2, QuietStep
<1>3. CASE Move(w, "recover") /\ UNCHANGED writer
  <2>1. Alone(w) /\ AsksAlone(w) /\ RunInv(w)'
    BY <1>1, <1>3, MoveInv DEF Steps, Guarded, Asking, Decided
  <2>2. LockKept(w)
    BY <1>3, ExternalFacts
  <2> QED
    BY <1>1, <2>1, <2>2, QuietStep
<1> QED
  BY <1>2, <1>3 DEF Guard

\* The handler of an error gives the permit back.
LEMMA RecoverMove ==
    ASSUME IInv, NEW w \in Worker, Move(w, "recover"), at[w].step \in Decided,
           LockKept(w), Counted, UNCHANGED <<row, life, done, remote, puts>>
    PROVE  IInv'
<1>1. Alone(w) /\ AsksAlone(w) /\ RunInv(w)'
  BY MoveInv DEF Steps, Guarded, Asking
<1> QED
  BY <1>1, QuietStep

LEMMA FreshStep ==
    ASSUME IInv, NEW w \in Worker, Fresh(w)
    PROVE  IInv'
<1>1. /\ at[w].step = "fresh" /\ UNCHANGED <<row, life>>
      /\ Counted /\ UNCHANGED <<done, remote, puts>>
      /\ at[w].step \in Decided
  BY ExternalFacts DEF Fresh, At, Decided, Steps
<1>2. /\ RunInv(w) /\ Current(w) \in Project /\ at[w] \in Run
      /\ writer = w /\ Active /\ row[Current(w)].state = "waiting_for_help"
      /\ puts[Current(w)] = 0
  BY <1>1, RunType DEF IInv, RunInv, Permit, Guarded, Asking
<1>3. CASE Exact(Current(w)) /\ Move(w, "mark") /\ UNCHANGED writer
  <2>1. Alone(w) /\ AsksAlone(w) /\ RunInv(w)'
    BY <1>1, <1>2, <1>3, MoveInv DEF Steps, Asking
  <2>2. LockKept(w)
    BY <1>3, ExternalFacts
  <2> QED
    BY <1>1, <2>1, <2>2, QuietStep
<1>4. CASE /\ at' = [at EXCEPT ![w] = [@ EXCEPT !.step = "put",
                                                !.started = TRUE]]
           /\ UNCHANGED writer
  <2> DEFINE r == [at[w] EXCEPT !.step = "put", !.started = TRUE]
  <2>1. /\ r \in Run /\ r.todo = at[w].todo /\ r.step = "put"
        /\ r.proof = at[w].proof /\ r.i = at[w].i /\ r.known = at[w].known
    BY <1>2 DEF Run, Steps
  <2>2. at' = [at EXCEPT ![w] = r]
    BY <1>4
  <2> HIDE DEF r
  <2>3. Alone(w) /\ at'[w] = r
    BY <2>1, <2>2, RunType DEF Alone, IInv
  <2>4. RunInv(w)'
    <3>1. Permit(w)'
      BY <1>1, <1>2, <1>4, <2>1, <2>3 DEF Permit, Current, Active
    <3>2. Proven(w)' /\ Witnessed(w)'
      BY <1>1, <1>2, <2>1, <2>3 DEF RunInv, Proven, Witnessed, Exact
    <3> QED
      BY <3>1, <3>2 DEF RunInv
  <2>5. AsksAlone(w)
    BY <1>1, <2>1, <2>3 DEF AsksAlone, Asking
  <2>6. LockKept(w)
    BY <1>4, ExternalFacts
  <2> QED
    BY <1>1, <2>3, <2>4, <2>5, <2>6, QuietStep
<1>5. CASE Move(w, "recover") /\ Rollback(w)
  BY <1>1, <1>5, RecoverMove, ExternalFacts
<1> QED
  BY <1>2, <1>3, <1>4, <1>5, EvidenceFacts DEF Fresh, IInv

\* Nothing on GitHub stops being merged, and a merge request that lands makes
\* a merge of exactly what was proven.
RemoteMoves ==
    /\ remote' \in [Project -> Remote]
    /\ \A p \in Project : Exact(p) => Exact(p)'

LEMMA LandFacts ==
    ASSUME TypeOK, NEW p \in Project, Land(p) \/ remote' = remote
    PROVE  RemoteMoves
<1>1. CASE remote' = remote
  BY <1>1 DEF RemoteMoves, Exact, TypeOK
<1>2. CASE Unmoved(p) /\ remote' = [remote EXCEPT ![p].merged = "exact"]
  BY SMTT(30), <1>2 DEF RemoteMoves, Exact, TypeOK, Remote
<1> QED
  BY <1>1, <1>2 DEF Land

\* A step of GitHub or of a person that runs do not see at once.
LEMMA RemoteStep ==
    ASSUME IInv, RemoteMoves, done \subseteq done', done' \subseteq Project,
           wire' \subseteq Project, expired' \in BOOLEAN, edits' \in 0..MaxEdits,
           UNCHANGED <<row, life, writer, at, puts, faults>>
    PROVE  IInv'
<1>1. TypeOK'
  BY DEF IInv, TypeOK, RemoteMoves
<1>2. ASSUME NEW w \in Worker
      PROVE  RunInv(w)'
  <2>1. RunInv(w) /\ at'[w] = at[w] /\ Current(w) \in Project
    BY RunType DEF IInv
  <2>2. Permit(w)'
    BY <2>1 DEF RunInv, Permit, Current, Active
  <2>3. Proven(w)'
    BY <2>1 DEF RunInv, Proven
  <2>4. Witnessed(w)'
    BY <2>1, OrderFacts DEF RunInv, Witnessed, RemoteMoves, Observed, Current
  <2> QED
    BY <2>2, <2>3, <2>4 DEF RunInv
<1>3. Exclusive' /\ Stored' /\ OnePut'
  BY DEF IInv, Exclusive, Stored, OnePut, Current
<1>4. InOrder'
  BY OrderFacts DEF IInv, InOrder, RemoteMoves
<1>5. RecordsAreTrue'
  BY DEF IInv, RecordsAreTrue, RemoteMoves
<1> QED
  BY <1>1, <1>2, <1>3, <1>4, <1>5 DEF IInv

\* The one request for a project is sent by the run that holds its permit; what
\* it changes are the pull request, the requests and its own step.
LEMMA AskStep ==
    ASSUME IInv, NEW w \in Worker, at[w].step = "put", Move(w, "after"),
           RemoteMoves, wire' \subseteq Project, faults' \in 0..MaxFaults,
           UNCHANGED <<row, life, writer, done, expired, edits>>,
           \/ puts' = puts
           \/ puts' = [puts EXCEPT ![Current(w)] = @ + 1]
    PROVE  IInv'
<1> DEFINE p == Current(w)
<1>1. /\ RunInv(w) /\ p \in Project /\ at[w] \in Run /\ done = Project
      /\ writer = w /\ Active /\ row[p].state = "waiting_for_help"
      /\ puts[p] = 0 /\ \A q \in Project : at[w].proof[q] # "blocked"
  BY RunType, DecidedIsDone
     DEF IInv, RunInv, Permit, Proven, Guarded, Asking, Decided, Steps
<1>2. Alone(w) /\ Keeps(w) /\ at'[w].step = "after"
  BY MoveFacts DEF IInv, Steps
<1>3. /\ puts' \in [Project -> Nat] /\ puts'[p] <= 1
      /\ \A q \in Project : q # p => puts'[q] = puts[q]
  BY <1>1 DEF IInv, TypeOK
<1>4. TypeOK'
  BY <1>2, <1>3 DEF IInv, TypeOK, Alone, Run, RemoteMoves
<1>5. RunInv(w)'
  <2>1. Permit(w)'
    BY <1>1, <1>2 DEF Permit, Current, Active, Keeps, Asking
  <2>2. Proven(w)'
    BY <1>1, <1>2 DEF RunInv, Proven, Keeps
  <2>3. Witnessed(w)'
    BY <1>1, <1>2, OrderFacts DEF RunInv, Witnessed, Keeps, RemoteMoves
  <2> QED
    BY <2>1, <2>2, <2>3 DEF RunInv
<1>6. ASSUME NEW v \in Worker, v # w
      PROVE  RunInv(v)'
  <2>1. RunInv(v) /\ at'[v] = at[v] /\ Current(v) \in Project
    BY <1>2, <1>6, RunType DEF IInv, Alone
  <2>2. at[v].step \in Asking => Current(v) # p
    BY <1>6 DEF IInv, Exclusive, Asking
  <2>3. Permit(v)'
    BY <1>3, <2>1, <2>2 DEF RunInv, Permit, Current, Active
  <2>4. Proven(v)'
    BY <2>1 DEF RunInv, Proven
  <2>5. Witnessed(v)'
    BY <2>1, OrderFacts DEF RunInv, Witnessed, RemoteMoves, Observed, Current
  <2> QED
    BY <2>3, <2>4, <2>5 DEF RunInv
<1>7. Exclusive'
  BY <1>2, ExclusiveKept DEF AsksAlone, Asking
<1>8. Stored' /\ OnePut'
  BY <1>1, <1>3 DEF IInv, Stored, OnePut
<1>9. InOrder'
  <2> SUFFICES ASSUME NEW i \in DOMAIN Order, NEW j \in DOMAIN Order,
                      puts'[Order[i]] > 0
               PROVE  done' = Project /\ (j < i => Exact(Order[j])')
    BY DEF InOrder
  <2>1. done' = Project
    BY <1>1
  <2>2. CASE Order[i] # p
    BY <1>3, <2>1, <2>2, OrderFacts DEF IInv, InOrder, RemoteMoves
  <2>3. CASE Order[i] = p
    <3>1. at[w].i \in DOMAIN Order /\ p = Order[at[w].i]
      BY <1>1 DEF Run, Current
    <3>2. i = at[w].i
      BY <2>3, <3>1, OrderIsInjective
    <3>3. j < i => Exact(Order[j])
      BY <1>1, <3>2 DEF RunInv, Witnessed
    <3> QED
      BY <2>1, <3>3, OrderFacts DEF RemoteMoves
  <2> QED
    BY <2>2, <2>3
<1>10. RecordsAreTrue'
  BY DEF IInv, RecordsAreTrue, RemoteMoves
<1> QED
  BY <1>4, <1>5, <1>6, <1>7, <1>8, <1>9, <1>10 DEF IInv

LEMMA PutStep ==
    ASSUME IInv, NEW w \in Worker, Put(w)
    PROVE  IInv'
<1>1. /\ at[w].step = "put" /\ Move(w, "after") /\ Current(w) \in Project
      /\ UNCHANGED <<row, life, writer, done, expired, wire, edits, faults>>
  BY RunType DEF Put, At, Database, IInv
<1>2. RemoteMoves
  BY <1>1, LandFacts DEF Put, IInv
<1>3. wire' \subseteq Project /\ faults' \in 0..MaxFaults
  BY <1>1 DEF IInv, TypeOK
<1>4. \/ puts' = puts
      \/ puts' = [puts EXCEPT ![Current(w)] = @ + 1]
  BY DEF Put
<1> QED
  BY <1>1, <1>2, <1>3, <1>4, AskStep

LEMMA PutLateStep ==
    ASSUME IInv, NEW w \in Worker, PutLate(w)
    PROVE  IInv'
<1>1. /\ at[w].step = "put" /\ Move(w, "after") /\ Current(w) \in Project
      /\ UNCHANGED <<row, life, writer, done, remote, expired, edits>>
  BY RunType DEF PutLate, At, Database, IInv
<1>2. RemoteMoves
  BY <1>1, LandFacts DEF IInv
<1>3. wire' \subseteq Project /\ faults' \in 0..MaxFaults
  BY <1>1, ExternalFacts DEF PutLate, IInv, TypeOK
<1>4. puts' = [puts EXCEPT ![Current(w)] = @ + 1]
  BY DEF PutLate
<1> QED
  BY <1>1, <1>2, <1>3, <1>4, AskStep

LEMMA AfterStep ==
    ASSUME IInv, NEW w \in Worker, After(w)
    PROVE  IInv'
<1>1. /\ at[w].step = "after" /\ UNCHANGED <<row, life>>
      /\ Counted /\ UNCHANGED <<done, remote, puts>>
      /\ at[w].step \in Decided
  BY ExternalFacts DEF After, At, Decided, Steps
<1>2. /\ RunInv(w)
      /\ writer = w /\ Active /\ row[Current(w)].state = "waiting_for_help"
  BY <1>1 DEF IInv, RunInv, Permit, Guarded
<1>3. CASE Exact(Current(w)) /\ Move(w, "mark") /\ UNCHANGED writer
  <2>1. Alone(w) /\ AsksAlone(w) /\ RunInv(w)'
    BY <1>1, <1>2, <1>3, MoveInv DEF Steps, Asking
  <2>2. LockKept(w)
    BY <1>3, ExternalFacts
  <2> QED
    BY <1>1, <2>1, <2>2, QuietStep
<1>4. CASE Move(w, "recover") /\ Rollback(w)
  BY <1>1, <1>4, RecoverMove, ExternalFacts
<1> QED
  BY <1>3, <1>4 DEF After

-----------------------------------------------------------------------------
(* After an error                                                            *)

LEMMA RecoverStep ==
    ASSUME IInv, NEW w \in Worker, Recover(w)
    PROVE  IInv'
<1>1. /\ at[w].step = "recover" /\ UNCHANGED <<row, life, writer>>
      /\ LockKept(w) /\ Counted /\ UNCHANGED <<done, remote, puts>>
      /\ at[w].step \in Decided
  BY ExternalFacts DEF Recover, At, Database, Decided, Steps
<1>2. CASE Exact(Current(w)) /\ Move(w, "regain")
  <2>1. Alone(w) /\ AsksAlone(w) /\ RunInv(w)'
    BY <1>1, <1>2, MoveInv DEF Steps, Guarded, Asking
  <2> QED
    BY <1>1, <2>1, QuietStep
<1>3. CASE MergedIds(w) # {} /\ Move(w, "partial")
  <2>1. at[w].i > 1
    BY <1>3, RunType, OrderFacts DEF MergedIds, IInv, Run
  <2>2. Alone(w) /\ AsksAlone(w) /\ RunInv(w)'
    BY <1>1, <1>3, <2>1, MoveInv DEF Steps, Guarded, Asking
  <2> QED
    BY <1>1, <2>2, QuietStep
<1>4. CASE Move(w, "pend")
  <2>1. Alone(w) /\ AsksAlone(w) /\ RunInv(w)'
    BY <1>1, <1>4, MoveInv DEF Steps, Guarded, Asking
  <2> QED
    BY <1>1, <2>1, QuietStep
<1>5. CASE Move(w, "fail")
  <2>1. Alone(w) /\ AsksAlone(w) /\ RunInv(w)'
    BY <1>1, <1>5, MoveInv DEF Steps, Guarded, Asking
  <2> QED
    BY <1>1, <2>1, QuietStep
<1>6. CASE Return(w)
  BY <1>1, <1>6, ReturnInv, QuietStep
<1> QED
  BY <1>2, <1>3, <1>4, <1>5, <1>6 DEF Recover

\* What the handler of an error writes to one row is no merge.
LEMMA GiveUpStep ==
    ASSUME IInv, NEW w \in Worker, Return(w), Transaction, Active,
           UNCHANGED <<life, writer, External>>,
           NEW p \in Project, row[p].state # "merged", NEW r \in Row,
           r.state \in {"waiting_for_help", "failed"}, r.proof => p \in done,
           row' = [row EXCEPT ![p] = r]
    PROVE  IInv'
<1>1. LockKept(w) /\ Counted /\ UNCHANGED <<done, remote, puts>>
      /\ writer \in {w, NoWorker}
  BY ExternalFacts
<1>2. /\ row \in [Project -> Row] /\ row' \in [Project -> Row]
      /\ \A q \in Project : row'[q] = IF q = p THEN r ELSE row[q]
  BY DEF IInv, TypeOK
<1>3. RowsMove
  BY <1>2 DEF RowsMove, IInv, Stored, RecordsAreTrue
<1> QED
  BY <1>1, <1>3, ReturnInv, RowStep

LEMMA PendStep ==
    ASSUME IInv, NEW w \in Worker, Pend(w)
    PROVE  IInv'
<1> DEFINE p == Current(w)
           r == [state |-> "waiting_for_help", proof |-> TRUE]
<1>1. /\ at[w].step = "pend" /\ Transaction /\ Return(w) /\ p \in Project
      /\ UNCHANGED <<life, writer, External>>
  BY RunType DEF Pend, At, IInv
<1>2. CASE row' = row
  BY <1>1, <1>2, ReturnInv, QuietStep, ExternalFacts
<1>3. CASE /\ Active /\ row[p].state \notin {"failed", "merged"}
           /\ row' = [row EXCEPT ![p] = r]
  <2>1. done = Project
    BY <1>1, DecidedIsDone DEF Decided, Steps
  <2>2. r \in Row /\ r.state = "waiting_for_help"
    BY DEF Row, RowState
  <2> HIDE DEF r
  <2> QED
    BY <1>1, <1>3, <2>1, <2>2, GiveUpStep
<1> QED
  BY <1>2, <1>3 DEF Pend

LEMMA FailStep ==
    ASSUME IInv, NEW w \in Worker, Fail(w)
    PROVE  IInv'
<1> DEFINE p == Current(w)
           r == [row[p] EXCEPT !.state = "failed"]
<1>1. /\ Transaction /\ Return(w) /\ p \in Project
      /\ UNCHANGED <<life, writer, External>>
  BY RunType DEF Fail, IInv
<1>2. CASE row' = row
  BY <1>1, <1>2, ReturnInv, QuietStep, ExternalFacts
<1>3. CASE Active /\ row[p].state # "merged"
           /\ row' = [row EXCEPT ![p].state = "failed"]
  <2>1. /\ r \in Row /\ r.state = "failed" /\ r.proof = row[p].proof
    BY SMTT(30), <1>1 DEF IInv, TypeOK, Row, RowState
  <2>2. row[p].proof => p \in done
    BY <1>1 DEF IInv, Stored
  <2>3. row' = [row EXCEPT ![p] = r]
    BY <1>1, <1>3 DEF IInv, TypeOK
  <2> HIDE DEF r
  <2> QED
    BY <1>1, <1>3, <2>1, <2>2, <2>3, GiveUpStep
<1> QED
  BY <1>2, <1>3 DEF Fail

LEMMA DieStep ==
    ASSUME IInv, NEW w \in Worker, Die(w)
    PROVE  IInv'
<1>1. /\ Return(w) /\ LockKept(w) /\ Counted
      /\ UNCHANGED <<row, life, done, remote, puts>>
  BY ExternalFacts DEF Die, Counted, IInv, TypeOK
<1> QED
  BY <1>1, ReturnInv, QuietStep

LEMMA CallFailsStep ==
    ASSUME IInv, NEW w \in Worker, CallFails(w)
    PROVE  IInv'
<1>1. /\ LockKept(w) /\ Counted
      /\ UNCHANGED <<row, life, done, remote, puts>>
  BY ExternalFacts DEF CallFails, Counted, IInv, TypeOK
<1>2. CASE at[w].step \in {"reread", "fresh", "after"} /\ Move(w, "recover")
  BY <1>1, <1>2, RecoverMove DEF Decided, Steps
<1>3. CASE at[w].step = "recover" /\ Move(w, "pend")
  <2>1. Alone(w) /\ AsksAlone(w) /\ RunInv(w)'
    BY <1>1, <1>3, MoveInv DEF Steps, Guarded, Asking, Decided
  <2> QED
    BY <1>1, <2>1, QuietStep
<1>4. CASE Return(w)
  BY <1>1, <1>4, ReturnInv, QuietStep
<1> QED
  BY <1>2, <1>3, <1>4 DEF CallFails, At

-----------------------------------------------------------------------------
(* Everyone else                                                             *)

LEMMA ArriveStep ==
    ASSUME IInv, NEW p \in Project, Arrive(p)
    PROVE  IInv'
<1>1. RemoteMoves
  BY LandFacts DEF Arrive, IInv
<1>2. UNCHANGED <<row, life, writer, done, expired, at, puts, edits, faults>>
      /\ wire' \subseteq Project
  BY DEF Arrive, Database, IInv, TypeOK
<1> QED
  BY <1>1, <1>2, RemoteStep DEF IInv, TypeOK

LEMMA FlowReadyStep ==
    ASSUME IInv, NEW p \in Project, FlowReady(p)
    PROVE  IInv'
<1>1. RemoteMoves
  BY LandFacts DEF FlowReady, IInv
<1>2. /\ UNCHANGED <<row, life, writer, expired, at, puts, edits, faults, wire>>
      /\ done \subseteq done' /\ done' \subseteq Project
  BY DEF FlowReady, Database, IInv, TypeOK
<1> QED
  BY <1>1, <1>2, RemoteStep DEF IInv, TypeOK

LEMMA ExpireStep ==
    ASSUME IInv, Expire
    PROVE  IInv'
<1>1. PICK p : p \in Project
  BY MergeAssumption
<1>2. RemoteMoves
  BY <1>1, LandFacts DEF Expire, IInv
<1>3. /\ UNCHANGED <<row, life, writer, at, done, puts, edits, faults, wire>>
      /\ expired' \in BOOLEAN
  BY DEF Expire, Database
<1> QED
  BY <1>2, <1>3, RemoteStep DEF IInv, TypeOK

\* People may merge, push and review while nothing is merged yet.
LEMMA EditStep ==
    ASSUME IInv, NEW p \in Project, EditPullRequest(p)
    PROVE  IInv'
<1>1. /\ UNCHANGED <<row, life, writer, done, expired, at, puts, wire, faults>>
      /\ remote[p].merged = "no" /\ remote \in [Project -> Remote]
  BY DEF EditPullRequest, Database, IInv, TypeOK
<1>2. edits' \in 0..MaxEdits
  <2>1. edits \in 0..MaxEdits /\ MaxEdits \in Nat
    BY MergeAssumption DEF IInv, TypeOK
  <2>2. \A kind : Edited(kind) => edits' \in 0..MaxEdits
    BY <2>1 DEF Edited
  <2> QED
    BY <2>2 DEF EditPullRequest
<1>3. RemoteMoves
  <2>1. CASE remote' = [remote EXCEPT ![p].merged =
                          IF remote[p].moved THEN "other" ELSE "exact"]
    BY <1>1, <2>1 DEF RemoteMoves, Exact, Remote
  <2>2. CASE remote' = [remote EXCEPT ![p].merged = "other"]
    BY <1>1, <2>2 DEF RemoteMoves, Exact, Remote
  <2>3. CASE remote' = [remote EXCEPT ![p].moved = ~@]
    BY <1>1, <2>3 DEF RemoteMoves, Exact, Remote
  <2>4. CASE remote' = [remote EXCEPT ![p].ok = ~@]
    BY <1>1, <2>4 DEF RemoteMoves, Exact, Remote
  <2> QED
    BY <2>1, <2>2, <2>3, <2>4 DEF EditPullRequest
<1> QED
  BY <1>1, <1>2, <1>3, RemoteStep DEF IInv, TypeOK

\* The Task leaves or returns to its active state while no permit is out.
LEMMA LifeStep ==
    ASSUME IInv, Transaction, NEW e \in {"active", "barrier"},
           life' = Event(e), edits' \in 0..MaxEdits,
           UNCHANGED <<row, writer, done, remote, expired, at, puts, wire,
                       faults>>
    PROVE  IInv'
<1>1. TypeOK'
  BY DEF IInv, TypeOK, Life, Event
<1>2. ASSUME NEW w \in Worker
      PROVE  RunInv(w)'
  <2>1. RunInv(w) /\ at'[w] = at[w] /\ NoWorker \notin Worker
    BY MergeAssumption DEF IInv
  <2>2. at[w].step \notin Guarded
    BY <2>1 DEF RunInv, Permit, Transaction
  <2>3. Permit(w)'
    BY <2>1, <2>2 DEF RunInv, Permit, Current
  <2>4. Proven(w)' /\ Witnessed(w)'
    BY <2>1 DEF RunInv, Proven, Witnessed, Observed, Current, Exact
  <2> QED
    BY <2>3, <2>4 DEF RunInv
<1>3. Exclusive' /\ Stored' /\ OnePut' /\ InOrder'
  BY DEF IInv, Exclusive, Stored, OnePut, InOrder, Current, Exact
<1>4. RecordsAreTrue'
  BY DEF IInv, RecordsAreTrue, Event, Exact
<1> QED
  BY <1>1, <1>2, <1>3, <1>4 DEF IInv

LEMMA RequestBarrierStep ==
    ASSUME IInv, RequestBarrier
    PROVE  IInv'
<1>1. edits' \in 0..MaxEdits
  BY MergeAssumption DEF RequestBarrier, Edited, IInv, TypeOK
<1> QED
  BY <1>1, LifeStep DEF RequestBarrier

LEMMA ResumeStep ==
    ASSUME IInv, Resume
    PROVE  IInv'
BY LifeStep DEF Resume, External, IInv, TypeOK

-----------------------------------------------------------------------------
(* The theorems                                                              *)

LEMMA InitInv == Init => IInv
<1> SUFFICES ASSUME Init PROVE IInv
  OBVIOUS
<1>1. TypeOK
  <2>1. row \in [Project -> Row] /\ remote \in [Project -> Remote]
    BY DEF Init, Row, RowState, Remote
  <2>2. life \in Life
    BY DEF Init, Life, Event
  <2>3. at \in [Worker -> Run]
    BY IdleType DEF Init
  <2>4. edits \in 0..MaxEdits /\ faults \in 0..MaxFaults
    BY MergeAssumption DEF Init
  <2> QED
    BY <2>1, <2>2, <2>3, <2>4 DEF Init, TypeOK, Run
<1>2. \A w \in Worker : RunInv(w)
  BY OrderFacts
     DEF Init, RunInv, Permit, Proven, Witnessed, Idle, Guarded, Asking, Decided
<1>3. Exclusive
  BY DEF Init, Exclusive, Idle, Asking
<1>4. Stored /\ OnePut /\ RecordsAreTrue
  BY DEF Init, Stored, OnePut, RecordsAreTrue, Event
<1>5. InOrder
  BY OrderFacts DEF Init, InOrder
<1> QED
  BY <1>1, <1>2, <1>3, <1>4, <1>5 DEF IInv

LEMMA StutterInv == IInv /\ UNCHANGED vars => IInv'
<1> SUFFICES ASSUME IInv, UNCHANGED vars PROVE IInv'
  OBVIOUS
<1>1. UNCHANGED <<row, life, writer, done, remote, expired, at, puts, wire,
                  edits, faults>>
  BY DEF vars
<1>2. \A w \in Worker : RunInv(w)'
  BY <1>1 DEF IInv, RunInv, Permit, Proven, Witnessed, Observed, Current,
              Exact, Active
<1>3. TypeOK' /\ Exclusive' /\ Stored' /\ OnePut' /\ InOrder' /\ RecordsAreTrue'
  BY <1>1 DEF IInv, TypeOK, Exclusive, Stored, OnePut, InOrder, RecordsAreTrue,
              Current, Exact
<1> QED
  BY <1>2, <1>3 DEF IInv

LEMMA StepInv ==
    ASSUME IInv, NEW w \in Worker, Step(w)
    PROVE  IInv'
BY LoadStep, ReplayStep, ObserveStep, DecideStep, ConvergeStep, FinishStep,
   BarrierStep, ReserveStep, RereadStep, AdoptStep, GuardStep, FreshStep,
   PutStep, AfterStep, MarkStep, RecoverStep, PendStep, PartialStep, FailStep
   DEF Step

\* Whatever runs, GitHub and people do next, the invariant is kept.
THEOREM Invariance == Spec => []IInv
<1>1. IInv /\ Next => IInv'
  BY StepInv, DieStep, CallFailsStep, PutLateStep, FlowReadyStep, ArriveStep,
     EditStep, ExpireStep, RequestBarrierStep, ResumeStep DEF Next
<1> QED
  BY <1>1, InitInv, StutterInv, PTL DEF Spec

\* Every variable keeps the values its column, its event or its step may have.
THEOREM TypeCorrect == Spec => []TypeOK
<1>1. IInv => TypeOK
  BY DEF IInv
<1> QED
  BY <1>1, Invariance, PTL

\* However many runs of merge-worker.py overlap, die and start again, and
\* whatever GitHub still does later, each project is asked for at most once:
\* the reservation is the one intent that may call GitHub.
THEOREM OneRequestPerProject == Spec => []OnePut
<1>1. IInv => OnePut
  BY DEF IInv
<1> QED
  BY <1>1, Invariance, PTL

\* No project is asked for before every flow is ready and all the projects
\* before it in the confirmed order are merged exactly.
THEOREM MergesFollowTheOrder == Spec => []InOrder
<1>1. IInv => InOrder
  BY DEF IInv
<1> QED
  BY <1>1, Invariance, PTL

\* guard_project holds the write lock until the merge is marked, so no stop
\* and no revision gets between the permit and the request it allows.
THEOREM PermitKeepsTheTaskActive == Spec => []StopsAtSafePoint
<1>1. IInv => StopsAtSafePoint
  BY DEF IInv, RunInv, Permit, Guarded, StopsAtSafePoint
<1> QED
  BY <1>1, Invariance, PTL

\* The rows and the end that the database records are what GitHub merged.
THEOREM RecordsFollowGitHub == Spec => []RecordsAreTrue
<1>1. IInv => RecordsAreTrue
  BY DEF IInv
<1> QED
  BY <1>1, Invariance, PTL
=============================================================================
