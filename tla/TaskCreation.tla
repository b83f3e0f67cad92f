---------------------------- MODULE TaskCreation ----------------------------
(***************************************************************************)
(* Creating a v2 Task and putting its projects to work.  Calls of          *)
(* TaskServiceV2.create_task for one confirmed request, which overlap, die *)
(* and are repeated, make the parent issue, one blocked root item per      *)
(* project, the activation and the releases, each write under the write    *)
(* lock of the Task database.  Runs of the v2 task-flow worker take over   *)
(* the projects as soon as the Task is active, and barriers stop both.     *)
(***************************************************************************)
EXTENDS Integers, Sequences, FiniteSets

CONSTANTS
    Project,    \* the projects of the request
    Order,      \* request.projects, in the user's order
    Rows,       \* the same by project_id, the order the worker reads them in
    Calls,      \* bound on the calls of create_task that overlap
    Workers,    \* bound on the worker runs that overlap
    FlowSteps,  \* cards each project needs: a Build and what follows it
    Faults,     \* calls that "overlap"; processes that "die"; writes that
                \* "fail", are "lost" or "late"; a person who would "close"
                \* or "edit" the issue, "release" an item or "move" a base
    MaxFaults,  \* bound on those
    Barriers    \* a stop or a revision may be requested

\* What a run assumes of its values for them.
CreationAssumption ==
    /\ IsFiniteSet(Project) /\ Project # {}
    /\ \A o \in {Order, Rows} :
          /\ o \in [1..Cardinality(Project) -> Project]
          /\ \A p \in Project : \E i \in DOMAIN o : o[i] = p
    /\ Calls \in Nat \ {0} /\ Workers \in Nat
    /\ FlowSteps \in [Project -> Nat \ {0}]
    /\ Faults \subseteq {"overlap", "die", "fail", "lost", "late",
                         "close", "edit", "release", "move"}
    /\ MaxFaults \in Nat /\ Barriers \in BOOLEAN

VARIABLES
    task,       \* the request, its settings and its lifecycle events
    row,        \* task_projects: state and root_card_id
    lock,       \* who holds the write lock across external calls
    call,       \* each create_task call: its step and what it holds
    issues,     \* GitHub: the parent issues made for the request
    items,      \* the Project items made for it
    cards,      \* Hermes: the cards of each project, in order of creation
    moved,      \* projects whose base branch moved on after confirmation
    scan,       \* each worker run: its step and what it has read
    wire,       \* writes of killed calls that are still on their way
    told,       \* a call has returned the created Task
    faults

Call == 1..Calls
Worker == 1..Workers
N == Len(Order)

dbVars == <<task, row>>
remoteVars == <<issues, items, cards, moved, wire>>
vars == <<dbVars, lock, call, remoteVars, scan, told, faults>>

NoCall == [step |-> "idle", i |-> 1, parent |-> 0, item |-> 0]
NoScan == [step |-> "idle", i |-> 1, rows |-> <<>>, chain |-> <<>>,
           due |-> [p \in Project |-> 0]]

Init ==
    /\ task = [prepared |-> FALSE, parent |-> 0, active |-> FALSE,
               barrier |-> "none"]
    /\ row = [p \in Project |-> [state |-> "none", root |-> 0]]
    /\ lock = {}
    /\ call = [c \in Call |-> NoCall]
    /\ issues = <<>>
    /\ items = <<>>
    /\ cards = [p \in Project |-> <<>>]
    /\ moved = {}
    /\ scan = [w \in Worker |-> NoScan]
    /\ wire = {}
    /\ told = FALSE
    /\ faults = 0

-----------------------------------------------------------------------------
\* Calls and locks.

At(c, step) == call[c].step = step
Goto(c, step) == call' = [call EXCEPT ![c].step = step]

\* An exception leaves create_task and its transaction, if it has one.
Raise(c) ==
    /\ call' = [call EXCEPT ![c] = NoCall]
    /\ lock' = lock \ {<<"call", c>>}

Free == lock = {}

\* Faulty variant: the permit is looked at but not kept.
Hold_Briefly(c) == UNCHANGED lock

Hold(c) == lock' = {<<"call", c>>}
Release(c) == lock' = lock \ {<<"call", c>>}

\* require_no_lifecycle_barrier looks at every event the Task ever had; the
\* worker goes by the latest one.
NoBarrier == task.barrier = "none"
Working == task.active /\ task.barrier \in {"none", "resumed"}

\* verify_task_issue_v2_content: open, and all but the progress unchanged.
Genuine(n) == issues[n].open /\ issues[n].body \in {"blocked", "ready"}

ItemOf(p) == {n \in DOMAIN items : items[n].project = p}

\* Faulty variant: an item is taken for a fresh one.
Fits_Fresh(n, p, parent, states) ==
    /\ items[n].project = p /\ items[n].parent = parent
    /\ items[n].state = "blocked"

\* _require_project_item
Fits(n, p, parent, states) ==
    /\ items[n].project = p /\ items[n].parent = parent
    /\ items[n].state \in states

Fault(kind) ==
    /\ kind \in Faults /\ faults < MaxFaults
    /\ faults' = faults + 1

-----------------------------------------------------------------------------
(* create_task *)

\* The request is sent again until a call returns the created Task.  Calls
\* differ in nothing else, so a new one takes the lowest free number.
\* prepare: the request, its project rows, event and owner, or nothing.
Begin(c) ==
    /\ ~ told /\ At(c, "idle") /\ Free
    /\ \A d \in Call : d < c => ~ At(d, "idle")
    /\ IF \A d \in Call : At(d, "idle") THEN UNCHANGED faults
                                       ELSE Fault("overlap")
    /\ task' = [task EXCEPT !.prepared = TRUE]
    /\ row' = [p \in Project |-> IF task.prepared THEN row[p]
                                 ELSE [state |-> "prepared", root |-> 0]]
    /\ Goto(c, "parent")
    /\ UNCHANGED <<lock, remoteVars, scan, told>>

\* Faulty variant: closed issues are not listed.
Found_Open == {n \in DOMAIN issues : issues[n].open}

\* find_issue reads every page and state for the request's marker.
Found == DOMAIN issues

\* _ensure_parent up to its write.  A closed issue and a second one are
\* refused.
Parent(c) ==
    /\ At(c, "parent") /\ Free
    /\ IF task.parent # 0
         THEN /\ IF Genuine(task.parent)
                   THEN call' = [call EXCEPT ![c].step = "item",
                                             ![c].parent = task.parent]
                   ELSE call' = [call EXCEPT ![c] = NoCall]
              /\ UNCHANGED lock
         ELSE CASE Found = {} /\ NoBarrier -> Goto(c, "create") /\ Hold(c)
                [] Found = {1} /\ Genuine(1) /\ issues[1].body = "blocked" ->
                     /\ call' = [call EXCEPT ![c].step = "bind",
                                             ![c].parent = 1]
                     /\ Hold(c)
                [] OTHER -> Raise(c)
    /\ UNCHANGED <<dbVars, remoteVars, scan, faults, told>>

PutIssue(late) ==
    /\ issues' = Append(issues, [open |-> TRUE, body |-> "blocked",
                                 late |-> late])
    /\ UNCHANGED items

CreateParent(c) ==
    /\ At(c, "create")
    /\ PutIssue(FALSE)
    /\ call' = [call EXCEPT ![c].step = "bind", ![c].parent = Len(issues) + 1]
    /\ UNCHANGED <<dbVars, lock, cards, moved, wire, scan, faults, told>>

\* The readback, and bind_parent with the session binding.
BindParent(c) ==
    LET n == call[c].parent IN
    /\ At(c, "bind")
    /\ IF Genuine(n) /\ issues[n].body = "blocked"
         THEN /\ task' = [task EXCEPT !.parent = n]
              /\ Goto(c, "item")
              /\ Release(c)
         ELSE Raise(c) /\ UNCHANGED task
    /\ UNCHANGED <<row, remoteVars, scan, faults, told>>

\* Faulty variant: the loop does not end where the next one begins.
NextItem_TooFar(c) ==
    call' = [call EXCEPT ![c].item = 0, ![c].i = @ + 1,
                         ![c].step = IF call[c].i = N THEN "activate"
                                                      ELSE "item"]

\* The loop over request.projects.
NextItem(c) ==
    call' = [call EXCEPT ![c].item = 0,
                         ![c].i = IF @ = N THEN 1 ELSE @ + 1,
                         ![c].step = IF call[c].i = N THEN "activate"
                                                      ELSE "item"]

\* _ensure_project_item up to its write.
Item(c) ==
    LET p == Order[call[c].i]
        found == ItemOf(p)
        root == row[p].root
    IN
    /\ At(c, "item") /\ Free
    /\ IF root # 0
         THEN /\ IF Fits(root, p, task.parent,
                         IF row[p].state = "bound" THEN {"blocked"}
                                                   ELSE {"blocked", "ready"})
                   THEN NextItem(c)
                   ELSE call' = [call EXCEPT ![c] = NoCall]
              /\ UNCHANGED lock
         ELSE CASE found = {} /\ NoBarrier -> Goto(c, "make") /\ Hold(c)
                [] \E n \in found : /\ found = {n}
                                    /\ Fits(n, p, task.parent, {"blocked"}) ->
                     /\ call' = [call EXCEPT ![c].step = "root",
                                   ![c].item = CHOOSE n \in found : TRUE]
                     /\ Hold(c)
                [] OTHER -> Raise(c)
    /\ UNCHANGED <<dbVars, remoteVars, scan, faults, told>>

\* Faulty variant: the root is not created blocked.
PutItem_Open(p, parent, late) ==
    /\ items' = Append(items, [project |-> p, parent |-> parent,
                               state |-> "ready", late |-> late])
    /\ UNCHANGED issues

PutItem(p, parent, late) ==
    /\ items' = Append(items, [project |-> p, parent |-> parent,
                               state |-> "blocked", late |-> late])
    /\ UNCHANGED issues

CreateItem(c) ==
    /\ At(c, "make")
    /\ PutItem(Order[call[c].i], call[c].parent, FALSE)
    /\ call' = [call EXCEPT ![c].step = "root", ![c].item = Len(items) + 1]
    /\ UNCHANGED <<dbVars, lock, cards, moved, wire, scan, faults, told>>

\* The readback, and bind_project_item.
BindItem(c) ==
    LET p == Order[call[c].i]
        n == call[c].item
    IN
    /\ At(c, "root")
    /\ IF Fits(n, p, call[c].parent, {"blocked"})
         THEN /\ row' = [row EXCEPT ![p] = [state |-> "bound", root |-> n]]
              /\ NextItem(c)
              /\ Release(c)
         ELSE Raise(c) /\ UNCHANGED row
    /\ UNCHANGED <<task, remoteVars, scan, faults, told>>

\* activate: settings, ready rows and the three events in one transaction.
Activate(c) ==
    LET states == {row[p].state : p \in Project} IN
    /\ At(c, "activate") /\ Free
    /\ IF NoBarrier /\ states = {IF task.active THEN "ready" ELSE "bound"}
         THEN /\ task' = [task EXCEPT !.active = TRUE]
              /\ row' = [p \in Project |-> [row[p] EXCEPT !.state = "ready"]]
              /\ Goto(c, "release")
         ELSE /\ call' = [call EXCEPT ![c] = NoCall]
              /\ UNCHANGED dbVars
    /\ UNCHANGED <<lock, remoteVars, scan, faults, told>>

\* active_external_write: the permit is held until the readback.
MayWrite == NoBarrier /\ task.active /\ \A p \in Project : row[p].state = "ready"

NextRelease(c) ==
    call' = [call EXCEPT ![c].i = IF @ = N THEN 1 ELSE @ + 1,
                         ![c].step = IF call[c].i = N THEN "progress"
                                                      ELSE "release"]

\* _release_project_item up to its write.
ReleaseItem(c) ==
    LET p == Order[call[c].i]
        n == row[p].root
    IN
    /\ At(c, "release") /\ Free
    /\ IF ~ (MayWrite /\ Fits(n, p, call[c].parent, {"blocked", "ready"}))
         THEN call' = [call EXCEPT ![c] = NoCall] /\ UNCHANGED lock
       ELSE IF items[n].state = "ready"
         THEN NextRelease(c) /\ UNCHANGED lock
       ELSE Goto(c, "open") /\ Hold(c)
    /\ UNCHANGED <<dbVars, remoteVars, scan, faults, told>>

PutRelease(n) ==
    /\ items' = [items EXCEPT ![n].state = "ready"]
    /\ UNCHANGED issues

OpenItem(c) ==
    /\ At(c, "open")
    /\ PutRelease(row[Order[call[c].i]].root)
    /\ Goto(c, "opened")
    /\ UNCHANGED <<dbVars, lock, cards, moved, wire, scan, faults, told>>

Opened(c) ==
    LET p == Order[call[c].i] IN
    /\ At(c, "opened")
    /\ IF Fits(row[p].root, p, call[c].parent, {"ready"})
         THEN NextRelease(c) /\ Release(c)
         ELSE Raise(c)
    /\ UNCHANGED <<dbVars, remoteVars, scan, faults, told>>

\* _project_parent_progress up to its write, its write and its readback.
Progress(c) ==
    LET n == call[c].parent
        may == MayWrite /\ Genuine(n)
    IN
    /\ At(c, "progress") /\ Free
    /\ IF may /\ issues[n].body = "blocked"
         THEN Goto(c, "show") /\ Hold(c) /\ UNCHANGED told
         ELSE /\ call' = [call EXCEPT ![c] = NoCall]
              /\ told' = (told \/ may)
              /\ UNCHANGED lock
    /\ UNCHANGED <<dbVars, remoteVars, scan, faults>>

PutProgress(n) ==
    /\ issues' = [issues EXCEPT ![n].body = "ready"]
    /\ UNCHANGED items

Show(c) ==
    /\ At(c, "show")
    /\ PutProgress(call[c].parent)
    /\ Goto(c, "shown")
    /\ UNCHANGED <<dbVars, lock, cards, moved, wire, scan, faults, told>>

Shown(c) ==
    /\ At(c, "shown")
    /\ told' = (told \/ Genuine(call[c].parent))
    /\ Raise(c)
    /\ UNCHANGED <<dbVars, remoteVars, scan, faults>>

-----------------------------------------------------------------------------
(* run_project_task_flow_worker *)

ScanAt(w, step) == scan[w].step = step
Abort(w) == scan' = [scan EXCEPT ![w] = NoScan]

\* list_active: all projects of an active Task, or none of them.
Scan(w) ==
    /\ ScanAt(w, "idle") /\ \A v \in Worker : v < w => ~ ScanAt(v, "idle")
    /\ Working
    /\ IF \A v \in Worker : ScanAt(v, "idle") THEN UNCHANGED faults
                                            ELSE Fault("overlap")
    /\ scan' = [scan EXCEPT ![w].step = "cards", ![w].rows = row]
    /\ UNCHANGED <<dbVars, lock, call, remoteVars, told>>

ReadCards(w) ==
    /\ ScanAt(w, "cards")
    /\ scan' = [scan EXCEPT ![w].step = "replay", ![w].chain = cards]
    /\ UNCHANGED <<dbVars, lock, call, remoteVars, faults, told>>

\* guard: the Task is active and the row is the one that was read.
Guarded(w, p) == Working /\ row[p] = scan[w].rows[p]

\* _replay_project_flow over the cards as they were read; whether a card has
\* a result is read now.  The number of the card to create, 0 to wait, or
\* nothing at all where the replay or the look at the worktree refuses.
Replay(w, p) ==
    LET chain == scan[w].chain[p]
        k == Len(chain)
        live == cards[p]
    IN
    IF p \in moved THEN {}
    ELSE IF k > 0 /\ chain[k] = "open" THEN IF live[k] = "done" THEN {} ELSE {0}
    ELSE IF k = FlowSteps[p] THEN {0}
    ELSE {k + 1}

\* The preflight of one project after the other.
Preflight(w) ==
    LET p == Rows[scan[w].i] IN
    /\ ScanAt(w, "replay")
    /\ IF Guarded(w, p) /\ Replay(w, p) # {}
         THEN \E n \in Replay(w, p) :
                scan' = [scan EXCEPT ![w].due[p] = n,
                           ![w].i = IF @ = N THEN 1 ELSE @ + 1,
                           ![w].step = IF scan[w].i = N THEN "recheck" ELSE @]
         ELSE Abort(w)
    /\ UNCHANGED <<dbVars, lock, call, remoteVars, faults, told>>

\* The registry must still be what was read.
Recheck(w) ==
    /\ ScanAt(w, "recheck")
    /\ IF Working /\ row = scan[w].rows
         THEN scan' = [scan EXCEPT ![w].step = "tree", ![w].chain = <<>>]
         ELSE Abort(w)
    /\ UNCHANGED <<dbVars, lock, call, remoteVars, faults, told>>

\* The worktree of a project is prepared and recorded, once.
Tree(w) ==
    LET p == Rows[scan[w].i] IN
    /\ ScanAt(w, "tree") /\ Free
    /\ IF Guarded(w, p) /\ p \notin moved
         THEN /\ row' = [row EXCEPT ![p].state = "running"]
              /\ scan' = [scan EXCEPT ![w].rows[p].state = "running",
                            ![w].i = IF @ = N THEN 1 ELSE @ + 1,
                            ![w].step = IF scan[w].i = N THEN "create" ELSE @]
         ELSE Abort(w) /\ UNCHANGED row
    /\ UNCHANGED <<task, lock, call, remoteVars, faults, told>>

NextCard(w) ==
    IF scan[w].i = N THEN Abort(w) ELSE scan' = [scan EXCEPT ![w].i = @ + 1]

\* The card that is due, unless its key exists by now.
Card(w) ==
    LET p == Rows[scan[w].i]
        n == scan[w].due[p]
    IN
    /\ ScanAt(w, "create") /\ Free
    /\ IF n = 0 \/ Guarded(w, p)
         THEN /\ cards' = IF n > Len(cards[p])
                            THEN [cards EXCEPT ![p] = Append(@, "open")]
                            ELSE cards
              /\ NextCard(w)
         ELSE Abort(w) /\ UNCHANGED cards
    /\ UNCHANGED <<dbVars, lock, call, issues, items, moved, wire, faults, told>>

\* An agent submits the result of the open card.
Agent(p) ==
    /\ \E k \in DOMAIN cards[p] :
          /\ cards[p][k] = "open"
          /\ cards' = [cards EXCEPT ![p][k] = "done"]
    /\ UNCHANGED <<dbVars, lock, call, issues, items, moved, scan, wire, faults, told>>

-----------------------------------------------------------------------------
(* What goes wrong *)

\* stop_requested or revision_requested, and revision_resumed.
Barrier ==
    /\ Barriers /\ Free /\ task.prepared /\ task.barrier = "none"
    /\ task' = [task EXCEPT !.barrier = "raised"]
    /\ UNCHANGED <<row, lock, call, remoteVars, scan, faults, told>>

Resume ==
    /\ Free /\ task.active /\ task.barrier = "raised"
    /\ task' = [task EXCEPT !.barrier = "resumed"]
    /\ UNCHANGED <<row, lock, call, remoteVars, scan, faults, told>>

Writes == {"create", "make", "open", "show"}

Put(kind, p, n, late) ==
    CASE kind = "create" -> PutIssue(late)
      [] kind = "make" -> PutItem(p, n, late)
      [] kind = "open" -> PutRelease(n)
      [] kind = "show" -> PutProgress(n)

\* The write a call is about to send: of which project, to which object.
Pending(c) ==
    LET p == Order[call[c].i] IN
    [kind |-> call[c].step, p |-> p,
     n |-> IF call[c].step = "open" THEN row[p].root ELSE call[c].parent]

DieCall(c) ==
    /\ ~ At(c, "idle") /\ Fault("die")
    /\ Raise(c)
    /\ UNCHANGED <<dbVars, remoteVars, scan, told>>

Fail(c) ==
    /\ call[c].step \in Writes /\ Fault("fail")
    /\ Raise(c)
    /\ UNCHANGED <<dbVars, remoteVars, scan, told>>

\* The write took effect but its answer never came.
Lose(c) ==
    /\ call[c].step \in Writes /\ Fault("lost")
    /\ LET w == Pending(c) IN Put(w.kind, w.p, w.n, FALSE)
    /\ Raise(c)
    /\ UNCHANGED <<dbVars, cards, moved, wire, scan, told>>

\* A write killed after 30 seconds takes effect at any later time.
Abandon(c) ==
    /\ call[c].step \in Writes /\ Fault("late")
    /\ wire' = wire \cup {Pending(c)}
    /\ Raise(c)
    /\ UNCHANGED <<dbVars, issues, items, cards, moved, scan, told>>

Arrive ==
    \E w \in wire :
        /\ wire' = wire \ {w}
        /\ Put(w.kind, w.p, w.n, TRUE)
        /\ UNCHANGED <<dbVars, lock, call, cards, moved, scan, faults, told>>

DieWorker(w) ==
    /\ ~ ScanAt(w, "idle") /\ Fault("die")
    /\ Abort(w)
    /\ UNCHANGED <<dbVars, lock, call, remoteVars, told>>

\* People close or edit the issue, release an item, push to a base branch.
Close(n) ==
    /\ Fault("close")
    /\ issues' = [issues EXCEPT ![n].open = FALSE]
    /\ UNCHANGED <<dbVars, lock, call, items, cards, moved, wire, scan, told>>

Edit(n) ==
    /\ Fault("edit")
    /\ issues' = [issues EXCEPT ![n].body = "edited"]
    /\ UNCHANGED <<dbVars, lock, call, items, cards, moved, wire, scan, told>>

Meddle(n) ==
    /\ items[n].state = "blocked" /\ Fault("release")
    /\ items' = [items EXCEPT ![n].state = "ready"]
    /\ UNCHANGED <<dbVars, lock, call, issues, cards, moved, wire, scan, told>>

Push(p) ==
    /\ p \notin moved /\ Fault("move")
    /\ moved' = moved \cup {p}
    /\ UNCHANGED <<dbVars, lock, call, issues, items, cards, wire, scan, told>>

CallStep(c) ==
    \/ Parent(c) \/ CreateParent(c) \/ BindParent(c)
    \/ Item(c) \/ CreateItem(c) \/ BindItem(c) \/ Activate(c)
    \/ ReleaseItem(c) \/ OpenItem(c) \/ Opened(c)
    \/ Progress(c) \/ Show(c) \/ Shown(c)

WorkerStep(w) ==
    \/ ReadCards(w) \/ Preflight(w) \/ Recheck(w) \/ Tree(w) \/ Card(w)

Next ==
    \/ \E c \in Call : Begin(c) \/ CallStep(c) \/ DieCall(c) \/ Fail(c)
                       \/ Lose(c) \/ Abandon(c)
    \/ \E w \in Worker : Scan(w) \/ WorkerStep(w) \/ DieWorker(w)
    \/ \E p \in Project : Agent(p) \/ Push(p)
    \/ \E n \in DOMAIN issues : Close(n) \/ Edit(n)
    \/ \E n \in DOMAIN items : Meddle(n)
    \/ Arrive \/ Barrier \/ Resume

\* The request is tried again until it is through; nobody else need act.
Fairness ==
    /\ \A c \in Call : WF_vars(Begin(c) \/ CallStep(c))
    /\ \A w \in Worker : WF_vars(WorkerStep(w))

Spec == Init /\ [][Next]_vars
FairSpec == Spec /\ Fairness

-----------------------------------------------------------------------------
(* Properties *)

Step == {"idle", "parent", "bind", "item", "root", "activate",
         "release", "opened", "progress", "shown"} \cup Writes

TypeOK ==
    /\ task \in [prepared : BOOLEAN, parent : DOMAIN issues \cup {0},
                 active : BOOLEAN, barrier : {"none", "raised", "resumed"}]
    /\ row \in [Project ->
                 [state : {"none", "prepared", "bound", "ready", "running"},
                  root : DOMAIN items \cup {0}]]
    /\ lock \subseteq {<<"call", c>> : c \in Call} /\ Cardinality(lock) <= 1
    /\ call \in [Call -> [step : Step, i : 1..N,
                          parent : DOMAIN issues \cup {0},
                          item : DOMAIN items \cup {0}]]
    /\ \A n \in DOMAIN issues :
          issues[n] \in [open : BOOLEAN, late : BOOLEAN,
                         body : {"blocked", "ready", "edited"}]
    /\ \A n \in DOMAIN items :
          items[n] \in [project : Project, parent : DOMAIN issues,
                        state : {"blocked", "ready"}, late : BOOLEAN]
    /\ \A p \in Project : \A k \in DOMAIN cards[p] :
          cards[p][k] \in {"open", "done"}
    /\ moved \subseteq Project
    /\ \A w \in Worker : scan[w].step \in
          {"idle", "cards", "replay", "recheck", "tree", "create"}
    /\ told \in BOOLEAN
    /\ faults \in 0..MaxFaults

\* However calls and worker runs overlap, die or lose answers: one parent
\* issue, one root item per project and one chain of cards without a fork.
\* Only a write that lands after its call was killed may add to them.
OneOfEach ==
    /\ Cardinality({n \in DOMAIN issues : ~ issues[n].late}) <= 1
    /\ \A p \in Project :
          /\ Cardinality({n \in ItemOf(p) : ~ items[n].late}) <= 1
          /\ Len(cards[p]) <= FlowSteps[p]
          /\ \A k \in DOMAIN cards[p] : k < Len(cards[p]) => cards[p][k] = "done"

\* Nobody works on a Task that is not wholly bound and active: no item is
\* opened and no card exists before each project has its own root under the
\* bound parent.  Only a person may open an item earlier.
NoEarlyWork ==
    \/ /\ task.active
       /\ \A p \in Project : row[p].root \in ItemOf(p)
       /\ \A p \in Project : items[row[p].root].parent = task.parent
    \/ /\ \A p \in Project : cards[p] = <<>> /\ row[p].state # "running"
       /\ \/ "release" \in Faults /\ faults > 0
          \/ \A n \in DOMAIN items : items[n].state = "blocked"

\* Once a stop or a revision is requested nothing is created, opened or
\* announced for the Task, by any call or run that is half-way through.
\* Exempt are people, and writes whose call was killed before.
SafePoint ==
    [][task.barrier = "raised" /\ wire' = wire /\ faults' = faults =>
         /\ UNCHANGED <<issues, items>>
         /\ \A p \in Project : Len(cards'[p]) = Len(cards[p])]_vars

\* A prepared request gets through in the end if it is tried again.  It does
\* not if a barrier was ever raised, if somebody tampered with its objects,
\* if a killed write doubled one, or if a worker got hold of a project
\* before the last item was opened and the progress shown.
Done ==
    /\ task.active
    /\ \A p \in Project : items[row[p].root].state = "ready"
    /\ issues[task.parent].body = "ready"

Stuck ==
    \/ task.barrier # "none"
    \/ \E n \in DOMAIN issues : ~ Genuine(n)
    \/ Len(issues) > 1 \/ \E p \in Project : Cardinality(ItemOf(p)) > 1
    \/ \E n \in DOMAIN items : items[n].state = "ready" /\ ~ task.active
    \/ \E p \in Project : row[p].state = "running"

EventuallyCreated == task.prepared ~> Done \/ Stuck
=============================================================================
