---------------------------- MODULE TaskDelivery ----------------------------
(***************************************************************************)
(* How one user's confirmed v1 Tasks become GitHub issues: the outbox that *)
(* survives a restart, the settings database, the issue with its marker,   *)
(* and the ready label under a lock shared with every lifecycle change.    *)
(* A caller is a Hermes plugin call or a run of task-service.py; it may    *)
(* die, lose an answer or leave a request behind at each step.             *)
(***************************************************************************)
EXTENDS Integers, Sequences, FiniteSets

CONSTANTS
    Request,    \* confirmed requests of one user and repository
    Caller,     \* processes that deliver them
    Plugin,     \* the callers that go through the outbox
    Wants,      \* the requests each caller may be asked to deliver
    Ends,       \* the ways a Task may end while it is delivered
    NoCaller,
    MaxIssues,  \* bound on issues
    MaxFaults,  \* bound on crashes, failed calls and lost answers
    MaxEdits,   \* bound on edits of issues by people and by the status sync
    DiesAt,     \* steps at which a caller may die or its call may fail
    LosesAt,    \* writes whose answer may be lost
    LateAt      \* writes that may arrive after their caller has died

ASSUME DeliveryAssumption ==
    /\ Plugin \subseteq Caller
    /\ Wants \in [Caller -> SUBSET Request]
    /\ Ends \subseteq {"cancelled", "expired", "merged"}
    /\ NoCaller \notin Caller
    /\ MaxIssues \in Nat /\ MaxFaults \in Nat /\ MaxEdits \in Nat
    /\ LosesAt \subseteq {"create", "update", "label"}
    /\ LateAt \subseteq {"create", "label"}

VARIABLES
    outbox,     \* the rows of the outbox database
    settings,   \* the latest state of each request in the settings database
    issues,     \* GitHub: the request, body and label of each issue
    claims,     \* the process that holds each request's OS lock
    writer,     \* the caller that holds the settings database over a write
    at,         \* each caller's step and what it has read
    told,       \* history: requests whose user was told of the new Task
    labelled,   \* history: issues that carried the ready label
    wire,       \* writes still on their way from callers that died
    faults, edits

vars == <<outbox, settings, issues, claims, writer, at, told, labelled, wire,
          faults, edits>>

Terminal == {"cancelled", "expired", "merged"}
Number == 0..MaxIssues                          \* 0: no issue

Row == [state : {"none", "pending", "completed", "ended"},
        issue : Number, status : {"none"} \cup Terminal]
Settings == [status : {"none", "prepared", "active"} \cup Terminal,
             issue : Number]
Body == {"unbound", "bound", "edited"}
Issue == [req : Request, body : Body, ready : BOOLEAN]

Steps == {"idle", "save", "claim", "prepare", "find", "create", "bind",
          "update", "activate", "guard", "check", "label", "readback",
          "complete", "retire", "replay"}

\* own is the caller's copy of the settings, issue and body what it read last.
Idle(q) == [step |-> "idle", req |-> q,
            own |-> [status |-> "none", issue |-> 0], issue |-> 0,
            body |-> "edited"]

\* The settings hash enters the body once the settings are bound.
ExpectedBody(own) == IF own.issue = 0 THEN "unbound" ELSE "bound"

PendingRequests == {q \in Request : outbox[q].state = "pending"}
Matching(q) == {n \in DOMAIN issues : issues[n].req = q}

Init ==
    /\ outbox = [q \in Request |->
                   [state |-> "none", issue |-> 0, status |-> "none"]]
    /\ settings = [q \in Request |-> [status |-> "none", issue |-> 0]]
    /\ issues = <<>>
    /\ claims = [q \in Request |-> NoCaller]
    /\ writer = NoCaller
    /\ at \in {[c \in Caller |-> Idle(q)] : q \in Request}
    /\ told = {}
    /\ labelled = {}
    /\ wire = {}
    /\ faults = 0
    /\ edits = 0

-----------------------------------------------------------------------------
At(c, step) == at[c].step = step
Move(c, step) == at' = [at EXCEPT ![c].step = step]

\* The call is over, whatever its outcome: its locks are free again.
Return(c) ==
    /\ at' = [at EXCEPT ![c] = Idle(at[c].req)]
    /\ claims' = [q \in Request |->
                    IF claims[q] = c THEN NoCaller ELSE claims[q]]
    /\ writer' = IF writer = c THEN NoCaller ELSE writer

Databases == <<outbox, settings>>
Locks == <<claims, writer>>
Budget == <<wire, faults, edits>>
GitHub == <<issues, labelled>>

\* _default_task_service: a pending request of this user goes first, and more
\* than one is an error.  task-service.py delivers what it was given.
Start(c, q) ==
    /\ At(c, "idle") /\ q \in Wants[c]
    /\ IF c \in Plugin
         THEN /\ Cardinality(PendingRequests) <= 1
              /\ \E r \in IF PendingRequests = {} THEN {q}
                                                  ELSE PendingRequests :
                    at' = [at EXCEPT ![c] = [Idle(r) EXCEPT !.step = "save"]]
         ELSE at' = [at EXCEPT ![c] = [Idle(q) EXCEPT !.step = "prepare"]]
    /\ UNCHANGED <<Databases, Locks, GitHub, told, Budget>>

Save(c) ==
    /\ At(c, "save")
    /\ outbox' = [outbox EXCEPT ![at[c].req] =
                    IF @.state = "none" THEN [@ EXCEPT !.state = "pending"]
                                        ELSE @]
    /\ Move(c, "claim")
    /\ UNCHANGED <<settings, Locks, GitHub, told, Budget>>

\* Faulty variant: the claim does not wait for the lock.
Claim_Shared(c) ==
    /\ At(c, "claim")
    /\ Move(c, "prepare")
    /\ UNCHANGED <<Databases, Locks, GitHub, told, Budget>>

Claim(c) ==
    /\ At(c, "claim") /\ claims[at[c].req] = NoCaller
    /\ CASE outbox[at[c].req].state = "ended" -> Return(c)
         [] OTHER ->
              /\ claims' = [claims EXCEPT ![at[c].req] = c]
              /\ Move(c, IF outbox[at[c].req].state = "completed"
                           THEN "replay" ELSE "prepare")
              /\ UNCHANGED writer
    /\ UNCHANGED <<Databases, GitHub, told, Budget>>

\* Faulty variant: an ended Task is an error like any other.
Ended_Pending(c) == Return(c)

\* Only a caller that holds an outbox claim has a row to retire.
Ended(c) ==
    IF c \in Plugin THEN Move(c, "retire") /\ UNCHANGED Locks ELSE Return(c)

Prepare(c) ==
    LET q == at[c].req IN
    /\ At(c, "prepare") /\ writer = NoCaller
    /\ settings' = [settings EXCEPT ![q].status =
                      IF @ = "none" THEN "prepared" ELSE @]
    /\ IF settings[q].status \in Terminal
         THEN Ended(c)
         ELSE /\ at' = [at EXCEPT ![c].step = "find", ![c].own = settings'[q]]
              /\ UNCHANGED Locks
    /\ UNCHANGED <<outbox, GitHub, told, Budget>>

\* What create_task requires of the issue it found, before any write.
Acceptable(c, n) ==
    /\ issues[n].body = ExpectedBody(at[c].own)
    /\ at[c].own.issue \in {0, n}

\* Faulty variant: a bound Task is taken for an active one.
AfterFind_Bound(own) == IF own.issue = 0 THEN "bind" ELSE "guard"

AfterFind(own) ==
    IF own.status = "active" THEN "guard"
    ELSE IF own.issue = 0 THEN "bind" ELSE "update"

\* find_issue reads every issue; the body is compared with the settings the
\* caller holds.  No issue and no binding: the issue is created.
Find(c) ==
    LET found == Matching(at[c].req) IN
    /\ At(c, "find")
    /\ CASE found = {} /\ at[c].own.issue = 0 ->
              Move(c, "create") /\ UNCHANGED Locks
         [] Cardinality(found) = 1 /\ \A n \in found : Acceptable(c, n) ->
              /\ \E n \in found :
                    at' = [at EXCEPT ![c] =
                      [@ EXCEPT !.issue = n, !.body = issues[n].body,
                                !.step = AfterFind(at[c].own)]]
              /\ UNCHANGED Locks
         [] OTHER -> Return(c)
    /\ UNCHANGED <<Databases, GitHub, told, Budget>>

NewIssue(q) == [req |-> q, body |-> "unbound", ready |-> FALSE]

\* The three writes: create_issue, update_issue and add_label.
PutLabel(n) ==
    /\ issues' = [issues EXCEPT ![n].ready = TRUE]
    /\ labelled' = labelled \cup {n}

PutIssue(q) ==
    /\ Len(issues) < MaxIssues
    /\ issues' = Append(issues, NewIssue(q))
    /\ UNCHANGED labelled

PutBody(n) ==
    /\ issues' = [issues EXCEPT ![n].body = "bound"]
    /\ UNCHANGED labelled

Create(c) ==
    /\ At(c, "create")
    /\ PutIssue(at[c].req)
    /\ at' = [at EXCEPT ![c].step = "bind", ![c].issue = Len(issues) + 1,
                       ![c].body = "unbound"]
    /\ UNCHANGED <<Databases, Locks, told, Budget>>

\* bind_issue returns what is bound already if it is the same issue; another
\* caller may even have activated it, and then the body read is compared.
\* If the Task has ended meanwhile, activate is the step that refuses it.
Bind(c) ==
    LET q == at[c].req
        bound == IF settings[q].issue = 0
                   THEN [settings[q] EXCEPT !.issue = at[c].issue]
                   ELSE settings[q]
    IN
    /\ At(c, "bind") /\ writer = NoCaller
    /\ IF \/ settings[q].issue \notin {0, at[c].issue}
          \/ bound.status = "active" /\ at[c].body # "bound"
         THEN Return(c) /\ UNCHANGED settings
         ELSE /\ settings' = [settings EXCEPT ![q] = bound]
              /\ at' = [at EXCEPT ![c].own = bound,
                     ![c].step = IF bound.status = "active" THEN "guard"
                                                            ELSE "update"]
              /\ UNCHANGED Locks
    /\ UNCHANGED <<outbox, GitHub, told, Budget>>

\* update_issue replaces title and body, so what it returns is exact.
Update(c) ==
    /\ At(c, "update")
    /\ PutBody(at[c].issue)
    /\ at' = [at EXCEPT ![c].step = "activate", ![c].body = "bound"]
    /\ UNCHANGED <<Databases, Locks, told, Budget>>

Activate(c) ==
    LET q == at[c].req IN
    /\ At(c, "activate") /\ writer = NoCaller
    /\ IF settings[q].status \in Terminal
         THEN Return(c) /\ UNCHANGED settings
         ELSE /\ settings' = [settings EXCEPT ![q].status = "active"]
              /\ at' = [at EXCEPT ![c].step = "guard",
                                 ![c].own = settings'[q]]
              /\ UNCHANGED Locks
    /\ UNCHANGED <<outbox, GitHub, told, Budget>>

\* Faulty variant: the Task is looked up but not held while it is labelled.
GuardReady_Unlocked(c) ==
    /\ At(c, "guard") /\ writer = NoCaller
    /\ IF settings[at[c].req] = at[c].own THEN Move(c, "check") /\ UNCHANGED Locks
                                          ELSE Return(c)
    /\ UNCHANGED <<Databases, GitHub, told, Budget>>

\* _ready_label_guard: from here to the readback nobody can end the Task.
GuardReady(c) ==
    LET q == at[c].req IN
    /\ At(c, "guard") /\ writer = NoCaller
    /\ IF settings[q].status \in Terminal THEN Ended(c)
       ELSE IF settings[q] # at[c].own THEN Return(c)
       ELSE /\ writer' = c
            /\ Move(c, "check")
            /\ UNCHANGED claims
    /\ UNCHANGED <<Databases, GitHub, told, Budget>>

Exact(n) == issues[n].body = "bound"

CheckIssue(c) ==
    /\ At(c, "check")
    /\ IF Exact(at[c].own.issue)
         THEN Move(c, "label") /\ UNCHANGED Locks
         ELSE Return(c)
    /\ UNCHANGED <<Databases, GitHub, told, Budget>>

Label(c) ==
    /\ At(c, "label")
    /\ PutLabel(at[c].own.issue)
    /\ Move(c, "readback")
    /\ UNCHANGED <<Databases, Locks, told, Budget>>

Readback(c) ==
    LET q == at[c].req
        n == at[c].own.issue
    IN
    /\ At(c, "readback")
    /\ IF issues[n].ready /\ Exact(n)
         THEN IF c \in Plugin
                THEN /\ writer' = NoCaller
                     /\ Move(c, "complete")
                     /\ UNCHANGED <<claims, told>>
                ELSE Return(c) /\ told' = told \cup {q}
         ELSE Return(c) /\ UNCHANGED told
    /\ UNCHANGED <<Databases, GitHub, Budget>>

Complete(c) ==
    LET q == at[c].req IN
    /\ At(c, "complete")
    /\ outbox' = [outbox EXCEPT ![q] =
                    [@ EXCEPT !.state = "completed", !.issue = at[c].own.issue]]
    /\ told' = told \cup {q}
    /\ Return(c)
    /\ UNCHANGED <<settings, GitHub, Budget>>

\* Faulty variant: the row records the status the caller last read.
Retire_Stale(c) ==
    LET q == at[c].req IN
    /\ At(c, "retire")
    /\ outbox' = [outbox EXCEPT ![q] =
                    [state |-> "ended", issue |-> at[c].own.issue,
                     status |-> at[c].own.status]]
    /\ Return(c)
    /\ UNCHANGED <<settings, GitHub, told, Budget>>

\* A Task that ended before its delivery was over is retired, not retried.
Retire(c) ==
    LET q == at[c].req IN
    /\ At(c, "retire")
    /\ outbox' = [outbox EXCEPT ![q] =
                    [state |-> "ended", issue |-> settings[q].issue,
                     status |-> settings[q].status]]
    /\ Return(c)
    /\ UNCHANGED <<settings, GitHub, told, Budget>>

\* _read_completed_delivery: reads only.
Replay(c) ==
    LET q == at[c].req
        n == outbox[q].issue
    IN
    /\ At(c, "replay")
    /\ told' = IF /\ settings[q] = [status |-> "active", issue |-> n]
                  /\ Exact(n) /\ issues[n].ready
                 THEN told \cup {q} ELSE told
    /\ Return(c)
    /\ UNCHANGED <<Databases, GitHub, Budget>>

-----------------------------------------------------------------------------
(* What may go wrong, and who else writes                                  *)

\* The process dies or its call fails before it had an effect.
Die(c) ==
    /\ at[c].step \in DiesAt /\ faults < MaxFaults
    /\ faults' = faults + 1
    /\ Return(c)
    /\ UNCHANGED <<Databases, GitHub, told, wire, edits>>

\* The write takes effect but its answer never arrives.
Lose(c) ==
    /\ at[c].step \in LosesAt /\ faults < MaxFaults
    /\ CASE At(c, "create") -> PutIssue(at[c].req)
         [] At(c, "update") -> PutBody(at[c].issue)
         [] OTHER           -> PutLabel(at[c].own.issue)
    /\ faults' = faults + 1
    /\ Return(c)
    /\ UNCHANGED <<Databases, told, wire, edits>>

\* The caller dies and leaves the request it sent behind.
Abandon(c) ==
    /\ at[c].step \in LateAt /\ faults < MaxFaults
    /\ wire' = wire \cup {[kind |-> at[c].step, req |-> at[c].req,
                           issue |-> at[c].own.issue]}
    /\ faults' = faults + 1
    /\ Return(c)
    /\ UNCHANGED <<Databases, GitHub, told, edits>>

Arrive(m) ==
    /\ m \in wire
    /\ wire' = wire \ {m}
    /\ IF m.kind = "create" THEN PutIssue(m.req) ELSE PutLabel(m.issue)
    /\ UNCHANGED <<Databases, Locks, at, told, faults, edits>>

\* append_lifecycle_event: only an active Task ends, and only once.
End(q, status) ==
    /\ settings[q].status = "active" /\ writer = NoCaller
    /\ settings' = [settings EXCEPT ![q].status = status]
    /\ UNCHANGED <<outbox, GitHub, Locks, at, told, Budget>>

\* A person edits the issue, or the status sync replaces its label.
Edit(n) ==
    /\ edits < MaxEdits
    /\ \/ issues' = [issues EXCEPT ![n].body = "edited"]
       \/ issues' = [issues EXCEPT ![n].ready = FALSE]
    /\ edits' = edits + 1
    /\ UNCHANGED <<labelled, Databases, Locks, at, told, wire, faults>>

Step(c) ==
    \/ \E q \in Request : Start(c, q)
    \/ Save(c) \/ Claim(c) \/ Prepare(c) \/ Find(c) \/ Create(c) \/ Bind(c)
    \/ Update(c) \/ Activate(c) \/ GuardReady(c) \/ CheckIssue(c)
    \/ Label(c) \/ Readback(c) \/ Complete(c) \/ Retire(c) \/ Replay(c)

Next ==
    \/ \E c \in Caller : Step(c) \/ Die(c) \/ Lose(c) \/ Abandon(c)
    \/ \E m \in wire : Arrive(m)
    \/ \E q \in Request, status \in Ends : End(q, status)
    \/ \E n \in DOMAIN issues : Edit(n)

Spec == Init /\ [][Next]_vars

\* Callers finish what they start and users retry; the OS frees the locks of
\* the dead.  Nothing else has to happen.
FairSpec == Spec /\ \A c \in Caller : WF_vars(Step(c))

-----------------------------------------------------------------------------
(* Properties                                                              *)

TypeOK ==
    /\ outbox \in [Request -> Row]
    /\ settings \in [Request -> Settings]
    /\ issues \in Seq(Issue) /\ Len(issues) <= MaxIssues
    /\ claims \in [Request -> Caller \cup {NoCaller}]
    /\ writer \in Caller \cup {NoCaller}
    /\ at \in [Caller -> [step : Steps, req : Request, own : Settings,
                          issue : Number, body : Body]]
    /\ told \subseteq Request
    /\ labelled \subseteq Number
    /\ wire \subseteq [kind : {"create", "label"}, req : Request,
                       issue : Number]
    /\ faults \in 0..MaxFaults /\ edits \in 0..MaxEdits

\* Whatever dies, gets lost or is retried, a request never has two issues:
\* a caller that must create one looks first, and nobody else does meanwhile.
OneIssue == \A q \in Request : Cardinality(Matching(q)) <= 1

\* The two databases and GitHub tell one story although each is written on
\* its own: a finished delivery names the bound issue of an activated Task,
\* and a retired one the end its settings record.
DatabasesAgree ==
    \A q \in Request :
        /\ outbox[q].state = "completed" =>
              /\ outbox[q].issue = settings[q].issue
              /\ settings[q].status \in {"active"} \cup Terminal
              /\ issues[outbox[q].issue].req = q
        /\ outbox[q].state = "ended" =>
              settings[q] = [status |-> outbox[q].status,
                             issue |-> outbox[q].issue]

Stage(q) ==
    CASE settings[q].status = "none"     -> "unknown"
      [] settings[q].status = "prepared" -> "confirmed"
      [] settings[q].status = "active"   -> "active"
      [] OTHER                           -> "ended"

Announced ==
    {q \in Request : \E n \in labelled :
        settings[q].issue = n /\ issues[n].req = q}

Abstract == INSTANCE TaskPromise WITH
    stage <- [q \in Request |-> Stage(q)],
    sent <- {m.req : m \in {w \in wire : w.kind = "label"}},
    announced <- Announced, told <- told

\* Databases, locks and retries keep the promise of TaskPromise: a Task is
\* announced only while it is active, whoever tries to end it in between, or
\* by a label that a killed call sent while it was; and its user is never told
\* of a Task that was not announced.
KeepsPromise == Abstract!Promise

\* Every confirmed Task that was stored is announced or retired in the end.
EventuallyDelivered ==
    \A q \in Request :
        outbox[q].state = "pending" ~> outbox[q].state # "pending"

=============================================================================
