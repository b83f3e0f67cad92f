----------------------------- MODULE TaskChange -----------------------------
(***************************************************************************)
(* Changing a running v2 Task.  A message to a Task opens a revision and   *)
(* takes the Task out of work; a replacement request is staged, previewed, *)
(* confirmed, bound to its roots and activated in place of the old one, or *)
(* the revision is cancelled and the Task resumed.  Workers get the        *)
(* messages of the revision as a packet and answer each one.  Every        *)
(* transaction of TaskMessageStore, TaskRevisionService, TaskStopService   *)
(* and WorkerRuntimeService is one step.  Times are abstracted to order.   *)
(***************************************************************************)
EXTENDS Integers, Sequences, FiniteSets

CONSTANTS
    Messages,   \* bound on the messages the user sends
    MaxTasks,   \* bound on the requests: the Task and its replacements
    Projects,   \* how many projects each of them has
    Runs,       \* bound on the worker runs
    Faults,     \* a worker that "crash"es or is "silent" about a message;
                \* a dispatcher that "restart"s
    MaxFaults   \* bound on those

\* What a run assumes of its values for them.
ChangeAssumption ==
    /\ Messages \in Nat /\ MaxTasks \in Nat \ {0}
    /\ Projects \in Nat \ {0} /\ Runs \in Nat
    /\ Faults \subseteq {"crash", "silent", "restart"} /\ MaxFaults \in Nat

Message == 1..Messages
Task == 1..MaxTasks
Run == 1..Runs

VARIABLES
    task,       \* each request: the one it replaces, its rows and its latest
                \* lifecycle event
    rev,        \* task_revision_requests, in the order of their creation
    msg,        \* task_messages: the revision each one belongs to, or 0
    note,       \* task_message_events: what each run (0: the revision) noted
    shown,      \* the preview the user was shown last
    run,        \* each worker run, its packet and its answers
    spawner,    \* the dispatcher knows all the runs the database has
    faults

changeVars == <<task, rev, msg, note, shown>>
workVars == <<run, spawner, faults>>
vars == <<changeVars, workVars>>

NoTask == [of |-> 0, rows |-> "none", roots |-> 0, set |-> FALSE,
           life |-> "none"]
NoRun == [step |-> "none", task |-> 1, packet |-> {}, answers |-> {}]
NoPreview == [rev |-> 0, repl |-> 0, messages |-> {}]

\* The first request was created and activated as TaskCreation says.
Init ==
    /\ task = [t \in Task |->
                 IF t = 1 THEN [NoTask EXCEPT !.rows = "ready", !.set = TRUE,
                                              !.roots = Projects + 1,
                                              !.life = "active"]
                          ELSE NoTask]
    /\ rev = <<>>
    /\ msg = [s \in Message |-> 0]
    /\ note = [s \in Message |-> {}]
    /\ shown = NoPreview
    /\ run = [r \in Run |-> NoRun]
    /\ spawner = TRUE
    /\ faults = 0

-----------------------------------------------------------------------------
(* What the transactions read *)

Life(t) == task[t].life
Terminal == {"replaced", "cancelled", "merged"}

Open(t) == {v \in DOMAIN rev : /\ rev[v].base = t
                               /\ rev[v].state \in {"requested", "confirmed"}}
Of(v) == {s \in Message : msg[s] = v}
Answers(s) == {n \in note[s] : n.kind = "settled"}

\* _pending_rows_for_revision: neither applied nor rejected by anyone.
Pending(v) == {s \in Of(v) : Answers(s) = {}}

\* _require_active_on_connection: active and never changed since, or resumed
\* with every message of that revision rejected.
Active(t) ==
    /\ task[t].set /\ Life(t) \in {"active", "revision_resumed"}
    /\ Life(t) = "revision_resumed" =>
          /\ Open(t) = {}
          /\ \E v \in DOMAIN rev :
                /\ rev[v].base = t /\ rev[v].state = "resumed"
                /\ \A w \in DOMAIN rev : w > v => rev[w].base # t
                /\ \A s \in Of(v) :
                      Answers(s) = {[run |-> 0, kind |-> "settled"]}

\* _require_no_stop looks at all the events of the Task.
Stopped(t) == Life(t) = "stopping" \/ Life(t) \in Terminal

\* _require_base_changing
BaseChanging(v) ==
    LET b == rev[v].base IN Life(b) = "changing" /\ Open(b) = {v}

Children(t) == {c \in Task : task[c].rows # "none" /\ task[c].of = t}
Live(t) == {c \in Children(t) : task[c].rows # "cancelled"}

\* _require_staged_replacement, _require_linear_chain
Staged(v, c) ==
    /\ Live(rev[v].base) = {c}
    /\ task[c].rows = "staged" /\ ~ task[c].set

Changed(t, field, value) == [task EXCEPT ![t][field] = value]

\* _cancel_replacement and the invalidation of a preview.
CancelledRows(tasks, c) ==
    IF c = 0 THEN tasks
    ELSE [tasks EXCEPT ![c].rows = "cancelled", ![c].life = "cancelled"]

-----------------------------------------------------------------------------
(* TaskMessageStore.send *)

\* The first message to a Task in work: the message, the revision and both
\* barrier events in one transaction.
OpenRevision(s, t) ==
    /\ msg[s] = 0 /\ task[t].set
    /\ Life(t) \in {"active", "revision_resumed"} /\ Open(t) = {}
    /\ rev' = Append(rev, [base |-> t, state |-> "requested", repl |-> 0,
                           preview |-> {}])
    /\ msg' = [msg EXCEPT ![s] = Len(rev')]
    /\ task' = Changed(t, "life", "changing")
    /\ UNCHANGED <<note, shown, workVars>>

\* Faulty variant: a confirmed revision still takes messages.
TakesMessages_Confirmed(v) == rev[v].state \in {"requested", "confirmed"}

TakesMessages(v) == rev[v].state = "requested"

\* A further message invalidates the preview and the staged replacement.
AddMessage(s, v) ==
    LET c == rev[v].repl IN
    /\ msg[s] = 0 /\ TakesMessages(v) /\ BaseChanging(v)
    /\ c # 0 => task[c].rows = "staged" /\ task[c].roots = 0
    /\ msg' = [msg EXCEPT ![s] = v]
    /\ rev' = [rev EXCEPT ![v].repl = 0, ![v].preview = {}]
    /\ task' = CancelledRows(task, c)
    /\ UNCHANGED <<note, shown, workVars>>

\* The same source event again returns the stored receipt.  Messages are
\* numbered as they come.
Send ==
    \E s \in Message :
       /\ \A q \in 1..(s - 1) : msg[q] # 0
       /\ \/ \E t \in Task : OpenRevision(s, t)
          \/ \E v \in DOMAIN rev : AddMessage(s, v)

-----------------------------------------------------------------------------
(* TaskRevisionService *)

\* prepare of the replacement: rows in the database, nothing else.  A caller
\* stages one when the base has none.
Stage ==
    \E c \in Task, v \in DOMAIN rev :
       LET b == rev[v].base IN
       /\ rev[v].state = "requested" /\ Live(b) = {}
       /\ task[c].rows = "none" /\ \A d \in 1..(c - 1) : task[d].rows # "none"
       /\ task' = [task EXCEPT ![c].of = b, ![c].rows = "staged"]
       /\ UNCHANGED <<rev, msg, note, shown, workVars>>

PreparePreview(v, c) ==
    /\ rev[v].state = "requested" /\ ~ Stopped(rev[v].base)
    /\ BaseChanging(v) /\ Staged(v, c) /\ task[c].roots = 0
    /\ rev[v].repl \in {0, c} /\ Pending(v) # {}
    /\ rev' = [rev EXCEPT ![v].repl = c, ![v].preview = Pending(v)]
    /\ shown' = [rev |-> v, repl |-> c, messages |-> Pending(v)]
    /\ UNCHANGED <<task, msg, note, workVars>>

\* The user confirms what was shown; the database must still say the same.
Confirm(v) ==
    /\ rev[v].state = "requested" /\ ~ Stopped(rev[v].base)
    /\ BaseChanging(v) /\ rev[v].repl # 0
    /\ shown = [rev |-> v, repl |-> rev[v].repl, messages |-> rev[v].preview]
    /\ Staged(v, rev[v].repl) /\ task[rev[v].repl].roots = 0
    /\ Pending(v) = shown.messages
    /\ rev' = [rev EXCEPT ![v].state = "confirmed"]
    /\ UNCHANGED <<task, msg, note, shown, workVars>>

\* require_replacement_write: one binding of the parent or of a root item.
BindRoot(v) ==
    LET c == rev[v].repl IN
    /\ rev[v].state = "confirmed" /\ ~ Stopped(rev[v].base)
    /\ BaseChanging(v) /\ Staged(v, c)
    /\ task[c].roots <= Projects
    /\ task' = Changed(c, "roots", task[c].roots + 1)
    /\ UNCHANGED <<rev, msg, note, shown, workVars>>

Replaced(tasks, b) == [tasks EXCEPT ![b].life = "replaced"]

\* activate_confirmed, once: a repetition finds the settings and reads back.
Activate(v) ==
    LET c == rev[v].repl IN
    /\ rev[v].state = "confirmed" /\ ~ Stopped(rev[v].base)
    /\ BaseChanging(v) /\ Staged(v, c) /\ task[c].roots = Projects + 1
    /\ task' = Replaced([task EXCEPT ![c].set = TRUE, ![c].rows = "ready",
                                     ![c].life = "active"], rev[v].base)
    /\ UNCHANGED <<rev, msg, note, shown, workVars>>

\* _reject_pending_messages
Rejected(v) ==
    [s \in Message |-> IF s \in Pending(v)
                        THEN note[s] \cup {[run |-> 0, kind |-> "settled"]}
                        ELSE note[s]]

\* Not once the replacement has settings: the base is replaced by then.
Cancel(v) ==
    /\ rev[v].state \in {"requested", "confirmed"} /\ ~ Stopped(rev[v].base)
    /\ BaseChanging(v) /\ Pending(v) # {}
    /\ rev[v].repl # 0 => ~ task[rev[v].repl].set
    /\ note' = Rejected(v)
    /\ rev' = [rev EXCEPT ![v].state = "cancelled"]
    /\ task' = [CancelledRows(task, rev[v].repl)
                  EXCEPT ![rev[v].base].life = "revision_cancelled"]
    /\ UNCHANGED <<msg, shown, workVars>>

Resume(v) ==
    /\ rev[v].state = "cancelled"
    /\ Life(rev[v].base) = "revision_cancelled"
    /\ rev' = [rev EXCEPT ![v].state = "resumed"]
    /\ task' = Changed(rev[v].base, "life", "revision_resumed")
    /\ UNCHANGED <<msg, note, shown, workVars>>

Revise ==
    \E v \in DOMAIN rev :
       \/ \E c \in Task : PreparePreview(v, c)
       \/ Confirm(v)
       \/ BindRoot(v)
       \/ Activate(v)
       \/ Cancel(v)
       \/ Resume(v)

-----------------------------------------------------------------------------
(* Ends *)

Members == {t \in Task : task[t].rows # "none"}
Halted == \E t \in Task : Life(t) = "stopping"

\* Revisions a stop must cancel: open, with no active replacement yet.
Unfinished == {v \in DOMAIN rev : /\ v \in Open(rev[v].base)
                                  /\ rev[v].repl # 0 => ~ task[rev[v].repl].set}

\* _load_aggregate: no request has two replacements, cancelled ones included.
ChainLoads == \A t \in Task : Cardinality(Children(t)) <= 1

\* _cancel_pending_updates: a staged request is bound to an open revision.
Bound(c) == task[c].rows = "staged" =>
                \E v \in Unfinished : rev[v].repl = c

\* request_stop: the barrier on every request of the chain, and the pending
\* revision cancelled with its messages, in one transaction.
Stop ==
    /\ ~ Halted /\ ChainLoads /\ \A c \in Task : Bound(c)
    /\ LET staged == {rev[v].repl : v \in Unfinished} IN
       task' = [t \in Task |->
                  IF t \notin Members THEN task[t]
                  ELSE IF t \in staged THEN CancelledRows(task, t)[t]
                  ELSE [task[t] EXCEPT !.life = "stopping"]]
    /\ note' = [s \in Message |->
                  IF \E v \in Unfinished : s \in Pending(v)
                    THEN note[s] \cup {[run |-> 0, kind |-> "settled"]}
                    ELSE note[s]]
    /\ rev' = [v \in DOMAIN rev |->
                 [rev[v] EXCEPT !.state = IF v \in Unfinished THEN "cancelled"
                                                              ELSE @]]
    /\ UNCHANGED <<msg, shown, workVars>>

\* finish_merged of the merge worker: only what is active ends.
Merge ==
    \E t \in Task : /\ Active(t)
                    /\ task' = Changed(t, "life", "merged")
                    /\ UNCHANGED <<rev, msg, note, shown, workVars>>

-----------------------------------------------------------------------------
(* WorkerRuntimeService behind the dispatcher's ForgeWorkerSpawner *)

At(r, step) == run[r].step = step
Goto(r, step) == run' = [run EXCEPT ![r].step = step]
End(r, step) == run' = [run EXCEPT ![r] = [NoRun EXCEPT !.step = step,
                                              !.task = run[r].task,
                                              !.packet = run[r].packet]]

Fault(kind) == kind \in Faults /\ faults < MaxFaults /\ faults' = faults + 1

\* The dispatcher is one thread: it starts or finishes one run at a time.
Free == spawner /\ \A r \in Run : run[r].step \notin {"launch", "include",
                                                      "ack"}

\* The confirmed revision a request replaces its base for.
Revisions(t) == {v \in DOMAIN rev : rev[v].repl = t
                                    /\ rev[v].state = "confirmed"}

\* build_packet
Packet(t) == UNION {Pending(v) : v \in Revisions(t)}

\* _require_exact_run_packet: what nobody answered and what this run did.
Expected(r) ==
    {s \in UNION {Of(v) : v \in Revisions(run[r].task)} :
        Answers(s) \subseteq {[run |-> r, kind |-> "settled"]}}

Exact(r) == Active(run[r].task) /\ run[r].packet = Expected(r)

\* start reads the packet twice around its checks; the later one counts.
Launch(r, t) ==
    /\ Free /\ At(r, "none") /\ \A q \in 1..(r - 1) : ~ At(q, "none")
    /\ Active(t) /\ task[t].rows = "ready"
    /\ Cardinality({q \in Run : /\ run[q].task = t
                                /\ run[q].step \in {"working", "exited",
                                                    "crashed"}}) < Projects
    /\ run' = [run EXCEPT ![r] = [NoRun EXCEPT !.step = "launch", !.task = t,
                                                !.packet = Packet(t)]]
    /\ UNCHANGED <<changeVars, spawner, faults>>

\* _record_running and activate: the suspended worker is let go, or killed
\* with nothing stored.
Record(r) ==
    /\ spawner /\ At(r, "launch")
    /\ IF Active(run[r].task) THEN Goto(r, "include")
                              ELSE run' = [run EXCEPT ![r] = NoRun]
    /\ UNCHANGED <<changeVars, spawner, faults>>

Noted(r, messages, kind) ==
    [s \in Message |-> IF s \in messages
                        THEN note[s] \cup {[run |-> r, kind |-> kind]}
                        ELSE note[s]]

\* record_included, or the worker is stopped.
Include(r) ==
    /\ spawner /\ At(r, "include")
    /\ IF Exact(r) THEN /\ note' = Noted(r, run[r].packet, "included")
                        /\ Goto(r, "working")
                   ELSE End(r, "failed") /\ UNCHANGED note
    /\ UNCHANGED <<task, rev, msg, shown, spawner, faults>>

\* The worker answers the messages of its packet, misses some, or crashes.
Exit(r) ==
    /\ At(r, "working")
    /\ \/ /\ run' = [run EXCEPT ![r].step = "exited",
                                ![r].answers = run[r].packet]
          /\ UNCHANGED faults
       \/ \E answers \in SUBSET run[r].packet :
             /\ answers # run[r].packet /\ Fault("silent")
             /\ run' = [run EXCEPT ![r].step = "exited",
                                   ![r].answers = answers]
       \/ Goto(r, "crashed") /\ Fault("crash")
    /\ UNCHANGED <<changeVars, spawner>>

\* finish: an exit code, then the packet must still be what it was.
Check(r) ==
    /\ Free /\ run[r].step \in {"exited", "crashed"}
    /\ IF At(r, "exited") /\ Active(run[r].task)
          /\ Packet(run[r].task) = run[r].packet
         THEN Goto(r, "ack") ELSE End(r, "failed")
    /\ UNCHANGED <<changeVars, spawner, faults>>

Unanswered(r) == {s \in run[r].answers : ~ \E n \in Answers(s) : n.run = r}

\* record_ack: one transaction for each answer.
Ack(r) ==
    /\ spawner /\ At(r, "ack")
    /\ \E s \in Unanswered(r) :
          IF Exact(r) /\ [run |-> r, kind |-> "included"] \in note[s]
            THEN note' = Noted(r, {s}, "settled") /\ UNCHANGED run
            ELSE End(r, "failed") /\ UNCHANGED note
    /\ UNCHANGED <<task, rev, msg, shown, spawner, faults>>

\* Faulty variant: a result counts with its answers missing.
Acknowledged_Any(r) == TRUE

\* require_result_acknowledged
Acknowledged(r) ==
    \A s \in run[r].packet : [run |-> r, kind |-> "settled"] \in note[s]

\* The last check and the completion; nothing the first looked at can change
\* before the second but what the second looks at again.
Complete(r) ==
    /\ spawner /\ At(r, "ack") /\ Unanswered(r) = {}
    /\ IF Exact(r) /\ Acknowledged(r) THEN End(r, "completed")
                                      ELSE End(r, "failed")
    /\ UNCHANGED <<changeVars, spawner, faults>>

\* A new dispatcher knows nothing of the runs it finds and refuses to work.
Restart ==
    /\ spawner /\ Fault("restart")
    /\ run' = [r \in Run |->
                 IF run[r].step \in {"none", "completed", "failed"} THEN run[r]
                 ELSE IF At(r, "launch") THEN NoRun
                 ELSE [run[r] EXCEPT !.step = "lost", !.answers = {}]]
    /\ spawner' = (\A r \in Run : ~ (run'[r].step = "lost"))
    /\ UNCHANGED changeVars

Work(r) ==
    \/ \E t \in Task : Launch(r, t)
    \/ Record(r)
    \/ Include(r)
    \/ Exit(r)
    \/ Check(r)
    \/ Ack(r)
    \/ Complete(r)

Next ==
    \/ Send
    \/ Stage
    \/ Revise
    \/ Stop
    \/ Merge
    \/ \E r \in Run : Work(r)
    \/ Restart

Spec == Init /\ [][Next]_vars

-----------------------------------------------------------------------------
(* Properties *)

TypeOK ==
    /\ task \in [Task -> [of : 0..MaxTasks, roots : 0..(Projects + 1),
                          set : BOOLEAN,
                          rows : {"none", "staged", "cancelled", "ready"},
                          life : {"none", "active", "changing", "stopping",
                                  "revision_cancelled", "revision_resumed"}
                                 \cup Terminal]]
    /\ rev \in Seq([base : Task, repl : 0..MaxTasks, preview : SUBSET Message,
                    state : {"requested", "confirmed", "cancelled",
                             "resumed"}])
    /\ msg \in [Message -> 0..Len(rev)]
    /\ note \in [Message -> SUBSET [run : 0..Runs,
                                   kind : {"included", "settled"}]]
    /\ shown \in [rev : 0..Len(rev), repl : 0..MaxTasks,
                  messages : SUBSET Message]
    /\ run \in [Run -> [task : Task, packet : SUBSET Message,
                        answers : SUBSET Message,
                        step : {"none", "launch", "include", "working",
                                "exited", "crashed", "ack", "completed",
                                "failed", "lost"}]]
    /\ spawner \in BOOLEAN /\ faults \in 0..MaxFaults

\* A message is answered once: by the revision it belonged to when that was
\* given up, or by one run of the replacement it led to, which had been given
\* it.  A completed run answered all it was given and, like a revision that
\* was given up, leaves none open.
AnsweredOnce ==
    /\ \A v \in DOMAIN rev :
          rev[v].state \in {"cancelled", "resumed"} => Pending(v) = {}
    /\ \A s \in Message :
          /\ Cardinality(Answers(s)) <= 1
          /\ \A n \in Answers(s) :
                IF n.run = 0 THEN rev[msg[s]].state \in {"cancelled", "resumed"}
                ELSE /\ [n EXCEPT !.kind = "included"] \in note[s]
                     /\ rev[msg[s]].state = "confirmed"
                     /\ rev[msg[s]].repl = run[n.run].task
    /\ \A r \in Run : At(r, "completed") =>
          /\ Packet(run[r].task) = {}
          /\ \A s \in run[r].packet :
                [run |-> r, kind |-> "settled"] \in note[s]

\* However messages, previews, confirmations and stops meet, one version of
\* the Task is in work; what was confirmed is what the user was shown, with
\* every message the revision took, and it ends the version it replaces.
OneVersion ==
    /\ Cardinality({t \in Task : Active(t)}) <= 1
    /\ Halted => \A t \in Task : ~ Active(t)
    /\ \A v \in DOMAIN rev : rev[v].state = "confirmed" =>
          /\ rev[v].preview = Of(v)
          /\ task[rev[v].repl].of = rev[v].base
          /\ task[rev[v].repl].set =>
                Life(rev[v].base) \in {"replaced", "stopping"}

\* The design says that a Task can be stopped while it is changing as well:
\* whenever no staged request is still to be shown, a stop is accepted.
StopIsPossible ==
    (\A c \in Task : Bound(c)) /\ ~ Halted => ChainLoads

=============================================================================
