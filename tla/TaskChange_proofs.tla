-------------------------- MODULE TaskChange_proofs --------------------------
(***************************************************************************)
(* Proofs about TaskChange: one version of the Task in work, as the user   *)
(* confirmed it, and one answer to each message, for any number of         *)
(* messages, replacements, projects, worker runs and faults.               *)
(***************************************************************************)
EXTENDS TaskChange, FiniteSetTheorems, SequenceTheorems, TLAPS

-----------------------------------------------------------------------------
(* The inductive invariant                                                 *)

TaskRec == [of : 0..MaxTasks, roots : 0..(Projects + 1), set : BOOLEAN,
            rows : {"none", "staged", "cancelled", "ready"},
            life : {"none", "active", "changing", "stopping",
                    "revision_cancelled", "revision_resumed"} \cup Terminal]
RevRec == [base : Task, repl : 0..MaxTasks, preview : SUBSET Message,
           state : {"requested", "confirmed", "cancelled", "resumed"}]
NoteRec == [run : 0..Runs, kind : {"included", "settled"}]
RunRec == [task : Task, packet : SUBSET Message, answers : SUBSET Message,
           step : {"none", "launch", "include", "working", "exited",
                   "crashed", "ack", "completed", "failed", "lost"}]

\* The version that is in work, is being changed, or will be again.
Current == {"active", "changing", "revision_cancelled", "revision_resumed"}

Requests ==
    \A t \in Task :
        /\ task[t].rows = "none" => task[t].life = "none" /\ ~ task[t].set
        /\ Life(t) \in Current => task[t].set
        /\ task[t].set => task[t].rows \notin {"none", "staged"}

\* There is one, and none once the chain is stopped.
Solo ==
    /\ \A t, u \in Task : Life(t) \in Current /\ Life(u) \in Current => t = u
    /\ Halted => \A t \in Task : Life(t) \notin Current

\* A revision changes a Task that was in work, and its replacement is staged
\* for that Task; what is confirmed is complete, and ends the old version.
RevInv(v) ==
    /\ task[rev[v].base].set
    /\ rev[v].repl # 0 => /\ task[rev[v].repl].rows # "none"
                          /\ task[rev[v].repl].of = rev[v].base
    /\ rev[v].state = "confirmed" =>
          /\ rev[v].repl # 0
          /\ rev[v].preview = Of(v)
          /\ task[rev[v].repl].set =>
                Life(rev[v].base) \in {"replaced", "stopping"}
    /\ rev[v].state \in {"cancelled", "resumed"} => Pending(v) = {}

\* Who answered a message, and what that says of its revision.
NoteInv(s) ==
    /\ note[s] # {} => msg[s] # 0
    /\ \A m, n \in Answers(s) : m = n
    /\ \A n \in Answers(s) :
          IF n.run = 0 THEN rev[msg[s]].state \in {"cancelled", "resumed"}
          ELSE /\ [n EXCEPT !.kind = "included"] \in note[s]
               /\ rev[msg[s]].state = "confirmed"
               /\ rev[msg[s]].repl = run[n.run].task
               /\ task[rev[msg[s]].repl].set

\* A run notes nothing before its packet is recorded, and answers only for it.
RunInv(r) ==
    /\ run[r].step \in {"none", "launch", "include"} =>
          \A s \in Message : \A n \in note[s] : n.run # r
    /\ run[r].answers \subseteq run[r].packet
    /\ At(r, "completed") =>
          /\ task[run[r].task].set
          /\ Packet(run[r].task) = {}
          /\ \A s \in run[r].packet : [run |-> r, kind |-> "settled"] \in note[s]

IInv ==
    /\ TypeOK /\ Requests /\ Solo
    /\ \A v \in DOMAIN rev : RevInv(v)
    /\ \A s \in Message : NoteInv(s)
    /\ \A r \in Run : RunInv(r)

-----------------------------------------------------------------------------
(* Facts about the data                                                    *)

LEMMA Types ==
    ASSUME ChangeAssumption, IInv
    PROVE  /\ task \in [Task -> TaskRec] /\ \A t \in Task : task[t] \in TaskRec
           /\ rev \in Seq(RevRec) /\ Len(rev) \in Nat
           /\ DOMAIN rev = 1..Len(rev)
           /\ \A v \in DOMAIN rev :
                 /\ rev[v] \in RevRec /\ v # 0 /\ rev[v].base \in Task
                 /\ rev[v].repl # 0 => rev[v].repl \in Task
           /\ msg \in [Message -> 0..Len(rev)]
           /\ \A s \in Message : msg[s] # 0 => msg[s] \in DOMAIN rev
           /\ note \in [Message -> SUBSET NoteRec]
           /\ \A s \in Message : \A n \in note[s] : n \in NoteRec
           /\ shown \in [rev : 0..Len(rev), repl : 0..MaxTasks,
                         messages : SUBSET Message]
           /\ run \in [Run -> RunRec] /\ \A r \in Run : run[r] \in RunRec
           /\ spawner \in BOOLEAN /\ faults \in 0..MaxFaults
<1>1. TypeOK /\ MaxTasks \in Nat \ {0}
  BY DEF IInv, ChangeAssumption
<1>2. task \in [Task -> TaskRec] /\ \A t \in Task : task[t] \in TaskRec
  BY <1>1 DEF TypeOK, TaskRec
<1>3. rev \in Seq(RevRec) /\ Len(rev) \in Nat /\ DOMAIN rev = 1..Len(rev)
  BY <1>1 DEF TypeOK, RevRec
<1>4. \A v \in DOMAIN rev : rev[v] \in RevRec /\ v # 0
  BY <1>3
<1>5. \A v \in DOMAIN rev : /\ rev[v].base \in Task
                            /\ rev[v].repl # 0 => rev[v].repl \in Task
  BY <1>1, <1>4 DEF RevRec, Task
<1>6. msg \in [Message -> 0..Len(rev)] /\ note \in [Message -> SUBSET NoteRec]
  BY <1>1 DEF TypeOK, NoteRec
<1>7. run \in [Run -> RunRec] /\ \A r \in Run : run[r] \in RunRec
  BY <1>1 DEF TypeOK, RunRec
<1> QED
  BY <1>1, <1>2, <1>3, <1>4, <1>5, <1>6, <1>7 DEF TypeOK

LEMMA RunNumbers ==
    ASSUME ChangeAssumption, NEW r \in Run
    PROVE  r # 0 /\ r \in 0..Runs
BY DEF Run, ChangeAssumption

-----------------------------------------------------------------------------
(* What a step leaves alone                                                *)

\* A step of the runs alone.
LEMMA RunsMove ==
    ASSUME ChangeAssumption, IInv, UNCHANGED changeVars,
           run' \in [Run -> RunRec], spawner' \in BOOLEAN,
           faults' \in 0..MaxFaults,
           \A r \in Run : \/ run'[r].task = run[r].task
                          \/ run[r].step \in {"none", "launch", "include"},
           \A r \in Run : RunInv(r)'
    PROVE  IInv'
<1>1. UNCHANGED <<task, rev, msg, note, shown>>
  BY DEF changeVars
<1>2. TypeOK'
  BY <1>1 DEF IInv, TypeOK, RunRec
<1>3. Requests' /\ Solo'
  BY <1>1 DEF IInv, Requests, Solo, Halted, Life
<1>4. \A v \in DOMAIN rev' : RevInv(v)'
  BY <1>1 DEF IInv, RevInv, Of, Pending, Answers, Life
<1>5. ASSUME NEW s \in Message PROVE NoteInv(s)'
  <2>1. NoteInv(s)
    BY DEF IInv
  <2>2. ASSUME NEW n \in Answers(s), n.run # 0
        PROVE  run'[n.run].task = run[n.run].task
    <3>1. n.run \in Run
      BY <2>2, Types DEF Answers, NoteRec, Run
    <3>2. RunInv(n.run) /\ n \in note[s]
      BY <2>2, <3>1 DEF IInv, Answers
    <3> QED
      BY <3>1, <3>2 DEF RunInv
  <2>3. Answers(s)' = Answers(s)
    BY <1>1 DEF Answers
  <2> QED
    BY <1>1, <2>1, <2>2, <2>3 DEF NoteInv
<1> QED
  BY <1>2, <1>3, <1>4, <1>5 DEF IInv

\* The runs, when the user's side moves: nobody answers for them, and no
\* message comes to a revision whose replacement works.
LEMMA RunsKept ==
    ASSUME ChangeAssumption, IInv, UNCHANGED run,
           \A t \in Task : task[t].set => task'[t].set,
           \A s \in Message : /\ note[s] \subseteq note'[s]
                              /\ \A n \in note'[s] : n \in note[s] \/ n.run = 0,
           \A v \in DOMAIN rev' :
              rev'[v].state = "confirmed" /\ rev'[v].repl # 0 =>
                 /\ v \in DOMAIN rev /\ rev'[v].repl = rev[v].repl
                 /\ task[rev[v].repl].set => rev[v].state = "confirmed"
                 /\ \A s \in Message : msg'[s] = v => msg[s] = v
    PROVE  \A r \in Run : RunInv(r)'
<1> SUFFICES ASSUME NEW r \in Run PROVE RunInv(r)'
  OBVIOUS
<1>1. RunInv(r) /\ r # 0 /\ run[r].task \in Task
  BY Types, RunNumbers DEF IInv, RunRec
<1>2. run'[r].step \in {"none", "launch", "include"} =>
         \A s \in Message : \A n \in note'[s] : n.run # r
  BY <1>1 DEF RunInv
<1>3. ASSUME At(r, "completed")
      PROVE  /\ task'[run[r].task].set /\ Packet(run[r].task)' = {}
             /\ \A s \in run[r].packet :
                   [run |-> r, kind |-> "settled"] \in note'[s]
  <2>1. /\ task[run[r].task].set /\ Packet(run[r].task) = {}
        /\ \A s \in run[r].packet :
              [run |-> r, kind |-> "settled"] \in note[s]
    BY <1>1, <1>3 DEF RunInv
  <2> DEFINE t == run[r].task
  <2>2. ASSUME NEW v \in Revisions(t)', NEW s \in Pending(v)'
        PROVE  v \in Revisions(t) /\ s \in Pending(v)
    <3>1. /\ v \in DOMAIN rev' /\ rev'[v].repl = t
          /\ rev'[v].state = "confirmed" /\ t # 0
      BY <1>1, <2>2 DEF Revisions, Task
    <3>2. v \in Revisions(t)
      BY <2>1, <3>1 DEF Revisions
    <3>3. s \in Message /\ msg'[s] = v /\ Answers(s)' = {}
      BY <2>2 DEF Pending, Of
    <3>4. msg[s] = v /\ Answers(s) = {}
      BY <3>1, <3>3 DEF Answers
    <3> QED
      BY <3>2, <3>3, <3>4 DEF Pending, Of
  <2>3. Packet(t)' = {}
    BY <2>1, <2>2 DEF Packet
  <2>4. run[r].packet \subseteq Message
    BY Types DEF RunRec
  <2> QED
    BY <1>1, <2>1, <2>3, <2>4
<1> QED
  BY <1>1, <1>2, <1>3 DEF RunInv, At

\* A message nobody writes about, if its revision keeps what was decided.
LEMMA NoteKept ==
    ASSUME ChangeAssumption, IInv, UNCHANGED run, NEW s \in Message,
           note'[s] = note[s], msg'[s] = msg[s] \/ msg[s] = 0,
           msg[s] # 0 => LET v == msg[s] IN
              /\ rev[v].state \in {"cancelled", "resumed"} =>
                    rev'[v].state \in {"cancelled", "resumed"}
              /\ rev[v].state = "confirmed" /\ rev[v].repl \in Task
                    /\ task[rev[v].repl].set =>
                    /\ rev'[v].state = "confirmed"
                    /\ rev'[v].repl = rev[v].repl
                    /\ task'[rev[v].repl].set
    PROVE  NoteInv(s)'
<1>1. NoteInv(s) /\ Answers(s)' = Answers(s) /\ Answers(s) \subseteq note[s]
  BY DEF IInv, Answers
<1>2. CASE msg[s] = 0
  BY <1>1, <1>2 DEF NoteInv
<1>3. CASE msg[s] # 0
  <2>1. msg[s] \in DOMAIN rev /\ RevInv(msg[s])
    BY <1>3, Types DEF IInv
  <2>2. rev[msg[s]].state = "confirmed" => rev[msg[s]].repl \in Task
    BY <2>1, Types DEF RevInv
  <2> QED
    BY <1>1, <1>3, <2>2 DEF NoteInv
<1> QED
  BY <1>2, <1>3

\* A revision that does not move, if its Tasks keep what was decided.
LEMMA RevKept ==
    ASSUME ChangeAssumption, IInv, NEW v \in DOMAIN rev, rev'[v] = rev[v],
           \A t \in Task : /\ task[t].set => task'[t].set
                           /\ task[t].rows # "none" =>
                                 /\ task'[t].rows # "none"
                                 /\ task'[t].of = task[t].of
                           /\ task[t].set /\ Life(t) \in {"replaced", "stopping"}
                                 => Life(t)' \in {"replaced", "stopping"},
           rev[v].state = "confirmed" /\ rev[v].repl \in Task
              /\ task'[rev[v].repl].set =>
              \/ task[rev[v].repl].set
              \/ Life(rev[v].base)' \in {"replaced", "stopping"},
           rev[v].state # "requested" => Of(v)' = Of(v),
           \A s \in Message : note[s] \subseteq note'[s]
    PROVE  RevInv(v)'
<1>1. RevInv(v) /\ rev[v].base \in Task
      /\ (rev[v].repl # 0 => rev[v].repl \in Task)
  BY Types DEF IInv
<1>2. rev[v].state \in {"cancelled", "resumed"} => Pending(v)' = {}
  BY <1>1 DEF RevInv, Pending, Answers, Of
<1> QED
  BY <1>1, <1>2 DEF RevInv

-----------------------------------------------------------------------------
(* Changes of the requests                                                 *)

Lives == {"none", "active", "changing", "stopping", "revision_cancelled",
          "revision_resumed"} \cup Terminal

LEMMA RowsMove ==
    ASSUME NEW tasks \in [Task -> TaskRec], NEW c \in 0..MaxTasks,
           ChangeAssumption, NEW new, new = CancelledRows(tasks, c)
    PROVE  /\ new \in [Task -> TaskRec]
           /\ \A u \in Task :
                 /\ new[u].of = tasks[u].of /\ new[u].roots = tasks[u].roots
                 /\ new[u].set = tasks[u].set
                 /\ u # c => new[u] = tasks[u]
                 /\ u = c => new[u].rows = "cancelled" /\ new[u].life = "cancelled"
<1>1. CASE c = 0
  BY <1>1 DEF CancelledRows, Task
<1>2. CASE c # 0
  <2>1. c \in Task
    BY <1>2 DEF Task, ChangeAssumption
  <2> DEFINE r == [tasks[c] EXCEPT !.rows = "cancelled", !.life = "cancelled"]
  <2>2. /\ r \in TaskRec /\ r.of = tasks[c].of /\ r.roots = tasks[c].roots
        /\ r.set = tasks[c].set /\ r.rows = "cancelled" /\ r.life = "cancelled"
    BY <2>1 DEF TaskRec, Terminal
  <2>3. new = [tasks EXCEPT ![c] = r]
    BY <1>2, <2>1 DEF TaskRec, CancelledRows
  <2> HIDE DEF r
  <2> QED
    BY <2>1, <2>2, <2>3
<1> QED
  BY <1>1, <1>2

\* While a version is current no stop has been requested, and the next current
\* version takes its place.
LEMMA OneCurrent ==
    ASSUME IInv, NEW t \in Task, Life(t) \in Current, NEW c \in Task,
           \A u \in Task : /\ Life(u)' \in Current => u = c /\ task'[u].set
                           /\ Life(u)' = "stopping" => Life(u) = "stopping"
                           /\ task'[u].set => task'[u].rows \notin {"none", "staged"}
                           /\ task'[u].rows = "none" => Life(u)' = "none"
    PROVE  Requests' /\ Solo'
<1>1. ~ Halted
  BY DEF IInv, Solo
<1>2. ~ Halted'
  BY <1>1 DEF Halted
<1> QED
  BY <1>2 DEF Requests, Solo, Life

-----------------------------------------------------------------------------
(* TaskMessageStore                                                        *)

LEMMA OpenRevisionInv ==
    ASSUME ChangeAssumption, IInv, NEW s \in Message, NEW t \in Task,
           OpenRevision(s, t)
    PROVE  IInv'
<1> DEFINE new == [base |-> t, state |-> "requested", repl |-> 0,
                   preview |-> {}]
           w == Len(rev) + 1
<1>1. /\ task \in [Task -> TaskRec] /\ rev \in Seq(RevRec) /\ Len(rev) \in Nat
      /\ DOMAIN rev = 1..Len(rev) /\ msg \in [Message -> 0..Len(rev)]
      /\ \A v \in DOMAIN rev : v # 0
  BY Types
<1>2. /\ msg[s] = 0 /\ task[t].set /\ rev' = Append(rev, new)
      /\ Life(t) \in {"active", "revision_resumed"}
      /\ msg' = [msg EXCEPT ![s] = Len(rev')]
      /\ task' = [task EXCEPT ![t].life = "changing"]
      /\ UNCHANGED <<note, shown, run, spawner, faults>>
  BY DEF OpenRevision, Changed, workVars
<1>3. /\ new \in RevRec /\ new.base = t /\ new.repl = 0
      /\ new.state = "requested"
  BY DEF RevRec, ChangeAssumption
<1>4. /\ rev' \in Seq(RevRec) /\ Len(rev') = w /\ DOMAIN rev' = 1..w
      /\ rev'[w] = new /\ \A v \in DOMAIN rev : rev'[v] = rev[v]
  BY <1>1, <1>2, <1>3
<1>5. /\ task' \in [Task -> TaskRec]
      /\ \A u \in Task :
            /\ task'[u].of = task[u].of /\ task'[u].roots = task[u].roots
            /\ task'[u].set = task[u].set /\ task'[u].rows = task[u].rows
            /\ task'[u].life = IF u = t THEN "changing" ELSE task[u].life
  <2>1. "changing" \in Lives
    BY DEF Lives
  <2> QED
    BY <1>1, <1>2, <2>1 DEF TaskRec, Lives
<1>6. /\ msg' \in [Message -> 0..w] /\ msg'[s] = w
      /\ \A q \in Message \ {s} : msg'[q] = msg[q]
  BY <1>1, <1>2, <1>4
<1> HIDE DEF new
<1>7. TypeOK'
  <2>1. shown \in [rev : 0..w, repl : 0..MaxTasks, messages : SUBSET Message]
    BY <1>1, Types
  <2> QED
    BY <1>2, <1>4, <1>5, <1>6, <2>1 DEF IInv, TypeOK, TaskRec, RevRec
<1>8. Requests' /\ Solo'
  <2>1. \A u \in Task : Life(u) \in Current => u = t
    BY <1>2 DEF IInv, Solo, Current
  <2> QED
    BY <1>2, <1>5, <2>1, OneCurrent DEF IInv, Requests, Life, Current
<1>9. \A v \in DOMAIN rev' : RevInv(v)'
  <2>1. ASSUME NEW v \in DOMAIN rev', v \notin DOMAIN rev PROVE RevInv(v)'
    <3>1. rev'[v] = new
      BY <1>1, <1>4, <2>1
    <3> QED
      BY <1>2, <1>3, <1>5, <3>1 DEF RevInv
  <2>2. ASSUME NEW v \in DOMAIN rev PROVE RevInv(v)'
    <3>1. Of(v)' = Of(v)
      BY <1>1, <1>2, <1>6, <2>2 DEF Of
    <3> QED
      BY <1>2, <1>4, <1>5, <3>1, RevKept DEF Life
  <2> QED
    BY <2>1, <2>2
<1>10. \A q \in Message : NoteInv(q)'
  BY <1>1, <1>2, <1>4, <1>5, <1>6, NoteKept, Types
<1>11. \A r \in Run : RunInv(r)'
  <2>1. ASSUME NEW v \in DOMAIN rev', rev'[v].state = "confirmed"
        PROVE  /\ v \in DOMAIN rev /\ rev'[v] = rev[v]
               /\ \A q \in Message : msg'[q] = v => msg[q] = v
    <3>1. v # w
      BY <1>3, <1>4, <2>1
    <3> QED
      BY <1>1, <1>4, <1>6, <2>1, <3>1
  <2> QED
    BY <1>2, <1>5, <2>1, RunsKept
<1> QED
  BY <1>7, <1>8, <1>9, <1>10, <1>11 DEF IInv

LEMMA AddMessageInv ==
    ASSUME ChangeAssumption, IInv, NEW s \in Message, NEW w \in DOMAIN rev,
           AddMessage(s, w)
    PROVE  IInv'
<1> DEFINE c == rev[w].repl
           new == [rev[w] EXCEPT !.repl = 0, !.preview = {}]
<1>1. /\ task \in [Task -> TaskRec] /\ rev \in Seq(RevRec) /\ Len(rev) \in Nat
      /\ DOMAIN rev = 1..Len(rev) /\ msg \in [Message -> 0..Len(rev)]
      /\ \A v \in DOMAIN rev : v # 0
      /\ rev[w] \in RevRec /\ rev[w].base \in Task
  BY Types
<1>2. /\ msg[s] = 0 /\ rev[w].state = "requested" /\ BaseChanging(w)
      /\ c # 0 => task[c].rows = "staged"
      /\ msg' = [msg EXCEPT ![s] = w]
      /\ task' = CancelledRows(task, c)
      /\ UNCHANGED <<note, shown, run, spawner, faults>>
  BY DEF AddMessage, TakesMessages, workVars
<1>3. /\ new \in RevRec /\ new.base = rev[w].base /\ new.repl = 0
      /\ new.state = "requested"
  <2>1. 0 \in 0..MaxTasks /\ {} \in SUBSET Message
    BY DEF ChangeAssumption
  <2> QED
    BY <1>1, <1>2, <2>1 DEF RevRec
<1>4. rev' = [rev EXCEPT ![w] = new]
  BY <1>1 DEF AddMessage
<1> HIDE DEF new
<1>5. /\ rev' \in Seq(RevRec) /\ Len(rev') = Len(rev) /\ DOMAIN rev' = DOMAIN rev
      /\ rev'[w] = new /\ \A v \in DOMAIN rev \ {w} : rev'[v] = rev[v]
  BY <1>1, <1>3, <1>4
<1>6. /\ task' \in [Task -> TaskRec]
      /\ \A u \in Task :
            /\ task'[u].of = task[u].of /\ task'[u].roots = task[u].roots
            /\ task'[u].set = task[u].set
            /\ u # c => task'[u] = task[u]
            /\ u = c => task'[u].rows = "cancelled" /\ task'[u].life = "cancelled"
  <2>1. c \in 0..MaxTasks
    BY <1>1 DEF RevRec
  <2> QED
    BY <1>1, <1>2, <2>1, RowsMove
<1>7. /\ msg' \in [Message -> 0..Len(rev)] /\ msg'[s] = w
      /\ \A q \in Message \ {s} : msg'[q] = msg[q]
  BY <1>1, <1>2
<1>8. TypeOK'
  BY <1>2, <1>5, <1>6, <1>7 DEF IInv, TypeOK, TaskRec, RevRec
<1>9. Requests' /\ Solo'
  <2>1. Life(rev[w].base) = "changing"
    BY <1>2 DEF BaseChanging
  <2>2. \A u \in Task : Life(u) \in Current => u = rev[w].base
    BY <1>1, <2>1 DEF IInv, Solo, Current
  <2>3. \A u \in Task :
           /\ Life(u)' \in Current => u = rev[w].base /\ task'[u].set
           /\ Life(u)' = "stopping" => Life(u) = "stopping"
           /\ task'[u].set => task'[u].rows \notin {"none", "staged"}
           /\ task'[u].rows = "none" => Life(u)' = "none"
    BY <1>6, <2>2 DEF IInv, Requests, Life, Current
  <2> QED
    BY <1>1, <2>1, <2>3, OneCurrent DEF Current
<1>10. \A u \in Task : task[u].rows # "none" => task'[u].rows # "none"
  BY <1>6
<1>11. \A u \in Task : task[u].set => Life(u)' = Life(u)
  <2>1. c # 0 => c \in Task
    BY Types
  <2>2. \A u \in Task : task[u].set => u # c
    BY <1>2, <2>1 DEF IInv, Requests, Task
  <2> QED
    BY <1>6, <2>2 DEF Life
<1>12. \A v \in DOMAIN rev' : RevInv(v)'
  <2>1. RevInv(w)'
    <3>1. task[rev[w].base].set
      BY DEF IInv, RevInv
    <3> QED
      BY <1>1, <1>3, <1>5, <1>6, <3>1 DEF RevInv
  <2>2. ASSUME NEW v \in DOMAIN rev \ {w} PROVE RevInv(v)'
    <3>1. Of(v)' = Of(v)
      BY <1>1, <1>2, <1>7, <2>2 DEF Of
    <3> QED
      BY <1>2, <1>5, <1>6, <1>10, <1>11, <3>1, RevKept
  <2> QED
    BY <1>5, <2>1, <2>2
<1>13. ASSUME NEW q \in Message PROVE NoteInv(q)'
  <2>1. note'[q] = note[q] /\ (msg'[q] = msg[q] \/ msg[q] = 0)
    BY <1>2, <1>7
  <2>2. CASE msg[q] = w
    BY <1>2, <1>3, <1>5, <2>1, <2>2, NoteKept
  <2>3. CASE msg[q] # w
    <3>1. msg[q] # 0 => rev'[msg[q]] = rev[msg[q]]
      BY <1>5, <2>3, Types
    <3> QED
      BY <1>2, <1>6, <2>1, <3>1, NoteKept
  <2> QED
    BY <2>2, <2>3
<1>14. \A r \in Run : RunInv(r)'
  <2>1. ASSUME NEW v \in DOMAIN rev', rev'[v].state = "confirmed"
        PROVE  /\ v \in DOMAIN rev /\ rev'[v] = rev[v]
               /\ \A q \in Message : msg'[q] = v => msg[q] = v
    BY <1>3, <1>5, <1>7, <2>1
  <2> QED
    BY <1>2, <1>6, <2>1, RunsKept
<1> QED
  BY <1>8, <1>9, <1>12, <1>13, <1>14 DEF IInv

-----------------------------------------------------------------------------
(* TaskRevisionService: what takes no message and settles none             *)

\* A revision is bound to a replacement, confirmed as it was shown, or resumed
\* after it was cancelled.
RevMoves(v) ==
    /\ rev'[v].base = rev[v].base
    /\ rev'[v].repl # rev[v].repl =>
          /\ rev[v].state = "requested" /\ rev'[v].repl \in Task
          /\ task[rev'[v].repl].rows # "none"
          /\ task[rev'[v].repl].of = rev[v].base
    /\ rev[v].state # "requested" => rev'[v].preview = rev[v].preview
    /\ \/ rev'[v].state = rev[v].state
       \/ rev[v].state = "cancelled" /\ rev'[v].state = "resumed"
       \/ /\ rev[v].state = "requested" /\ rev'[v].state = "confirmed"
          /\ rev[v].repl # 0 /\ rev'[v].repl = rev[v].repl
          /\ rev'[v].preview = Of(v) /\ ~ task[rev[v].repl].set

TasksKept ==
    \A t \in Task : /\ task[t].set => task'[t].set
                    /\ task[t].rows # "none" =>
                          task'[t].rows # "none" /\ task'[t].of = task[t].of
                    /\ task[t].set /\ Life(t) \in {"replaced", "stopping"} =>
                          Life(t)' \in {"replaced", "stopping"}

LEMMA RevisionMoves ==
    ASSUME ChangeAssumption, IInv, UNCHANGED <<msg, note, run, spawner, faults>>,
           task' \in [Task -> TaskRec], rev' \in Seq(RevRec),
           Len(rev') = Len(rev),
           shown' \in [rev : 0..Len(rev), repl : 0..MaxTasks,
                       messages : SUBSET Message],
           Requests', Solo', TasksKept, \A v \in DOMAIN rev : RevMoves(v),
           \A v \in DOMAIN rev :
              rev'[v].state = "confirmed" /\ rev'[v].repl \in Task
                 /\ task'[rev'[v].repl].set =>
                    \/ task[rev'[v].repl].set
                    \/ task'[rev[v].base].life \in {"replaced", "stopping"}
    PROVE  IInv'
<1>1. DOMAIN rev' = DOMAIN rev /\ DOMAIN rev = 1..Len(rev)
  BY Types
<1>2. TypeOK'
  BY DEF IInv, TypeOK, TaskRec, RevRec
<1>3. ASSUME NEW v \in DOMAIN rev PROVE RevInv(v)'
  <2>1. /\ RevInv(v) /\ RevMoves(v) /\ rev[v].base \in Task
        /\ rev[v].repl # 0 => rev[v].repl \in Task
    BY Types DEF IInv
  <2>2. Of(v)' = Of(v) /\ Pending(v)' = Pending(v)
    BY DEF Of, Pending, Answers
  <2>3. task'[rev'[v].base].set
    BY <2>1 DEF RevInv, RevMoves, TasksKept
  <2>4. rev'[v].repl # 0 => /\ rev'[v].repl \in Task
                            /\ task'[rev'[v].repl].rows # "none"
                            /\ task'[rev'[v].repl].of = rev'[v].base
    BY <2>1 DEF RevInv, RevMoves, TasksKept
  <2>5. ASSUME rev'[v].state = "confirmed"
        PROVE  /\ rev'[v].repl # 0 /\ rev'[v].preview = Of(v)
               /\ task'[rev'[v].repl].set =>
                     task'[rev[v].base].life \in {"replaced", "stopping"}
    <3>1. rev'[v].repl # 0 /\ rev'[v].preview = Of(v)
      BY <2>1, <2>5 DEF RevInv, RevMoves
    <3>2. task[rev'[v].repl].set =>
             task'[rev[v].base].life \in {"replaced", "stopping"}
      <4>1. ASSUME task[rev'[v].repl].set, rev[v].state = "requested"
            PROVE  FALSE
        BY <2>1, <2>5, <4>1 DEF RevMoves
      <4> QED
        BY <2>1, <2>5, <4>1 DEF RevInv, RevMoves, TasksKept, Life
    <3> QED
      BY <2>1, <2>4, <2>5, <3>1, <3>2 DEF RevMoves
  <2>6. rev'[v].state \in {"cancelled", "resumed"} => Pending(v)' = {}
    BY <2>1, <2>2 DEF RevInv, RevMoves
  <2> QED
    BY <2>1, <2>2, <2>3, <2>4, <2>5, <2>6 DEF RevInv, RevMoves, Life
<1>4. ASSUME NEW s \in Message PROVE NoteInv(s)'
  <2>1. msg[s] # 0 => RevMoves(msg[s])
    BY Types
  <2> QED
    BY <2>1, NoteKept DEF RevMoves, TasksKept
<1>5. \A r \in Run : RunInv(r)'
  <2>1. ASSUME NEW v \in DOMAIN rev', rev'[v].state = "confirmed"
        PROVE  /\ v \in DOMAIN rev /\ rev'[v].repl = rev[v].repl
               /\ task[rev[v].repl].set => rev[v].state = "confirmed"
    BY <1>1, <2>1 DEF RevMoves
  <2> QED
    BY <2>1, RunsKept DEF TasksKept
<1> QED
  BY <1>1, <1>2, <1>3, <1>4, <1>5 DEF IInv

LEMMA OneRevision ==
    ASSUME ChangeAssumption, IInv, NEW w \in DOMAIN rev, NEW new \in RevRec,
           rev' = [rev EXCEPT ![w] = new]
    PROVE  /\ rev' \in Seq(RevRec) /\ Len(rev') = Len(rev)
           /\ DOMAIN rev' = DOMAIN rev /\ rev'[w] = new
           /\ \A v \in DOMAIN rev \ {w} : rev'[v] = rev[v]
BY Types

\* No message of a revision is settled as long as it may be confirmed.
LEMMA RequestedIsOpen ==
    ASSUME ChangeAssumption, IInv, NEW v \in DOMAIN rev,
           rev[v].state = "requested"
    PROVE  Pending(v) = Of(v)
<1> SUFFICES ASSUME NEW s \in Of(v) PROVE Answers(s) = {}
  BY DEF Pending
<1> QED
  BY DEF IInv, NoteInv, Of

LEMMA PreviewInv ==
    ASSUME ChangeAssumption, IInv, NEW v \in DOMAIN rev, NEW c \in Task,
           PreparePreview(v, c)
    PROVE  IInv'
<1> DEFINE new == [rev[v] EXCEPT !.repl = c, !.preview = Pending(v)]
<1>1. /\ rev[v].state = "requested" /\ Staged(v, c)
      /\ rev' = [rev EXCEPT ![v].repl = c, ![v].preview = Pending(v)]
      /\ shown' = [rev |-> v, repl |-> c, messages |-> Pending(v)]
      /\ UNCHANGED <<task, msg, note, run, spawner, faults>>
  BY DEF PreparePreview, workVars
<1>2. Pending(v) \in SUBSET Message /\ c \in 0..MaxTasks
  BY DEF Pending, Of, Task, ChangeAssumption
<1>3. /\ new \in RevRec /\ new.base = rev[v].base /\ new.repl = c
      /\ new.state = "requested"
  BY <1>1, <1>2, Types DEF RevRec
<1>4. rev' = [rev EXCEPT ![v] = new]
  BY <1>1, Types
<1> HIDE DEF new
<1>5. /\ rev' \in Seq(RevRec) /\ Len(rev') = Len(rev) /\ rev'[v] = new
      /\ \A w \in DOMAIN rev \ {v} : rev'[w] = rev[w]
  BY <1>3, <1>4, OneRevision
<1>6. shown' \in [rev : 0..Len(rev), repl : 0..MaxTasks,
                  messages : SUBSET Message]
  BY <1>1, <1>2, Types
<1>7. task[c].rows # "none" /\ task[c].of = rev[v].base
  BY <1>1 DEF Staged, Live, Children
<1>8. Requests' /\ Solo' /\ TasksKept
  BY <1>1 DEF IInv, Requests, Solo, Halted, TasksKept, Life
<1>9. \A w \in DOMAIN rev : RevMoves(w)
  BY <1>1, <1>3, <1>5, <1>7 DEF RevMoves
<1> QED
  BY <1>1, <1>5, <1>6, <1>8, <1>9, RevisionMoves, Types

LEMMA ConfirmInv ==
    ASSUME ChangeAssumption, IInv, NEW v \in DOMAIN rev, Confirm(v)
    PROVE  IInv'
<1> DEFINE new == [rev[v] EXCEPT !.state = "confirmed"]
<1>1. /\ rev[v].state = "requested" /\ rev[v].repl # 0
      /\ rev[v].preview = Pending(v) /\ ~ task[rev[v].repl].set
      /\ rev' = [rev EXCEPT ![v].state = "confirmed"]
      /\ UNCHANGED <<task, msg, note, shown, run, spawner, faults>>
  BY DEF Confirm, Staged, workVars
<1>2. /\ new \in RevRec /\ new.base = rev[v].base /\ new.repl = rev[v].repl
      /\ new.state = "confirmed" /\ new.preview = rev[v].preview
  BY Types DEF RevRec
<1>3. rev' = [rev EXCEPT ![v] = new]
  BY <1>1, Types
<1> HIDE DEF new
<1>4. /\ rev' \in Seq(RevRec) /\ Len(rev') = Len(rev) /\ rev'[v] = new
      /\ \A w \in DOMAIN rev \ {v} : rev'[w] = rev[w]
  BY <1>2, <1>3, OneRevision
<1>5. rev[v].preview = Of(v)
  BY <1>1, RequestedIsOpen
<1>6. Requests' /\ Solo' /\ TasksKept
  BY <1>1 DEF IInv, Requests, Solo, Halted, TasksKept, Life
<1>7. \A w \in DOMAIN rev : RevMoves(w)
  BY <1>1, <1>2, <1>4, <1>5 DEF RevMoves
<1> QED
  BY <1>1, <1>4, <1>6, <1>7, RevisionMoves, Types

\* Stage is a step of one request and one revision.
LEMMA StageInv == ASSUME ChangeAssumption, IInv, Stage PROVE IInv'
<1>1. PICK c \in Task, v \in DOMAIN rev :
         /\ task[c].rows = "none"
         /\ task' = [task EXCEPT ![c].of = rev[v].base, ![c].rows = "staged"]
         /\ UNCHANGED <<rev, msg, note, shown, run, spawner, faults>>
  BY DEF Stage, workVars
<1> DEFINE new == [task[c] EXCEPT !.of = rev[v].base, !.rows = "staged"]
<1>2. rev[v].base \in 0..MaxTasks
  BY Types DEF Task, ChangeAssumption
<1>3. /\ new \in TaskRec /\ new.life = task[c].life /\ new.set = task[c].set
      /\ new.rows = "staged"
  <2>1. task[c] \in TaskRec
    BY Types
  <2> QED
    BY <1>2, <2>1 DEF TaskRec
<1>4. task' = [task EXCEPT ![c] = new]
  BY <1>1, Types
<1> HIDE DEF new
<1>5. /\ task' \in [Task -> TaskRec] /\ task'[c] = new
      /\ \A t \in Task \ {c} : task'[t] = task[t]
  BY <1>3, <1>4, Types
<1>6. task[c].life = "none" /\ ~ task[c].set
  BY <1>1 DEF IInv, Requests
<1>7. Requests'
  BY <1>3, <1>5, <1>6 DEF IInv, Requests, Life, Current
<1>8. \A t \in Task : Life(t)' = Life(t)
  BY <1>3, <1>5 DEF Life
<1>9. Solo'
  BY <1>8 DEF IInv, Solo, Halted
<1>10. TasksKept
  BY <1>1, <1>5, <1>6, <1>8 DEF TasksKept
<1>11. \A t \in Task : task'[t].set => task[t].set
  BY <1>3, <1>5, <1>6
<1>12. \A w \in DOMAIN rev : RevMoves(w)
  BY <1>1 DEF RevMoves
<1> QED
  BY <1>1, <1>5, <1>7, <1>9, <1>10, <1>11, <1>12, RevisionMoves, Types

LEMMA BindRootInv ==
    ASSUME ChangeAssumption, IInv, NEW v \in DOMAIN rev, BindRoot(v)
    PROVE  IInv'
<1> DEFINE c == rev[v].repl
           new == [task[c] EXCEPT !.roots = task[c].roots + 1]
<1>1. /\ rev[v].state = "confirmed" /\ task[c].roots <= Projects
      /\ task' = [task EXCEPT ![c].roots = task[c].roots + 1]
      /\ UNCHANGED <<rev, msg, note, shown, run, spawner, faults>>
  BY DEF BindRoot, Changed, workVars
<1>2. c \in Task /\ task[c] \in TaskRec
  BY <1>1, Types DEF IInv, RevInv
<1>3. task[c].roots + 1 \in 0..(Projects + 1)
  <2>1. task[c].roots \in 0..(Projects + 1) /\ task[c].roots <= Projects
    BY <1>1, <1>2 DEF TaskRec
  <2> QED
    BY <2>1 DEF ChangeAssumption
<1>4. /\ new \in TaskRec /\ new.life = task[c].life /\ new.set = task[c].set
      /\ new.rows = task[c].rows /\ new.of = task[c].of
  BY <1>2, <1>3 DEF TaskRec
<1>5. task' = [task EXCEPT ![c] = new]
  BY <1>1, <1>2, Types
<1> HIDE DEF new
<1>6. /\ task' \in [Task -> TaskRec]
      /\ \A t \in Task : /\ task'[t].life = task[t].life
                         /\ task'[t].set = task[t].set
                         /\ task'[t].rows = task[t].rows
                         /\ task'[t].of = task[t].of
  BY <1>2, <1>4, <1>5, Types
<1>7. Requests' /\ Solo' /\ TasksKept
  BY <1>6 DEF IInv, Requests, Solo, Halted, TasksKept, Life
<1>8. \A w \in DOMAIN rev : RevMoves(w)
  BY <1>1 DEF RevMoves
<1> QED
  BY <1>1, <1>6, <1>7, <1>8, RevisionMoves, Types

LEMMA ActivateInv ==
    ASSUME ChangeAssumption, IInv, NEW v \in DOMAIN rev, Activate(v)
    PROVE  IInv'
<1> DEFINE c == rev[v].repl
           b == rev[v].base
           new == [task[c] EXCEPT !.set = TRUE, !.rows = "ready",
                                  !.life = "active"]
           tasks == [task EXCEPT ![c] = new]
<1>1. /\ rev[v].state = "confirmed" /\ Life(b) = "changing"
      /\ task[c].rows = "staged" /\ ~ task[c].set
      /\ task' = [[task EXCEPT ![c].set = TRUE, ![c].rows = "ready",
                               ![c].life = "active"]
                    EXCEPT ![b].life = "replaced"]
      /\ UNCHANGED <<rev, msg, note, shown, run, spawner, faults>>
  BY DEF Activate, Replaced, BaseChanging, Staged, workVars
<1>2. /\ c \in Task /\ b \in Task /\ task[b].set /\ b # c
      /\ task[c].of = b /\ task[c].rows # "none"
  BY <1>1, Types DEF IInv, RevInv
<1>3. /\ new \in TaskRec /\ new.set /\ new.rows = "ready"
      /\ new.life = "active" /\ new.of = task[c].of
  <2>1. task[c] \in TaskRec
    BY <1>2, Types
  <2> QED
    BY <2>1 DEF TaskRec
<1>4. task' = [tasks EXCEPT ![b].life = "replaced"]
  BY <1>1, <1>2, Types
<1> HIDE DEF new
<1>5. /\ tasks \in [Task -> TaskRec] /\ tasks[c] = new
      /\ \A t \in Task \ {c} : tasks[t] = task[t]
  BY <1>2, <1>3, Types
<1>6. "replaced" \in Lives
  BY DEF Lives, Terminal
<1> HIDE DEF tasks
<1>7. /\ task' \in [Task -> TaskRec]
      /\ \A u \in Task :
            /\ task'[u].of = tasks[u].of /\ task'[u].roots = tasks[u].roots
            /\ task'[u].set = tasks[u].set /\ task'[u].rows = tasks[u].rows
            /\ task'[u].life = IF u = b THEN "replaced" ELSE tasks[u].life
  BY <1>2, <1>4, <1>5, <1>6 DEF TaskRec, Lives
<1>8. \A t \in Task : Life(t) \in Current => t = b
  BY <1>1, <1>2 DEF IInv, Solo, Current
<1>9. \A t \in Task :
         /\ Life(t)' \in Current => t = c /\ task'[t].set
         /\ Life(t)' = "stopping" => Life(t) = "stopping"
         /\ task'[t].set => task'[t].rows \notin {"none", "staged"}
         /\ task'[t].rows = "none" => Life(t)' = "none"
  <2> TAKE t \in Task
  <2>1. CASE t = c
    BY <1>2, <1>3, <1>5, <1>7, <2>1 DEF Life
  <2>2. CASE t # c
    BY <1>2, <1>5, <1>7, <1>8, <2>2
       DEF IInv, Requests, Life, Current, Terminal
  <2> QED
    BY <2>1, <2>2
<1>10. Requests' /\ Solo'
  <2>1. Life(b) \in Current
    BY <1>1 DEF Current
  <2> QED
    BY <1>2, <1>9, <2>1, OneCurrent
<1>11. TasksKept
  <2>1. task'[c].set /\ task'[c].rows = "ready" /\ task'[c].of = task[c].of
    BY <1>2, <1>3, <1>5, <1>7
  <2>2. \A t \in Task \ {c} :
           /\ task'[t].set = task[t].set /\ task'[t].rows = task[t].rows
           /\ task'[t].of = task[t].of
           /\ t # b => Life(t)' = Life(t)
    BY <1>5, <1>7 DEF Life
  <2>3. ~ task[c].set /\ Life(b) = "changing"
    BY <1>1
  <2> QED
    BY <2>1, <2>2, <2>3 DEF TasksKept
<1>12. \A w \in DOMAIN rev : RevMoves(w)
  BY <1>1 DEF RevMoves
<1>13. ASSUME NEW w \in DOMAIN rev, rev[w].repl \in Task,
              task'[rev[w].repl].set
       PROVE  \/ task[rev[w].repl].set
              \/ task'[rev[w].base].life \in {"replaced", "stopping"}
  <2>1. CASE rev[w].repl = c
    <3>1. rev[w].base = b
      BY <1>2, <2>1, Types DEF IInv, RevInv, Task
    <3> QED
      BY <1>2, <1>7, <3>1
  <2>2. CASE rev[w].repl # c
    BY <1>5, <1>7, <1>13, <2>2
  <2> QED
    BY <2>1, <2>2
<1> QED
  BY <1>1, <1>7, <1>10, <1>11, <1>12, <1>13, RevisionMoves, Types

LEMMA ResumeInv ==
    ASSUME ChangeAssumption, IInv, NEW v \in DOMAIN rev, Resume(v)
    PROVE  IInv'
<1> DEFINE b == rev[v].base
           new == [rev[v] EXCEPT !.state = "resumed"]
<1>1. /\ rev[v].state = "cancelled" /\ Life(b) = "revision_cancelled"
      /\ rev' = [rev EXCEPT ![v].state = "resumed"]
      /\ task' = [task EXCEPT ![b].life = "revision_resumed"]
      /\ UNCHANGED <<msg, note, shown, run, spawner, faults>>
  BY DEF Resume, Changed, workVars
<1>2. b \in Task /\ task[b].set
  BY Types DEF IInv, RevInv
<1>3. /\ new \in RevRec /\ new.base = b /\ new.repl = rev[v].repl
      /\ new.state = "resumed" /\ new.preview = rev[v].preview
  BY Types DEF RevRec
<1>4. rev' = [rev EXCEPT ![v] = new]
  BY <1>1, Types
<1> HIDE DEF new
<1>5. /\ rev' \in Seq(RevRec) /\ Len(rev') = Len(rev) /\ rev'[v] = new
      /\ \A w \in DOMAIN rev \ {v} : rev'[w] = rev[w]
  BY <1>3, <1>4, OneRevision
<1>6. "revision_resumed" \in Lives
  BY DEF Lives
<1>7. /\ task' \in [Task -> TaskRec]
      /\ \A u \in Task :
            /\ task'[u].of = task[u].of /\ task'[u].roots = task[u].roots
            /\ task'[u].set = task[u].set /\ task'[u].rows = task[u].rows
            /\ task'[u].life = IF u = b THEN "revision_resumed" ELSE task[u].life
  <2>1. task \in [Task -> TaskRec]
    BY Types
  <2> QED
    BY <1>1, <1>2, <1>6, <2>1 DEF TaskRec, Lives
<1>8. \A t \in Task : Life(t) \in Current => t = b
  BY <1>1, <1>2 DEF IInv, Solo, Current
<1>9. Requests' /\ Solo'
  <2>1. \A t \in Task :
           /\ Life(t)' \in Current => t = b /\ task'[t].set
           /\ Life(t)' = "stopping" => Life(t) = "stopping"
           /\ task'[t].set => task'[t].rows \notin {"none", "staged"}
           /\ task'[t].rows = "none" => Life(t)' = "none"
    BY <1>2, <1>7, <1>8 DEF IInv, Requests, Life
  <2> QED
    BY <1>1, <1>2, <2>1, OneCurrent DEF Current
<1>10. TasksKept
  BY <1>1, <1>7 DEF TasksKept, Life
<1>11. \A w \in DOMAIN rev : RevMoves(w)
  BY <1>1, <1>3, <1>5 DEF RevMoves
<1> QED
  BY <1>1, <1>5, <1>7, <1>9, <1>10, <1>11, RevisionMoves, Types

LEMMA MergeInv == ASSUME ChangeAssumption, IInv, Merge PROVE IInv'
<1>1. PICK b \in Task :
         /\ task[b].set /\ Life(b) \in {"active", "revision_resumed"}
         /\ task' = [task EXCEPT ![b].life = "merged"]
         /\ UNCHANGED <<rev, msg, note, shown, run, spawner, faults>>
  BY DEF Merge, Active, Changed, workVars
<1>2. "merged" \in Lives
  BY DEF Lives, Terminal
<1>3. /\ task' \in [Task -> TaskRec]
      /\ \A u \in Task :
            /\ task'[u].of = task[u].of /\ task'[u].roots = task[u].roots
            /\ task'[u].set = task[u].set /\ task'[u].rows = task[u].rows
            /\ task'[u].life = IF u = b THEN "merged" ELSE task[u].life
  <2>1. task \in [Task -> TaskRec]
    BY Types
  <2> QED
    BY <1>1, <1>2, <2>1 DEF TaskRec, Lives
<1>4. \A t \in Task : Life(t) \in Current => t = b
  BY <1>1 DEF IInv, Solo, Current
<1>5. Requests' /\ Solo'
  <2>1. \A t \in Task :
           /\ Life(t)' \in Current => t = b /\ task'[t].set
           /\ Life(t)' = "stopping" => Life(t) = "stopping"
           /\ task'[t].set => task'[t].rows \notin {"none", "staged"}
           /\ task'[t].rows = "none" => Life(t)' = "none"
    BY <1>1, <1>3, <1>4 DEF IInv, Requests, Life
  <2> QED
    BY <1>1, <2>1, OneCurrent DEF Current
<1>6. TasksKept
  BY <1>1, <1>3 DEF TasksKept, Life
<1>7. \A w \in DOMAIN rev : RevMoves(w)
  BY <1>1 DEF RevMoves
<1> QED
  BY <1>1, <1>3, <1>5, <1>6, <1>7, RevisionMoves, Types

-----------------------------------------------------------------------------
(* What gives a revision up and settles its messages                       *)

LEMMA CancelInv ==
    ASSUME ChangeAssumption, IInv, NEW v \in DOMAIN rev, Cancel(v)
    PROVE  IInv'
<1> DEFINE c == rev[v].repl
           b == rev[v].base
           new == [rev[v] EXCEPT !.state = "cancelled"]
           tasks == CancelledRows(task, c)
           answer == [run |-> 0, kind |-> "settled"]
<1>1. /\ rev[v].state \in {"requested", "confirmed"} /\ Life(b) = "changing"
      /\ c # 0 => ~ task[c].set
      /\ note' = Rejected(v)
      /\ rev' = [rev EXCEPT ![v].state = "cancelled"]
      /\ task' = [tasks EXCEPT ![b].life = "revision_cancelled"]
      /\ UNCHANGED <<msg, shown, run, spawner, faults>>
  BY DEF Cancel, BaseChanging, workVars
<1>2. /\ b \in Task /\ task[b].set /\ c \in 0..MaxTasks /\ b # c
      /\ c # 0 => c \in Task /\ task[c].of = b /\ task[c].rows # "none"
  BY <1>1, Types DEF IInv, RevInv, RevRec, Task
<1>3. /\ new \in RevRec /\ new.base = b /\ new.repl = c
      /\ new.state = "cancelled"
  BY Types DEF RevRec
<1>4. rev' = [rev EXCEPT ![v] = new]
  BY <1>1, Types
<1> HIDE DEF new
<1>5. /\ rev' \in Seq(RevRec) /\ Len(rev') = Len(rev) /\ rev'[v] = new
      /\ DOMAIN rev' = DOMAIN rev
      /\ \A w \in DOMAIN rev \ {v} : rev'[w] = rev[w]
  BY <1>3, <1>4, OneRevision
<1>6. /\ tasks \in [Task -> TaskRec]
      /\ \A t \in Task :
            /\ tasks[t].of = task[t].of /\ tasks[t].roots = task[t].roots
            /\ tasks[t].set = task[t].set
            /\ t # c => tasks[t] = task[t]
            /\ t = c => tasks[t].rows = "cancelled" /\ tasks[t].life = "cancelled"
  <2>1. task \in [Task -> TaskRec]
    BY Types
  <2> QED
    BY <1>2, <2>1, RowsMove
<1>7. "revision_cancelled" \in Lives
  BY DEF Lives
<1> HIDE DEF tasks
<1>8. /\ task' \in [Task -> TaskRec]
      /\ \A u \in Task :
            /\ task'[u].of = tasks[u].of /\ task'[u].roots = tasks[u].roots
            /\ task'[u].set = tasks[u].set /\ task'[u].rows = tasks[u].rows
            /\ task'[u].life =
                 IF u = b THEN "revision_cancelled" ELSE tasks[u].life
  BY <1>1, <1>2, <1>6, <1>7 DEF TaskRec, Lives
<1>9. /\ answer \in NoteRec
      /\ answer.run = 0 /\ answer.kind = "settled"
  BY DEF NoteRec, ChangeAssumption
<1> HIDE DEF answer
<1>10. note' = [s \in Message |-> IF s \in Pending(v) THEN note[s] \cup {answer}
                                                     ELSE note[s]]
  BY <1>1 DEF Rejected, answer
<1>11. /\ note' \in [Message -> SUBSET NoteRec]
       /\ \A s \in Message : note[s] \subseteq note'[s]
  BY <1>9, <1>10, Types
<1>12. TypeOK'
  BY <1>1, <1>5, <1>8, <1>11 DEF IInv, TypeOK, TaskRec, RevRec, NoteRec
<1>13. \A t \in Task : task[t].set => t # c
  BY <1>1, <1>2 DEF Task
<1>14. Requests' /\ Solo'
  <2>1. \A t \in Task : Life(t) \in Current => t = b
    BY <1>1, <1>2 DEF IInv, Solo, Current
  <2>2. \A t \in Task :
           /\ Life(t)' \in Current => t = b /\ task'[t].set
           /\ Life(t)' = "stopping" => Life(t) = "stopping"
           /\ task'[t].set => task'[t].rows \notin {"none", "staged"}
           /\ task'[t].rows = "none" => Life(t)' = "none"
    BY <1>2, <1>6, <1>8, <2>1 DEF IInv, Requests, Life, Current
  <2> QED
    BY <1>1, <1>2, <2>2, OneCurrent DEF Current
<1>15. \A t \in Task :
          /\ task[t].set => task'[t].set
          /\ task[t].rows # "none" =>
                task'[t].rows # "none" /\ task'[t].of = task[t].of
          /\ task[t].set /\ Life(t) \in {"replaced", "stopping"} =>
                Life(t)' \in {"replaced", "stopping"}
  BY <1>1, <1>6, <1>8, <1>13 DEF Life
<1>16. ASSUME NEW s \in Message, msg[s] = v PROVE Answers(s)' # {}
  <2>1. CASE s \in Pending(v)
    BY <1>9, <1>10, <2>1 DEF Answers
  <2>2. CASE s \notin Pending(v)
    BY <1>11, <1>16, <2>2 DEF Pending, Of, Answers
  <2> QED
    BY <2>1, <2>2
<1>17. \A w \in DOMAIN rev' : RevInv(w)'
  <2>1. RevInv(v)'
    <3>1. Pending(v)' = {}
      BY <1>1, <1>16 DEF Pending, Of
    <3>2. task'[b].set /\ (c # 0 => task'[c].rows # "none" /\ task'[c].of = b)
      BY <1>2, <1>15
    <3> QED
      BY <1>3, <1>5, <3>1, <3>2 DEF RevInv
  <2>2. ASSUME NEW w \in DOMAIN rev \ {v} PROVE RevInv(w)'
    <3>1. Of(w)' = Of(w)
      BY <1>1 DEF Of
    <3>2. \A t \in Task : task'[t].set => task[t].set
      BY <1>6, <1>8
    <3> QED
      BY <1>5, <1>11, <1>15, <3>1, <3>2, RevKept
  <2> QED
    BY <1>5, <2>1, <2>2
<1>18. ASSUME NEW s \in Message PROVE NoteInv(s)'
  <2>1. CASE s \in Pending(v)
    <3>1. msg[s] = v /\ Answers(s) = {} /\ note'[s] = note[s] \cup {answer}
      BY <1>10, <2>1 DEF Pending, Of
    <3>2. Answers(s)' = {answer}
      BY <1>9, <3>1 DEF Answers
    <3> QED
      BY <1>1, <1>3, <1>5, <1>9, <3>1, <3>2, Types DEF NoteInv
  <2>2. CASE s \notin Pending(v)
    <3>1. note'[s] = note[s] /\ msg'[s] = msg[s]
      BY <1>1, <1>10, <2>2
    <3>2. CASE msg[s] = v
      <4>1. ~ (rev[v].repl \in Task /\ task[rev[v].repl].set)
        BY <1>1, <1>2, <1>13
      <4> QED
        BY <1>1, <1>3, <1>5, <3>1, <3>2, <4>1, NoteKept
    <3>3. CASE msg[s] # v
      <4>1. msg[s] # 0 => rev'[msg[s]] = rev[msg[s]]
        BY <1>5, <3>3, Types
      <4> QED
        BY <1>1, <1>15, <3>1, <4>1, NoteKept
    <3> QED
      BY <3>2, <3>3
  <2> QED
    BY <2>1, <2>2
<1>19. \A r \in Run : RunInv(r)'
  <2>1. ASSUME NEW w \in DOMAIN rev', rev'[w].state = "confirmed"
        PROVE  /\ w \in DOMAIN rev /\ rev'[w] = rev[w]
    BY <1>3, <1>5, <2>1
  <2>2. \A s \in Message : \A n \in note'[s] : n \in note[s] \/ n.run = 0
    BY <1>9, <1>10
  <2> QED
    BY <1>1, <1>11, <1>15, <2>1, <2>2, RunsKept
<1> QED
  BY <1>12, <1>14, <1>17, <1>18, <1>19 DEF IInv

LEMMA StopInv == ASSUME ChangeAssumption, IInv, Stop PROVE IInv'
<1> DEFINE staged == {rev[v].repl : v \in Unfinished}
           answer == [run |-> 0, kind |-> "settled"]
           ended(v) == [rev[v] EXCEPT !.state = "cancelled"]
<1>1. /\ ~ Halted
      /\ task' = [t \in Task |->
                    IF t \notin Members THEN task[t]
                    ELSE IF t \in staged THEN CancelledRows(task, t)[t]
                    ELSE [task[t] EXCEPT !.life = "stopping"]]
      /\ note' = [s \in Message |->
                    IF \E v \in Unfinished : s \in Pending(v)
                      THEN note[s] \cup {answer} ELSE note[s]]
      /\ rev' = [v \in DOMAIN rev |->
                   [rev[v] EXCEPT !.state = IF v \in Unfinished
                                              THEN "cancelled" ELSE @]]
      /\ UNCHANGED <<msg, shown, run, spawner, faults>>
  BY DEF Stop, workVars
<1>2. /\ answer \in NoteRec
      /\ answer.run = 0 /\ answer.kind = "settled"
  BY DEF NoteRec, ChangeAssumption
<1> HIDE DEF answer
<1>3. \A v \in DOMAIN rev :
         /\ ended(v) \in RevRec /\ ended(v).base = rev[v].base
         /\ ended(v).repl = rev[v].repl /\ ended(v).state = "cancelled"
  BY Types DEF RevRec
<1>4. \A v \in DOMAIN rev : rev'[v] = IF v \in Unfinished THEN ended(v)
                                                          ELSE rev[v]
  BY <1>1, Types DEF RevRec
<1> HIDE DEF ended
<1>5. /\ rev' \in Seq(RevRec) /\ Len(rev') = Len(rev)
      /\ DOMAIN rev' = DOMAIN rev
  <2>1. DOMAIN rev' = DOMAIN rev
    BY <1>1
  <2>2. \A v \in DOMAIN rev : rev'[v] \in RevRec
    BY <1>3, <1>4, Types
  <2>3. DOMAIN rev = 1..Len(rev) /\ Len(rev) \in Nat
    BY Types
  <2>4. rev' = [v \in 1..Len(rev) |-> rev'[v]]
    BY <1>1, <2>3
  <2> QED
    BY <2>1, <2>2, <2>3, <2>4
<1>6. \A t \in Task : /\ t \in Members <=> task[t].rows # "none"
                      /\ t \notin Members => task'[t] = task[t]
  BY <1>1 DEF Members
<1>7. ASSUME NEW t \in Members, t \in staged
      PROVE  /\ task'[t] \in TaskRec /\ ~ task[t].set
             /\ task'[t].of = task[t].of /\ ~ task'[t].set
             /\ task'[t].rows = "cancelled" /\ task'[t].life = "cancelled"
  <2>1. t \in Task /\ t # 0 /\ t \in 0..MaxTasks
    BY DEF Members, Task, ChangeAssumption
  <2>2. task'[t] = CancelledRows(task, t)[t]
    BY <1>1, <1>7, <2>1
  <2>3. ~ task[t].set
    BY <1>7, <2>1 DEF Unfinished
  <2> DEFINE tasks == CancelledRows(task, t)
  <2>4. task \in [Task -> TaskRec] /\ tasks = CancelledRows(task, t)
    BY Types
  <2> HIDE DEF tasks
  <2>5. /\ tasks \in [Task -> TaskRec]
        /\ \A u \in Task :
              /\ tasks[u].of = task[u].of /\ tasks[u].roots = task[u].roots
              /\ tasks[u].set = task[u].set
              /\ u # t => tasks[u] = task[u]
              /\ u = t => tasks[u].rows = "cancelled" /\ tasks[u].life = "cancelled"
    BY <2>1, <2>4, RowsMove
  <2> QED
    BY <2>1, <2>2, <2>3, <2>4, <2>5 DEF TaskRec
<1>8. ASSUME NEW t \in Members, t \notin staged
      PROVE  /\ task'[t] \in TaskRec /\ task'[t].of = task[t].of
             /\ task'[t].rows = task[t].rows /\ task'[t].set = task[t].set
             /\ task'[t].life = "stopping"
  <2>1. t \in Task /\ task[t] \in TaskRec
    BY Types DEF Members
  <2>2. task'[t] = [task[t] EXCEPT !.life = "stopping"]
    BY <1>1, <1>8, <2>1
  <2> QED
    BY <2>1, <2>2 DEF TaskRec
<1>9. task' \in [Task -> TaskRec]
  <2>1. \A t \in Task : task'[t] \in TaskRec
    BY <1>6, <1>7, <1>8, Types
  <2> QED
    BY <1>1, <2>1
<1>10. \A t \in Task : task'[t].set <=> task[t].set
  BY <1>6, <1>7, <1>8, <1>9, Types DEF TaskRec
<1>11. \A t \in Task :
          task[t].rows # "none" =>
             task'[t].rows # "none" /\ task'[t].of = task[t].of
  BY <1>6, <1>7, <1>8
<1>12. \A t \in Task : task[t].set => t \in Members /\ t \notin staged
  BY <1>6, <1>7 DEF IInv, Requests
<1>13. \A t \in Task : task[t].set => task'[t].life = "stopping"
  BY <1>8, <1>12
<1>14. /\ note' \in [Message -> SUBSET NoteRec]
       /\ \A s \in Message : note[s] \subseteq note'[s]
  BY <1>1, <1>2, Types
<1>15. TypeOK'
  BY <1>1, <1>5, <1>9, <1>14 DEF IInv, TypeOK, TaskRec, RevRec, NoteRec
<1>16. Requests' /\ Solo'
  <2>1. \A t \in Task : Life(t)' \notin Current
    BY <1>6, <1>7, <1>8 DEF IInv, Requests, Life, Current
  <2>2. Requests'
    BY <1>6, <1>7, <1>8, <2>1 DEF IInv, Requests
  <2> QED
    BY <2>1, <2>2 DEF Solo
<1>17. \A v \in Unfinished : v \in DOMAIN rev /\ rev[v].state \in {"requested", "confirmed"}
  BY DEF Unfinished, Open
<1>18. ASSUME NEW v \in Unfinished, NEW s \in Message, msg[s] = v
       PROVE  Answers(s)' # {}
  <2>1. CASE s \in Pending(v)
    BY <1>1, <1>2, <2>1 DEF Answers
  <2>2. CASE s \notin Pending(v)
    BY <1>14, <1>18, <2>2 DEF Pending, Of, Answers
  <2> QED
    BY <2>1, <2>2
<1>19. ASSUME NEW v \in DOMAIN rev' PROVE RevInv(v)'
  <2>1. CASE v \in Unfinished
    <3>1. Pending(v)' = {}
      BY <1>1, <1>18, <2>1 DEF Pending, Of
    <3>2. /\ RevInv(v) /\ rev[v].base \in Task
          /\ rev[v].repl # 0 => rev[v].repl \in Task
      BY <1>5, Types DEF IInv
    <3>3. /\ rev'[v].state = "cancelled" /\ rev'[v].base = rev[v].base
          /\ rev'[v].repl = rev[v].repl
      BY <1>3, <1>4, <1>5, <2>1
    <3> QED
      BY <1>10, <1>11, <3>1, <3>2, <3>3 DEF RevInv
  <2>2. CASE v \notin Unfinished
    <3>1. v \in DOMAIN rev /\ rev'[v] = rev[v]
      BY <1>4, <1>5, <2>2
    <3>2. Of(v)' = Of(v)
      BY <1>1 DEF Of
    <3>3. \A t \in Task :
             /\ task[t].set => task'[t].set
             /\ task[t].rows # "none" =>
                   task'[t].rows # "none" /\ task'[t].of = task[t].of
             /\ task[t].set /\ Life(t) \in {"replaced", "stopping"} =>
                   Life(t)' \in {"replaced", "stopping"}
      BY <1>10, <1>11, <1>13 DEF Life
    <3> QED
      BY <1>10, <1>14, <3>1, <3>2, <3>3, RevKept
  <2> QED
    BY <2>1, <2>2
<1>20. ASSUME NEW s \in Message PROVE NoteInv(s)'
  <2>1. CASE \E v \in Unfinished : s \in Pending(v)
    <3>1. PICK v \in Unfinished : s \in Pending(v)
      BY <2>1
    <3>2. msg[s] = v /\ Answers(s) = {} /\ note'[s] = note[s] \cup {answer}
      BY <1>1, <3>1 DEF Pending, Of
    <3>3. Answers(s)' = {answer}
      BY <1>2, <3>2 DEF Answers
    <3>4. v # 0 /\ rev'[v].state = "cancelled"
      BY <1>3, <1>4, <1>17, <3>1, Types
    <3> QED
      BY <1>1, <1>2, <3>2, <3>3, <3>4 DEF NoteInv
  <2>2. CASE ~ \E v \in Unfinished : s \in Pending(v)
    <3>1. note'[s] = note[s] /\ msg'[s] = msg[s]
      BY <1>1, <2>2
    <3>2. CASE msg[s] \in Unfinished
      <4>1. ~ (/\ rev[msg[s]].state = "confirmed" /\ rev[msg[s]].repl \in Task
               /\ task[rev[msg[s]].repl].set)
        BY <3>2 DEF Unfinished, Task
      <4>2. rev[msg[s]].state \notin {"cancelled", "resumed"}
        BY <1>17, <3>2
      <4> QED
        BY <1>1, <3>1, <4>1, <4>2, NoteKept
    <3>3. CASE msg[s] \notin Unfinished
      <4>1. msg[s] # 0 => rev'[msg[s]] = rev[msg[s]]
        BY <1>4, <3>3, Types
      <4> QED
        BY <1>1, <1>10, <3>1, <4>1, NoteKept
    <3> QED
      BY <3>2, <3>3
  <2> QED
    BY <2>1, <2>2
<1>21. \A r \in Run : RunInv(r)'
  <2>1. ASSUME NEW w \in DOMAIN rev', rev'[w].state = "confirmed"
        PROVE  w \in DOMAIN rev /\ rev'[w] = rev[w]
    BY <1>3, <1>4, <1>5, <2>1
  <2>2. \A s \in Message : \A n \in note'[s] : n \in note[s] \/ n.run = 0
    BY <1>1, <1>2
  <2> QED
    BY <1>1, <1>10, <1>14, <2>1, <2>2, RunsKept
<1> QED
  BY <1>15, <1>16, <1>19, <1>20, <1>21 DEF IInv

-----------------------------------------------------------------------------
(* The runs                                                                *)

\* One run moves and notes nothing.
LEMMA OneRun ==
    ASSUME ChangeAssumption, IInv, UNCHANGED changeVars, NEW r \in Run,
           NEW new \in RunRec, run' = [run EXCEPT ![r] = new],
           spawner' \in BOOLEAN, faults' \in 0..MaxFaults,
           \/ new.task = run[r].task
           \/ run[r].step \in {"none", "launch", "include"},
           new.step \in {"none", "launch", "include"} =>
              run[r].step \in {"none", "launch", "include"},
           new.answers \subseteq new.packet,
           new.step = "completed" =>
              /\ task[new.task].set /\ Packet(new.task) = {}
              /\ \A s \in new.packet :
                    [run |-> r, kind |-> "settled"] \in note[s]
    PROVE  IInv'
<1>1. UNCHANGED <<task, rev, msg, note, shown>>
  BY DEF changeVars
<1>2. /\ run' \in [Run -> RunRec] /\ run'[r] = new
      /\ \A q \in Run \ {r} : run'[q] = run[q]
  BY Types
<1>3. \A t : Packet(t)' = Packet(t)
  BY <1>1 DEF Packet, Revisions, Pending, Of, Answers
<1>4. ASSUME NEW q \in Run PROVE RunInv(q)'
  <2>1. RunInv(q)
    BY DEF IInv
  <2>2. CASE q = r
    BY <1>1, <1>2, <1>3, <2>1, <2>2 DEF RunInv, At
  <2>3. CASE q # r
    BY <1>1, <1>2, <1>3, <2>1, <2>3 DEF RunInv, At
  <2> QED
    BY <2>2, <2>3
<1>5. \A q \in Run : \/ run'[q].task = run[q].task
                     \/ run[q].step \in {"none", "launch", "include"}
  BY <1>2
<1> QED
  BY <1>2, <1>4, <1>5, RunsMove

\* One run notes something about messages of its packet.
LEMMA RunNotes ==
    ASSUME ChangeAssumption, IInv,
           UNCHANGED <<task, rev, msg, shown, spawner, faults>>,
           NEW r \in Run, NEW Q \in SUBSET Message,
           NEW kind \in {"included", "settled"},
           note' = Noted(r, Q, kind), run' \in [Run -> RunRec],
           \A q \in Run : /\ run'[q].task = run[q].task
                          /\ run'[q].packet = run[q].packet
                          /\ run'[q].answers = run[q].answers
                          /\ q # r => run'[q].step = run[q].step,
           run'[r].step \notin {"none", "launch", "include", "completed"},
           \A s \in Q : msg[s] # 0,
           kind = "settled" =>
              \A s \in Q : /\ Answers(s) \subseteq {[run |-> r, kind |-> kind]}
                           /\ [run |-> r, kind |-> "included"] \in note[s]
                           /\ rev[msg[s]].state = "confirmed"
                           /\ rev[msg[s]].repl = run[r].task
                           /\ task[run[r].task].set
    PROVE  IInv'
<1> DEFINE new == [run |-> r, kind |-> kind]
<1>1. new \in NoteRec /\ new.run = r /\ new.kind = kind /\ r # 0
  BY RunNumbers DEF NoteRec
<1>2. note' = [s \in Message |-> IF s \in Q THEN note[s] \cup {new} ELSE note[s]]
  BY DEF Noted
<1>3. /\ note' \in [Message -> SUBSET NoteRec]
      /\ \A s \in Message : note[s] \subseteq note'[s]
  BY <1>1, <1>2, Types
<1>4. TypeOK'
  BY <1>3 DEF IInv, TypeOK, RunRec, NoteRec
<1>5. Requests' /\ Solo'
  BY DEF IInv, Requests, Solo, Halted, Life
<1>6. \A v \in DOMAIN rev' : RevInv(v)'
  <2>1. \A v \in DOMAIN rev : Of(v)' = Of(v)
    BY DEF Of
  <2>2. \A t \in Task : Life(t)' = Life(t)
    BY DEF Life
  <2> QED
    BY <1>3, <2>1, <2>2, RevKept
<1>7. ASSUME NEW s \in Message PROVE NoteInv(s)'
  <2>1. NoteInv(s)
    BY DEF IInv
  <2>2. \A n \in Answers(s) : n.run # 0 => n.run \in Run
    BY Types DEF Answers, NoteRec, Run
  <2>3. CASE s \notin Q
    <3>1. note'[s] = note[s] /\ Answers(s)' = Answers(s)
      BY <1>2, <2>3 DEF Answers
    <3> QED
      BY <2>1, <2>2, <3>1 DEF NoteInv
  <2>4. CASE s \in Q /\ kind = "included"
    <3>1. note'[s] = note[s] \cup {new}
      BY <1>2, <2>4
    <3>2. Answers(s)' = Answers(s)
      BY <1>1, <2>4, <3>1 DEF Answers
    <3> QED
      BY <2>1, <2>2, <2>4, <3>1, <3>2 DEF NoteInv
  <2>5. CASE s \in Q /\ kind = "settled"
    <3>1. note'[s] = note[s] \cup {new}
      BY <1>2, <2>5
    <3>2. Answers(s)' = {new}
      BY <1>1, <2>5, <3>1 DEF Answers
    <3>3. [new EXCEPT !.kind = "included"] = [run |-> r, kind |-> "included"]
      OBVIOUS
    <3> QED
      BY <1>1, <2>5, <3>1, <3>2, <3>3 DEF NoteInv
  <2> QED
    BY <2>3, <2>4, <2>5
<1>8. ASSUME NEW q \in Run PROVE RunInv(q)'
  <2>1. RunInv(q) /\ run[q].packet \subseteq Message
    BY Types DEF IInv, RunRec
  <2>2. CASE q = r
    BY <2>1, <2>2 DEF RunInv, At
  <2>3. CASE q # r
    <3>1. run'[q].step \in {"none", "launch", "include"} =>
             \A s \in Message : \A n \in note'[s] : n.run # q
      BY <1>1, <1>2, <2>1, <2>3 DEF RunInv
    <3>2. Packet(run[q].task)' \subseteq Packet(run[q].task)
      BY <1>3 DEF Packet, Revisions, Pending, Of, Answers
    <3> QED
      BY <1>3, <2>1, <2>3, <3>1, <3>2 DEF RunInv, At
  <2> QED
    BY <2>2, <2>3
<1> QED
  BY <1>4, <1>5, <1>6, <1>7, <1>8 DEF IInv

\* What a run's packet must be: messages of the revision it works for.
LEMMA ExactMessages ==
    ASSUME ChangeAssumption, IInv, NEW r \in Run, Exact(r),
           NEW s \in run[r].packet
    PROVE  /\ msg[s] \in DOMAIN rev /\ msg[s] # 0
           /\ rev[msg[s]].state = "confirmed"
           /\ rev[msg[s]].repl = run[r].task
           /\ task[run[r].task].set
           /\ Answers(s) \subseteq {[run |-> r, kind |-> "settled"]}
<1>1. s \in Expected(r) /\ task[run[r].task].set
  BY DEF Exact, Active
<1>2. PICK v \in Revisions(run[r].task) : s \in Of(v)
  BY <1>1 DEF Expected
<1> QED
  BY <1>1, <1>2, Types DEF Expected, Revisions, Of

\* End keeps what a run was given and nothing else.
LEMMA Ended ==
    ASSUME ChangeAssumption, IInv, NEW r \in Run,
           NEW step \in {"completed", "failed"}, End(r, step)
    PROVE  \E new \in RunRec :
              /\ run' = [run EXCEPT ![r] = new] /\ new.step = step
              /\ new.task = run[r].task /\ new.packet = run[r].packet
              /\ new.answers = {}
<1> DEFINE new == [NoRun EXCEPT !.step = step, !.task = run[r].task,
                                !.packet = run[r].packet]
<1>1. /\ new \in RunRec /\ new.step = step /\ new.task = run[r].task
      /\ new.packet = run[r].packet /\ new.answers = {}
  BY Types DEF NoRun, RunRec
<1>2. run' = [run EXCEPT ![r] = new]
  BY DEF End
<1> QED
  BY <1>1, <1>2

LEMMA FailedInv ==
    ASSUME ChangeAssumption, IInv, NEW r \in Run, End(r, "failed"),
           UNCHANGED <<changeVars, spawner, faults>>
    PROVE  IInv'
<1>1. PICK new \in RunRec :
         /\ run' = [run EXCEPT ![r] = new] /\ new.step = "failed"
         /\ new.task = run[r].task /\ new.answers = {}
  BY Ended
<1> QED
  BY <1>1, OneRun, Types

\* A run goes on with what it has.
LEMMA Goes ==
    ASSUME ChangeAssumption, IInv, NEW r \in Run,
           NEW step \in {"launch", "include", "working", "exited", "crashed",
                         "ack"},
           Goto(r, step)
    PROVE  \E new \in RunRec :
              /\ run' = [run EXCEPT ![r] = new] /\ new.step = step
              /\ new.task = run[r].task /\ new.packet = run[r].packet
              /\ new.answers = run[r].answers
<1> DEFINE new == [run[r] EXCEPT !.step = step]
<1>1. /\ new \in RunRec /\ new.step = step /\ new.task = run[r].task
      /\ new.packet = run[r].packet /\ new.answers = run[r].answers
  BY Types DEF RunRec
<1>2. run' = [run EXCEPT ![r] = new]
  BY Types DEF Goto
<1> QED
  BY <1>1, <1>2

LEMMA GoesInv ==
    ASSUME ChangeAssumption, IInv, NEW r \in Run, NEW f \in 0..MaxFaults,
           NEW step \in {"launch", "include", "working", "exited", "crashed",
                         "ack"},
           Goto(r, step), UNCHANGED <<changeVars, spawner>>, faults' = f,
           step = "include" => run[r].step = "launch",
           step = "launch" => run[r].step = "none"
    PROVE  IInv'
<1>1. PICK new \in RunRec :
         /\ run' = [run EXCEPT ![r] = new] /\ new.step = step
         /\ new.task = run[r].task /\ new.packet = run[r].packet
         /\ new.answers = run[r].answers
  BY Goes
<1>2. run[r].answers \subseteq run[r].packet
  BY DEF IInv, RunInv
<1> QED
  BY <1>1, <1>2, OneRun, Types

LEMMA GivesUp ==
    ASSUME ChangeAssumption, IInv, NEW r \in Run, run[r].step = "launch",
           run' = [run EXCEPT ![r] = NoRun],
           UNCHANGED <<changeVars, spawner, faults>>
    PROVE  IInv'
<1>1. /\ NoRun \in RunRec /\ NoRun.step = "none"
      /\ NoRun.answers \subseteq NoRun.packet
  BY DEF NoRun, RunRec, Task, ChangeAssumption
<1> QED
  BY <1>1, OneRun, Types

LEMMA LaunchInv ==
    ASSUME ChangeAssumption, IInv, NEW r \in Run, NEW t \in Task, Launch(r, t)
    PROVE  IInv'
<1> DEFINE new == [NoRun EXCEPT !.step = "launch", !.task = t,
                                !.packet = Packet(t)]
<1>1. /\ run[r].step = "none" /\ run' = [run EXCEPT ![r] = new]
      /\ UNCHANGED <<changeVars, spawner, faults>>
  BY DEF Launch, At
<1>2. Packet(t) \in SUBSET Message
  BY DEF Packet, Pending, Of
<1>3. new \in RunRec /\ new.step = "launch" /\ new.answers = {}
  BY <1>2 DEF NoRun, RunRec
<1> HIDE DEF new
<1> QED
  BY <1>1, <1>3, OneRun, Types

LEMMA RecordInv ==
    ASSUME ChangeAssumption, IInv, NEW r \in Run, Record(r)
    PROVE  IInv'
<1>1. /\ run[r].step = "launch" /\ UNCHANGED <<changeVars, spawner, faults>>
      /\ Goto(r, "include") \/ run' = [run EXCEPT ![r] = NoRun]
  BY DEF Record, At
<1>2. CASE Goto(r, "include")
  BY <1>1, <1>2, GoesInv, Types
<1>3. CASE run' = [run EXCEPT ![r] = NoRun]
  BY <1>1, <1>3, GivesUp
<1> QED
  BY <1>1, <1>2, <1>3

LEMMA IncludeInv ==
    ASSUME ChangeAssumption, IInv, NEW r \in Run, Include(r)
    PROVE  IInv'
<1>1. UNCHANGED <<task, rev, msg, shown, spawner, faults>>
  BY DEF Include
<1>2. CASE Exact(r)
  <2>1. note' = Noted(r, run[r].packet, "included") /\ Goto(r, "working")
    BY <1>2 DEF Include
  <2>2. PICK new \in RunRec :
           /\ run' = [run EXCEPT ![r] = new] /\ new.step = "working"
           /\ new.task = run[r].task /\ new.packet = run[r].packet
           /\ new.answers = run[r].answers
    BY <2>1, Goes
  <2>3. /\ run' \in [Run -> RunRec]
        /\ \A q \in Run : /\ run'[q].task = run[q].task
                          /\ run'[q].packet = run[q].packet
                          /\ run'[q].answers = run[q].answers
                          /\ q # r => run'[q].step = run[q].step
        /\ run'[r].step = "working"
    BY <2>2, Types
  <2>4. /\ run[r].packet \in SUBSET Message
        /\ \A s \in run[r].packet : msg[s] # 0
    BY <1>2, ExactMessages, Types DEF RunRec
  <2> DEFINE Q == run[r].packet
             kind == "included"
  <2>5. /\ Q \in SUBSET Message /\ kind \in {"included", "settled"}
        /\ note' = Noted(r, Q, kind) /\ (\A s \in Q : msg[s] # 0)
        /\ kind # "settled"
    BY <2>1, <2>4
  <2> HIDE DEF Q, kind
  <2> QED
    BY <1>1, <2>3, <2>5, RunNotes
<1>3. CASE ~ Exact(r)
  BY <1>1, <1>3, FailedInv DEF Include, changeVars
<1> QED
  BY <1>2, <1>3

LEMMA ExitInv ==
    ASSUME ChangeAssumption, IInv, NEW r \in Run, Exit(r)
    PROVE  IInv'
<1>1. run[r].step = "working" /\ UNCHANGED <<changeVars, spawner>>
  BY DEF Exit, At
<1>2. faults' \in 0..MaxFaults
  BY Types DEF Exit, Fault, ChangeAssumption
<1>3. CASE Goto(r, "crashed")
  BY <1>1, <1>2, <1>3, GoesInv
<1>4. ASSUME NEW answers \in SUBSET run[r].packet,
             run' = [run EXCEPT ![r].step = "exited", ![r].answers = answers]
      PROVE  IInv'
  <2> DEFINE new == [run[r] EXCEPT !.step = "exited", !.answers = answers]
  <2>1. /\ new \in RunRec /\ new.step = "exited" /\ new.task = run[r].task
        /\ new.answers \subseteq new.packet
    BY Types DEF RunRec
  <2>2. run' = [run EXCEPT ![r] = new]
    BY <1>4, Types
  <2> HIDE DEF new
  <2> QED
    BY <1>1, <1>2, <2>1, <2>2, OneRun, Types DEF changeVars
<1> QED
  BY <1>3, <1>4 DEF Exit

LEMMA CheckInv ==
    ASSUME ChangeAssumption, IInv, NEW r \in Run, Check(r)
    PROVE  IInv'
<1>1. /\ Goto(r, "ack") \/ End(r, "failed")
      /\ UNCHANGED <<changeVars, spawner, faults>>
  BY DEF Check
<1>2. CASE Goto(r, "ack")
  BY <1>1, <1>2, GoesInv, Types
<1> QED
  BY <1>1, <1>2, FailedInv

LEMMA AckInv ==
    ASSUME ChangeAssumption, IInv, NEW r \in Run, Ack(r)
    PROVE  IInv'
<1>1. PICK s \in Unanswered(r) :
         /\ At(r, "ack")
         /\ IF Exact(r) /\ [run |-> r, kind |-> "included"] \in note[s]
              THEN note' = Noted(r, {s}, "settled") /\ UNCHANGED run
              ELSE End(r, "failed") /\ UNCHANGED note
         /\ UNCHANGED <<task, rev, msg, shown, spawner, faults>>
  BY DEF Ack
<1>2. CASE Exact(r) /\ [run |-> r, kind |-> "included"] \in note[s]
  <2>1. s \in run[r].packet
    BY <1>1 DEF IInv, RunInv, Unanswered
  <2>2. /\ msg[s] # 0 /\ rev[msg[s]].state = "confirmed"
        /\ rev[msg[s]].repl = run[r].task
        /\ task[run[r].task].set
        /\ Answers(s) \subseteq {[run |-> r, kind |-> "settled"]}
    BY <1>2, <2>1, ExactMessages
  <2> DEFINE Q == {s}
             kind == "settled"
  <2>3. /\ Q \in SUBSET Message /\ kind \in {"included", "settled"}
        /\ note' = Noted(r, Q, kind)
        /\ \A q \in Q : /\ msg[q] # 0
                        /\ Answers(q) \subseteq {[run |-> r, kind |-> kind]}
                        /\ [run |-> r, kind |-> "included"] \in note[q]
                        /\ rev[msg[q]].state = "confirmed"
                        /\ rev[msg[q]].repl = run[r].task
                        /\ task[run[r].task].set
    BY <1>1, <1>2, <2>1, <2>2, Types DEF RunRec
  <2>4. /\ run' \in [Run -> RunRec] /\ run' = run
        /\ run'[r].step \notin {"none", "launch", "include", "completed"}
    BY <1>1, <1>2, Types DEF At
  <2> HIDE DEF Q, kind
  <2> QED
    BY <1>1, <2>3, <2>4, RunNotes
<1>3. CASE ~ (Exact(r) /\ [run |-> r, kind |-> "included"] \in note[s])
  BY <1>1, <1>3, FailedInv DEF changeVars
<1> QED
  BY <1>2, <1>3

LEMMA CompleteInv ==
    ASSUME ChangeAssumption, IInv, NEW r \in Run, Complete(r)
    PROVE  IInv'
<1>1. UNCHANGED <<changeVars, spawner, faults>>
  BY DEF Complete
<1>2. CASE Exact(r) /\ Acknowledged(r)
  <2> DEFINE t == run[r].task
  <2>1. task[t].set /\ run[r].packet = Expected(r)
    BY <1>2 DEF Exact, Active
  <2>2. ASSUME NEW v \in Revisions(t), NEW s \in Pending(v) PROVE FALSE
    <3>1. s \in Of(v) /\ Answers(s) = {}
      BY <2>2 DEF Pending
    <3>2. s \in Expected(r)
      BY <2>2, <3>1 DEF Expected
    <3>3. [run |-> r, kind |-> "settled"] \in note[s]
      BY <1>2, <2>1, <3>2 DEF Acknowledged
    <3> QED
      BY <3>1, <3>3 DEF Answers
  <2>3. Packet(t) = {}
    BY <2>2 DEF Packet
  <2>4. \A s \in run[r].packet : [run |-> r, kind |-> "settled"] \in note[s]
    BY <1>2 DEF Acknowledged
  <2>5. End(r, "completed")
    BY <1>2 DEF Complete
  <2>6. PICK new \in RunRec :
           /\ run' = [run EXCEPT ![r] = new] /\ new.step = "completed"
           /\ new.task = t /\ new.packet = run[r].packet
           /\ new.answers = {}
    BY <2>5, Ended
  <2>7. task[new.task].set /\ Packet(new.task) = {}
    BY <2>1, <2>3, <2>6
  <2>8. \A s \in new.packet : [run |-> r, kind |-> "settled"] \in note[s]
    BY <2>4, <2>6
  <2> HIDE DEF t
  <2> QED
    BY <1>1, <2>6, <2>7, <2>8, OneRun, Types DEF t
<1>3. CASE ~ (Exact(r) /\ Acknowledged(r))
  BY <1>1, <1>3, FailedInv DEF Complete
<1> QED
  BY <1>2, <1>3

LEMMA RestartInv == ASSUME ChangeAssumption, IInv, Restart PROVE IInv'
<1>1. /\ run' = [r \in Run |->
                   IF run[r].step \in {"none", "completed", "failed"} THEN run[r]
                   ELSE IF At(r, "launch") THEN NoRun
                   ELSE [run[r] EXCEPT !.step = "lost", !.answers = {}]]
      /\ UNCHANGED changeVars /\ faults' = faults + 1 /\ faults < MaxFaults
      /\ spawner' \in BOOLEAN
  BY DEF Restart, Fault
<1>2. UNCHANGED <<task, rev, msg, note, shown>>
  BY <1>1 DEF changeVars
<1>3. /\ NoRun \in RunRec /\ NoRun.step = "none"
      /\ NoRun.answers \subseteq NoRun.packet
  BY DEF NoRun, RunRec, Task, ChangeAssumption
<1> DEFINE lost(r) == [run[r] EXCEPT !.step = "lost", !.answers = {}]
<1>4. \A r \in Run :
         /\ lost(r) \in RunRec /\ lost(r).step = "lost"
         /\ lost(r).task = run[r].task /\ lost(r).answers = {}
  BY Types DEF RunRec
<1>5. \A r \in Run :
         \/ run'[r] = run[r]
         \/ run'[r] = NoRun /\ run[r].step = "launch"
         \/ run'[r] = lost(r)
  BY <1>1 DEF At
<1> HIDE DEF lost
<1>6. run' \in [Run -> RunRec]
  <2>1. \A r \in Run : run'[r] \in RunRec
    BY <1>3, <1>4, <1>5, Types
  <2> QED
    BY <1>1, <2>1
<1>7. \A t : Packet(t)' = Packet(t)
  BY <1>2 DEF Packet, Revisions, Pending, Of, Answers
<1>8. ASSUME NEW r \in Run PROVE RunInv(r)'
  <2>1. RunInv(r)
    BY DEF IInv
  <2>2. CASE run'[r] = run[r]
    BY <1>2, <1>7, <2>1, <2>2 DEF RunInv, At
  <2>3. CASE run'[r] = NoRun /\ run[r].step = "launch"
    BY <1>2, <1>3, <2>1, <2>3 DEF RunInv, At
  <2>4. CASE run'[r] = lost(r)
    BY <1>4, <2>4 DEF RunInv, At
  <2> QED
    BY <1>5, <2>2, <2>3, <2>4
<1>9. \A r \in Run : \/ run'[r].task = run[r].task
                     \/ run[r].step \in {"none", "launch", "include"}
  BY <1>4, <1>5
<1>10. faults' \in 0..MaxFaults
  <2>1. faults \in 0..MaxFaults /\ MaxFaults \in Nat
    BY Types DEF ChangeAssumption
  <2>2. faults' = faults + 1 /\ faults < MaxFaults
    BY <1>1
  <2> QED
    BY <2>1, <2>2
<1> QED
  BY <1>1, <1>6, <1>8, <1>9, <1>10, RunsMove

-----------------------------------------------------------------------------
(* The invariant and what follows from it                                  *)

LEMMA InitInv == ASSUME ChangeAssumption, Init PROVE IInv
<1> DEFINE first == [NoTask EXCEPT !.rows = "ready", !.set = TRUE,
                                   !.roots = Projects + 1, !.life = "active"]
<1>1. /\ first \in TaskRec /\ first.set /\ first.rows = "ready"
      /\ first.life = "active"
  <2>1. Projects + 1 \in 0..(Projects + 1) /\ 0 \in 0..MaxTasks
    BY DEF ChangeAssumption
  <2> QED
    BY <2>1 DEF NoTask, TaskRec
<1>2. /\ NoTask \in TaskRec /\ ~ NoTask.set /\ NoTask.rows = "none"
      /\ NoTask.life = "none"
  BY DEF NoTask, TaskRec, ChangeAssumption
<1>3. task = [t \in Task |-> IF t = 1 THEN first ELSE NoTask]
  BY DEF Init
<1> HIDE DEF first
<1>4. /\ NoRun \in RunRec /\ NoRun.step = "none" /\ NoRun.answers = {}
      /\ NoRun.packet = {}
  BY DEF NoRun, RunRec, Task, ChangeAssumption
<1>5. /\ rev = <<>> /\ msg = [s \in Message |-> 0]
      /\ note = [s \in Message |-> {}] /\ shown = NoPreview
      /\ run = [r \in Run |-> NoRun] /\ spawner = TRUE /\ faults = 0
  BY DEF Init
<1>6. task \in [Task -> TaskRec]
  BY <1>1, <1>2, <1>3
<1>7. rev \in Seq(RevRec) /\ Len(rev) = 0 /\ DOMAIN rev = {}
  BY <1>5
<1>8. shown \in [rev : 0..Len(rev), repl : 0..MaxTasks,
                 messages : SUBSET Message]
  BY <1>5, <1>7 DEF NoPreview, ChangeAssumption
<1>9. TypeOK
  <2>1. note \in [Message -> SUBSET NoteRec] /\ run \in [Run -> RunRec]
        /\ msg \in [Message -> 0..Len(rev)] /\ faults \in 0..MaxFaults
    BY <1>4, <1>5, <1>7 DEF ChangeAssumption
  <2> QED
    BY <1>5, <1>6, <1>7, <1>8, <2>1 DEF TypeOK, TaskRec, RevRec, NoteRec, RunRec
<1>10. Requests /\ Solo
  BY <1>1, <1>2, <1>3 DEF Requests, Solo, Halted, Life, Current
<1>11. \A s \in Message : NoteInv(s)
  BY <1>5 DEF NoteInv, Answers
<1>12. \A r \in Run : RunInv(r)
  BY <1>4, <1>5 DEF RunInv, At
<1> QED
  BY <1>7, <1>9, <1>10, <1>11, <1>12 DEF IInv

LEMMA StutterInv == ASSUME ChangeAssumption, IInv, UNCHANGED vars PROVE IInv'
<1>1. UNCHANGED changeVars /\ UNCHANGED <<run, spawner, faults>>
  BY DEF vars, workVars
<1>2. UNCHANGED <<task, rev, msg, note, shown, run, spawner, faults>>
  BY <1>1 DEF changeVars
<1>3. \A t : Packet(t)' = Packet(t)
  BY <1>2 DEF Packet, Revisions, Pending, Of, Answers
<1>4. \A r \in Run : RunInv(r)'
  BY <1>2, <1>3 DEF IInv, RunInv, At
<1> QED
  BY <1>1, <1>4, RunsMove, Types

LEMMA NextInv == ASSUME ChangeAssumption, IInv, [Next]_vars PROVE IInv'
<1>1. CASE Send
  BY <1>1, OpenRevisionInv, AddMessageInv DEF Send
<1>2. CASE Stage
  BY <1>2, StageInv
<1>3. CASE Revise
  BY <1>3, PreviewInv, ConfirmInv, BindRootInv, ActivateInv, CancelInv,
     ResumeInv DEF Revise
<1>4. CASE Stop
  BY <1>4, StopInv
<1>5. CASE Merge
  BY <1>5, MergeInv
<1>6. CASE \E r \in Run : Work(r)
  BY <1>6, LaunchInv, RecordInv, IncludeInv, ExitInv, CheckInv, AckInv,
     CompleteInv DEF Work
<1>7. CASE Restart
  BY <1>7, RestartInv
<1>8. CASE UNCHANGED vars
  BY <1>8, StutterInv
<1> QED
  BY <1>1, <1>2, <1>3, <1>4, <1>5, <1>6, <1>7, <1>8 DEF Next

\* The inductive invariant of TaskMessageStore, TaskRevisionService,
\* TaskStopService and WorkerRuntimeService on one chain of requests.
THEOREM Invariance == ASSUME ChangeAssumption PROVE Spec => []IInv
<1>1. Init => IInv
  BY InitInv
<1>2. IInv /\ [Next]_vars => IInv'
  BY NextInv
<1> QED
  BY <1>1, <1>2, PTL DEF Spec

\* Requests, revisions, messages, notes and runs keep their types.
THEOREM TypeCorrect == ASSUME ChangeAssumption PROVE Spec => []TypeOK
BY Invariance, PTL DEF IInv

LEMMA AtMostOne ==
    ASSUME NEW S, \A a, b \in S : a = b
    PROVE  Cardinality(S) <= 1
<1>1. CASE S = {}
  BY <1>1, FS_EmptySet
<1>2. CASE S # {}
  <2>1. PICK a \in S : S = {a}
    BY <1>2
  <2> QED
    BY <2>1, FS_Singleton
<1> QED
  BY <1>1, <1>2

LEMMA VersionFromInv == ASSUME IInv PROVE OneVersion
<1>1. \A t \in Task : Active(t) => Life(t) \in Current
  BY DEF Active, Current
<1>2. Cardinality({t \in Task : Active(t)}) <= 1
  <2>1. \A t, u \in {x \in Task : Active(x)} : t = u
    BY <1>1 DEF IInv, Solo
  <2> QED
    BY <2>1, AtMostOne
<1>3. Halted => \A t \in Task : ~ Active(t)
  BY <1>1 DEF IInv, Solo
<1>4. \A v \in DOMAIN rev : rev[v].state = "confirmed" =>
         /\ rev[v].preview = Of(v)
         /\ task[rev[v].repl].of = rev[v].base
         /\ task[rev[v].repl].set =>
               Life(rev[v].base) \in {"replaced", "stopping"}
  BY DEF IInv, RevInv
<1> QED
  BY <1>2, <1>3, <1>4 DEF OneVersion

LEMMA AnswersFromInv == ASSUME IInv PROVE AnsweredOnce
<1>1. \A v \in DOMAIN rev :
         rev[v].state \in {"cancelled", "resumed"} => Pending(v) = {}
  BY DEF IInv, RevInv
<1>2. ASSUME NEW s \in Message PROVE Cardinality(Answers(s)) <= 1
  <2>1. \A m, n \in Answers(s) : m = n
    BY DEF IInv, NoteInv
  <2> QED
    BY <2>1, AtMostOne
<1>3. ASSUME NEW s \in Message, NEW n \in Answers(s)
      PROVE  IF n.run = 0
               THEN rev[msg[s]].state \in {"cancelled", "resumed"}
               ELSE /\ [n EXCEPT !.kind = "included"] \in note[s]
                    /\ rev[msg[s]].state = "confirmed"
                    /\ rev[msg[s]].repl = run[n.run].task
  BY DEF IInv, NoteInv
<1>4. \A r \in Run : At(r, "completed") =>
         /\ Packet(run[r].task) = {}
         /\ \A s \in run[r].packet :
               [run |-> r, kind |-> "settled"] \in note[s]
  BY DEF IInv, RunInv
<1> QED
  BY <1>1, <1>2, <1>3, <1>4 DEF AnsweredOnce

\* One version of a Task is in work and none once it is stopped; what was
\* confirmed has every message of its revision and ends what it replaces.
THEOREM OneVersionInWork == ASSUME ChangeAssumption PROVE Spec => []OneVersion
BY VersionFromInv, Invariance, PTL

\* A message is settled once, by the revision that was given up or by a run of
\* the replacement, and a run that reports success left none of its own open.
THEOREM MessagesAnsweredOnce ==
    ASSUME ChangeAssumption PROVE Spec => []AnsweredOnce
BY AnswersFromInv, Invariance, PTL

=============================================================================
