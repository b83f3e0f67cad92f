---------------------------- MODULE SurfaceEvents ----------------------------
(* What a user types gets an identity that survives crashes and retries      *)
(* (forge/ops/surface_events.py): clients keep it in a local outbox until    *)
(* they have an answer, the Task database keeps a receipt of it, and what    *)
(* was asked for is recorded once under it.  Turns that ask for a message to *)
(* a Task stand for all that write.  The Hermes client, which is patched by  *)
(* the installer to call the outbox, is external.                            *)
EXTENDS Integers, FiniteSets

CONSTANTS Client,    \* client processes, all of one session
          Texts,     \* what a user may type
          Dirs,      \* working directories a client may be started in
          NoRow, NoAnswer,
          Answers,   \* what a surface may answer
          MaxTurns,  \* texts typed
          MaxFaults

VARIABLES outbox, \* text -> identity under which it is pending, 0 for none
          fresh,  \* identities handed out
          row,    \* identity -> receipt in surface_events
          past,   \* receipts whose retention is over
          sent,   \* identity -> messages recorded under it
          turn,   \* client -> its place in a turn
          acked,  \* text -> submissions that were acknowledged
          turns, faults

surfaceVars == <<outbox, fresh, row, past, sent, turn, acked, turns, faults>>

Row == [text : Texts, dir : Dirs, answer : Answers \cup {NoAnswer},
        state : {"received", "handled", "responded", "expired"}]

\* What a run assumes of its values for them.
SurfaceAssumption ==
    /\ MaxTurns \in Nat /\ MaxFaults \in Nat
    /\ Client # {} /\ Texts # {} /\ Dirs # {}
    /\ NoAnswer \notin Answers /\ NoRow \notin Row

Ids == 1 .. MaxTurns

Idle == [step |-> "idle", text |-> CHOOSE t \in Texts : TRUE,
         dir |-> CHOOSE d \in Dirs : TRUE, id |-> 0]

Init ==
    /\ outbox = [t \in Texts |-> 0] /\ fresh = 0
    /\ row = [i \in Ids |-> NoRow] /\ past = {}
    /\ sent = [i \in Ids |-> 0]
    /\ turn = [c \in Client |-> Idle]
    /\ acked = [t \in Texts |-> 0]
    /\ turns = 0 /\ faults = 0

At(c, step) == turn[c].step = step
GoTo(c, step) == turn' = [turn EXCEPT ![c].step = step]

Server == <<row, past, sent>>
Local == <<outbox, fresh>>

-----------------------------------------------------------------------------
(* A turn of a client *)

Type(c, text, dir) ==
    /\ At(c, "idle") /\ turns < MaxTurns /\ turns' = turns + 1
    /\ turn' = [turn EXCEPT ![c] = [step |-> "prepare", text |-> text,
                                    dir |-> dir, id |-> 0]]
    /\ UNCHANGED <<Local, Server, acked, faults>>

\* Faulty variant: each attempt gets an identity of its own.
Prepare_Anew(c) ==
    LET text == turn[c].text
        id == fresh + 1
    IN  /\ At(c, "prepare")
        /\ outbox' = [outbox EXCEPT ![text] = id] /\ fresh' = id
        /\ turn' = [turn EXCEPT ![c].id = id, ![c].step = "receive"]
        /\ UNCHANGED <<Server, acked, turns, faults>>

\* LocalSurfaceOutbox.prepare, under the lock of the file: a text that is
\* pending keeps its identity.
Prepare(c) ==
    LET text == turn[c].text
        pending == outbox[text] # 0
        id == IF pending THEN outbox[text] ELSE fresh + 1
    IN  /\ At(c, "prepare")
        /\ outbox' = [outbox EXCEPT ![text] = id]
        /\ fresh' = IF pending THEN fresh ELSE id
        /\ turn' = [turn EXCEPT ![c].id = id, ![c].step = "receive"]
        /\ UNCHANGED <<Server, acked, turns, faults>>

\* The receipt binds the text, and the directory the client was started in.
Receipt(c) == [text |-> turn[c].text, dir |-> turn[c].dir,
               state |-> "received", answer |-> NoAnswer]

\* Whether the identity stands for this very submission.
Matches(c) == LET r == row[turn[c].id] IN
    r.text = turn[c].text /\ r.dir = turn[c].dir

\* SurfaceEventStore.receive: the first receipt counts; the same identity with
\* another content is refused, and the turn fails.
Receive(c) ==
    LET id == turn[c].id IN
    /\ At(c, "receive")
    /\ \/ /\ row[id] = NoRow /\ row' = [row EXCEPT ![id] = Receipt(c)]
          /\ GoTo(c, "send")
       \/ /\ row[id] # NoRow /\ row' = row
          /\ GoTo(c, IF Matches(c) THEN "send" ELSE "idle")
    /\ UNCHANGED <<Local, past, sent, acked, turns, faults>>

\* TaskMessageStore.send, in another transaction: an expired receipt is refused;
\* a message recorded before is the answer, and no second one is recorded.
Send(c) ==
    LET id == turn[c].id
        expired == row[id].state = "expired"
    IN  /\ At(c, "send")
        /\ sent' = IF expired \/ sent[id] > 0 THEN sent
                   ELSE [sent EXCEPT ![id] = @ + 1]
        /\ GoTo(c, IF expired THEN "idle" ELSE "acknowledge")
        /\ UNCHANGED <<Local, row, past, acked, turns, faults>>

\* LocalSurfaceOutbox.acknowledge, after the answer: the identity must still be
\* pending, else the client raises.
Acknowledge(c) ==
    LET text == turn[c].text
        pending == outbox[text] = turn[c].id
    IN  /\ At(c, "acknowledge")
        /\ outbox' = IF pending THEN [outbox EXCEPT ![text] = 0] ELSE outbox
        /\ acked' = IF pending THEN [acked EXCEPT ![text] = @ + 1] ELSE acked
        /\ GoTo(c, "idle")
        /\ UNCHANGED <<fresh, Server, turns, faults>>

\* The client dies, its outbox cannot be locked or written, or the turn fails:
\* nothing is acknowledged, and the user may type the same again.
Fail(c) ==
    /\ ~At(c, "idle") /\ faults < MaxFaults /\ faults' = faults + 1
    /\ GoTo(c, "idle")
    /\ UNCHANGED <<Local, Server, acked, turns>>

-----------------------------------------------------------------------------
(* What the surfaces do with receipts (so far, only tests call these) *)

\* mark_handled leaves an answered receipt as it is.
Handle(id) ==
    /\ row[id] # NoRow /\ row[id].state = "received"
    /\ row' = [row EXCEPT ![id].state = "handled"]
    /\ UNCHANGED <<Local, past, sent, turn, acked, turns, faults>>

\* mark_responded: within the retention, and never another answer.
Respond(id, answer) ==
    /\ row[id] # NoRow /\ row[id].state # "expired" /\ id \notin past
    /\ row[id].answer = NoAnswer
    /\ row' = [row EXCEPT ![id].state = "responded", ![id].answer = answer]
    /\ UNCHANGED <<Local, past, sent, turn, acked, turns, faults>>

\* Time passes.
Age(id) ==
    /\ row[id] # NoRow /\ id \notin past /\ past' = past \cup {id}
    /\ UNCHANGED <<Local, row, sent, turn, acked, turns, faults>>

Due == {i \in past : row[i].state # "expired"}

ExpireDue ==
    /\ Due # {}
    /\ row' = [i \in Ids |-> IF i \in Due
                             THEN [row[i] EXCEPT !.state = "expired"]
                             ELSE row[i]]
    /\ UNCHANGED <<Local, past, sent, turn, acked, turns, faults>>

Next ==
    \/ \E c \in Client, text \in Texts, dir \in Dirs : Type(c, text, dir)
    \/ \E c \in Client :
        Prepare(c) \/ Receive(c) \/ Send(c) \/ Acknowledge(c) \/ Fail(c)
    \/ \E id \in Ids : Handle(id) \/ Age(id)
    \/ \E id \in Ids, answer \in Answers : Respond(id, answer)
    \/ ExpireDue

Spec == Init /\ [][Next]_surfaceVars

-----------------------------------------------------------------------------
(* Properties *)

\* The types; and an answer belongs to a receipt that was answered.
TypeOK ==
    /\ outbox \in [Texts -> 0 .. MaxTurns] /\ fresh \in 0 .. MaxTurns
    /\ row \in [Ids -> Row \cup {NoRow}] /\ past \subseteq Ids
    /\ sent \in [Ids -> 0 .. MaxTurns]
    /\ turn \in [Client -> [step : {"idle", "prepare", "receive", "send",
                                    "acknowledge"},
                            text : Texts, dir : Dirs, id : 0 .. MaxTurns]]
    /\ acked \in [Texts -> 0 .. MaxTurns]
    /\ turns \in 0 .. MaxTurns /\ faults \in 0 .. MaxFaults
    /\ \A i \in Ids : row[i] # NoRow =>
        /\ row[i].state \in {"received", "handled"} =>
            row[i].answer = NoAnswer
        /\ row[i].state = "responded" => row[i].answer # NoAnswer

\* The identities under which a text was recorded.
Recorded(t) == {i \in Ids : row[i] # NoRow /\ row[i].text = t /\ sent[i] # 0}

\* However often a text is typed again after a crash, and whichever client of
\* the session types it, it is recorded once for each acknowledgement, and at
\* most one time more: the submission that is still pending.
RecordedOnce ==
    /\ \A i \in Ids : sent[i] <= 1
    /\ \A t \in Texts :
          /\ acked[t] <= Cardinality(Recorded(t))
          /\ Cardinality(Recorded(t)) <= acked[t] + 1
=============================================================================
