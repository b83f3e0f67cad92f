---------------------------- MODULE TaskPromise ----------------------------
(***************************************************************************)
(* What the delivery of a confirmed Task promises, with no databases, no   *)
(* processes and no GitHub: a Task is confirmed, becomes active, is        *)
(* announced by the ready label of its issue while it is active, and may   *)
(* end; only a label that was sent while it was active may land later. Its *)
(* user hears that it was created only after the announcement.             *)
(***************************************************************************)
CONSTANT Request
VARIABLES stage, sent, announced, told

pvars == <<stage, sent, announced, told>>

Stage == {"unknown", "confirmed", "active", "ended"}

Init ==
    /\ stage = [q \in Request |-> "unknown"]
    /\ sent = {}
    /\ announced = {}
    /\ told = {}

Becomes(q, from, to) ==
    /\ stage[q] = from
    /\ stage' = [stage EXCEPT ![q] = to]
    /\ UNCHANGED <<sent, announced, told>>

Confirm(q)  == Becomes(q, "unknown", "confirmed")
Activate(q) == Becomes(q, "confirmed", "active")
End(q)      == Becomes(q, "active", "ended")

Announce(q) ==
    /\ stage[q] = "active"
    /\ announced' = announced \cup {q}
    /\ UNCHANGED <<stage, sent, told>>

\* The label is on its way, once or more often, and lands at any time.
Send(q) ==
    /\ stage[q] = "active"
    /\ sent' = sent \cup {q}
    /\ UNCHANGED <<stage, announced, told>>

Land(q) ==
    /\ q \in sent
    /\ sent' \in {sent, sent \ {q}}
    /\ announced' = announced \cup {q}
    /\ UNCHANGED <<stage, told>>

Tell(q) ==
    /\ q \in announced
    /\ told' = told \cup {q}
    /\ UNCHANGED <<stage, sent, announced>>

Next == \E q \in Request :
    \/ Confirm(q) \/ Activate(q) \/ End(q)
    \/ Announce(q) \/ Send(q) \/ Land(q) \/ Tell(q)

Promise == Init /\ [][Next]_pvars
=============================================================================
