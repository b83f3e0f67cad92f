------------------------------ MODULE MCTaskFair -----------------------------
(* The rules of a Task flow, and small fair instances for TLC of what      *)
(* creates, announces and merges a Task.  The four share no state that     *)
(* these modules model, so one run moves one of them at a time: "part" is  *)
(* chosen in the initial state.                                            *)
EXTENDS TaskFlow

CONSTANTS t1, t2, c1, c2, x1, p1, p2, p3, q1, q2, r1, w1, nobody

VARIABLES part,
          task, row, lock, call, issues, items, cards, moved, scan, wire,
          told, faults,                                       \* TaskCreation
          outbox, settings, taskIssues, claims, writer, at, tellings, labelled,
          writes, deliveryFaults, deliveryEdits,              \* TaskDelivery
          mergeRow, life, mergeWriter, done, remote, expired, mergeAt, puts,
          mergeWire, edits, mergeFaults                       \* ProjectMerge

creationVars == <<task, row, lock, call, issues, items, cards, moved, scan,
                  wire, told, faults>>
deliveryVars == <<outbox, settings, taskIssues, claims, writer, at, tellings,
                  labelled, writes, deliveryFaults, deliveryEdits>>
mergeVars == <<mergeRow, life, mergeWriter, done, remote, expired, mergeAt,
               puts, mergeWire, edits, mergeFaults>>
sumVars == <<part, vars, creationVars, deliveryVars, mergeVars>>

\* The worker reads the projects in another order than the user's; the first
\* of them has a second card.  Nobody requests a stop.
Creation == INSTANCE TaskCreation WITH
    Project <- {p1, p2}, Order <- <<p2, p1>>, Rows <- <<p1, p2>>,
    Calls <- 2, Workers <- 2,
    FlowSteps <- [p \in {p1, p2} |-> IF p = p1 THEN 2 ELSE 1],
    Faults <- {"overlap", "die", "fail", "lost", "late", "close", "edit",
               "release", "move"},
    MaxFaults <- 1, Barriers <- FALSE

\* Two plugin calls retry one request; no call fails between bind and update.
Delivery == INSTANCE TaskDelivery WITH
    Request <- {r1}, Caller <- {q1, q2}, Plugin <- {q1, q2},
    Wants <- [c \in {q1, q2} |-> {r1}], Ends <- {"cancelled", "merged"},
    NoCaller <- nobody, MaxIssues <- 3, MaxFaults <- 3, MaxEdits <- 0,
    DiesAt <- {"save", "claim", "prepare", "find", "create", "bind",
               "activate", "guard", "check", "label", "readback", "complete",
               "retire", "replay"},
    LosesAt <- {"create", "update", "label"}, LateAt <- {"label"},
    issues <- taskIssues, told <- tellings, wire <- writes,
    faults <- deliveryFaults, edits <- deliveryEdits

\* One run after another; people merge only what has a stored proof.
Merge == INSTANCE ProjectMerge WITH
    Project <- {p1, p2, p3}, Order <- <<p2, p1, p3>>, Rows <- <<p1, p2, p3>>,
    Worker <- {w1}, NoWorker <- nobody, Automatic <- TRUE,
    Edits <- {"merge", "review", "barrier"}, MaxEdits <- 2,
    Faults <- {"die", "fail", "late"}, MaxFaults <- 1,
    row <- mergeRow, writer <- mergeWriter, at <- mergeAt, wire <- mergeWire,
    faults <- mergeFaults

ASSUME InstancesAssumption == Creation!CreationAssumption

\* The flow has many initial states; the runs of the others need only one.
Unused ==
    /\ flow = StartTaskFlow(t1, "build", c1, c1)
    /\ accepted = {} /\ rejections = 0 /\ fixes = 0

SumInit ==
    /\ part \in {"flow", "creation", "delivery", "merge"}
    /\ \/ part = "flow" /\ Init
       \/ part # "flow" /\ Unused
    /\ Creation!Init /\ Delivery!Init /\ Merge!Init

SumNext ==
    \/ /\ part = "flow" /\ Next
       /\ UNCHANGED <<part, creationVars, deliveryVars, mergeVars>>
    \/ /\ part = "creation" /\ Creation!Next
       /\ UNCHANGED <<part, vars, deliveryVars, mergeVars>>
    \/ /\ part = "delivery" /\ Delivery!Next
       /\ UNCHANGED <<part, vars, creationVars, mergeVars>>
    \/ /\ part = "merge" /\ Merge!Next
       /\ UNCHANGED <<part, vars, creationVars, deliveryVars>>

\* The fairness each of the last three states for itself, while it is the one
\* that moves: TaskCreation's Fairness and the FairSpecs of the other two.
Fairness ==
    /\ \A c \in Creation!Call : WF_creationVars(
          part = "creation" /\ (Creation!Begin(c) \/ Creation!CallStep(c)))
    /\ \A w \in Creation!Worker :
          WF_creationVars(part = "creation" /\ Creation!WorkerStep(w))
    /\ \A c \in {q1, q2} :
          WF_deliveryVars(part = "delivery" /\ Delivery!Step(c))
    /\ WF_mergeVars(part = "merge" /\ Merge!Step(w1))
    /\ WF_mergeVars(part = "merge" /\ Merge!Expire)

FairSpec == SumInit /\ [][SumNext]_sumVars /\ Fairness

-----------------------------------------------------------------------------
(* Properties *)

\* TaskCreation: a prepared request gets through in the end.
EventuallyCreated == Creation!EventuallyCreated

\* TaskDelivery: a stored request is announced or retired in the end.
EventuallyDelivered == Delivery!EventuallyDelivered

\* ProjectMerge: what was merged on GitHub is recorded in the end.
MergesAreRecorded == Merge!MergesAreRecorded
=============================================================================
