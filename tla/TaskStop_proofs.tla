-------------------------- MODULE TaskStop_proofs ---------------------------
(***************************************************************************)
(* Proofs about TaskStop: after a completed stop no worker is left but     *)
(* those the dispatcher itself has left behind, and none at all where no   *)
(* stop of a worker fails; the recorded end has overlooked no merge and is *)
(* final, and the issue tells it, for any number of projects, of           *)
(* reconciler runs that overlap and of attempts.                           *)
(***************************************************************************)
EXTENDS TaskStop, FiniteSetTheorems, TLAPS

-----------------------------------------------------------------------------
(* The inductive invariant                                                 *)

\* Where a run stands: before it reads GitHub; once it knows an outcome;
\* once it has seen the label of that outcome on the issue, and its comment.
Local == {"round", "archive", "kill", "mark", "recheck"}
Told == {"resolve", "close", "closed", "verify", "finish"}
Labelling == {"comment", "post", "patch", "noted"} \cup Told
Judged == {"status", "drop", "add", "labelled"} \cup Labelling
Remote == {"read"} \cup Judged
Swept == {"kill", "mark", "recheck"} \cup Remote

RunRec == [step : Steps, tries : Nat, ids : Outcomes, i : DOMAIN Rows,
           acc : Outcomes, seen : {<<>>} \cup {<<M>> : M \in Outcomes},
           out : Outcomes, closed : BOOLEAN, labels : SUBSET Labels,
           base : Outcomes]

\* What TypeOK leaves open of the records: all their fields, and that a label
\* is written by drop and add, an outcome by the others.
Payloads(op) == IF op \in {"drop", "add"} THEN SUBSET Labels ELSE Outcomes

Records ==
    /\ at \in [Run -> RunRec]
    /\ issue \in [closed : BOOLEAN, labels : SUBSET Labels,
                  comments : Seq(Outcomes)]
    /\ \A m \in wire : m.on \in Payloads(m.op)
    /\ moved \in BOOLEAN

\* The board is swept: nothing on it can start a worker any more.
Clean ==
    /\ stop.state # "none" /\ tick = Nobody
    /\ \A p \in Project : card[p] \in {"none", "done", "archived"}

\* The worker that the dispatcher has created and not recorded yet.
Unrecorded(p) == tick.step = "record" /\ p \in tick.on

\* A process is named by an active row, about to be, or adrift; whoever else
\* records the end of a worker has seen to it that there is none.
Recorded ==
    /\ \A p \in Project :
          proc[p] # "none" =>
              worker[p] = "running" \/ p \in adrift \/ Unrecorded(p)
    /\ tick.step \in {"activate", "include"} =>
           \A p \in tick.on : worker[p] = "running"

\* Nobody starts again what is adrift, and only a stop that failed leaves a
\* worker adrift whose prompt gate is open.
Adrift ==
    /\ tick.on \cap adrift = {}
    /\ \A p \in tick.on \cup owned \cup adrift :
           card[p] \notin {"none", "ready"}
    /\ tick.step = "record" => \A p \in tick.on : proc[p] # "alive"
    /\ "unstopped" \notin Faults => \A p \in adrift : proc[p] # "alive"

\* Nothing of the stop exists before it is requested.
Before ==
    stop.state = "none" =>
        /\ wire = {} /\ issue.comments = <<>> /\ ~issue.closed /\ ~moved
        /\ \A r \in Run : At(r, "idle")

\* What a run has done to this machine.
Safe(r) ==
    /\ at[r].step \in Swept => Clean
    /\ at[r].step = "archive" => stop.state # "none"
    /\ at[r].step = "mark" => \A p \in at[r].acc : proc[p] = "none"
    /\ at[r].step \in Remote => Running = {}

\* The projects a readback has passed.
Passed(i) == {Rows[j] : j \in 1..(i - 1)}

\* What a run has read of GitHub, and what it knows by it.
Reads(r) ==
    /\ at[r].base \subseteq merged
    /\ at[r].closed => issue.closed
    /\ at[r].step \in Local => at[r].i = 1 /\ (at[r].step # "mark" => at[r].acc = {})
    /\ at[r].step \in Judged \ {"verify", "finish"} => at[r].i = 1 /\ at[r].acc = {}
    /\ at[r].step = "verify" =>
           at[r].acc \subseteq merged /\ at[r].base \cap Passed(at[r].i) \subseteq at[r].acc
    /\ at[r].step = "finish" =>
           at[r].base \subseteq at[r].out /\ at[r].out \subseteq merged
    /\ at[r].step \in {"resolve", "close", "closed"} =>
           Result(at[r].out) = "cancelled"

\* While nobody merges every run comes to the same outcome.
Agreed(r) ==
    ~moved =>
        /\ at[r].step \in {"read", "verify"} =>
               at[r].acc = merged \cap Passed(at[r].i)
        /\ at[r].step \in Judged => at[r].out = merged
        /\ at[r].step \in Labelling => issue.labels = Target(merged)
        /\ at[r].step \in Told => issue.comments # <<>>

\* A write that does not contradict the outcome M.
Fits(op, x, M) ==
    CASE op = "drop" -> x \cap Target(M) = {}
      [] op = "add" -> x = Target(M)
      [] op = "close" -> Result(M) = "cancelled"
      [] OTHER -> x = M

\* ... so nothing on the issue or on its way there contradicts it.
IssueAgrees ==
    ~moved =>
        /\ \A i \in DOMAIN issue.comments : issue.comments[i] = merged
        /\ issue.closed => Result(merged) = "cancelled"
        /\ \A m \in wire : Fits(m.op, m.on, merged)

AtTheEnd ==
    stop.state = "completed" =>
        /\ Clean /\ Running = {}
        /\ ~moved =>
              /\ terminal[1].on = merged /\ stop.result = Result(merged)
              /\ issue.labels = Target(merged) /\ issue.comments # <<>>
              /\ Result(merged) = "cancelled" => issue.closed

IInv ==
    /\ TypeOK /\ Records /\ Recorded /\ Adrift /\ Before /\ IssueAgrees
    /\ AtTheEnd
    /\ \A r \in Run : Safe(r) /\ Reads(r) /\ Agreed(r)

-----------------------------------------------------------------------------
(* Facts about the data                                                    *)

\* The order lists every project, and there is one.
LEMMA RowsFacts ==
    /\ Len(Rows) \in Nat /\ DOMAIN Rows = 1..Len(Rows) /\ 1 \in DOMAIN Rows
    /\ \A i \in DOMAIN Rows : Rows[i] \in Project
    /\ \A p \in Project : \E i \in DOMAIN Rows : Rows[i] = p
<1>1. Cardinality(Project) \in Nat
  BY StopAssumption, FS_CardinalityType
<1>2. Cardinality(Project) # 0
  BY StopAssumption, FS_EmptySet
<1>3. Rows \in Seq(Project) /\ Len(Rows) = Cardinality(Project)
  BY <1>1, StopAssumption
<1> QED
  BY <1>1, <1>2, <1>3, StopAssumption

\* A readback starts with nothing passed, passes one project at a time, and
\* has passed all of them with the last.
LEMMA PassedFacts ==
    /\ Passed(1) = {}
    /\ \A i \in DOMAIN Rows : Passed(i + 1) = Passed(i) \cup {Rows[i]}
    /\ Passed(Len(Rows)) \cup {Rows[Len(Rows)]} = Project
<1>1. Passed(1) = {}
  BY DEF Passed
<1>2. ASSUME NEW i \in DOMAIN Rows
      PROVE  Passed(i + 1) = Passed(i) \cup {Rows[i]}
  <2>1. i \in Nat \ {0} /\ (i + 1) - 1 = i
    BY RowsFacts
  <2>2. 1..((i + 1) - 1) = 1..(i - 1) \cup {i}
    BY <2>1
  <2> QED
    BY <2>2 DEF Passed
<1>3. Passed(Len(Rows)) \cup {Rows[Len(Rows)]} \subseteq Project
  BY RowsFacts DEF Passed
<1>4. Project \subseteq Passed(Len(Rows)) \cup {Rows[Len(Rows)]}
  <2> SUFFICES ASSUME NEW p \in Project, p # Rows[Len(Rows)]
               PROVE  p \in Passed(Len(Rows))
    OBVIOUS
  <2>1. PICK i \in DOMAIN Rows : Rows[i] = p
    BY RowsFacts
  <2>2. i \in 1..(Len(Rows) - 1)
    BY <2>1, RowsFacts
  <2> QED
    BY <2>1, <2>2 DEF Passed
<1> QED
  BY <1>1, <1>2, <1>3, <1>4

\* A run that is not under way, and one that has failed, know nothing.
LEMMA IdleRec ==
    /\ Idle \in RunRec /\ Idle.step = "idle" /\ Idle.base = {} /\ ~Idle.closed
    /\ Broken \in RunRec /\ Broken.step = "broken" /\ Broken.base = {}
    /\ ~Broken.closed
<1>1. Idle \in RunRec
  <2>1. 1 \in DOMAIN Rows /\ {} \in Outcomes /\ {} \in SUBSET Labels
        /\ "idle" \in Steps /\ <<>> \in {<<>>} \cup {<<M>> : M \in Outcomes}
    BY RowsFacts DEF Outcomes, Steps
  <2> QED
    BY <2>1 DEF Idle, RunRec
<1>2. Idle.step = "idle" /\ Idle.base = {} /\ ~Idle.closed
  BY DEF Idle
<1>3. "broken" \in Steps
  BY DEF Steps
<1>4. Broken \in RunRec
  BY <1>1, <1>3 DEF Broken, RunRec
<1>5. Broken.step = "broken" /\ Broken.base = Idle.base /\ Broken.closed = Idle.closed
  BY <1>1 DEF Broken, RunRec
<1> QED
  BY <1>1, <1>2, <1>4, <1>5

LEMMA ResultType ==
    \A M : Result(M) \in {"cancelled", "merged", "partial"}
           /\ Target(M) \subseteq Labels
BY DEF Result, Target, Labels

\* The record of a run that takes a step, and those of the others.
LEMMA RunMoves ==
    ASSUME Records, NEW r \in Run, NEW x \in RunRec,
           at' = [at EXCEPT ![r] = x]
    PROVE  /\ at' \in [Run -> RunRec] /\ at'[r] = x
           /\ \A q \in Run \ {r} : at'[q] = at[q]
BY DEF Records

LEMMA RunType ==
    ASSUME Records, NEW r \in Run
    PROVE  /\ at[r] \in RunRec
           /\ at[r].step \in Steps /\ at[r].tries \in Nat
           /\ at[r].ids \subseteq Project /\ at[r].i \in DOMAIN Rows
           /\ at[r].acc \subseteq Project /\ at[r].out \subseteq Project
           /\ at[r].closed \in BOOLEAN /\ at[r].labels \subseteq Labels
           /\ at[r].base \subseteq Project
BY DEF Records, RunRec, Outcomes

LEMMA Transition ==
    ASSUME Records, NEW r \in Run, NEW step \in Steps \ {"broken"}, Move(r, step)
    PROVE  /\ at' \in [Run -> RunRec]
           /\ at'[r] = [at[r] EXCEPT !.step = step]
           /\ \A q \in Run \ {r} : at'[q] = at[q]
<1>1. [at[r] EXCEPT !.step = step] \in RunRec
  BY RunType DEF RunRec
<1>2. at' = [at EXCEPT ![r] = [at[r] EXCEPT !.step = step]]
  BY DEF Move, Records
<1> QED
  BY <1>1, <1>2, RunMoves

LEMMA Breaks ==
    ASSUME Records, NEW r \in Run, Move(r, "broken")
    PROVE  /\ at' \in [Run -> RunRec] /\ at'[r] = Broken
           /\ \A q \in Run \ {r} : at'[q] = at[q]
BY RunMoves, IdleRec DEF Move

\* TypeOK says of the runs what their records say.
LEMMA RecordsType ==
    ASSUME Records
    PROVE  \A r \in Run :
             /\ at[r].step \in Steps
             /\ at[r].seen = <<>> \/ at[r].seen[1] \in Outcomes
             /\ at[r].i \in DOMAIN Rows
BY DEF Records, RunRec

-----------------------------------------------------------------------------
(* What every step keeps                                                   *)

\* What no step undoes.
Onward ==
    /\ stop.state # "none" => stop'.state # "none"
    /\ Clean =>
         /\ Clean'
         /\ \A p \in Project : /\ worker'[p] = "running" => worker[p] = "running"
                               /\ proc'[p] # "none" => proc[p] # "none"
    /\ merged \subseteq merged'
    /\ issue.closed => issue'.closed
    /\ stop.state # "none" /\ ~moved' =>
         /\ ~moved /\ merged' = merged
         /\ issue.labels = Target(merged) => issue'.labels = Target(merged)
         /\ issue.comments # <<>> => issue'.comments # <<>>

RunInv(r) == Safe(r) /\ Reads(r) /\ Agreed(r)

\* What holds of a run goes on to hold while the others work.
LEMMA KeepsRun ==
    ASSUME IInv, Onward, NEW q \in Run, at'[q] = at[q]
    PROVE  RunInv(q)'
<1>1. Safe(q)'
  <2>1. CASE at[q].step \in Swept
    <3>1. Clean /\ Clean'
      BY <2>1 DEF IInv, Safe, Onward
    <3>2. at[q].step # "archive"
      BY <2>1 DEF Swept, Remote, Judged, Labelling, Told
    <3>3. at[q].step = "mark" => \A p \in at[q].acc : proc'[p] = "none"
      <4>1. at[q].acc \subseteq Project
        BY RunType DEF IInv
      <4>2. \A p \in Project : proc'[p] # "none" => proc[p] # "none"
        BY <3>1 DEF Onward
      <4> QED
        BY <4>1, <4>2 DEF IInv, Safe
    <3>4. at[q].step \in Remote => Running' = {}
      BY <3>1 DEF IInv, Safe, Onward, Running
    <3> QED
      BY <3>1, <3>2, <3>3, <3>4 DEF Safe
  <2>2. CASE at[q].step \notin Swept
    BY <2>2 DEF IInv, Safe, Swept, Onward
  <2> QED
    BY <2>1, <2>2
<1>2. Reads(q)'
  BY DEF IInv, Reads, Onward, Passed, Result
<1>3. Agreed(q)'
  <2>1. CASE stop.state = "none"
    <3>1. at[q].step = "idle"
      BY <2>1 DEF IInv, Before, At
    <3> QED
      BY <3>1 DEF Agreed, Judged, Labelling, Told
  <2>2. CASE stop.state # "none"
    BY <2>2 DEF IInv, Agreed, Onward, Passed, Target, Result
  <2> QED
    BY <2>1, <2>2
<1> QED
  BY <1>1, <1>2, <1>3 DEF RunInv

\* A run that has not started, or has failed, owes nothing.
LEMMA RestsRun ==
    ASSUME NEW r \in Run, at'[r] \in {Idle, Broken}
    PROVE  RunInv(r)'
<1>1. at'[r].step \in {"idle", "broken"} /\ at'[r].base = {} /\ ~at'[r].closed
  BY IdleRec
<1> QED
  BY <1>1 DEF RunInv, Safe, Reads, Agreed, Local, Swept, Remote, Judged,
              Labelling, Told

LEMMA EndStays ==
    ASSUME IInv, Onward, UNCHANGED <<stop, terminal>>
    PROVE  AtTheEnd'
<1> SUFFICES ASSUME stop.state = "completed" PROVE AtTheEnd'
  BY DEF AtTheEnd
<1>1. Clean /\ Clean' /\ Running' = {}
  BY DEF IInv, AtTheEnd, Onward, Running
<1>2. ~moved' =>
        /\ terminal'[1].on = merged' /\ stop'.result = Result(merged')
        /\ issue'.labels = Target(merged') /\ issue'.comments # <<>>
        /\ Result(merged') = "cancelled" => issue'.closed
  <2> SUFFICES ASSUME ~moved' PROVE
        /\ terminal'[1].on = merged' /\ stop'.result = Result(merged')
        /\ issue'.labels = Target(merged') /\ issue'.comments # <<>>
        /\ Result(merged') = "cancelled" => issue'.closed
    OBVIOUS
  <2>1. ~moved /\ merged' = merged
    BY DEF Onward
  <2>2. /\ terminal[1].on = merged /\ stop.result = Result(merged)
        /\ issue.labels = Target(merged) /\ issue.comments # <<>>
        /\ Result(merged) = "cancelled" => issue.closed
    BY <2>1 DEF IInv, AtTheEnd
  <2> QED
    BY <2>1, <2>2 DEF Onward
<1> QED
  BY <1>1, <1>2 DEF AtTheEnd, Result, Target

\* The steps of one run, or of none: whoever moves is in order again, what it
\* has written is, and the rest stays.
LEMMA Goes ==
    ASSUME IInv, Onward, TypeOK', Records', Recorded', Adrift', Before',
           IssueAgrees', AtTheEnd', \A q \in Run : at'[q] = at[q] \/ RunInv(q)'
    PROVE  IInv'
BY KeepsRun DEF IInv, RunInv

\* Steps on the board of this machine.
BoardMoves ==
    /\ card' \in [Project -> {"none", "ready", "claimed", "running", "blocked",
                              "done", "archived"}]
    /\ worker' \in [Project -> {"none", "running", "completed", "ended"}]
    /\ proc' \in [Project -> {"none", "suspended", "alive"}]
    /\ tick' \in [step : {"free", "start", "record", "activate", "include"},
                  on : Outcomes]
    /\ owned' \subseteq Project /\ adrift' \subseteq Project
    /\ Recorded' /\ Adrift'
    /\ Clean =>
         /\ Clean'
         /\ \A p \in Project : /\ worker'[p] = "running" => worker[p] = "running"
                               /\ proc'[p] # "none" => proc[p] # "none"

LEMMA BoardStep ==
    ASSUME IInv, BoardMoves, UNCHANGED <<stopVars, remoteVars>>,
           faults' \in 0..MaxFaults, at' \in [Run -> RunRec],
           stop.state = "none" => at' = at,
           \A q \in Run : at'[q] = at[q] \/ RunInv(q)'
    PROVE  IInv'
<1>1. Onward
  BY DEF BoardMoves, Onward, stopVars, remoteVars
<1>2. Records'
  BY DEF IInv, Records, remoteVars, Payloads, Outcomes
<1>3. TypeOK'
  <2>1. \A r \in Run :
             /\ at'[r].step \in Steps
             /\ at'[r].seen = <<>> \/ at'[r].seen[1] \in Outcomes
             /\ at'[r].i \in DOMAIN Rows
    BY <1>2, RecordsType DEF Records, RunRec
  <2> QED
    BY <2>1 DEF IInv, TypeOK, BoardMoves, stopVars, remoteVars, Outcomes
<1>4. Recorded' /\ Adrift'
  BY DEF BoardMoves
<1>5. Before'
  BY DEF IInv, Before, At, stopVars, remoteVars
<1>6. IssueAgrees'
  BY DEF IInv, IssueAgrees, remoteVars, Fits, Result, Target
<1>7. AtTheEnd'
  BY <1>1, EndStays DEF stopVars
<1> QED
  BY <1>1, <1>2, <1>3, <1>4, <1>5, <1>6, <1>7, Goes

\* Steps in which a run only reads, or fails, and takes note.
LEMMA ThinkStep ==
    ASSUME IInv, UNCHANGED <<stopVars, localVars, remoteVars>>,
           faults' \in 0..MaxFaults, stop.state # "none", NEW r \in Run,
           at' \in [Run -> RunRec], RunInv(r)',
           \A q \in Run \ {r} : at'[q] = at[q]
    PROVE  IInv'
<1>1. BoardMoves
  BY DEF BoardMoves, IInv, TypeOK, Recorded, Unrecorded, Adrift, Clean,
         stopVars, localVars, Nobody
<1> QED
  BY <1>1, BoardStep

-----------------------------------------------------------------------------
(* The Task at work                                                        *)

LEMMA FaultType ==
    ASSUME TypeOK, NEW kind, Fault(kind)
    PROVE  faults' \in 0..MaxFaults
BY StopAssumption DEF TypeOK, Fault

\* A swept board has no tick under way and no card that starts one.
LEMMA DispatchStep ==
    ASSUME IInv, NEW p \in Project,
           CreateCard(p) \/ Claim(p) \/ Exit(p) \/ Settle(p)
    PROVE  IInv'
<1>1. TypeOK /\ Recorded /\ Adrift /\ faults' = faults /\ at' = at
      /\ UNCHANGED <<stopVars, worker, owned, adrift, remoteVars>>
  BY DEF IInv, CreateCard, Claim, Exit, Settle
<1>2. \A q \in Project : q # p => card'[q] = card[q] /\ proc'[q] = proc[q]
  BY <1>1 DEF TypeOK, CreateCard, Claim, Exit, Settle
<1>3. BoardMoves
  <2>1. CASE CreateCard(p)
    <3>1. p \notin tick.on \cup owned \cup adrift
      BY <1>1, <2>1 DEF CreateCard, Adrift
    <3>2. Recorded' /\ Adrift'
      BY <1>1, <1>2, <2>1, <3>1
      DEF CreateCard, TypeOK, Recorded, Unrecorded, Adrift, Outcomes
    <3> QED
      BY <1>1, <2>1, <3>2 DEF CreateCard, BoardMoves, TypeOK, Clean, Active
  <2>2. CASE Claim(p)
    <3>1. tick' \in [step : {"free", "start", "record", "activate", "include"},
                     on : Outcomes]
      BY <2>2 DEF Claim, Outcomes
    <3>2. ~Clean
      BY <2>2 DEF Claim, Clean
    <3>3. p \notin adrift /\ card'[p] = "claimed"
      BY <1>1, <2>2 DEF Claim, Adrift, TypeOK
    <3>4. Recorded' /\ Adrift'
      BY <1>1, <1>2, <2>2, <3>3
      DEF Claim, TypeOK, Recorded, Unrecorded, Adrift, Nobody
    <3> QED
      BY <1>1, <2>2, <3>1, <3>2, <3>4 DEF Claim, BoardMoves, TypeOK
  <2>3. CASE Exit(p)
    <3>1. proc'[p] = "none"
      BY <1>1, <2>3 DEF Exit, TypeOK
    <3>2. Recorded' /\ Adrift'
      BY <1>1, <1>2, <2>3, <3>1
      DEF Exit, TypeOK, Recorded, Unrecorded, Adrift, Outcomes
    <3> QED
      BY <1>1, <2>3, <3>2 DEF Exit, BoardMoves, TypeOK, Clean, stopVars
  <2>4. CASE Settle(p)
    <3>1. ~Clean
      BY <2>4 DEF Settle, Clean
    <3>2. card'[p] \notin {"none", "ready"}
      BY <1>1, <2>4 DEF Settle, TypeOK
    <3>3. Recorded' /\ Adrift'
      BY <1>1, <1>2, <2>4, <3>2
      DEF Settle, TypeOK, Recorded, Unrecorded, Adrift, Nobody
    <3> QED
      BY <1>1, <2>4, <3>1, <3>3 DEF Settle, BoardMoves, TypeOK
  <2> QED
    BY <2>1, <2>2, <2>3, <2>4
<1>4. at' \in [Run -> RunRec] /\ faults' \in 0..MaxFaults
  BY <1>1 DEF IInv, Records, TypeOK
<1> QED
  BY <1>1, <1>3, <1>4, BoardStep

\* A worker that is given up is gone, named by its row, or adrift; the last
\* only if its stop or its mark has failed.
LEMMA GivenUp ==
    ASSUME TypeOK, NEW p \in Project, StopFailed(p)
    PROVE  /\ proc' \in [Project -> {"none", "suspended", "alive"}]
           /\ worker' \in [Project -> {"none", "running", "completed", "ended"}]
           /\ adrift' \in {adrift, adrift \cup {p}}
           /\ faults' \in 0..MaxFaults
           /\ \A q \in Project \ {p} :
                  proc'[q] = proc[q] /\ worker'[q] = worker[q]
           /\ worker'[p] = "running" => worker[p] = "running"
           /\ proc'[p] # "none" =>
                  /\ proc'[p] = proc[p]
                  /\ worker'[p] = "running" \/ p \in adrift'
           /\ "unstopped" \notin Faults => adrift' = adrift
<1>1. PICK stopped \in BOOLEAN, marked \in BOOLEAN :
        /\ IF stopped /\ marked THEN UNCHANGED faults ELSE Fault("unstopped")
        /\ proc' = [proc EXCEPT ![p] = IF stopped THEN "none" ELSE @]
        /\ worker' = [worker EXCEPT ![p] = IF marked /\ @ = "running"
                                             THEN "ended" ELSE @]
        /\ adrift' = IF proc'[p] # "none" /\ worker'[p] # "running"
                       THEN adrift \cup {p} ELSE adrift
  BY DEF StopFailed
<1>2. faults' \in 0..MaxFaults
  BY <1>1, FaultType DEF TypeOK
<1>3. \A q \in Project :
         proc'[q] = IF q = p /\ stopped THEN "none" ELSE proc[q]
  BY <1>1 DEF TypeOK
<1>4. \A q \in Project :
        worker'[q] = IF q = p /\ marked /\ worker[q] = "running"
                       THEN "ended" ELSE worker[q]
  BY <1>1 DEF TypeOK
<1>5. /\ proc' \in [Project -> {"none", "suspended", "alive"}]
      /\ worker' \in [Project -> {"none", "running", "completed", "ended"}]
  BY <1>1 DEF TypeOK
<1>6. "unstopped" \notin Faults => stopped
  BY <1>1 DEF Fault
<1> QED
  BY <1>1, <1>2, <1>3, <1>4, <1>5, <1>6

\* The dispatcher looks after its workers between two ticks.
LEMMA FinishStep ==
    ASSUME IInv, NEW p \in Project, Finish(p) \/ WaitFails(p)
    PROVE  IInv'
<1>1. /\ TypeOK /\ Recorded /\ Adrift /\ at' = at /\ p \in owned
      /\ tick = Nobody /\ owned' = owned \ {p}
      /\ UNCHANGED <<stopVars, card, tick, remoteVars>>
  BY DEF IInv, Finish, WaitFails
<1>2. CASE StopFailed(p)
  <2>1. /\ adrift' \subseteq Project
        /\ \A q \in adrift' : q \in adrift \/ q = p
        /\ \A q \in Project : q \in adrift => q \in adrift'
    BY <1>1, <1>2, GivenUp DEF TypeOK
  <2>2. Recorded'
    BY <1>1, <1>2, <2>1, GivenUp DEF Recorded, Unrecorded, Nobody
  <2>3. Adrift'
    <3>1. \A q \in tick'.on \cup owned' \cup adrift' :
             card'[q] \notin {"none", "ready"}
      BY <1>1, <2>1 DEF Adrift
    <3>2. "unstopped" \notin Faults => \A q \in adrift' : proc'[q] # "alive"
      <4> SUFFICES ASSUME "unstopped" \notin Faults, NEW q \in adrift
                   PROVE  proc'[q] # "alive"
        BY <1>1, <1>2, GivenUp
      <4>1. proc[q] # "alive" /\ q \in Project
        BY <1>1 DEF Adrift, TypeOK
      <4> QED
        BY <1>1, <1>2, <4>1, GivenUp
    <3> QED
      BY <1>1, <3>1, <3>2 DEF Adrift, Nobody
  <2>4. \A q \in Project : /\ worker'[q] = "running" => worker[q] = "running"
                           /\ proc'[q] # "none" => proc[q] # "none"
    BY <1>1, <1>2, GivenUp
  <2>5. BoardMoves
    BY <1>1, <1>2, <2>1, <2>2, <2>3, <2>4, GivenUp
    DEF BoardMoves, TypeOK, Clean, stopVars
  <2>6. at' \in [Run -> RunRec] /\ faults' \in 0..MaxFaults
    BY <1>1, <1>2, GivenUp DEF IInv, Records
  <2> QED
    BY <1>1, <2>5, <2>6, BoardStep
<1>3. CASE /\ proc[p] = "none"
           /\ worker' = [worker EXCEPT ![p] = "completed"]
           /\ UNCHANGED <<proc, adrift, faults>>
  <2>1. /\ worker' \in [Project -> {"none", "running", "completed", "ended"}]
        /\ worker'[p] = "completed"
        /\ \A q \in Project \ {p} : worker'[q] = worker[q]
    BY <1>1, <1>3 DEF TypeOK
  <2>2. Recorded' /\ Adrift'
    BY <1>1, <1>3, <2>1 DEF Recorded, Unrecorded, Adrift, Nobody
  <2>3. BoardMoves
    BY <1>1, <1>3, <2>1, <2>2 DEF BoardMoves, TypeOK, Clean, stopVars
  <2>4. at' \in [Run -> RunRec] /\ faults' \in 0..MaxFaults
    BY <1>1, <1>3 DEF IInv, Records, TypeOK
  <2> QED
    BY <1>1, <2>3, <2>4, BoardStep
<1> QED
  BY <1>2, <1>3 DEF Finish, WaitFails

\* A tick that fails leaves the worker as _stop_failed does, and ends.
LEMMA TickFails ==
    ASSUME IInv, NEW p \in Project, tick.on = {p}, tick # Nobody,
           StopFailed(p), GiveUp(p), UNCHANGED owned
    PROVE  BoardMoves /\ faults' \in 0..MaxFaults
<1>1. TypeOK /\ Recorded /\ Adrift
  BY DEF IInv
<1>2. /\ card' \in [Project -> {"none", "ready", "claimed", "running",
                                "blocked", "done", "archived"}]
      /\ card'[p] = "blocked" /\ \A q \in Project \ {p} : card'[q] = card[q]
  BY <1>1 DEF GiveUp, TypeOK
<1>3. /\ adrift' \subseteq Project
      /\ \A q \in adrift' : q \in adrift \/ q = p
      /\ \A q \in Project : q \in adrift => q \in adrift'
  BY <1>1, GivenUp DEF TypeOK
<1>4. tick' = Nobody /\ ~Clean
  BY DEF GiveUp, Clean
<1>5. Recorded'
  BY <1>1, <1>3, <1>4, GivenUp DEF Recorded, Unrecorded, Nobody
<1>6. Adrift'
  <2>1. \A q \in tick'.on \cup owned' \cup adrift' :
           card'[q] \notin {"none", "ready"}
    BY <1>1, <1>2, <1>3, <1>4 DEF Adrift, Nobody, TypeOK
  <2>2. "unstopped" \notin Faults => \A q \in adrift' : proc'[q] # "alive"
    <3> SUFFICES ASSUME "unstopped" \notin Faults, NEW q \in adrift
                 PROVE  proc'[q] # "alive"
      BY <1>1, GivenUp
    <3>1. proc[q] # "alive" /\ q \in Project
      BY <1>1 DEF Adrift, TypeOK
    <3> QED
      BY <1>1, <3>1, GivenUp
  <2> QED
    BY <1>4, <2>1, <2>2 DEF Adrift, Nobody
<1>7. tick' \in [step : {"free", "start", "record", "activate", "include"},
                 on : Outcomes]
  BY <1>4 DEF Nobody, Outcomes
<1> QED
  BY <1>1, <1>2, <1>3, <1>4, <1>5, <1>6, <1>7, GivenUp DEF BoardMoves, TypeOK

\* The steps of a tick, from the claim to the recorded process.
LEMMA TickStep ==
    ASSUME IInv, NEW p \in Project,
           Start(p) \/ Record(p) \/ Activate(p) \/ Include(p)
    PROVE  IInv'
<1>1. TypeOK /\ Recorded /\ Adrift /\ at' = at
      /\ UNCHANGED <<stopVars, remoteVars>>
  BY DEF IInv, Start, Record, Activate, Include
<1>2. /\ ~Clean /\ tick # Nobody /\ tick.on = {p} /\ {p} \in Outcomes
      /\ p \notin adrift
  BY <1>1 DEF Clean, Nobody, Start, Record, Activate, Include, Outcomes, Adrift
<1>3. Nobody \in [step : {"free", "start", "record", "activate", "include"},
                  on : Outcomes]
  BY DEF Nobody, Outcomes
<1>4. CASE StopFailed(p) /\ GiveUp(p) /\ UNCHANGED owned
  <2>1. BoardMoves /\ faults' \in 0..MaxFaults
    BY <1>2, <1>4, TickFails
  <2> QED
    BY <1>1, <2>1, BoardStep DEF IInv, Records
<1>5. ASSUME ~(StopFailed(p) /\ GiveUp(p) /\ UNCHANGED owned)
      PROVE  IInv'
  <2>1. /\ card' \in [Project -> {"none", "ready", "claimed", "running",
                                  "blocked", "done", "archived"}]
        /\ card'[p] \notin {"none", "ready"}
        /\ \A q \in Project \ {p} : card'[q] = card[q]
    BY <1>1, <1>2, <1>5
    DEF TypeOK, GiveUp, Adrift, Start, Record, Activate, Include
  <2>2. worker' \in [Project -> {"none", "running", "completed", "ended"}]
        /\ \A q \in Project \ {p} : worker'[q] = worker[q]
    BY <1>1, <1>5 DEF TypeOK, Start, Record, Activate, Include
  <2>3. proc' \in [Project -> {"none", "suspended", "alive"}]
        /\ \A q \in Project \ {p} : proc'[q] = proc[q]
    BY <1>1, <1>5 DEF TypeOK, Start, Record, Activate, Include
  <2>4. tick' \in [step : {"free", "start", "record", "activate", "include"},
                   on : Outcomes]
    BY <1>1, <1>2, <1>3, <1>5
    DEF TypeOK, GiveUp, Start, Record, Activate, Include
  <2>5. owned' \subseteq Project /\ adrift' \subseteq Project
    BY <1>1, <1>5 DEF TypeOK, Start, Record, Activate, Include
  <2>6. faults' \in 0..MaxFaults
    <3>1. faults' = faults \/ Fault("unstopped")
      BY <1>5 DEF Start, Record, Activate, Include
    <3> QED
      BY <1>1, <3>1, FaultType DEF TypeOK
  <2>7. Recorded' /\ Adrift'
    <3>1. CASE Start(p)
      <4>1. CASE /\ proc' = [proc EXCEPT ![p] = "suspended"]
                 /\ tick' = [tick EXCEPT !.step = "record"]
                 /\ UNCHANGED <<card, adrift>>
        <5>1. tick'.step = "record" /\ tick'.on = {p} /\ proc'[p] = "suspended"
          BY <1>1, <1>2, <4>1 DEF TypeOK
        <5>2. UNCHANGED <<worker, owned>> /\ tick.step = "start"
          BY <3>1 DEF Start
        <5> QED
          BY <1>1, <1>2, <2>1, <2>3, <4>1, <5>1, <5>2
          DEF Recorded, Unrecorded, Adrift, TypeOK
      <4>2. CASE GiveUp(p) /\ UNCHANGED <<proc, adrift>>
        <5>1. UNCHANGED <<worker, owned>> /\ tick.step = "start"
          BY <3>1 DEF Start
        <5> QED
          BY <1>1, <1>2, <2>1, <4>2, <5>1
          DEF GiveUp, Recorded, Unrecorded, Adrift, Nobody, TypeOK
      <4>3. CASE /\ Fault("unstopped")
                 /\ proc' = [proc EXCEPT ![p] = "suspended"]
                 /\ adrift' = adrift \cup {p}
                 /\ GiveUp(p)
        <5>1. UNCHANGED <<worker, owned>> /\ tick.step = "start"
          BY <3>1 DEF Start
        <5>2. "unstopped" \in Faults /\ tick' = Nobody
          BY <4>3 DEF Fault, GiveUp
        <5>3. tick.step # "record" /\ tick'.step = "free" /\ tick'.on = {}
          BY <5>1, <5>2 DEF Nobody
        <5>4. Recorded'
          BY <1>1, <2>3, <4>3, <5>1, <5>3 DEF Recorded, Unrecorded
        <5>5. \A q \in owned \cup adrift \cup {p} :
                 card'[q] \notin {"none", "ready"}
          BY <1>1, <2>1 DEF Adrift, TypeOK
        <5> QED
          BY <4>3, <5>1, <5>2, <5>3, <5>4, <5>5 DEF Adrift
      <4> QED
        BY <3>1, <4>1, <4>2, <4>3 DEF Start
    <3>2. CASE Record(p)
      <4>1. /\ worker' = [worker EXCEPT ![p] = "running"]
            /\ tick' = [tick EXCEPT !.step = "activate"]
            /\ UNCHANGED <<card, proc, adrift, owned>>
        BY <1>5, <3>2 DEF Record
      <4>2. worker'[p] = "running" /\ tick'.step = "activate" /\ tick'.on = {p}
        BY <1>1, <1>2, <4>1 DEF TypeOK
      <4> QED
        BY <1>1, <1>2, <2>2, <4>1, <4>2
        DEF Recorded, Unrecorded, Adrift, TypeOK
    <3>3. CASE Activate(p)
      <4>1. /\ tick.step = "activate"
            /\ tick' = [tick EXCEPT !.step = "include"]
            /\ UNCHANGED <<card, worker, adrift, owned>>
        BY <1>5, <3>3 DEF Activate
      <4>2. worker[p] = "running" /\ tick'.step = "include" /\ tick'.on = {p}
        BY <1>1, <1>2, <4>1 DEF Recorded, TypeOK
      <4> QED
        BY <1>1, <1>2, <2>3, <4>1, <4>2
        DEF Recorded, Unrecorded, Adrift, TypeOK
    <3>4. CASE Include(p)
      <4>1. /\ tick.step = "include" /\ tick' = Nobody
            /\ owned' = owned \cup {p} /\ UNCHANGED <<worker, proc, adrift>>
        BY <1>5, <3>4 DEF Include
      <4>2. tick.step # "record" /\ tick'.step = "free" /\ tick'.on = {}
        BY <4>1 DEF Nobody
      <4>3. Recorded'
        BY <1>1, <4>1, <4>2 DEF Recorded, Unrecorded
      <4>4. \A q \in owned \cup adrift \cup {p} :
               card'[q] \notin {"none", "ready"}
        BY <1>1, <2>1 DEF Adrift, TypeOK
      <4> QED
        BY <1>1, <4>1, <4>2, <4>3, <4>4 DEF Adrift
    <3> QED
      BY <3>1, <3>2, <3>3, <3>4
  <2>8. BoardMoves
    BY <1>2, <2>1, <2>2, <2>3, <2>4, <2>5, <2>7 DEF BoardMoves
  <2> QED
    BY <1>1, <2>6, <2>8, BoardStep DEF IInv, Records
<1> QED
  BY <1>4, <1>5

\* The dispatcher dies: the worker it has not recorded is adrift.
LEMMA CrashStep ==
    ASSUME IInv, Crash
    PROVE  IInv'
<1>1. TypeOK /\ Recorded /\ Adrift /\ faults' \in 0..MaxFaults
  BY FaultType DEF IInv, Crash
<1>2. Nobody \in [step : {"free", "start", "record", "activate", "include"},
                  on : Outcomes]
  BY DEF Nobody, Outcomes
<1>3. /\ tick' = Nobody /\ owned' = {}
      /\ UNCHANGED <<stop, card, worker, proc>>
      /\ adrift' = IF tick.step = "record" THEN adrift \cup tick.on ELSE adrift
  BY DEF Crash, stopVars
<1>4. tick.on \subseteq Project
  BY <1>1 DEF TypeOK, Outcomes
<1>5. Recorded'
  BY <1>1, <1>3 DEF Recorded, Unrecorded, Nobody
<1>6. Adrift'
  BY <1>1, <1>3, <1>4 DEF Adrift, Nobody
<1>7. BoardMoves
  BY <1>1, <1>2, <1>3, <1>4, <1>5, <1>6 DEF BoardMoves, TypeOK, Clean
<1>8. at' = at /\ UNCHANGED <<stopVars, remoteVars>> /\ at' \in [Run -> RunRec]
  BY DEF IInv, Records, Crash
<1> QED
  BY <1>1, <1>7, <1>8, BoardStep

\* Somebody merges: before the stop nobody minds, and during it every claim
\* about the outcome is given up.
LEMMA MergeStep ==
    ASSUME IInv, NEW p \in Project, Merge(p)
    PROVE  IInv'
<1>1. /\ UNCHANGED <<stopVars, localVars, issue, wire, at, faults>>
      /\ merged \subseteq merged' /\ merged' \subseteq Project
      /\ moved' = (stop.state # "none")
  BY DEF Merge, IInv, TypeOK
<1>2. Onward
  BY <1>1 DEF Onward, Clean, stopVars, localVars
<1>3. Records'
  BY <1>1 DEF IInv, Records, Payloads, Outcomes
<1>4. TypeOK'
  BY <1>1 DEF IInv, TypeOK, stopVars, localVars, Outcomes
<1>5. Recorded' /\ Adrift'
  BY <1>1 DEF IInv, Recorded, Unrecorded, Adrift, localVars
<1>6. Before'
  BY <1>1 DEF IInv, Before, At, stopVars
<1>7. IssueAgrees'
  <2> SUFFICES ASSUME stop.state = "none" PROVE IssueAgrees'
    BY <1>1 DEF IssueAgrees
  <2>1. wire' = {} /\ issue'.comments = <<>> /\ ~issue'.closed
    BY <1>1 DEF IInv, Before
  <2> QED
    BY <2>1 DEF IssueAgrees
<1>8. AtTheEnd'
  BY <1>1, <1>2, EndStays DEF stopVars
<1> QED
  BY <1>1, <1>2, <1>3, <1>4, <1>5, <1>6, <1>7, <1>8, Goes

\* The merge worker ends an active Task; no run has started then.
LEMMA MergeWorkerStep ==
    ASSUME IInv, MergeWorkerEnds
    PROVE  IInv'
<1>1. /\ UNCHANGED <<stop, localVars, remoteVars, at, faults>>
      /\ stop.state = "none"
      /\ row' \in [Project -> {"working", "merged", "cancelled"}]
      /\ terminal' = <<[event |-> "merged", by |-> "merge", on |-> Project]>>
  BY DEF MergeWorkerEnds, Active
<1>2. Onward
  BY <1>1 DEF Onward, Clean, localVars, remoteVars
<1>3. Records'
  BY <1>1 DEF IInv, Records, Payloads, Outcomes, remoteVars
<1>4. TypeOK'
  <2>1. terminal' \in [{1} -> [event : Results, by : {"merge", "stop"},
                               on : Outcomes]]
    BY <1>1 DEF Results, Outcomes
  <2> QED
    BY <1>1, <2>1 DEF IInv, TypeOK, localVars, remoteVars
<1>5. Recorded' /\ Adrift'
  BY <1>1 DEF IInv, Recorded, Unrecorded, Adrift, localVars
<1>6. Before'
  BY <1>1 DEF IInv, Before, At, remoteVars
<1>7. IssueAgrees'
  BY <1>1 DEF IInv, IssueAgrees, remoteVars, Fits, Result, Target
<1>8. AtTheEnd'
  BY <1>1 DEF AtTheEnd
<1> QED
  BY <1>1, <1>2, <1>3, <1>4, <1>5, <1>6, <1>7, <1>8, Goes

\* The barrier goes up; from here on the board only loses workers.
LEMMA RequestStep ==
    ASSUME IInv, RequestStop
    PROVE  IInv'
<1>1. /\ UNCHANGED <<row, terminal, localVars, remoteVars, at, faults>>
      /\ stop.state = "none" /\ stop'.state = "stopping"
      /\ stop' \in [state : {"none", "stopping", "incomplete", "completed"},
                    result : Results]
  BY DEF RequestStop, Stoppable, IInv, TypeOK
<1>2. Onward
  BY <1>1 DEF Onward, Clean, remoteVars
<1>3. Records'
  BY <1>1 DEF IInv, Records, Payloads, Outcomes, remoteVars
<1>4. TypeOK'
  BY <1>1 DEF IInv, TypeOK, localVars, remoteVars, Outcomes
<1>5. Recorded' /\ Adrift'
  BY <1>1 DEF IInv, Recorded, Unrecorded, Adrift, localVars
<1>6. Before' /\ AtTheEnd'
  BY <1>1 DEF Before, AtTheEnd
<1>7. IssueAgrees'
  BY <1>1 DEF IInv, IssueAgrees, remoteVars, Fits, Result, Target
<1> QED
  BY <1>1, <1>2, <1>3, <1>4, <1>5, <1>6, <1>7, Goes

-----------------------------------------------------------------------------
(* A run of the reconciler: local work                                     *)

LEMMA Requested ==
    ASSUME IInv, NEW r \in Run, at[r].step # "idle"
    PROVE  stop.state # "none" /\ TypeOK /\ Records
BY DEF IInv, Before, At

\* A run gives up, is killed or only starts.
LEMMA RestStep ==
    ASSUME IInv, UNCHANGED <<stopVars, localVars, remoteVars>>,
           faults' \in 0..MaxFaults, stop.state # "none", NEW r \in Run,
           at' = [at EXCEPT ![r] = Idle] \/ at' = [at EXCEPT ![r] = Broken]
    PROVE  IInv'
<1>1. /\ at' \in [Run -> RunRec] /\ at'[r] \in {Idle, Broken}
      /\ \A q \in Run \ {r} : at'[q] = at[q]
  BY IdleRec, RunMoves DEF IInv
<1> QED
  BY <1>1, RestsRun, ThinkStep

LEMMA BreakStep ==
    ASSUME IInv, UNCHANGED <<stopVars, localVars, remoteVars>>,
           faults' \in 0..MaxFaults, NEW r \in Run, at[r].step # "idle",
           Move(r, "broken") \/ at' = [at EXCEPT ![r] = Broken]
    PROVE  IInv'
BY Requested, RestStep DEF Move

LEMMA ReconcileStep ==
    ASSUME IInv, NEW r \in Run, Reconcile(r), faults' \in 0..MaxFaults
    PROVE  IInv'
<1> DEFINE x == [Idle EXCEPT !.step = "round"]
<1>1. x \in RunRec /\ x.step = "round" /\ x.base = {} /\ ~x.closed
      /\ x.i = Idle.i /\ x.acc = Idle.acc
  BY IdleRec DEF RunRec, Steps
<1>2. x.i = 1 /\ x.acc = {}
  BY <1>1 DEF Idle
<1>3. at' = [at EXCEPT ![r] = x]
  BY DEF Reconcile
<1> HIDE DEF x
<1>4. /\ at' \in [Run -> RunRec] /\ at'[r] = x
      /\ \A q \in Run \ {r} : at'[q] = at[q]
  BY <1>1, <1>3, RunMoves DEF IInv
<1>5. RunInv(r)'
  BY <1>1, <1>2, <1>4 DEF RunInv, Safe, Reads, Agreed, Local, Swept, Remote,
                          Judged, Labelling, Told
<1>6. stop.state # "none" /\ UNCHANGED <<stopVars, localVars, remoteVars>>
  BY DEF Reconcile, MayClean
<1> QED
  BY <1>4, <1>5, <1>6, ThinkStep

LEMMA RoundStep ==
    ASSUME IInv, NEW r \in Run, Round(r)
    PROVE  IInv'
<1>1. /\ at[r].step = "round" /\ stop.state # "none" /\ TypeOK /\ Records
      /\ UNCHANGED <<stopVars, localVars, remoteVars>> /\ faults' \in 0..MaxFaults
  BY Requested DEF Round, At, TypeOK
<1>2. CASE ~MayClean
  <2>1. at' = [at EXCEPT ![r] = Broken]
    BY <1>2 DEF Round
  <2> QED
    BY <1>1, <2>1, RestStep
<1>3. CASE MayClean
  <2> DEFINE x == [at[r] EXCEPT !.step = "archive", !.ids = Running]
  <2>1. Running \subseteq Project
    BY DEF Running
  <2>2. x \in RunRec /\ x.step = "archive" /\ x.base = at[r].base
        /\ x.closed = at[r].closed /\ x.i = at[r].i /\ x.acc = at[r].acc
    BY <1>1, <2>1, RunType DEF RunRec, Steps, Outcomes
  <2>3. at' = [at EXCEPT ![r] = x]
    BY <1>1, <1>3 DEF Round, Records
  <2> HIDE DEF x
  <2>4. /\ at' \in [Run -> RunRec] /\ at'[r] = x
        /\ \A q \in Run \ {r} : at'[q] = at[q]
    BY <1>1, <2>2, <2>3, RunMoves
  <2>5. Reads(r)
    BY DEF IInv
  <2>6. Reads(r)'
    BY <1>1, <2>2, <2>4, <2>5
    DEF Reads, Local, Judged, Labelling, Told, remoteVars
  <2>7. Safe(r)' /\ Agreed(r)'
    BY <1>1, <2>2, <2>4 DEF Safe, Agreed, Swept, Remote, Judged, Labelling,
                            Told, stopVars
  <2> QED
    BY <1>1, <2>4, <2>6, <2>7, ThinkStep DEF RunInv
<1> QED
  BY <1>2, <1>3

\* The archive sweeps the board.
LEMMA ArchiveStep ==
    ASSUME IInv, NEW r \in Run, Archive(r)
    PROVE  IInv'
<1>1. /\ at[r].step = "archive" /\ stop.state # "none" /\ TypeOK /\ Records
      /\ UNCHANGED <<stopVars, worker, proc, tick, owned, adrift, remoteVars>>
      /\ faults' \in 0..MaxFaults /\ tick = Nobody
  BY Requested DEF Archive, At, TypeOK
<1>2. CASE card' = card /\ Move(r, "broken")
  BY <1>1, <1>2, BreakStep DEF localVars
<1>3. CASE card' = [p \in Project |-> IF card[p] \in {"none", "done"}
                                        THEN card[p] ELSE "archived"]
           /\ (Move(r, "kill") \/ Move(r, "broken"))
  <2>1. Clean'
    BY <1>1, <1>3 DEF Clean, stopVars
  <2>2. card' \in [Project -> {"none", "ready", "claimed", "running", "blocked",
                               "done", "archived"}]
    BY <1>3
  <2>3. BoardMoves
    <3>1. Recorded' /\ Adrift'
      BY <1>1, <1>3 DEF IInv, TypeOK, Recorded, Unrecorded, Adrift, Nobody
    <3> QED
      BY <1>1, <2>1, <2>2, <3>1 DEF BoardMoves, TypeOK
  <2>4. ASSUME Move(r, "broken") PROVE IInv'
    BY <1>1, <2>3, <2>4, Breaks, RestsRun, BoardStep
  <2>5. ASSUME Move(r, "kill") PROVE IInv'
    <3>1. /\ at' \in [Run -> RunRec] /\ at'[r] = [at[r] EXCEPT !.step = "kill"]
          /\ \A q \in Run \ {r} : at'[q] = at[q]
      BY <1>1, <2>5, Transition DEF Steps
    <3>2. /\ at'[r].step = "kill" /\ at'[r].base = at[r].base
          /\ at'[r].closed = at[r].closed /\ at'[r].i = at[r].i
          /\ at'[r].acc = at[r].acc
      BY <1>1, <3>1, RunType DEF RunRec
    <3>3. Reads(r)
      BY DEF IInv
    <3>4. Reads(r)'
      BY <1>1, <3>2, <3>3
      DEF Reads, Local, Judged, Labelling, Told, remoteVars
    <3>5. Safe(r)' /\ Agreed(r)'
      BY <2>1, <3>2 DEF Safe, Agreed, Swept, Remote, Judged, Labelling, Told
    <3> QED
      BY <1>1, <2>3, <3>1, <3>4, <3>5, BoardStep DEF RunInv
  <2> QED
    BY <1>3, <2>4, <2>5
<1> QED
  BY <1>2, <1>3 DEF Archive

LEMMA KillStep ==
    ASSUME IInv, NEW r \in Run, Kill(r)
    PROVE  IInv'
<1>1. /\ at[r].step = "kill" /\ stop.state # "none" /\ TypeOK /\ Records
      /\ UNCHANGED <<stopVars, card, worker, tick, owned, adrift, remoteVars>>
      /\ faults' \in 0..MaxFaults
  <2>1. faults' = faults \/ Fault("unstopped")
    BY DEF Kill
  <2> QED
    BY <2>1, Requested, FaultType DEF Kill, At, TypeOK
<1>2. Clean /\ Reads(r) /\ Recorded /\ Adrift
  BY <1>1 DEF IInv, Safe, Swept
<1>3. CASE Move(r, "recheck") /\ UNCHANGED proc
  <2>1. /\ at' \in [Run -> RunRec] /\ at'[r] = [at[r] EXCEPT !.step = "recheck"]
        /\ \A q \in Run \ {r} : at'[q] = at[q]
    BY <1>1, <1>3, Transition DEF Steps
  <2>2. /\ at'[r].step = "recheck" /\ at'[r].base = at[r].base
        /\ at'[r].closed = at[r].closed /\ at'[r].i = at[r].i
        /\ at'[r].acc = at[r].acc
    BY <1>1, <2>1, RunType DEF RunRec
  <2>3. Reads(r)'
    BY <1>1, <1>2, <2>2 DEF Reads, Local, Judged, Labelling, Told, remoteVars
  <2>4. Safe(r)' /\ Agreed(r)'
    BY <1>1, <1>2, <2>2 DEF Safe, Agreed, Swept, Remote, Judged, Labelling,
                            Told, Clean, stopVars
  <2> QED
    BY <1>1, <1>3, <2>1, <2>3, <2>4, ThinkStep DEF RunInv, localVars
<1>4. ASSUME NEW p \in at[r].ids, proc' = [proc EXCEPT ![p] = "none"],
             at' = [at EXCEPT ![r].step = "mark", ![r].acc = {p}]
      PROVE  IInv'
  <2>1. p \in Project
    BY <1>1, <1>4, RunType
  <2> DEFINE x == [at[r] EXCEPT !.step = "mark", !.acc = {p}]
  <2>2. x \in RunRec /\ x.step = "mark" /\ x.base = at[r].base
        /\ x.closed = at[r].closed /\ x.i = at[r].i /\ x.acc = {p}
    BY <1>1, <2>1, RunType DEF RunRec, Steps, Outcomes
  <2>3. at' = [at EXCEPT ![r] = x]
    BY <1>1, <1>4 DEF Records
  <2> HIDE DEF x
  <2>4. /\ at' \in [Run -> RunRec] /\ at'[r] = x
        /\ \A q \in Run \ {r} : at'[q] = at[q]
    BY <1>1, <2>2, <2>3, RunMoves
  <2>5. Reads(r)'
    BY <1>1, <1>2, <2>2, <2>4 DEF Reads, Local, Judged, Labelling, Told,
                                  remoteVars
  <2>6. proc' \in [Project -> {"none", "suspended", "alive"}]
        /\ proc'[p] = "none"
        /\ \A q \in Project : q # p => proc'[q] = proc[q]
    BY <1>1, <1>4, <2>1 DEF TypeOK
  <2>7. Safe(r)' /\ Agreed(r)'
    BY <1>1, <1>2, <2>2, <2>4, <2>6 DEF Safe, Agreed, Swept, Remote, Judged,
                                        Labelling, Told, Clean, stopVars
  <2>8. BoardMoves
    <3>1. Recorded'
      BY <1>1, <1>2, <2>6 DEF Recorded, Unrecorded
    <3>2. /\ tick.step = "record" => \A q \in tick.on : proc'[q] # "alive"
          /\ "unstopped" \notin Faults => \A q \in adrift : proc'[q] # "alive"
      <4>1. tick.on \subseteq Project /\ adrift \subseteq Project
        BY <1>1 DEF TypeOK, Outcomes
      <4> QED
        BY <1>2, <2>6, <4>1 DEF Adrift
    <3>3. Adrift'
      BY <1>1, <1>2, <3>2 DEF Adrift
    <3> QED
      BY <1>1, <1>2, <2>6, <3>1, <3>3 DEF BoardMoves, TypeOK, Clean, stopVars
  <2> QED
    BY <1>1, <2>4, <2>5, <2>7, <2>8, BoardStep DEF RunInv
<1>5. CASE Move(r, "broken") /\ UNCHANGED proc
  BY <1>1, <1>5, BreakStep DEF localVars
<1> QED
  BY <1>3, <1>4, <1>5 DEF Kill

\* A run is only marked whose processes are gone.
LEMMA MarkStep ==
    ASSUME IInv, NEW r \in Run, MarkStopped(r)
    PROVE  IInv'
<1>1. /\ at[r].step = "mark" /\ stop.state # "none" /\ TypeOK /\ Records
      /\ UNCHANGED <<stopVars, card, proc, tick, owned, adrift, remoteVars>>
      /\ faults' \in 0..MaxFaults
  BY Requested DEF MarkStopped, At, TypeOK
<1>2. /\ Clean /\ Reads(r) /\ Recorded /\ Adrift
      /\ \A p \in at[r].acc : proc[p] = "none"
  BY <1>1 DEF IInv, Safe, Swept
<1>3. CASE Move(r, "broken") /\ UNCHANGED worker
  BY <1>1, <1>3, BreakStep DEF localVars
<1>4. CASE /\ worker' = [p \in Project |->
                IF p \in at[r].acc /\ worker[p] = "running"
                  THEN "ended" ELSE worker[p]]
           /\ at' = [at EXCEPT ![r].step = "kill",
                               ![r].ids = @ \ at[r].acc, ![r].acc = {}]
  <2> DEFINE x == [at[r] EXCEPT !.step = "kill", !.ids = at[r].ids \ at[r].acc,
                                !.acc = {}]
  <2>2. x \in RunRec /\ x.step = "kill" /\ x.base = at[r].base
        /\ x.closed = at[r].closed /\ x.i = at[r].i /\ x.acc = {}
    BY <1>1, RunType DEF RunRec, Steps, Outcomes
  <2>3. at' = [at EXCEPT ![r] = x]
    BY <1>1, <1>4 DEF Records
  <2> HIDE DEF x
  <2>4. /\ at' \in [Run -> RunRec] /\ at'[r] = x
        /\ \A q \in Run \ {r} : at'[q] = at[q]
    BY <1>1, <2>2, <2>3, RunMoves
  <2>5. Reads(r)'
    BY <1>1, <1>2, <2>2, <2>4 DEF Reads, Local, Judged, Labelling, Told,
                                  remoteVars
  <2>6. worker' \in [Project -> {"none", "running", "completed", "ended"}]
        /\ \A q \in Project : /\ worker'[q] = "running" => worker[q] = "running"
                              /\ q \notin at[r].acc => worker'[q] = worker[q]
    BY <1>1, <1>4 DEF TypeOK
  <2>7. Safe(r)' /\ Agreed(r)'
    BY <1>1, <1>2, <2>2, <2>4 DEF Safe, Agreed, Swept, Remote, Judged,
                                  Labelling, Told, Clean, stopVars
  <2>8. BoardMoves
    <3>1. Recorded' /\ Adrift'
      BY <1>1, <1>2, <2>6 DEF Recorded, Unrecorded, Adrift, Clean, Nobody
    <3> QED
      BY <1>1, <1>2, <2>6, <3>1 DEF BoardMoves, TypeOK, Clean, stopVars
  <2> QED
    BY <1>1, <2>4, <2>5, <2>7, <2>8, BoardStep DEF RunInv
<1> QED
  BY <1>3, <1>4 DEF MarkStopped

LEMMA RecheckStep ==
    ASSUME IInv, NEW r \in Run, Recheck(r)
    PROVE  IInv'
<1>1. /\ at[r].step = "recheck" /\ stop.state # "none" /\ TypeOK /\ Records
      /\ UNCHANGED <<stopVars, localVars, remoteVars>> /\ faults' \in 0..MaxFaults
  BY Requested DEF Recheck, At, TypeOK
<1>2. Clean /\ Reads(r)
  BY <1>1 DEF IInv, Safe, Swept
<1>3. ASSUME NEW step \in {"read", "round"}, NEW tries \in Nat,
             step = "read" => Running = {},
             at' = [at EXCEPT ![r].step = step, ![r].tries = tries]
      PROVE  IInv'
  <2> DEFINE x == [at[r] EXCEPT !.step = step, !.tries = tries]
  <2>1. step \in Steps
    BY DEF Steps
  <2>2. x \in RunRec /\ x.step = step /\ x.base = at[r].base
        /\ x.closed = at[r].closed /\ x.i = at[r].i /\ x.acc = at[r].acc
    BY <1>1, <2>1, RunType DEF RunRec
  <2>3. at' = [at EXCEPT ![r] = x]
    BY <1>1, <1>3 DEF Records
  <2> HIDE DEF x
  <2>4. /\ at' \in [Run -> RunRec] /\ at'[r] = x
        /\ \A q \in Run \ {r} : at'[q] = at[q]
    BY <1>1, <2>2, <2>3, RunMoves
  <2>5. x.i = 1 /\ x.acc = {}
    BY <1>1, <1>2, <2>2 DEF Reads, Local
  <2>6. Reads(r)'
    BY <1>1, <1>2, <2>2, <2>4, <2>5 DEF Reads, Local, Judged, Labelling, Told,
                                        remoteVars
  <2>7. Safe(r)'
    BY <1>1, <1>2, <1>3, <2>2, <2>4
    DEF Safe, Swept, Remote, Judged, Labelling, Told, Clean, Running, stopVars,
        localVars
  <2>8. Agreed(r)'
    BY <2>2, <2>4, <2>5, PassedFacts DEF Agreed, Judged, Labelling, Told
  <2> QED
    BY <1>1, <2>4, <2>6, <2>7, <2>8, ThinkStep DEF RunInv
<1>4. CASE Running = {}
  <2>1. at' = [at EXCEPT ![r].step = "read", ![r].tries = 1]
    BY <1>4 DEF Recheck
  <2> QED
    BY <1>3, <1>4, <2>1
<1>5. CASE Running # {} /\ at[r].tries < Rounds
  <2>1. at' = [at EXCEPT ![r].step = "round", ![r].tries = at[r].tries + 1]
    BY <1>1, <1>5 DEF Recheck, Records
  <2>2. at[r].tries + 1 \in Nat
    BY <1>1, RunType
  <2> QED
    BY <1>3, <2>1, <2>2
<1>6. CASE Running # {} /\ ~(at[r].tries < Rounds)
  <2>1. at' = [at EXCEPT ![r] = Broken]
    BY <1>6 DEF Recheck
  <2> QED
    BY <1>1, <2>1, RestStep
<1> QED
  BY <1>4, <1>5, <1>6

-----------------------------------------------------------------------------
(* A run of the reconciler: GitHub                                         *)

\* A run that knows an outcome goes on to the next step of its cleanup.
LEMMA JudgedRun ==
    ASSUME IInv, NEW r \in Run, at[r].step \in Judged \ {"verify", "finish"},
           UNCHANGED <<stopVars, localVars, merged, moved>>,
           NEW x \in RunRec, at'[r] = x, x.step \in Judged \ {"finish"},
           x.i = at[r].i, x.acc = at[r].acc, x.out = at[r].out,
           x.base \subseteq merged, x.closed => issue'.closed,
           x.step \in {"resolve", "close", "closed"} => Result(x.out) = "cancelled",
           ~moved /\ x.step \in Labelling => issue'.labels = Target(merged),
           ~moved /\ x.step \in Told => issue'.comments # <<>>
    PROVE  RunInv(r)'
<1>1. Clean /\ Running = {}
  BY DEF IInv, Safe, Swept, Remote
<1>2. x.i = 1 /\ x.acc = {}
  BY DEF IInv, Reads
<1>3. Safe(r)'
  BY <1>1 DEF Safe, Swept, Remote, Judged, Labelling, Told, Clean, Running,
              stopVars, localVars
<1>4. Reads(r)'
  <2>1. x.step \notin Local /\ Passed(x.i) = {}
    BY <1>2, PassedFacts DEF Local, Judged, Labelling, Told
  <2>2. at'[r].step = "verify" => at'[r].acc \subseteq merged'
            /\ at'[r].base \cap Passed(at'[r].i) \subseteq at'[r].acc
    BY <1>2, <2>1
  <2>3. at'[r].step \in {"resolve", "close", "closed"} =>
            Result(at'[r].out) = "cancelled"
    OBVIOUS
  <2> QED
    BY <1>2, <2>1, <2>2, <2>3 DEF Reads, Passed, Result
<1>5. Agreed(r)'
  <2> SUFFICES ASSUME ~moved PROVE
        /\ x.step \in {"read", "verify"} => x.acc = merged \cap Passed(x.i)
        /\ x.out = merged
        /\ x.step \in Labelling => issue'.labels = Target(merged)
        /\ x.step \in Told => issue'.comments # <<>>
    BY DEF Agreed, Passed, Target, Result
  <2>1. x.out = merged
    BY DEF IInv, Agreed
  <2>2. Passed(x.i) = {}
    BY <1>2, PassedFacts
  <2> QED
    BY <1>2, <2>1, <2>2
<1> QED
  BY <1>3, <1>4, <1>5 DEF RunInv

LEMMA JudgedStep ==
    ASSUME IInv, NEW r \in Run, at[r].step \in Judged \ {"verify", "finish"},
           UNCHANGED <<stopVars, localVars, remoteVars, faults>>,
           NEW x \in RunRec, at' = [at EXCEPT ![r] = x],
           x.step \in Judged \ {"finish"},
           x.i = at[r].i, x.acc = at[r].acc, x.out = at[r].out,
           x.base \subseteq merged, x.closed => issue.closed,
           x.step \in {"resolve", "close", "closed"} => Result(x.out) = "cancelled",
           ~moved /\ x.step \in Labelling => issue.labels = Target(merged),
           ~moved /\ x.step \in Told => issue.comments # <<>>
    PROVE  IInv'
<1>1. /\ at[r].step # "idle" /\ at' \in [Run -> RunRec] /\ at'[r] = x
      /\ \A q \in Run \ {r} : at'[q] = at[q]
  BY RunMoves DEF IInv, Judged, Labelling, Told
<1>2. RunInv(r)'
  BY <1>1, JudgedRun DEF remoteVars
<1>3. stop.state # "none" /\ faults' \in 0..MaxFaults
  BY <1>1, Requested DEF TypeOK
<1> QED
  BY <1>1, <1>2, <1>3, ThinkStep

\* ... and is only the step further.
LEMMA OnwardStep ==
    ASSUME IInv, NEW r \in Run, at[r].step \in Judged \ {"verify", "finish"},
           UNCHANGED <<stopVars, localVars, remoteVars, faults>>,
           NEW step \in Judged \ {"finish"}, Move(r, step),
           step \in {"resolve", "close", "closed"} => Result(at[r].out) = "cancelled",
           ~moved /\ step \in Labelling => issue.labels = Target(merged),
           ~moved /\ step \in Told => issue.comments # <<>>
    PROVE  IInv'
<1> DEFINE x == [at[r] EXCEPT !.step = step]
<1>1. step \in Steps \ {"broken"}
  BY DEF Judged, Labelling, Told, Steps, Writes
<1>2. x \in RunRec /\ x.step = step /\ x.i = at[r].i /\ x.acc = at[r].acc
      /\ x.out = at[r].out /\ x.base = at[r].base /\ x.closed = at[r].closed
  BY <1>1, RunType DEF IInv, RunRec
<1>3. at' = [at EXCEPT ![r] = x]
  BY <1>1 DEF Move, IInv, Records
<1> HIDE DEF x
<1>4. x.base \subseteq merged /\ (x.closed => issue.closed)
  BY <1>2 DEF IInv, Reads
<1> QED
  BY <1>2, <1>3, <1>4, JudgedStep

LEMMA LabelStepType ==
    ASSUME NEW labels, NEW M
    PROVE  LabelStep(labels, M) \in {"drop", "add", "labelled"}
BY DEF LabelStep

LEMMA StatusStep ==
    ASSUME IInv, NEW r \in Run, Status(r)
    PROVE  IInv'
<1>1. /\ at[r].step = "status" /\ stop.state # "none" /\ TypeOK /\ Records
      /\ UNCHANGED <<stopVars, localVars, remoteVars, faults>>
      /\ faults' \in 0..MaxFaults
  BY Requested DEF Status, At, TypeOK
<1>2. CASE Move(r, "broken")
  BY <1>1, <1>2, BreakStep
<1>3. CASE at' = [at EXCEPT ![r].step = LabelStep(issue.labels, at[r].out),
                            ![r].labels = issue.labels]
  <2> DEFINE step == LabelStep(issue.labels, at[r].out)
             x == [at[r] EXCEPT !.step = step, !.labels = issue.labels]
  <2>1. step \in {"drop", "add", "labelled"} /\ issue.labels \in SUBSET Labels
    BY <1>1, LabelStepType DEF Records
  <2>2. at' = [at EXCEPT ![r] = x]
    BY <1>1, <1>3 DEF Records
  <2> HIDE DEF step
  <2>3. x \in RunRec /\ x.step = step /\ x.i = at[r].i /\ x.acc = at[r].acc
        /\ x.out = at[r].out /\ x.base = at[r].base /\ x.closed = at[r].closed
    BY <1>1, <2>1, RunType DEF RunRec, Steps, Writes
  <2> HIDE DEF x
  <2>4. x.base \subseteq merged /\ (x.closed => issue.closed)
    BY <2>3 DEF IInv, Reads
  <2>5. /\ at[r].step \in Judged \ {"verify", "finish"}
        /\ step \in Judged \ {"finish"} /\ step \notin Labelling
        /\ step \notin Told /\ step \notin {"resolve", "close", "closed"}
    BY <1>1, <2>1 DEF Judged, Labelling, Told
  <2> QED
    BY <1>1, <2>2, <2>3, <2>4, <2>5, JudgedStep
<1> QED
  BY <1>2, <1>3 DEF Status

LEMMA LabelledStep ==
    ASSUME IInv, NEW r \in Run, Labelled(r)
    PROVE  IInv'
<1>1. /\ at[r].step = "labelled" /\ stop.state # "none" /\ TypeOK /\ Records
      /\ UNCHANGED <<stopVars, localVars, remoteVars, faults>>
      /\ faults' \in 0..MaxFaults
  BY Requested DEF Labelled, At, TypeOK
<1>2. CASE issue.labels # Target(at[r].out)
  <2>1. at' = [at EXCEPT ![r] = Broken]
    BY <1>2 DEF Labelled
  <2> QED
    BY <1>1, <2>1, RestStep
<1>3. CASE issue.labels = Target(at[r].out)
  <2> DEFINE x == [at[r] EXCEPT !.step = "comment", !.closed = issue.closed,
                                !.labels = issue.labels, !.base = merged]
  <2>1. at' = [at EXCEPT ![r] = x]
    BY <1>1, <1>3 DEF Labelled, Records
  <2>0. issue.closed \in BOOLEAN /\ issue.labels \in SUBSET Labels
        /\ merged \in Outcomes
    BY <1>1 DEF Records, TypeOK, Outcomes
  <2>2. x \in RunRec /\ x.step = "comment" /\ x.i = at[r].i /\ x.acc = at[r].acc
        /\ x.out = at[r].out /\ x.base = merged /\ x.closed = issue.closed
    BY <1>1, <2>0, RunType DEF RunRec, Steps
  <2> HIDE DEF x
  <2>3. at[r].step \in Judged \ {"verify", "finish"} /\ "comment" \in Judged
        /\ "comment" \notin Told
    BY <1>1 DEF Judged, Labelling, Told
  <2>4. ~moved => issue.labels = Target(merged)
    BY <1>3, <2>3 DEF IInv, Agreed
  <2> QED
    BY <1>1, <2>1, <2>2, <2>3, <2>4, JudgedStep
<1> QED
  BY <1>2, <1>3

LEMMA CommentedType ==
    ASSUME NEW r \in Run
    PROVE  /\ Commented(r) \in {"resolve", "verify"}
           /\ Commented(r) = "resolve" => Result(at[r].out) = "cancelled"
BY DEF Commented

LEMMA CommentStep ==
    ASSUME IInv, NEW r \in Run, Comment(r) \/ Noted(r)
    PROVE  IInv'
<1>1. /\ at[r].step \in {"comment", "noted"} /\ stop.state # "none"
      /\ TypeOK /\ Records
      /\ UNCHANGED <<stopVars, localVars, remoteVars, faults>>
      /\ faults' \in 0..MaxFaults
  BY Requested DEF Comment, Noted, At, TypeOK
<1>2. at[r].step \in Labelling \ Told /\ at[r].step \in Judged
  BY <1>1 DEF Judged, Labelling, Told
<1>3. ~moved => issue.labels = Target(merged)
  BY <1>2 DEF IInv, Agreed
<1>4. CASE Move(r, "broken")
  BY <1>1, <1>4, BreakStep
<1>5. ASSUME NEW step \in {"post", "patch"}, Move(r, step)
      PROVE  IInv'
  <2>1. step \in Judged \ {"finish"} /\ step \notin Told
    BY DEF Judged, Labelling, Told
  <2>2. at[r].step \notin {"verify", "finish"}
    BY <1>1
  <2> QED
    BY <1>1, <1>2, <1>3, <1>5, <2>1, <2>2, OnwardStep
<1>6. CASE issue.comments = <<at[r].out>> /\ Move(r, Commented(r))
  <2>1. Commented(r) \in Judged \ {"finish"} /\ issue.comments # <<>>
    BY <1>6, CommentedType DEF Judged, Labelling, Told
  <2>2. at[r].step \notin {"verify", "finish"}
    BY <1>1
  <2>3. Commented(r) \in {"resolve", "close", "closed"} =>
            Result(at[r].out) = "cancelled"
    BY CommentedType
  <2> QED
    BY <1>1, <1>2, <1>3, <1>6, <2>1, <2>2, <2>3, OnwardStep
<1> QED
  BY <1>4, <1>5, <1>6 DEF Comment, Noted

\* Closing the issue of a cancelled Task, before and after the request.
LEMMA ResolveStep ==
    ASSUME IInv, NEW r \in Run, Resolve(r) \/ Closed(r)
    PROVE  IInv'
<1>1. /\ at[r].step \in {"resolve", "closed"} /\ stop.state # "none"
      /\ TypeOK /\ Records
      /\ UNCHANGED <<stopVars, localVars, remoteVars, faults>>
      /\ faults' \in 0..MaxFaults
  BY Requested DEF Resolve, Closed, At, TypeOK
<1>2. at[r].step \in Told \ {"verify", "finish"} /\ at[r].step \in Labelling
      /\ at[r].step \in Judged
  BY <1>1 DEF Judged, Labelling, Told
<1>3. (~moved => issue.labels = Target(merged) /\ issue.comments # <<>>)
      /\ Result(at[r].out) = "cancelled" /\ at[r].base \subseteq merged
  BY <1>1, <1>2 DEF IInv, Agreed, Reads
<1>4. CASE at' = [at EXCEPT ![r] = Broken]
  BY <1>1, <1>4, RestStep
<1>5. ASSUME NEW x \in RunRec, at' = [at EXCEPT ![r] = x],
             x.step \in {"verify", "close"}, x.i = at[r].i, x.acc = at[r].acc,
             x.out = at[r].out, x.base = at[r].base, x.closed => issue.closed
      PROVE  IInv'
  <2>1. x.step \in Judged \ {"finish"}
    BY <1>5 DEF Judged, Labelling, Told
  <2> QED
    BY <1>1, <1>2, <1>3, <1>5, <2>1, JudgedStep
<1>6. CASE issue.closed /\ at' = [at EXCEPT ![r].step = "verify",
                                            ![r].closed = TRUE,
                                            ![r].labels = issue.labels]
  <2> DEFINE x == [at[r] EXCEPT !.step = "verify", !.closed = TRUE,
                                !.labels = issue.labels]
  <2>1. at' = [at EXCEPT ![r] = x]
    BY <1>1, <1>6 DEF Records
  <2>2. x \in RunRec /\ x.step = "verify" /\ x.i = at[r].i /\ x.acc = at[r].acc
        /\ x.out = at[r].out /\ x.base = at[r].base
    BY ZenonT(60), <1>1, RunType DEF RunRec, Steps, Records
  <2> HIDE DEF x
  <2> QED
    BY <1>5, <1>6, <2>1, <2>2
<1>7. CASE ~issue.closed /\ at' = [at EXCEPT ![r].step = "close"]
  <2> DEFINE x == [at[r] EXCEPT !.step = "close"]
  <2>1. at' = [at EXCEPT ![r] = x]
    BY <1>1, <1>7 DEF Records
  <2>2. x \in RunRec /\ x.step = "close" /\ x.i = at[r].i /\ x.acc = at[r].acc
        /\ x.out = at[r].out /\ x.base = at[r].base /\ x.closed = at[r].closed
    BY <1>1, RunType DEF RunRec, Steps, Writes
  <2>3. at[r].closed => issue.closed
    BY DEF IInv, Reads
  <2> HIDE DEF x
  <2> QED
    BY <1>5, <2>1, <2>2, <2>3
<1>8. CASE Resolve(r)
  BY <1>4, <1>6, <1>7, <1>8 DEF Resolve
<1>9. CASE Closed(r)
  BY <1>4, <1>6, <1>9 DEF Closed
<1> QED
  BY <1>8, <1>9

LEMMA SeenFacts ==
    ASSUME IInv, NEW r \in Run, at[r].step \in {"read", "verify"}
    PROVE  /\ Seen(r) \in Outcomes
           /\ ~Last(r) => at[r].i + 1 \in DOMAIN Rows
                          /\ Passed(at[r].i + 1) = Passed(at[r].i) \cup {Rows[at[r].i]}
           /\ Last(r) => Project = Passed(at[r].i) \cup {Rows[at[r].i]}
           /\ ~moved /\ ~Last(r) => Seen(r) = merged \cap Passed(at[r].i + 1)
           /\ ~moved /\ Last(r) => Seen(r) = merged
<1>1. at[r].i \in DOMAIN Rows /\ at[r].acc \subseteq Project /\ merged \subseteq Project
  BY RunType DEF IInv, TypeOK
<1>2. Seen(r) \in Outcomes
  BY <1>1 DEF Seen, Outcomes
<1>3. Passed(at[r].i + 1) = Passed(at[r].i) \cup {Rows[at[r].i]}
  BY <1>1, PassedFacts
<1>4. ~Last(r) => at[r].i + 1 \in DOMAIN Rows
  BY <1>1, RowsFacts DEF Last
<1>5. Last(r) => Project = Passed(at[r].i) \cup {Rows[at[r].i]}
  BY PassedFacts DEF Last
<1>6. ~moved => at[r].acc = merged \cap Passed(at[r].i)
  BY DEF IInv, Agreed
<1> QED
  BY <1>1, <1>2, <1>3, <1>4, <1>5, <1>6 DEF Seen

LEMMA NextStep ==
    ASSUME IInv, NEW r \in Run, at[r].step \in {"read", "verify"}, ~Last(r),
           UNCHANGED <<stopVars, localVars, remoteVars, faults>>,
           at' = [at EXCEPT ![r] = NextProject(r)]
    PROVE  IInv'
<1> DEFINE x == NextProject(r)
<1>1. /\ stop.state # "none" /\ TypeOK /\ Records /\ faults' \in 0..MaxFaults
  BY Requested DEF TypeOK
<1>2. x \in RunRec /\ x.step = at[r].step /\ x.i = at[r].i + 1 /\ x.acc = Seen(r)
      /\ x.out = at[r].out /\ x.base = at[r].base /\ x.closed = at[r].closed
  BY <1>1, RunType, SeenFacts DEF NextProject, RunRec
<1> HIDE DEF x
<1>3. /\ at' \in [Run -> RunRec] /\ at'[r] = x
      /\ \A q \in Run \ {r} : at'[q] = at[q]
  BY <1>1, <1>2, RunMoves DEF x
<1>4. Clean /\ Running = {} /\ Reads(r) /\ Agreed(r)
  BY DEF IInv, Safe, Swept, Remote, Judged, Labelling, Told
<1>5. Safe(r)'
  BY <1>2, <1>3, <1>4 DEF Safe, Clean, Running, stopVars, localVars
<1>6. Reads(r)'
  <2>1. x.step = "verify" => /\ x.acc \subseteq merged
                             /\ x.base \cap Passed(x.i) \subseteq x.acc
    <3> SUFFICES ASSUME at[r].step = "verify"
                 PROVE  /\ x.acc \subseteq merged
                        /\ x.base \cap Passed(x.i) \subseteq x.acc
      BY <1>2
    <3>1. /\ at[r].acc \subseteq merged /\ at[r].base \subseteq merged
          /\ at[r].base \cap Passed(at[r].i) \subseteq at[r].acc
      BY <1>4 DEF Reads
    <3>2. Passed(x.i) = Passed(at[r].i) \cup {Rows[at[r].i]}
      BY <1>2, SeenFacts
    <3> QED
      BY <1>2, <3>1, <3>2 DEF Seen
  <2>2. x.base \subseteq merged /\ (x.closed => issue.closed)
    BY <1>2, <1>4 DEF Reads
  <2> QED
    BY <1>2, <1>3, <2>1, <2>2 DEF Reads, Passed, Local, Judged, Labelling, Told,
                                  remoteVars
<1>7. Agreed(r)'
  <2>1. ~moved => x.acc = merged \cap Passed(x.i)
    BY <1>2, SeenFacts
  <2> QED
    BY <1>2, <1>3, <1>4, <2>1 DEF Agreed, Passed, Target, Result, remoteVars
<1> QED
  BY <1>1, <1>3, <1>5, <1>6, <1>7, ThinkStep DEF RunInv

\* The next attempt starts with nothing passed.
LEMMA AgainStep ==
    ASSUME IInv, NEW r \in Run, at[r].step \in {"read", "verify"}, Last(r),
           UNCHANGED <<stopVars, localVars, remoteVars, faults>>,
           at' = [at EXCEPT ![r] = Again(r)]
    PROVE  IInv'
<1>1. /\ stop.state # "none" /\ TypeOK /\ Records /\ faults' \in 0..MaxFaults
  BY Requested DEF TypeOK
<1>2. CASE Again(r) = Broken
  BY <1>1, <1>2, RestStep
<1>3. CASE Again(r) = [Idle EXCEPT !.step = "read", !.tries = at[r].tries + 1,
                                   !.seen = <<Seen(r)>>]
  <2> DEFINE x == [Idle EXCEPT !.step = "read", !.tries = at[r].tries + 1,
                               !.seen = <<Seen(r)>>]
  <2>1. <<Seen(r)>> \in {<<M>> : M \in Outcomes} /\ at[r].tries + 1 \in Nat
        /\ "read" \in Steps
    BY <1>1, SeenFacts, RunType DEF Steps
  <2>2. x \in RunRec /\ x.step = "read" /\ x.i = Idle.i /\ x.acc = Idle.acc
        /\ x.base = {} /\ ~x.closed
    BY <2>1, IdleRec DEF RunRec
  <2>3. x.i = 1 /\ x.acc = {}
    BY <2>2 DEF Idle
  <2> HIDE DEF x
  <2>4. /\ at' \in [Run -> RunRec] /\ at'[r] = x
        /\ \A q \in Run \ {r} : at'[q] = at[q]
    BY <1>1, <1>3, <2>2, RunMoves DEF x
  <2>5. Clean /\ Running = {}
    BY DEF IInv, Safe, Swept, Remote, Judged, Labelling, Told
  <2>6. Safe(r)'
    BY <2>2, <2>4, <2>5 DEF Safe, Clean, Running, stopVars, localVars
  <2>7. Reads(r)'
    BY <2>2, <2>4 DEF Reads, Local, Judged, Labelling, Told
  <2>8. Agreed(r)'
    BY <2>2, <2>3, <2>4, PassedFacts DEF Agreed, Judged, Labelling, Told
  <2> QED
    BY <1>1, <2>4, <2>6, <2>7, <2>8, ThinkStep DEF RunInv
<1> QED
  BY <1>2, <1>3 DEF Again

LEMMA ReadStep ==
    ASSUME IInv, NEW r \in Run, Read(r)
    PROVE  IInv'
<1>1. /\ at[r].step = "read" /\ stop.state # "none" /\ TypeOK /\ Records
      /\ UNCHANGED <<stopVars, localVars, remoteVars, faults>>
      /\ faults' \in 0..MaxFaults
  BY Requested DEF Read, At, TypeOK
<1>2. CASE at' = [at EXCEPT ![r] = Broken]
  BY <1>1, <1>2, RestStep
<1>3. CASE ~Last(r) /\ at' = [at EXCEPT ![r] = NextProject(r)]
  BY <1>1, <1>3, NextStep
<1>4. CASE Last(r) /\ at' = [at EXCEPT ![r] = Again(r)]
  BY <1>1, <1>4, AgainStep
<1>5. CASE Last(r) /\ at' = [at EXCEPT ![r] =
                [Idle EXCEPT !.step = "status", !.tries = at[r].tries,
                             !.out = Seen(r)]]
  <2> DEFINE x == [Idle EXCEPT !.step = "status", !.tries = at[r].tries,
                               !.out = Seen(r)]
  <2>1. Seen(r) \in Outcomes /\ at[r].tries \in Nat /\ "status" \in Steps
    BY <1>1, SeenFacts, RunType DEF Steps
  <2>2. x \in RunRec /\ x.step = "status" /\ x.i = Idle.i /\ x.acc = Idle.acc
        /\ x.base = {} /\ ~x.closed /\ x.out = Seen(r)
    BY <2>1, IdleRec DEF RunRec
  <2>3. x.i = 1 /\ x.acc = {}
    BY <2>2 DEF Idle
  <2> HIDE DEF x
  <2>4. /\ at' \in [Run -> RunRec] /\ at'[r] = x
        /\ \A q \in Run \ {r} : at'[q] = at[q]
    BY <1>1, <1>5, <2>2, RunMoves DEF x
  <2>5. Clean /\ Running = {}
    BY <1>1 DEF IInv, Safe, Swept, Remote
  <2>6. Safe(r)'
    BY <1>1, <2>2, <2>4, <2>5 DEF Safe, Clean, Running, stopVars, localVars
  <2>7. Reads(r)'
    BY <2>2, <2>3, <2>4 DEF Reads, Local
  <2>8. ~moved => x.out = merged
    BY <1>1, <1>5, <2>2, SeenFacts
  <2>9. Agreed(r)'
    BY <1>1, <2>2, <2>4, <2>8 DEF Agreed, Labelling, Told, remoteVars
  <2> QED
    BY <1>1, <2>4, <2>6, <2>7, <2>9, ThinkStep DEF RunInv
<1> QED
  BY <1>2, <1>3, <1>4, <1>5 DEF Read

\* The last readback confirms the outcome: every merge of the base is in it.
LEMMA VerifyStep ==
    ASSUME IInv, NEW r \in Run, Verify(r)
    PROVE  IInv'
<1>1. /\ at[r].step = "verify" /\ stop.state # "none" /\ TypeOK /\ Records
      /\ UNCHANGED <<stopVars, localVars, remoteVars, faults>>
      /\ faults' \in 0..MaxFaults
  BY Requested DEF Verify, At, TypeOK
<1>3. CASE ~Last(r) /\ at' = [at EXCEPT ![r] = NextProject(r)]
  BY <1>1, <1>3, NextStep
<1>4. CASE Last(r) /\ at' = [at EXCEPT ![r] = Again(r)]
  BY <1>1, <1>4, AgainStep
<1>5. CASE /\ Last(r) /\ Seen(r) = at[r].out
           /\ at' = [at EXCEPT ![r] = [at[r] EXCEPT !.step = "finish"]]
  <2> DEFINE x == [at[r] EXCEPT !.step = "finish"]
  <2>1. x \in RunRec /\ x.step = "finish" /\ x.i = at[r].i /\ x.acc = at[r].acc
        /\ x.out = at[r].out /\ x.base = at[r].base /\ x.closed = at[r].closed
    BY <1>1, RunType DEF RunRec, Steps
  <2> HIDE DEF x
  <2>2. /\ at' \in [Run -> RunRec] /\ at'[r] = x
        /\ \A q \in Run \ {r} : at'[q] = at[q]
    BY <1>1, <1>5, <2>1, RunMoves DEF x
  <2>3. Clean /\ Running = {} /\ Reads(r) /\ Agreed(r)
    BY <1>1 DEF IInv, Safe, Swept, Remote, Judged, Labelling, Told
  <2>4. Safe(r)'
    BY <1>1, <2>1, <2>2, <2>3 DEF Safe, Clean, Running, stopVars, localVars
  <2>5. x.base \subseteq x.out /\ x.out \subseteq merged
    <3>1. /\ at[r].acc \subseteq merged /\ at[r].base \subseteq merged
          /\ at[r].base \cap Passed(at[r].i) \subseteq at[r].acc
          /\ at[r].base \subseteq Project
      BY <1>1, <2>3, RunType DEF Reads
    <3>2. Project = Passed(at[r].i) \cup {Rows[at[r].i]}
      BY <1>1, <1>5, SeenFacts
    <3> QED
      BY <1>5, <2>1, <3>1, <3>2 DEF Seen
  <2>6. Reads(r)'
    BY <1>1, <2>1, <2>2, <2>3, <2>5 DEF Reads, Local, remoteVars
  <2>7. Agreed(r)'
    BY <1>1, <2>1, <2>2, <2>3
    DEF Agreed, Judged, Labelling, Told, Target, Result, remoteVars
  <2> QED
    BY <1>1, <2>2, <2>4, <2>6, <2>7, ThinkStep DEF RunInv
<1> QED
  BY <1>3, <1>4, <1>5 DEF Verify

-----------------------------------------------------------------------------
(* Writes to the issue                                                     *)

\* The issue changes, by a run that goes on or by a write that was late.
LEMMA IssueStep ==
    ASSUME IInv, stop.state # "none", UNCHANGED <<stopVars, localVars, merged, moved>>,
           issue' \in [closed : BOOLEAN, labels : SUBSET Labels,
                       comments : Seq(Outcomes)],
           wire' \subseteq [op : Writes, on : Outcomes \cup SUBSET Labels],
           \A m \in wire' : m.on \in Payloads(m.op),
           faults' \in 0..MaxFaults, at' \in [Run -> RunRec], IssueAgrees',
           issue.closed => issue'.closed,
           ~moved => /\ issue.labels = Target(merged) => issue'.labels = Target(merged)
                     /\ issue.comments # <<>> => issue'.comments # <<>>,
           \A q \in Run : at'[q] = at[q] \/ RunInv(q)'
    PROVE  IInv'
<1>1. Onward
  BY DEF Onward, Clean, stopVars, localVars
<1>2. Records'
  BY DEF IInv, Records, Payloads, Outcomes
<1>3. TypeOK'
  <2>1. \A r \in Run :
             /\ at'[r].step \in Steps
             /\ at'[r].seen = <<>> \/ at'[r].seen[1] \in Outcomes
             /\ at'[r].i \in DOMAIN Rows
    BY RecordsType, <1>2 DEF Records, RunRec
  <2> QED
    BY <2>1 DEF IInv, TypeOK, stopVars, localVars, Outcomes
<1>4. Recorded' /\ Adrift' /\ Before'
  BY DEF IInv, Recorded, Unrecorded, Adrift, Before, stopVars, localVars
<1>5. AtTheEnd'
  BY <1>1, EndStays DEF stopVars
<1> QED
  BY <1>1, <1>2, <1>3, <1>4, <1>5, Goes

\* A run writes what fits its outcome, so what fits the one there is.
LEMMA PayloadFacts ==
    ASSUME IInv, NEW r \in Run, at[r].step \in Writes, NEW x \in Payload(r)
    PROVE  /\ at[r].step \in Judged \ {"verify", "finish"}
           /\ x \in Payloads(at[r].step)
           /\ x \in Outcomes \cup SUBSET Labels
           /\ ~moved => Fits(at[r].step, x, merged)
<1>1. at[r].step \in Judged \ {"verify", "finish"}
  BY DEF Judged, Labelling, Told, Writes
<1>2. x \in Payloads(at[r].step)
  BY RunType, ResultType DEF IInv, Payload, Payloads, Outcomes, Writes
<1>3. ~moved => at[r].out = merged
  BY <1>1 DEF IInv, Agreed
<1>4. at[r].step = "close" => Result(at[r].out) = "cancelled"
  BY DEF IInv, Reads
<1>5. ~moved => Fits(at[r].step, x, merged)
  BY <1>3, <1>4 DEF Payload, Fits, Writes
<1> QED
  BY <1>1, <1>2, <1>5 DEF Payloads

\* A write that fits leaves the issue as it should be, or brings it there.
LEMMA ApplyFacts ==
    ASSUME IInv, NEW op \in Writes, NEW x \in Payloads(op), Apply(op, x),
           ~moved => Fits(op, x, merged)
    PROVE  /\ issue' \in [closed : BOOLEAN, labels : SUBSET Labels,
                          comments : Seq(Outcomes)]
           /\ issue.closed => issue'.closed
           /\ op = "close" => issue'.closed
           /\ op = "post" => issue'.comments # <<>>
           /\ issue.comments # <<>> => issue'.comments # <<>>
           /\ ~moved =>
                /\ issue.labels = Target(merged) => issue'.labels = Target(merged)
                /\ \A i \in DOMAIN issue'.comments : issue'.comments[i] = merged
                /\ issue'.closed => Result(merged) = "cancelled"
<1>1. /\ issue \in [closed : BOOLEAN, labels : SUBSET Labels,
                    comments : Seq(Outcomes)]
      /\ ~moved => /\ \A i \in DOMAIN issue.comments : issue.comments[i] = merged
                   /\ issue.closed => Result(merged) = "cancelled"
  BY DEF IInv, Records, IssueAgrees
<1>2. issue.comments \in Seq(Outcomes)
  BY <1>1
<1>3. CASE op = "drop"
  <2>1. issue' = [issue EXCEPT !.labels = issue.labels \ x]
    BY <1>3 DEF Apply
  <2>2. /\ issue' \in [closed : BOOLEAN, labels : SUBSET Labels,
                       comments : Seq(Outcomes)]
        /\ issue'.closed = issue.closed /\ issue'.comments = issue.comments
        /\ issue'.labels = issue.labels \ x
    BY <1>1, <2>1
  <2>3. ~moved /\ issue.labels = Target(merged) => issue'.labels = Target(merged)
    BY <1>3, <2>2 DEF Fits
  <2> QED
    BY <1>1, <1>3, <2>2, <2>3
<1>4. CASE op = "add"
  <2>1. issue' = [issue EXCEPT !.labels = issue.labels \cup x]
    BY <1>4 DEF Apply
  <2>2. x \subseteq Labels
    BY <1>4 DEF Payloads
  <2>3. /\ issue' \in [closed : BOOLEAN, labels : SUBSET Labels,
                       comments : Seq(Outcomes)]
        /\ issue'.closed = issue.closed /\ issue'.comments = issue.comments
        /\ issue'.labels = issue.labels \cup x
    BY <1>1, <2>1, <2>2
  <2>4. ~moved /\ issue.labels = Target(merged) => issue'.labels = Target(merged)
    BY <1>4, <2>3 DEF Fits
  <2> QED
    BY <1>1, <1>4, <2>3, <2>4
<1>5. CASE op = "post"
  <2>1. issue' = [issue EXCEPT !.comments = Append(issue.comments, x)]
    BY <1>5 DEF Apply
  <2>2. x \in Outcomes
    BY <1>5 DEF Payloads
  <2>3. Append(issue.comments, x) \in Seq(Outcomes)
        /\ Append(issue.comments, x) # <<>>
    BY <1>2, <2>2
  <2>4. /\ issue' \in [closed : BOOLEAN, labels : SUBSET Labels,
                       comments : Seq(Outcomes)]
        /\ issue'.closed = issue.closed /\ issue'.labels = issue.labels
        /\ issue'.comments = Append(issue.comments, x)
    BY <1>1, <2>1, <2>3
  <2>5. ~moved => \A i \in DOMAIN Append(issue.comments, x) :
                      Append(issue.comments, x)[i] = merged
    BY <1>1, <1>2, <1>5, <2>2 DEF Fits
  <2> QED
    BY <1>1, <1>5, <2>3, <2>4, <2>5
<1>6. CASE op = "patch"
  <2> DEFINE s == [issue.comments EXCEPT ![1] = x]
  <2>1. issue' = [issue EXCEPT !.comments = s]
    BY <1>6 DEF Apply
  <2>2. x \in Outcomes
    BY <1>6 DEF Payloads
  <2>3. /\ s \in Seq(Outcomes) /\ Len(s) = Len(issue.comments)
        /\ DOMAIN s = DOMAIN issue.comments
        /\ \A i \in DOMAIN s : s[i] \in {x, issue.comments[i]}
    <3> DEFINE c == issue.comments
    <3>1. /\ DOMAIN c = 1..Len(c) /\ Len(c) \in Nat
          /\ \A i \in DOMAIN c : c[i] \in Outcomes
      BY <1>2
    <3>2. /\ DOMAIN s = 1..Len(c) /\ s = [i \in 1..Len(c) |-> s[i]]
          /\ \A i \in 1..Len(c) : s[i] = IF i = 1 THEN x ELSE c[i]
      BY <3>1
    <3> HIDE DEF s, c
    <3>3. s \in [1..Len(c) -> Outcomes]
      BY <2>2, <3>1, <3>2
    <3>4. s \in Seq(Outcomes) /\ Len(s) = Len(c)
      BY <3>1, <3>3
    <3> QED
      BY <3>1, <3>2, <3>4 DEF c
  <2> HIDE DEF s
  <2>4. /\ issue' \in [closed : BOOLEAN, labels : SUBSET Labels,
                       comments : Seq(Outcomes)]
        /\ issue'.closed = issue.closed /\ issue'.labels = issue.labels
        /\ issue'.comments = s
    BY <1>1, <2>1, <2>3
  <2>5. ~moved => x = merged
    BY <1>6 DEF Fits
  <2>6. issue.comments # <<>> => s # <<>>
    BY <1>2, <2>3
  <2> QED
    BY <1>1, <1>6, <2>3, <2>4, <2>5, <2>6
<1>7. CASE op = "close"
  <2>1. issue' = [issue EXCEPT !.closed = TRUE]
    BY <1>7 DEF Apply
  <2>2. /\ issue' \in [closed : BOOLEAN, labels : SUBSET Labels,
                       comments : Seq(Outcomes)]
        /\ issue'.closed /\ issue'.labels = issue.labels
        /\ issue'.comments = issue.comments
    BY <1>1, <2>1
  <2>3. ~moved => Result(merged) = "cancelled"
    BY <1>7 DEF Fits
  <2> QED
    BY <1>1, <1>7, <2>2, <2>3
<1> QED
  BY <1>3, <1>4, <1>5, <1>6, <1>7 DEF Writes

LEMMA ArriveStep ==
    ASSUME IInv, NEW m \in wire, Arrive(m)
    PROVE  IInv'
<1>1. /\ wire' = wire \ {m} /\ Apply(m.op, m.on) /\ TypeOK /\ Records
      /\ UNCHANGED <<stopVars, localVars, merged, moved, at, faults>>
  BY DEF IInv, Arrive
<1>2. stop.state # "none"
  BY DEF IInv, Before
<1>3. m.op \in Writes /\ m.on \in Payloads(m.op)
  BY <1>1 DEF TypeOK, Records
<1>4. ~moved => \A n \in wire : Fits(n.op, n.on, merged)
  BY DEF IInv, IssueAgrees
<1>5. /\ issue' \in [closed : BOOLEAN, labels : SUBSET Labels,
                     comments : Seq(Outcomes)]
      /\ issue.closed => issue'.closed
      /\ issue.comments # <<>> => issue'.comments # <<>>
      /\ ~moved =>
           /\ issue.labels = Target(merged) => issue'.labels = Target(merged)
           /\ \A i \in DOMAIN issue'.comments : issue'.comments[i] = merged
           /\ issue'.closed => Result(merged) = "cancelled"
  BY <1>1, <1>3, <1>4, ApplyFacts
<1>6. IssueAgrees'
  BY <1>1, <1>4, <1>5 DEF IssueAgrees, Fits, Result, Target
<1>7. /\ wire' \subseteq [op : Writes, on : Outcomes \cup SUBSET Labels]
      /\ \A n \in wire' : n.on \in Payloads(n.op)
      /\ faults' \in 0..MaxFaults /\ at' = at /\ at' \in [Run -> RunRec]
  BY <1>1 DEF TypeOK, Records
<1> QED
  BY <1>1, <1>2, <1>5, <1>6, <1>7, IssueStep

\* The writing run goes on to look at what it wrote.
LEMMA WriteStep ==
    ASSUME IInv, NEW r \in Run, Write(r)
    PROVE  IInv'
<1> DEFINE op == at[r].step
<1>1. /\ op \in Writes /\ stop.state # "none" /\ TypeOK /\ Records
      /\ UNCHANGED <<stopVars, localVars, merged, wire, moved, faults>>
      /\ faults' \in 0..MaxFaults
  BY Requested DEF Write, TypeOK, Writes
<1>2. PICK x \in Payload(r) :
        /\ Apply(op, x)
        /\ \/ Move(r, "broken")
           \/ /\ op = "drop"
              /\ at' = [at EXCEPT
                     ![r].step = LabelStep(at[r].labels \ x, at[r].out),
                     ![r].labels = @ \ x]
           \/ op = "add" /\ Move(r, "labelled")
           \/ op = "close" /\ Move(r, "closed")
           \/ op \in {"post", "patch"} /\ Move(r, "noted")
  BY DEF Write, Writes
<1>3. /\ op \in Judged \ {"verify", "finish"} /\ x \in Payloads(op)
      /\ ~moved => Fits(op, x, merged)
  BY <1>1, PayloadFacts
<1>4. /\ issue' \in [closed : BOOLEAN, labels : SUBSET Labels,
                     comments : Seq(Outcomes)]
      /\ issue.closed => issue'.closed
      /\ op = "close" => issue'.closed
      /\ op = "post" => issue'.comments # <<>>
      /\ issue.comments # <<>> => issue'.comments # <<>>
      /\ ~moved =>
           /\ issue.labels = Target(merged) => issue'.labels = Target(merged)
           /\ \A i \in DOMAIN issue'.comments : issue'.comments[i] = merged
           /\ issue'.closed => Result(merged) = "cancelled"
  BY <1>1, <1>2, <1>3, ApplyFacts
<1>5. IssueAgrees'
  BY <1>1, <1>4 DEF IInv, IssueAgrees, Fits, Result, Target
<1>6. /\ wire' \subseteq [op : Writes, on : Outcomes \cup SUBSET Labels]
      /\ \A n \in wire' : n.on \in Payloads(n.op)
  BY <1>1 DEF TypeOK, Records
<1>7. SUFFICES /\ at' \in [Run -> RunRec] /\ RunInv(r)'
               /\ \A q \in Run \ {r} : at'[q] = at[q]
  BY <1>1, <1>4, <1>5, <1>6, IssueStep
<1>8. /\ at[r].base \subseteq merged /\ (at[r].closed => issue'.closed)
      /\ op = "close" => Result(at[r].out) = "cancelled"
  BY <1>4 DEF IInv, Reads
<1>9. CASE Move(r, "broken")
  BY <1>1, <1>9, Breaks, RestsRun
<1>10. CASE /\ op = "drop"
            /\ at' = [at EXCEPT
                   ![r].step = LabelStep(at[r].labels \ x, at[r].out),
                   ![r].labels = @ \ x]
  <2> DEFINE step == LabelStep(at[r].labels \ x, at[r].out)
             y == [at[r] EXCEPT !.step = step, !.labels = at[r].labels \ x]
  <2>1. step \in {"drop", "add", "labelled"}
    BY LabelStepType
  <2>2. at' = [at EXCEPT ![r] = y]
    BY <1>1, <1>10 DEF Records
  <2> HIDE DEF step
  <2>3. y \in RunRec /\ y.step = step /\ y.i = at[r].i /\ y.acc = at[r].acc
        /\ y.out = at[r].out /\ y.base = at[r].base /\ y.closed = at[r].closed
    BY <1>1, <2>1, RunType DEF RunRec, Steps, Writes
  <2>4. /\ at' \in [Run -> RunRec] /\ at'[r] = y
        /\ \A q \in Run \ {r} : at'[q] = at[q]
    BY <1>1, <2>2, <2>3, RunMoves
  <2> HIDE DEF y
  <2>5. /\ step \in Judged \ {"finish"} /\ step \notin Labelling
        /\ step \notin Told /\ step \notin {"resolve", "close", "closed"}
    BY <2>1 DEF Judged, Labelling, Told
  <2>6. RunInv(r)'
    BY <1>1, <1>3, <1>8, <2>3, <2>4, <2>5, JudgedRun
  <2> QED
    BY <2>4, <2>6
<1>11. ASSUME NEW step \in {"labelled", "closed", "noted"}, Move(r, step),
              step = "closed" => op = "close",
              step = "noted" => op \in {"post", "patch"}
       PROVE  /\ at' \in [Run -> RunRec] /\ RunInv(r)'
              /\ \A q \in Run \ {r} : at'[q] = at[q]
  <2> DEFINE y == [at[r] EXCEPT !.step = step]
  <2>1. step \in Steps \ {"broken"}
    BY DEF Steps
  <2>2. /\ at' \in [Run -> RunRec] /\ at'[r] = y
        /\ \A q \in Run \ {r} : at'[q] = at[q]
    BY <1>1, <1>11, <2>1, Transition
  <2>3. y \in RunRec /\ y.step = step /\ y.i = at[r].i /\ y.acc = at[r].acc
        /\ y.out = at[r].out /\ y.base = at[r].base /\ y.closed = at[r].closed
    BY <1>1, <2>1, RunType DEF RunRec
  <2> HIDE DEF y
  <2>4. step \in Judged \ {"finish"}
    BY DEF Judged, Labelling, Told
  <2>5. step \in {"resolve", "close", "closed"} => Result(y.out) = "cancelled"
    BY <1>8, <1>11, <2>3
  <2>6. ~moved /\ step \in Labelling => issue'.labels = Target(merged)
    <3> SUFFICES ASSUME ~moved, step \in Labelling
                 PROVE  issue'.labels = Target(merged)
      OBVIOUS
    <3>1. op \in Labelling
      BY <1>11 DEF Labelling, Told
    <3> QED
      BY <1>4, <3>1 DEF IInv, Agreed
  <2>7. ~moved /\ step \in Told => issue'.comments # <<>>
    <3> SUFFICES ASSUME ~moved, step \in Told PROVE issue'.comments # <<>>
      OBVIOUS
    <3>1. op \in Told
      BY <1>11 DEF Told
    <3> QED
      BY <1>4, <3>1 DEF IInv, Agreed
  <2>8. RunInv(r)'
    BY <1>1, <1>3, <1>8, <2>2, <2>3, <2>4, <2>5, <2>6, <2>7, JudgedRun
  <2> QED
    BY <2>2, <2>8
<1> QED
  BY <1>2, <1>9, <1>10, <1>11

LEMMA WriteUnknownStep ==
    ASSUME IInv, NEW r \in Run, WriteUnknown(r)
    PROVE  IInv'
<1> DEFINE op == at[r].step
<1>1. /\ op \in Writes /\ stop.state # "none" /\ TypeOK /\ Records
      /\ UNCHANGED <<stopVars, localVars, merged, moved>> /\ Move(r, "broken")
  BY Requested DEF WriteUnknown, Writes
<1>2. PICK x \in Payload(r) :
        \/ Fault("lost") /\ Apply(op, x) /\ UNCHANGED wire
        \/ /\ Fault("late") /\ wire' = wire \cup {[op |-> op, on |-> x]}
           /\ UNCHANGED issue
  BY DEF WriteUnknown
<1>3. /\ x \in Payloads(op) /\ x \in Outcomes \cup SUBSET Labels
      /\ ~moved => Fits(op, x, merged)
  BY <1>1, PayloadFacts
<1>4. faults' \in 0..MaxFaults
  BY <1>1, <1>2, FaultType
<1>5. /\ at' \in [Run -> RunRec] /\ RunInv(r)'
      /\ \A q \in Run \ {r} : at'[q] = at[q]
  BY <1>1, Breaks, RestsRun
<1>6. CASE Apply(op, x) /\ UNCHANGED wire
  <2>1. /\ issue' \in [closed : BOOLEAN, labels : SUBSET Labels,
                       comments : Seq(Outcomes)]
        /\ issue.closed => issue'.closed
        /\ issue.comments # <<>> => issue'.comments # <<>>
        /\ ~moved =>
             /\ issue.labels = Target(merged) => issue'.labels = Target(merged)
             /\ \A i \in DOMAIN issue'.comments : issue'.comments[i] = merged
             /\ issue'.closed => Result(merged) = "cancelled"
    BY <1>1, <1>3, <1>6, ApplyFacts
  <2>2. IssueAgrees'
    BY <1>1, <1>6, <2>1 DEF IInv, IssueAgrees, Fits, Result, Target
  <2>3. /\ wire' \subseteq [op : Writes, on : Outcomes \cup SUBSET Labels]
        /\ \A n \in wire' : n.on \in Payloads(n.op)
    BY <1>1, <1>6 DEF TypeOK, Records
  <2> QED
    BY <1>1, <1>4, <1>5, <2>1, <2>2, <2>3, IssueStep
<1>7. CASE wire' = wire \cup {[op |-> op, on |-> x]} /\ UNCHANGED issue
  <2>1. /\ wire' \subseteq [op : Writes, on : Outcomes \cup SUBSET Labels]
        /\ \A n \in wire' : n.on \in Payloads(n.op)
    BY <1>1, <1>3, <1>7 DEF TypeOK, Records
  <2>2. IssueAgrees'
    <3> SUFFICES ASSUME ~moved PROVE IssueAgrees'
      BY <1>1 DEF IssueAgrees
    <3>1. \A n \in wire' : Fits(n.op, n.on, merged)
      BY <1>3, <1>7 DEF IInv, IssueAgrees
    <3> QED
      BY <1>1, <1>7, <3>1 DEF IInv, IssueAgrees, Fits, Result, Target
  <2>3. issue' \in [closed : BOOLEAN, labels : SUBSET Labels,
                    comments : Seq(Outcomes)]
    BY <1>1, <1>7 DEF Records
  <2> QED
    BY <1>1, <1>4, <1>5, <1>7, <2>1, <2>2, <2>3, IssueStep
<1> QED
  BY <1>2, <1>6, <1>7

-----------------------------------------------------------------------------
(* How a run ends                                                          *)

\* The end is recorded as the run has confirmed it.
LEMMA CompleteStep ==
    ASSUME IInv, NEW r \in Run, Complete(r)
    PROVE  IInv'
<1>1. /\ at[r].step = "finish" /\ stop.state # "none" /\ TypeOK /\ Records
      /\ UNCHANGED <<localVars, remoteVars, faults>>
      /\ faults' \in 0..MaxFaults
  BY Requested DEF Complete, At, TypeOK
<1>2. CASE Move(r, "broken") /\ UNCHANGED stopVars
  BY <1>1, <1>2, BreakStep
<1>3. CASE /\ Proven(r) /\ MayClean /\ Running = {} /\ terminal = <<>>
           /\ Finalize(r) /\ at' = [at EXCEPT ![r] = Idle]
  <2> DEFINE M == at[r].out
             e == [event |-> Result(M), by |-> "stop", on |-> M]
  <2>1. /\ stop' = [state |-> "completed", result |-> Result(M)]
        /\ terminal' = <<e>>
        /\ row' \in [Project -> {"working", "merged", "cancelled"}]
    BY <1>3 DEF Finalize
  <2>2. M \in Outcomes /\ Result(M) \in Results
    BY <1>1, RunType, ResultType DEF Outcomes, Results
  <2>3. Clean /\ Reads(r) /\ Agreed(r) /\ M \subseteq merged
    BY <1>1 DEF IInv, Safe, Swept, Remote, Judged, Labelling, Told, Reads
  <2> HIDE DEF M
  <2>4. e \in [event : Results, by : {"merge", "stop"}, on : Outcomes]
        /\ e.on = M
    BY <2>2
  <2> HIDE DEF e
  <2>5. terminal' \in [{1} -> [event : Results, by : {"merge", "stop"},
                               on : Outcomes]]
        /\ terminal'[1] = e
    BY <2>1, <2>4
  <2>6. stop'.state = "completed" /\ stop'.result = Result(M)
        /\ stop' \in [state : {"none", "stopping", "incomplete", "completed"},
                      result : Results]
    BY <2>1, <2>2
  <2>7. Clean'
    BY <1>1, <2>3, <2>6 DEF Clean, localVars
  <2>8. Onward
    BY <1>1, <2>6, <2>7 DEF Onward, localVars, remoteVars
  <2>9. /\ at' \in [Run -> RunRec] /\ at'[r] = Idle
        /\ \A q \in Run \ {r} : at'[q] = at[q]
    BY <1>1, <1>3, IdleRec, RunMoves
  <2>10. Records'
    BY <1>1, <2>9 DEF Records, Payloads, Outcomes, remoteVars
  <2>11. TypeOK'
    <3>1. \A q \in Run :
               /\ at'[q].step \in Steps
               /\ at'[q].seen = <<>> \/ at'[q].seen[1] \in Outcomes
               /\ at'[q].i \in DOMAIN Rows
      BY <2>9 DEF RunRec
    <3> QED
      BY <1>1, <2>1, <2>5, <2>6, <3>1 DEF TypeOK, localVars, remoteVars
  <2>12. Recorded' /\ Adrift' /\ Before'
    BY <1>1, <2>6 DEF IInv, Recorded, Unrecorded, Adrift, Before, localVars
  <2>13. IssueAgrees'
    BY <1>1 DEF IInv, IssueAgrees, Fits, Result, Target, remoteVars
  <2>14. AtTheEnd'
    <3>1. Running' = {}
      BY <1>1, <1>3 DEF Running, localVars
    <3>2. ASSUME ~moved
          PROVE  /\ M = merged /\ issue.labels = Target(merged)
                 /\ issue.comments # <<>>
                 /\ Result(merged) = "cancelled" => issue.closed
      <4>1. M = merged /\ issue.labels = Target(merged) /\ issue.comments # <<>>
        BY <1>1, <2>3, <3>2 DEF Agreed, Judged, Labelling, Told, M
      <4>2. Result(M) = "cancelled" => at[r].closed
        BY <1>3 DEF Proven, M
      <4> QED
        BY <2>3, <4>1, <4>2 DEF Reads
    <3>3. /\ terminal'[1].on = M /\ stop'.result = Result(M)
          /\ UNCHANGED <<merged, issue, moved>>
      BY <1>1, <2>4, <2>5, <2>6 DEF remoteVars
    <3>4. ~moved' => /\ terminal'[1].on = merged' /\ stop'.result = Result(merged)
                     /\ issue'.labels = Target(merged) /\ issue'.comments # <<>>
                     /\ Result(merged) = "cancelled" => issue'.closed
      BY <3>2, <3>3
    <3> QED
      BY <2>7, <3>1, <3>3, <3>4 DEF AtTheEnd, Result, Target
  <2>15. RunInv(r)'
    BY <2>9, RestsRun
  <2> QED
    BY <2>8, <2>9, <2>10, <2>11, <2>12, <2>13, <2>14, <2>15, Goes
<1> QED
  BY <1>2, <1>3 DEF Complete

\* A run that fails leaves a completed stop alone.
LEMMA IncompleteStep ==
    ASSUME IInv, NEW r \in Run, Incomplete(r)
    PROVE  IInv'
<1>1. /\ stop.state # "none" /\ TypeOK /\ Records
      /\ UNCHANGED <<row, terminal, localVars, remoteVars, faults>>
      /\ faults' \in 0..MaxFaults /\ at' = [at EXCEPT ![r] = Idle]
  BY Requested DEF Incomplete, At, TypeOK
<1>2. CASE stop' = stop
  BY <1>1, <1>2, RestStep DEF stopVars
<1>3. CASE MayClean /\ stop' = [stop EXCEPT !.state = "incomplete"]
  <2>1. /\ stop'.state = "incomplete"
        /\ stop' \in [state : {"none", "stopping", "incomplete", "completed"},
                      result : Results]
    BY <1>1, <1>3 DEF TypeOK
  <2>2. Onward
    BY <1>1, <2>1 DEF Onward, Clean, localVars, remoteVars
  <2>3. /\ at' \in [Run -> RunRec] /\ at'[r] = Idle
        /\ \A q \in Run \ {r} : at'[q] = at[q]
    BY <1>1, IdleRec, RunMoves
  <2>4. Records'
    BY <1>1, <2>3 DEF Records, Payloads, Outcomes, remoteVars
  <2>5. TypeOK'
    <3>1. \A q \in Run :
               /\ at'[q].step \in Steps
               /\ at'[q].seen = <<>> \/ at'[q].seen[1] \in Outcomes
               /\ at'[q].i \in DOMAIN Rows
      BY <2>3 DEF RunRec
    <3> QED
      BY <1>1, <2>1, <3>1 DEF TypeOK, localVars, remoteVars, Outcomes
  <2>6. Recorded' /\ Adrift' /\ Before' /\ AtTheEnd'
    BY <1>1, <2>1 DEF IInv, Recorded, Unrecorded, Adrift, Before, AtTheEnd,
                      localVars
  <2>7. IssueAgrees'
    BY <1>1 DEF IInv, IssueAgrees, Fits, Result, Target, remoteVars
  <2>8. RunInv(r)'
    BY <2>3, RestsRun
  <2> QED
    BY <2>2, <2>3, <2>4, <2>5, <2>6, <2>7, <2>8, Goes
<1> QED
  BY <1>2, <1>3 DEF Incomplete

LEMMA FailStep ==
    ASSUME IInv, NEW r \in Run, LockTimeout(r) \/ Die(r) \/ CallFails(r)
    PROVE  IInv'
<1>1. /\ UNCHANGED <<stopVars, localVars, remoteVars>> /\ at[r].step # "idle"
      /\ stop.state # "none" /\ TypeOK
      /\ at' = [at EXCEPT ![r] = Idle] \/ at' = [at EXCEPT ![r] = Broken]
  BY Requested DEF LockTimeout, Die, CallFails, At, Move
<1>2. faults' \in 0..MaxFaults
  BY <1>1, FaultType DEF LockTimeout, Die, CallFails, TypeOK
<1> QED
  BY <1>1, <1>2, RestStep

LEMMA StartStep ==
    ASSUME IInv, NEW r \in Run, Begin(r) \/ Overlap(r)
    PROVE  IInv'
<1>1. Reconcile(r) /\ faults' \in 0..MaxFaults
  BY FaultType DEF IInv, TypeOK, Begin, Overlap
<1> QED
  BY <1>1, ReconcileStep

-----------------------------------------------------------------------------
(* The invariant, and what follows from it                                 *)

LEMMA InitInv ==
    ASSUME Init
    PROVE  IInv
<1>1. \A r \in Run : at[r] = Idle
  BY DEF Init
<1>2. at \in [Run -> RunRec]
  BY IdleRec DEF Init
<1>3. Records
  <2>1. issue \in [closed : BOOLEAN, labels : SUBSET Labels,
                   comments : Seq(Outcomes)]
    BY DEF Init, Labels
  <2> QED
    BY <1>2, <2>1 DEF Records, Init
<1>4. TypeOK
  <2>1. tick \in [step : {"free", "start", "record", "activate", "include"},
                  on : Outcomes]
    BY DEF Init, Nobody, Outcomes
  <2>2. issue.closed \in BOOLEAN /\ issue.labels \subseteq Labels
        /\ issue.comments \in Seq(Outcomes)
    BY <1>3 DEF Records
  <2> QED
    BY <1>3, <2>1, <2>2, RecordsType, StopAssumption DEF Init, TypeOK, Results
<1>5. Recorded /\ Adrift /\ Before /\ AtTheEnd
  BY <1>1, IdleRec DEF Init, Recorded, Adrift, Before, AtTheEnd, At, Nobody
<1>6. IssueAgrees
  BY DEF Init, IssueAgrees
<1>7. \A r \in Run : Safe(r) /\ Reads(r) /\ Agreed(r)
  <2>1. \A r \in Run : at[r].step = "idle" /\ at[r].base = {} /\ ~at[r].closed
    BY <1>1, IdleRec
  <2> QED
    BY <2>1 DEF Safe, Reads, Agreed, Local, Swept, Remote, Judged, Labelling, Told
<1> QED
  BY <1>3, <1>4, <1>5, <1>6, <1>7 DEF IInv

LEMMA NextInv ==
    ASSUME IInv, [Next]_vars
    PROVE  IInv'
<1>1. ASSUME NEW r \in Run, Step(r)
      PROVE  IInv'
  BY <1>1, StartStep, RoundStep, ArchiveStep, FailStep, KillStep, MarkStep,
     RecheckStep, ReadStep, StatusStep, LabelledStep, CommentStep, ResolveStep,
     WriteStep, VerifyStep, CompleteStep, IncompleteStep DEF Step
<1>2. ASSUME NEW r \in Run, Overlap(r) \/ Die(r) \/ CallFails(r) \/ WriteUnknown(r)
      PROVE  IInv'
  BY <1>2, StartStep, FailStep, WriteUnknownStep
<1>3. ASSUME NEW p \in Project,
             \/ Dispatch(p) \/ WaitFails(p)
             \/ CreateCard(p) \/ Claim(p) \/ Exit(p) \/ Merge(p)
      PROVE  IInv'
  BY <1>3, DispatchStep, FinishStep, TickStep, MergeStep DEF Dispatch
<1>4. CASE MergeWorkerEnds \/ RequestStop \/ Crash
  BY <1>4, MergeWorkerStep, RequestStep, CrashStep
<1>5. ASSUME NEW m \in wire, Arrive(m)
      PROVE  IInv'
  BY <1>5, ArriveStep
<1>6. CASE UNCHANGED vars
  BY <1>6 DEF vars, stopVars, localVars, remoteVars, IInv, TypeOK, Records,
              Recorded, Unrecorded, Adrift, Before, IssueAgrees, AtTheEnd,
              Safe, Reads, Agreed,
              Clean, Running, Passed, At, Fits, Result, Target, Payloads
<1> QED
  BY <1>1, <1>2, <1>3, <1>4, <1>5, <1>6 DEF Next

\* In every reachable state the inductive invariant holds.
THEOREM Invariance == Spec => []IInv
<1>1. Init => IInv
  BY InitInv
<1>2. IInv /\ [Next]_vars => IInv'
  BY NextInv
<1> QED
  BY <1>1, <1>2, PTL DEF Spec

\* The rows, cards, workers, runs and writes keep their types.
THEOREM TypeCorrect == Spec => []TypeOK
<1>1. IInv => TypeOK
  BY DEF IInv
<1> QED
  BY <1>1, Invariance, PTL

\* "Agents stay down": after a completed stop no worker is recorded as running,
\* no card can start one, and of the workers none is left, however the barrier
\* fell between the steps of the dispatcher and whichever reconcilers died, but
\* those the worker runtime had given up without proof or had not recorded.
THEOREM AgentsStayDown == Spec => []NoWorkerSurvives
<1>1. ASSUME IInv, stop.state = "completed", NEW p \in Project
      PROVE  /\ proc[p] # "none" => p \in adrift
             /\ worker[p] # "running"
             /\ card[p] \in {"none", "done", "archived"}
  <2>1. Clean /\ worker[p] # "running"
    BY <1>1 DEF IInv, AtTheEnd, Running
  <2>2. ~Unrecorded(p)
    BY <2>1 DEF Clean, Nobody, Unrecorded
  <2> QED
    BY <1>1, <2>1, <2>2 DEF IInv, Clean, Recorded
<1>2. IInv => NoWorkerSurvives
  BY <1>1 DEF NoWorkerSurvives
<1> QED
  BY <1>2, Invariance, PTL

\* Where the stop of a worker never fails the design's condition holds: no
\* worker runs after a completed stop, though the dispatcher may crash at any
\* step, which leaves at most one suspended process.
THEOREM NoneLeftIfStopsWork ==
    ASSUME "unstopped" \notin Faults
    PROVE  Spec => []NoDescendants
<1>1. IInv /\ NoWorkerSurvives => NoDescendants
  BY DEF IInv, Adrift, NoWorkerSurvives, NoDescendants
<1> QED
  BY <1>1, Invariance, AgentsStayDown, PTL

\* Without a merge during the stop the issue tells the recorded result, for any
\* number of overlapping runs and of writes that arrive late.
THEOREM IssueIsTrue == Spec => []IssueTellsResult
<1>1. ASSUME IInv, stop.state = "completed", ~moved
      PROVE  /\ issue.labels = Target(terminal[1].on)
             /\ issue.closed = (stop.result = "cancelled")
             /\ issue.comments # <<>>
             /\ \A i \in DOMAIN issue.comments :
                    issue.comments[i] = terminal[1].on
  <2>1. /\ terminal[1].on = merged /\ stop.result = Result(merged)
        /\ issue.labels = Target(merged) /\ issue.comments # <<>>
        /\ Result(merged) = "cancelled" => issue.closed
    BY <1>1 DEF IInv, AtTheEnd
  <2>2. /\ \A i \in DOMAIN issue.comments : issue.comments[i] = merged
        /\ issue.closed => Result(merged) = "cancelled"
    BY <1>1 DEF IInv, IssueAgrees
  <2>3. issue.closed \in BOOLEAN
    BY <1>1 DEF IInv, TypeOK
  <2>4. issue.closed = (stop.result = "cancelled")
    BY <2>1, <2>2, <2>3
  <2> QED
    BY <2>1, <2>2, <2>4
<1>2. IInv => IssueTellsResult
  BY <1>1 DEF IssueTellsResult
<1> QED
  BY <1>2, Invariance, PTL

\* Complete is the only step that ends a stop, and only its own run's.
LEMMA OnlyComplete ==
    ASSUME IInv, [Next]_vars, NEW r \in Run, At(r, "finish"), stop' # stop,
           at'[r] = Idle
    PROVE  Complete(r)
<1>1. at[r] # Idle
  BY IdleRec DEF At
<1>2. ASSUME NEW q \in Run, Incomplete(q)
      PROVE  FALSE
  <2>1. q # r /\ at' = [at EXCEPT ![q] = Idle]
    BY <1>2 DEF At, Incomplete
  <2> QED
    BY <1>1, <2>1 DEF IInv, Records
<1>3. ASSUME NEW q \in Run, Complete(q)
      PROVE  q = r
  <2>1. CASE q # r
    <3>1. at' = [at EXCEPT ![q] = Idle] \/ at' = [at EXCEPT ![q] = Broken]
          \/ at' = [at EXCEPT ![q] = [@ EXCEPT !.step = "broken"]]
      BY <1>3 DEF Complete, Move
    <3> QED
      BY <1>1, <2>1, <3>1 DEF IInv, Records
  <2> QED
    BY <2>1
<1>4. at' # at
  BY <1>1
<1> QED
  BY ZenonT(60), <1>1, <1>2, <1>3, <1>4
  DEF Next, Step, Dispatch, Begin, Overlap, Reconcile, Round, Archive,
      LockTimeout, Kill, MarkStopped, Recheck, Read, Status, Labelled, Comment,
      Noted, Resolve, Closed, Write, Verify, Die, CallFails, WriteUnknown,
      CreateCard, Claim, Start, Record, Activate, Include, Exit, Finish,
      WaitFails, Settle, Merge, MergeWorkerEnds, RequestStop, Crash, Arrive, stopVars, vars

\* What was recorded as the end of the Task is never touched again.
LEMMA EndIsFinal ==
    ASSUME TypeOK, [Next]_vars, terminal # <<>>
    PROVE  /\ UNCHANGED <<row, terminal>>
           /\ stop.state = "completed" => UNCHANGED stop
<1> UNCHANGED <<row, terminal>>
  BY ZenonT(60) DEF Next, Step, Dispatch, Begin, Overlap, Reconcile, Round, Archive,
      LockTimeout, Kill, MarkStopped, Recheck, Read, Status, Labelled, Comment,
      Noted, Resolve, Closed, Write, Verify, Complete, Incomplete, Die,
      CallFails, WriteUnknown, CreateCard, Claim, Start, Record, Activate,
      Include, Exit, Finish, WaitFails, Settle, Merge, MergeWorkerEnds, Active,
      RequestStop, Crash, Arrive, stopVars, vars
<1> stop.state = "completed" => UNCHANGED stop
  BY ZenonT(60) DEF Next, Step, Dispatch, Begin, Overlap, Reconcile, Round, Archive,
      LockTimeout, Kill, MarkStopped, Recheck, Read, Status, Labelled, Comment,
      Noted, Resolve, Closed, Write, Verify, Complete, Incomplete, MayClean, Die,
      CallFails, WriteUnknown, CreateCard, Claim, Start, Record, Activate,
      Include, Exit, Finish, WaitFails, Settle, Merge, MergeWorkerEnds,
      Stoppable,
      RequestStop, Crash, Arrive, stopVars, vars
<1> QED
  OBVIOUS

\* The recorded end has every merge the completing run had seen when it put
\* the label on the issue, and none that did not happen, and it is final.
THEOREM EndIsComplete == Spec => NothingIsOverlooked
<1>1. ASSUME IInv, [Next]_vars, NEW r \in Run, At(r, "finish"), stop' # stop,
             at'[r] = Idle
      PROVE  /\ at[r].base \subseteq terminal'[1].on
             /\ {p \in Project : row'[p] = "merged"} = terminal'[1].on
             /\ terminal'[1].on \subseteq merged
  <2> DEFINE M == at[r].out
  <2>1. Complete(r)
    BY <1>1, OnlyComplete
  <2>2. terminal = <<>> /\ Finalize(r)
    BY <1>1, <2>1 DEF Complete, stopVars
  <2>3. /\ row' = [p \in Project |-> IF p \in M THEN "merged" ELSE "cancelled"]
        /\ terminal' = <<[event |-> Result(M), by |-> "stop", on |-> M]>>
    BY <2>2 DEF Finalize
  <2>4. terminal'[1].on = M
    BY <2>3
  <2>5. at[r].base \subseteq M /\ M \subseteq merged /\ M \subseteq Project
    BY <1>1, RunType DEF IInv, Reads, At
  <2> QED
    BY <2>3, <2>4, <2>5
<1>2. IInv /\ [Next]_vars =>
        /\ \A r \in Run :
             At(r, "finish") /\ stop' # stop /\ at'[r] = Idle
                 => at[r].base \subseteq terminal'[1].on
                    /\ {p \in Project : row'[p] = "merged"} = terminal'[1].on
                    /\ terminal'[1].on \subseteq merged
        /\ terminal # <<>> =>
             /\ UNCHANGED <<row, terminal>>
             /\ stop.state = "completed" => UNCHANGED stop
  BY <1>1, EndIsFinal DEF IInv
<1>3. Spec => [][Next]_vars
  BY PTL DEF Spec
<1> QED
  BY <1>2, <1>3, Invariance, PTL DEF NothingIsOverlooked
=============================================================================
