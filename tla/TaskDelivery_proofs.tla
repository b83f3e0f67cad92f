------------------------ MODULE TaskDelivery_proofs ------------------------
(* Proofs about TaskDelivery, for any requests and callers, whatever may     *)
(* fail and however often: the invariants, that the delivery keeps the       *)
(* promise of TaskPromise, and when a request cannot get a second issue.     *)
EXTENDS TaskDelivery, FiniteSetTheorems, TLAPS

-----------------------------------------------------------------------------
(* The inductive invariant                                                   *)

\* A caller's copy of the settings may be old, but a binding is for ever; from
\* the guard to the readback the database is held, and the copy is exact.
CallerInv(c) ==
    LET q == at[c].req
        own == at[c].own
    IN
    /\ at[c].step \in {"find", "create", "bind", "update", "activate"} =>
          settings[q].status # "none"
    /\ at[c].step = "find" =>
          /\ own.issue \in {0, settings[q].issue}
          /\ own.status = "active" => own.issue # 0
    /\ at[c].step \in {"bind", "update"} =>
          at[c].issue \in DOMAIN issues /\ issues[at[c].issue].req = q
    /\ at[c].step \in {"update", "activate"} => settings[q].issue # 0
    /\ at[c].step \in {"guard", "check", "label", "readback"} =>
          own.status = "active"
    /\ at[c].step \in {"check", "label", "readback"} =>
          writer = c /\ settings[q] = own
    /\ at[c].step = "complete" =>
          /\ own.issue = settings[q].issue /\ own.issue \in labelled
          /\ settings[q].status \in {"active"} \cup Terminal
    /\ at[c].step = "retire" => settings[q].status \in Terminal

\* The binding of a request is to its own issue, and a Task that became active
\* has one.
Bindings ==
    \A q \in Request :
        /\ settings[q].issue # 0 =>
              /\ settings[q].issue \in DOMAIN issues
              /\ issues[settings[q].issue].req = q
        /\ settings[q].status \notin {"none", "prepared"} =>
              settings[q].issue # 0

\* Only bound issues are labelled, or will be by a request on its way.
Labels ==
    /\ \A n \in labelled :
          n \in DOMAIN issues /\ settings[issues[n].req].issue = n
    /\ \A n \in DOMAIN issues : issues[n].ready => n \in labelled
    /\ \A m \in wire : m.kind = "label" =>
          m.issue # 0 /\ settings[m.req].issue = m.issue

\* A delivery is retired only because the Task has ended.
Retired ==
    \A q \in Request : outbox[q].state = "ended" => outbox[q].status \in Terminal

IInv ==
    /\ TypeOK /\ Bindings /\ Labels /\ DatabasesAgree /\ Retired
    /\ \A c \in Caller : CallerInv(c)

\* Where every caller goes through the outbox and no killed call leaves a
\* request to create an issue behind, the claim is exclusive: its holder has
\* found no issue before it creates one, and nobody else can create it.
Claimed(c) ==
    /\ at[c].step \notin {"idle", "save", "claim"} => claims[at[c].req] = c
    /\ at[c].step = "create" =>
          \A n \in DOMAIN issues : issues[n].req # at[c].req

CInv ==
    /\ \A c \in Caller : Claimed(c)
    /\ \A m, n \in DOMAIN issues : issues[m].req = issues[n].req => m = n
    /\ \A m \in wire : m.kind # "create"

-----------------------------------------------------------------------------
(* What a step may do to the callers and the databases                       *)

CallerRec == [step : Steps, req : Request, own : Settings, issue : Number,
              body : Body]

Message == [kind : {"create", "label"}, req : Request, issue : Number]

\* A caller whose invariant is not shown anew does not move, and keeps the
\* database if it holds it.
CallersMove ==
    /\ at' \in [Caller -> CallerRec]
    /\ claims' \in [Request -> Caller \cup {NoCaller}]
    /\ writer' \in Caller \cup {NoCaller}
    /\ \A v \in Caller :
          CallerInv(v)' \/ (at'[v] = at[v] /\ (writer = v => writer' = v))

\* Bindings and ends are for ever, and no request is forgotten.
SettingsMove ==
    /\ settings' \in [Request -> Settings]
    /\ \A q \in Request :
          /\ settings[q].issue # 0 => settings'[q].issue = settings[q].issue
          /\ settings[q].status # "none" => settings'[q].status # "none"
          /\ settings[q].status \in {"active"} \cup Terminal =>
                settings'[q].status \in {"active"} \cup Terminal
          /\ settings[q].status \in Terminal =>
                settings'[q].status = settings[q].status

\* An issue stays the issue of its request.
IssuesMove ==
    /\ issues' \in Seq(Issue) /\ Len(issues') <= MaxIssues
    /\ \A n \in DOMAIN issues :
          n \in DOMAIN issues' /\ issues'[n].req = issues[n].req

LEMMA CallerType ==
    ASSUME TypeOK
    PROVE  /\ at \in [Caller -> CallerRec] /\ NoCaller \notin Caller
           /\ \A c \in Caller : at[c] \in CallerRec /\ at[c].req \in Request
                                /\ at[c].own \in Settings
           /\ MaxIssues \in Nat /\ DOMAIN issues = 1..Len(issues)
           /\ Len(issues) \in Nat /\ DOMAIN issues \subseteq Number
           /\ \A n \in DOMAIN issues : issues[n] \in Issue
<1>1. at \in [Caller -> CallerRec] /\ NoCaller \notin Caller /\ MaxIssues \in Nat
  BY DeliveryAssumption DEF TypeOK, CallerRec
<1>2. \A c \in Caller : at[c] \in CallerRec /\ at[c].req \in Request
                        /\ at[c].own \in Settings
  BY <1>1 DEF CallerRec
<1>3. /\ DOMAIN issues = 1..Len(issues) /\ Len(issues) \in Nat
      /\ Len(issues) <= MaxIssues
      /\ \A n \in DOMAIN issues : issues[n] \in Issue
  BY DEF TypeOK
<1> QED
  BY <1>1, <1>2, <1>3 DEF Number

LEMMA IdleType ==
    ASSUME NEW q \in Request
    PROVE  Idle(q) \in CallerRec
BY DeliveryAssumption DEF Idle, CallerRec, Steps, Settings, Number, Body

LEMMA IdleInv ==
    ASSUME NEW c \in Caller, NEW q, at'[c] = Idle(q)
    PROVE  CallerInv(c)'
BY DEF CallerInv, Idle

LEMMA ReturnFacts ==
    ASSUME TypeOK, NEW c \in Caller, Return(c)
    PROVE  /\ CallersMove /\ at'[c] = Idle(at[c].req)
           /\ \A v \in Caller \ {c} : at'[v] = at[v]
<1>1. at' \in [Caller -> CallerRec] /\ at'[c] = Idle(at[c].req)
      /\ \A v \in Caller \ {c} : at'[v] = at[v]
  BY CallerType, IdleType DEF Return
<1>2. claims' \in [Request -> Caller \cup {NoCaller}]
      /\ writer' \in Caller \cup {NoCaller}
  BY DEF Return, TypeOK
<1>3. CallerInv(c)'
  BY <1>1, IdleInv
<1>4. \A v \in Caller \ {c} : writer = v => writer' = v
  BY DEF Return
<1> QED
  BY <1>1, <1>2, <1>3, <1>4 DEF CallersMove

\* A caller takes a step, or changes what it has read, and no lock.
LEMMA GoFacts ==
    ASSUME TypeOK, NEW c \in Caller, NEW r \in CallerRec,
           at' = [at EXCEPT ![c] = r]
    PROVE  /\ at' \in [Caller -> CallerRec] /\ at'[c] = r
           /\ \A v \in Caller \ {c} : at'[v] = at[v]
           /\ CallerInv(c)' /\ UNCHANGED Locks => CallersMove
<1>1. at' \in [Caller -> CallerRec] /\ at'[c] = r
      /\ \A v \in Caller \ {c} : at'[v] = at[v]
  BY CallerType
<1>2. ASSUME CallerInv(c)', UNCHANGED Locks PROVE CallersMove
  BY <1>1, <1>2 DEF CallersMove, Locks, TypeOK
<1> QED
  BY <1>1, <1>2

LEMMA MoveFacts ==
    ASSUME TypeOK, NEW c \in Caller, NEW step \in Steps, Move(c, step)
    PROVE  /\ at' \in [Caller -> CallerRec] /\ at'[c].step = step
           /\ at'[c].req = at[c].req /\ at'[c].own = at[c].own
           /\ at'[c].issue = at[c].issue /\ at'[c].body = at[c].body
           /\ \A v \in Caller \ {c} : at'[v] = at[v]
           /\ CallerInv(c)' /\ UNCHANGED Locks => CallersMove
<1> DEFINE r == [at[c] EXCEPT !.step = step]
<1>1. r \in CallerRec /\ r.step = step /\ r.req = at[c].req
      /\ r.own = at[c].own /\ r.issue = at[c].issue /\ r.body = at[c].body
  BY CallerType DEF CallerRec
<1>2. at' = [at EXCEPT ![c] = r]
  BY DEF Move
<1> HIDE DEF r
<1> QED
  BY <1>1, <1>2, GoFacts

-----------------------------------------------------------------------------
(* Steps by what they change                                                 *)

LEMMA CallersKeep ==
    ASSUME IInv, CallersMove, SettingsMove, IssuesMove, labelled \subseteq labelled',
           settings' = settings \/ writer = NoCaller
    PROVE  \A v \in Caller : CallerInv(v)'
<1> SUFFICES ASSUME NEW v \in Caller, at'[v] = at[v], writer = v => writer' = v
             PROVE  CallerInv(v)'
  BY DEF CallersMove
<1>1. CallerInv(v) /\ at[v].req \in Request /\ NoCaller \notin Caller
      /\ at[v].own \in Settings
  BY CallerType DEF IInv
<1>2. at[v].step \in {"check", "label", "readback"} =>
         settings' = settings /\ writer' = writer
  BY <1>1 DEF CallerInv
<1> DEFINE q == at[v].req
           s == settings[q]
           t == settings'[q]
           own == at[v].own
           step == at[v].step
<1>3. /\ q \in Request
      /\ s.issue # 0 => t.issue = s.issue
      /\ s.status # "none" => t.status # "none"
      /\ s.status \in Terminal => t.status \in Terminal
      /\ s.status \in {"active"} \cup Terminal =>
            t.status \in {"active"} \cup Terminal
      /\ step \in {"check", "label", "readback"} => t = s /\ writer' = writer
  BY <1>1, <1>2 DEF SettingsMove
<1>4. /\ step \in {"find", "create", "bind", "update", "activate"} =>
            t.status # "none"
      /\ step = "find" =>
            /\ own.issue \in {0, t.issue}
            /\ own.status = "active" => own.issue # 0
      /\ step \in {"update", "activate"} => t.issue # 0
      /\ step \in {"guard", "check", "label", "readback"} =>
            own.status = "active"
      /\ step \in {"check", "label", "readback"} => writer' = v /\ t = own
      /\ step = "retire" => t.status \in Terminal
  BY <1>1, <1>3 DEF CallerInv
<1>5. step \in {"bind", "update"} =>
         at[v].issue \in DOMAIN issues' /\ issues'[at[v].issue].req = q
  BY <1>1 DEF CallerInv, IssuesMove
<1>6. step = "complete" =>
         /\ own.issue = t.issue /\ own.issue \in labelled'
         /\ t.status \in {"active"} \cup Terminal
  <2> SUFFICES ASSUME step = "complete"
               PROVE  /\ own.issue = t.issue /\ own.issue \in labelled'
                      /\ t.status \in {"active"} \cup Terminal
    OBVIOUS
  <2>1. /\ own.issue = s.issue /\ own.issue \in labelled
        /\ s.status \in {"active"} \cup Terminal
    BY <1>1 DEF CallerInv
  <2>2. own.issue # 0
    BY <2>1, CallerType DEF IInv, Labels
  <2> QED
    BY <2>1, <2>2, <1>3
<1> QED
  BY <1>4, <1>5, <1>6 DEF CallerInv

LEMMA NothingMoves ==
    ASSUME IInv
    PROVE  /\ settings' = settings => SettingsMove
           /\ issues' = issues => IssuesMove
BY DEF IInv, TypeOK, SettingsMove, IssuesMove

\* Callers only read, or move their locks.
LEMMA QuietStep ==
    ASSUME IInv, CallersMove, told' \subseteq Request, faults' \in 0..MaxFaults,
           UNCHANGED <<outbox, settings, issues, labelled, wire, edits>>
    PROVE  IInv'
<1>1. \A v \in Caller : CallerInv(v)'
  BY CallersKeep, NothingMoves
<1>2. TypeOK'
  BY DEF IInv, TypeOK, CallersMove, CallerRec
<1>3. Bindings' /\ Labels' /\ DatabasesAgree' /\ Retired'
  BY DEF IInv, Bindings, Labels, DatabasesAgree, Retired
<1> QED
  BY <1>1, <1>2, <1>3 DEF IInv

\* A transaction on the settings database.
LEMMA SettingsStep ==
    ASSUME IInv, CallersMove, SettingsMove, Bindings', writer = NoCaller,
           UNCHANGED <<outbox, issues, labelled, told, wire, faults, edits>>
    PROVE  IInv'
<1>1. \A v \in Caller : CallerInv(v)'
  BY CallersKeep, NothingMoves
<1>2. TypeOK'
  BY DEF IInv, TypeOK, CallersMove, CallerRec, SettingsMove
<1>3. Labels'
  <2>1. ASSUME NEW n \in labelled
        PROVE  n \in DOMAIN issues /\ settings'[issues[n].req].issue = n
    BY CallerType DEF IInv, Labels, SettingsMove, Issue
  <2>2. ASSUME NEW m \in wire, m.kind = "label"
        PROVE  m.issue # 0 /\ settings'[m.req].issue = m.issue
    BY <2>2 DEF IInv, Labels, SettingsMove, TypeOK
  <2> QED
    BY <2>1, <2>2 DEF IInv, Labels
<1>4. DatabasesAgree' /\ Retired'
  <2> SUFFICES ASSUME NEW q \in Request
               PROVE  /\ outbox[q].state = "completed" =>
                            /\ outbox[q].issue = settings'[q].issue
                            /\ settings'[q].status \in {"active"} \cup Terminal
                            /\ issues[outbox[q].issue].req = q
                      /\ outbox[q].state = "ended" => settings'[q] = settings[q]
    BY DEF DatabasesAgree, Retired, IInv
  <2>1. CASE outbox[q].state = "completed"
    BY ZenonT(60), <2>1 DEF IInv, DatabasesAgree, Bindings, SettingsMove, Terminal
  <2>2. CASE outbox[q].state = "ended"
    <3>1. settings[q] \in Settings /\ settings'[q] \in Settings
      BY DEF IInv, TypeOK, SettingsMove
    <3>2. settings[q].status \in Terminal
      <4>1. settings[q] = [status |-> outbox[q].status,
                           issue |-> outbox[q].issue]
            /\ outbox[q].status \in Terminal
        BY <2>2 DEF IInv, DatabasesAgree, Retired
      <4> QED
        BY <4>1
    <3>3. settings[q].issue # 0
      BY <3>2 DEF IInv, Bindings, Terminal
    <3> QED
      BY <2>2, <3>1, <3>2, <3>3 DEF SettingsMove, Settings
  <2> QED
    BY <2>1, <2>2
<1> QED
  BY <1>1, <1>2, <1>3, <1>4 DEF IInv

\* A write to GitHub.
LEMMA IssuesStep ==
    ASSUME IInv, CallersMove, IssuesMove, Labels', labelled \subseteq labelled',
           labelled' \subseteq Number, wire' \subseteq Message,
           faults' \in 0..MaxFaults, edits' \in 0..MaxEdits,
           UNCHANGED <<outbox, settings, told>>
    PROVE  IInv'
<1>1. \A v \in Caller : CallerInv(v)'
  BY CallersKeep, NothingMoves
<1>2. TypeOK'
  BY DEF IInv, TypeOK, CallersMove, CallerRec, IssuesMove, Message
<1>3. Bindings' /\ DatabasesAgree' /\ Retired'
  <2>1. Bindings' /\ Retired'
    BY DEF IInv, Bindings, IssuesMove, Retired
  <2>2. \A q \in Request : outbox[q].state = "completed" =>
           outbox[q].issue \in DOMAIN issues
    BY DEF IInv, Bindings, DatabasesAgree, Terminal
  <2> QED
    BY <2>1, <2>2 DEF IInv, DatabasesAgree, IssuesMove
<1> QED
  BY <1>1, <1>2, <1>3 DEF IInv

\* A transaction on the outbox.
LEMMA OutboxStep ==
    ASSUME IInv, CallersMove, outbox' \in [Request -> Row],
           DatabasesAgree', Retired', told' \subseteq Request,
           UNCHANGED <<settings, issues, labelled, wire, faults, edits>>
    PROVE  IInv'
<1>1. \A v \in Caller : CallerInv(v)'
  BY CallersKeep, NothingMoves
<1>2. TypeOK'
  BY DEF IInv, TypeOK, CallersMove, CallerRec
<1>3. Bindings' /\ Labels'
  BY DEF IInv, Bindings, Labels
<1> QED
  BY <1>1, <1>2, <1>3 DEF IInv

-----------------------------------------------------------------------------
(* The callers' steps                                                        *)

LEMMA StartStep ==
    ASSUME IInv, NEW c \in Caller, NEW q \in Request, Start(c, q)
    PROVE  IInv'
<1>1. UNCHANGED <<outbox, settings, issues, labelled, wire, edits, faults, told>>
      /\ UNCHANGED Locks
  BY DEF Start, Databases, GitHub, Budget
<1>2. \E r \in Request, step \in {"save", "prepare"} :
         at' = [at EXCEPT ![c] = [Idle(r) EXCEPT !.step = step]]
  BY DEF Start, PendingRequests
<1>3. PICK r \in Request, step \in {"save", "prepare"} :
         at' = [at EXCEPT ![c] = [Idle(r) EXCEPT !.step = step]]
  BY <1>2
<1> DEFINE k == [Idle(r) EXCEPT !.step = step]
<1>4. k \in CallerRec /\ k.step = step
  BY IdleType DEF CallerRec, Steps
<1> HIDE DEF k
<1>5. CallersMove
  <2>1. at'[c] = k
    BY <1>3, <1>4, GoFacts DEF IInv, k
  <2>2. CallerInv(c)'
    BY <1>4, <2>1 DEF CallerInv
  <2> QED
    BY <1>1, <1>3, <1>4, <2>2, GoFacts DEF IInv, k
<1> QED
  BY <1>1, <1>5, QuietStep DEF IInv, TypeOK

LEMMA SaveStep ==
    ASSUME IInv, NEW c \in Caller, Save(c)
    PROVE  IInv'
<1> DEFINE q == at[c].req
           r == [outbox[q] EXCEPT !.state = "pending"]
<1>1. /\ UNCHANGED <<settings, issues, labelled, wire, edits, faults, told>>
      /\ UNCHANGED Locks /\ Move(c, "claim") /\ q \in Request
      /\ outbox' = [outbox EXCEPT ![q] =
                      IF outbox[q].state = "none" THEN r ELSE outbox[q]]
  BY CallerType DEF Save, GitHub, Budget, IInv, TypeOK
<1>2. CallersMove
  <2>1. CallerInv(c)'
    BY <1>1, MoveFacts DEF CallerInv, IInv, Steps
  <2> QED
    BY <1>1, <2>1, MoveFacts DEF IInv, Steps
<1>3. r \in Row /\ r.state = "pending"
  <2>1. outbox[q] \in Row
    BY <1>1 DEF IInv, TypeOK
  <2> QED
    BY <2>1 DEF Row
<1> HIDE DEF r
<1>4. /\ outbox' \in [Request -> Row]
      /\ \A p \in Request : outbox'[p].state = "pending" \/ outbox'[p] = outbox[p]
  BY <1>1, <1>3 DEF IInv, TypeOK
<1>5. DatabasesAgree' /\ Retired'
  BY <1>1, <1>4 DEF IInv, DatabasesAgree, Retired
<1> QED
  BY <1>1, <1>2, <1>4, <1>5, OutboxStep DEF IInv, TypeOK

LEMMA ClaimStep ==
    ASSUME IInv, NEW c \in Caller, Claim(c)
    PROVE  IInv'
<1>1. UNCHANGED <<outbox, settings, issues, labelled, wire, edits, faults, told>>
      /\ at[c].req \in Request
  BY CallerType DEF Claim, Databases, GitHub, Budget, IInv
<1>2. CASE Return(c)
  BY <1>1, <1>2, ReturnFacts, QuietStep DEF IInv, TypeOK
<1>3. ASSUME NEW step \in {"replay", "prepare"}, Move(c, step),
             claims' = [claims EXCEPT ![at[c].req] = c], UNCHANGED writer
      PROVE  IInv'
  <2>1. at' \in [Caller -> CallerRec] /\ at'[c].step = step
        /\ \A v \in Caller \ {c} : at'[v] = at[v]
    BY <1>3, MoveFacts DEF IInv, Steps
  <2>2. CallerInv(c)'
    BY <2>1 DEF CallerInv
  <2>3. CallersMove
    BY <1>1, <1>3, <2>1, <2>2 DEF CallersMove, IInv, TypeOK
  <2> QED
    BY <1>1, <2>3, QuietStep DEF IInv, TypeOK
<1> QED
  BY <1>2, <1>3 DEF Claim

\* A caller that finds the Task ended gives up, or retires its row.
LEMMA EndedFacts ==
    ASSUME IInv, NEW c \in Caller, Ended(c),
           settings'[at[c].req].status \in Terminal
    PROVE  CallersMove
<1>1. CASE Return(c)
  BY <1>1, ReturnFacts DEF IInv
<1>2. CASE Move(c, "retire") /\ UNCHANGED Locks
  <2>1. CallerInv(c)'
    BY <1>2, MoveFacts DEF IInv, CallerInv, Steps
  <2> QED
    BY <1>2, <2>1, MoveFacts DEF IInv, Steps
<1> QED
  BY <1>1, <1>2 DEF Ended

LEMMA PrepareStep ==
    ASSUME IInv, NEW c \in Caller, Prepare(c)
    PROVE  IInv'
<1> DEFINE q == at[c].req
           s == [settings[q] EXCEPT !.status = IF settings[q].status = "none"
                                                 THEN "prepared" ELSE @]
<1>1. /\ UNCHANGED <<outbox, issues, labelled, wire, edits, faults, told>>
      /\ writer = NoCaller /\ q \in Request
      /\ settings \in [Request -> Settings] /\ settings[q] \in Settings
  BY CallerType DEF Prepare, GitHub, Budget, IInv, TypeOK
<1>2. /\ s \in Settings /\ s.issue = settings[q].issue
      /\ s.status = IF settings[q].status = "none" THEN "prepared"
                                                   ELSE settings[q].status
  BY <1>1 DEF Settings
<1>3. settings' = [settings EXCEPT ![q] = s]
  BY <1>1 DEF Prepare
<1>4. CASE settings[q].status \in Terminal /\ Ended(c)
  <2>1. settings'[q].status \in Terminal
    BY <1>1, <1>2, <1>3, <1>4 DEF Terminal
  <2>2. CallersMove
    BY <1>4, <2>1, EndedFacts
  <2> HIDE DEF s
  <2>3. SettingsMove /\ Bindings'
    BY <1>1, <1>2, <1>3 DEF SettingsMove, IInv, Bindings, Terminal
  <2> QED
    BY <1>1, <2>2, <2>3, SettingsStep
<1>5. CASE /\ at' = [at EXCEPT ![c].step = "find", ![c].own = settings'[q]]
           /\ settings[q].status \notin Terminal /\ UNCHANGED Locks
  <2> DEFINE r == [at[c] EXCEPT !.step = "find", !.own = settings'[q]]
  <2>1. settings'[q] = s
    BY <1>1, <1>3
  <2> HIDE DEF s
  <2>2. r \in CallerRec /\ r.step = "find" /\ r.own = s /\ r.req = q
    BY <1>2, <2>1, CallerType DEF CallerRec, Steps, IInv
  <2>3. at' = [at EXCEPT ![c] = r]
    BY <1>5
  <2> HIDE DEF r
  <2>4. s.status = "active" => s.issue # 0
    BY <1>1, <1>2 DEF IInv, Bindings
  <2>5. CallerInv(c)'
    <3>1. at'[c] = r
      BY <2>2, <2>3, GoFacts DEF IInv
    <3>2. s.status # "none"
      BY <1>2
    <3> QED
      BY <2>1, <2>2, <2>4, <3>1, <3>2 DEF CallerInv
  <2>6. CallersMove
    BY <1>5, <2>2, <2>3, <2>5, GoFacts DEF IInv
  <2>7. SettingsMove /\ Bindings'
    BY <1>1, <1>2, <1>3 DEF SettingsMove, IInv, Bindings, Terminal
  <2> QED
    BY <1>1, <2>6, <2>7, SettingsStep
<1> QED
  BY <1>4, <1>5 DEF Prepare

LEMMA FindStep ==
    ASSUME IInv, NEW c \in Caller, Find(c)
    PROVE  IInv'
<1> DEFINE q == at[c].req
           own == at[c].own
<1>1. /\ UNCHANGED <<outbox, settings, issues, labelled, wire, edits, faults,
                     told>>
      /\ at[c].step = "find" /\ q \in Request /\ own \in Settings
  BY CallerType DEF Find, Databases, GitHub, Budget, IInv, At
<1>2. /\ settings[q].status # "none" /\ own.issue \in {0, settings[q].issue}
      /\ own.status = "active" => own.issue # 0
  BY <1>1 DEF IInv, CallerInv
<1>3. CASE Return(c)
  BY <1>1, <1>3, ReturnFacts, QuietStep DEF IInv, TypeOK
<1>4. CASE Move(c, "create") /\ UNCHANGED Locks
  <2>1. CallerInv(c)'
    BY <1>1, <1>2, <1>4, MoveFacts DEF IInv, CallerInv, Steps
  <2> QED
    BY <1>1, <1>4, <2>1, MoveFacts, QuietStep DEF IInv, Steps, TypeOK
<1>5. ASSUME NEW n \in Matching(q), UNCHANGED Locks,
             at' = [at EXCEPT ![c] =
                 [@ EXCEPT !.issue = n, !.body = issues[n].body,
                           !.step = AfterFind(own)]]
      PROVE  IInv'
  <2> DEFINE step == AfterFind(own)
             r == [at[c] EXCEPT !.issue = n, !.body = issues[n].body,
                                !.step = step]
  <2>1. n \in DOMAIN issues /\ issues[n].req = q /\ n \in Number
        /\ issues[n].body \in Body
    BY CallerType DEF Matching, IInv, Issue
  <2>2. /\ step \in {"guard", "bind", "update"}
        /\ step = "guard" => own.status = "active"
        /\ step = "update" => own.issue # 0
    BY DEF AfterFind
  <2>3. at' = [at EXCEPT ![c] = r]
    BY <1>5
  <2> HIDE DEF step
  <2>4. /\ r \in CallerRec /\ r.step = step /\ r.own = own /\ r.req = q
        /\ r.issue = n
    BY <2>1, <2>2, CallerType DEF CallerRec, Steps, IInv
  <2> HIDE DEF r
  <2>5. CallerInv(c)'
    BY <1>1, <1>2, <2>1, <2>2, <2>3, <2>4, GoFacts DEF IInv, CallerInv
  <2>6. CallersMove
    BY <1>5, <2>3, <2>4, <2>5, GoFacts DEF IInv
  <2> QED
    BY <1>1, <2>6, QuietStep DEF IInv, TypeOK
<1>6. CASE Cardinality(Matching(q)) = 1 /\ UNCHANGED Locks
           /\ \E n \in Matching(q) :
                at' = [at EXCEPT ![c] =
                 [@ EXCEPT !.issue = n, !.body = issues[n].body,
                           !.step = AfterFind(own)]]
  BY <1>5, <1>6
<1> QED
  BY <1>3, <1>4, <1>6 DEF Find

-----------------------------------------------------------------------------
(* Writes to GitHub                                                          *)

LEMMA PutIssueFacts ==
    ASSUME IInv, NEW q \in Request, PutIssue(q), settings' = settings,
           wire' \subseteq wire
    PROVE  /\ IssuesMove /\ Labels' /\ labelled' = labelled
           /\ Len(issues') = Len(issues) + 1
           /\ Len(issues) + 1 \in Number /\ Len(issues) + 1 \in DOMAIN issues'
           /\ issues'[Len(issues) + 1].req = q
<1> DEFINE n == Len(issues) + 1
<1>1. NewIssue(q) \in Issue /\ NewIssue(q).req = q /\ ~NewIssue(q).ready
  BY DEF NewIssue, Issue, Body
<1>2. issues \in Seq(Issue) /\ Len(issues) < MaxIssues /\ MaxIssues \in Nat
      /\ issues' = Append(issues, NewIssue(q)) /\ labelled' = labelled
  BY CallerType DEF PutIssue, IInv, TypeOK
<1>3. /\ issues' \in Seq(Issue) /\ Len(issues') = n /\ n \in Number
      /\ DOMAIN issues' = 1..n /\ DOMAIN issues = 1..(n - 1) /\ n \in Nat \ {0}
      /\ issues'[n] = NewIssue(q)
      /\ \A k \in DOMAIN issues : issues'[k] = issues[k]
  BY <1>1, <1>2 DEF Number
<1>4. IssuesMove
  BY <1>2, <1>3 DEF IssuesMove
<1>5. Labels'
  <2>1. \A k \in labelled' :
           k \in DOMAIN issues' /\ settings'[issues'[k].req].issue = k
    BY <1>2, <1>3 DEF IInv, Labels
  <2>2. \A k \in DOMAIN issues' : issues'[k].ready => k \in labelled'
    BY <1>1, <1>2, <1>3 DEF IInv, Labels
  <2> QED
    BY <2>1, <2>2 DEF IInv, Labels
<1> QED
  BY <1>1, <1>2, <1>3, <1>4, <1>5

LEMMA PutBodyFacts ==
    ASSUME IInv, NEW n \in DOMAIN issues, PutBody(n), settings' = settings,
           wire' \subseteq wire
    PROVE  IssuesMove /\ Labels' /\ labelled' = labelled
<1> DEFINE i == [issues[n] EXCEPT !.body = "bound"]
<1>1. i \in Issue /\ i.req = issues[n].req /\ i.ready = issues[n].ready
  BY CallerType DEF IInv, Issue, Body
<1>2. issues' = [issues EXCEPT ![n] = i] /\ labelled' = labelled
      /\ issues \in Seq(Issue) /\ Len(issues) <= MaxIssues
  BY DEF PutBody, IInv, TypeOK
<1> HIDE DEF i
<1>3. /\ issues' \in Seq(Issue) /\ Len(issues') = Len(issues)
      /\ DOMAIN issues' = DOMAIN issues
      /\ \A k \in DOMAIN issues : issues'[k] = IF k = n THEN i ELSE issues[k]
  BY <1>1, <1>2
<1>4. \A k \in DOMAIN issues : issues'[k].req = issues[k].req
                               /\ issues'[k].ready = issues[k].ready
  BY <1>1, <1>3
<1> QED
  BY <1>2, <1>3, <1>4 DEF IInv, Labels, IssuesMove

LEMMA PutLabelFacts ==
    ASSUME IInv, NEW n \in DOMAIN issues, settings[issues[n].req].issue = n,
           PutLabel(n), settings' = settings, wire' \subseteq wire
    PROVE  /\ IssuesMove /\ Labels' /\ labelled' = labelled \cup {n}
           /\ labelled' \subseteq Number
<1> DEFINE i == [issues[n] EXCEPT !.ready = TRUE]
<1>1. i \in Issue /\ i.req = issues[n].req
  BY CallerType DEF IInv, Issue
<1>2. issues' = [issues EXCEPT ![n] = i] /\ labelled' = labelled \cup {n}
      /\ issues \in Seq(Issue) /\ Len(issues) <= MaxIssues
  BY DEF PutLabel, IInv, TypeOK
<1> HIDE DEF i
<1>3. /\ issues' \in Seq(Issue) /\ Len(issues') = Len(issues)
      /\ DOMAIN issues' = DOMAIN issues
      /\ \A k \in DOMAIN issues : issues'[k] = IF k = n THEN i ELSE issues[k]
  BY <1>1, <1>2
<1>4. \A k \in DOMAIN issues : issues'[k].req = issues[k].req
                               /\ (k # n => issues'[k].ready = issues[k].ready)
  BY <1>1, <1>3
<1>5. labelled' \subseteq Number
  BY <1>2, CallerType DEF IInv, TypeOK
<1> QED
  BY <1>2, <1>3, <1>4, <1>5 DEF IInv, Labels, IssuesMove

\* The issue that a caller updates, and the one that it labels.
LEMMA TargetFacts ==
    ASSUME IInv, NEW c \in Caller
    PROVE  /\ at[c].step \in {"bind", "update"} => at[c].issue \in DOMAIN issues
           /\ at[c].step \in {"check", "label", "readback"} =>
                 /\ at[c].own.issue \in DOMAIN issues
                 /\ issues[at[c].own.issue].req = at[c].req
                 /\ settings[at[c].req] = at[c].own
                 /\ at[c].own.status = "active" /\ at[c].own.issue # 0
                 /\ writer = c
<1>1. at[c].req \in Request /\ CallerInv(c)
  BY CallerType DEF IInv
<1> QED
  BY <1>1 DEF CallerInv, IInv, Bindings

LEMMA CreateStep ==
    ASSUME IInv, NEW c \in Caller, Create(c)
    PROVE  IInv'
<1> DEFINE n == Len(issues) + 1
           r == [at[c] EXCEPT !.step = "bind", !.issue = n, !.body = "unbound"]
<1>1. /\ UNCHANGED <<outbox, settings, wire, edits, faults, told>>
      /\ UNCHANGED Locks /\ at[c].step = "create" /\ at[c].req \in Request
      /\ PutIssue(at[c].req) /\ at' = [at EXCEPT ![c] = r]
  BY CallerType DEF Create, Databases, Budget, IInv, At
<1>2. /\ IssuesMove /\ Labels' /\ labelled' = labelled /\ n \in Number
      /\ n \in DOMAIN issues' /\ issues'[n].req = at[c].req
  BY <1>1, PutIssueFacts
<1> HIDE DEF n
<1>3. /\ r \in CallerRec /\ r.step = "bind" /\ r.issue = n /\ r.req = at[c].req
  BY <1>2, CallerType DEF CallerRec, Steps, IInv, Body
<1> HIDE DEF r
<1>4. CallerInv(c)'
  <2>1. at'[c] = r
    BY <1>1, <1>3, GoFacts DEF IInv
  <2>2. settings'[at[c].req].status # "none"
    BY <1>1 DEF IInv, CallerInv
  <2> QED
    BY <1>2, <1>3, <2>1, <2>2 DEF CallerInv
<1>5. CallersMove
  BY <1>1, <1>3, <1>4, GoFacts DEF IInv
<1> QED
  BY <1>1, <1>2, <1>5, IssuesStep DEF IInv, TypeOK, Message

LEMMA BindStep ==
    ASSUME IInv, NEW c \in Caller, Bind(c)
    PROVE  IInv'
<1> DEFINE q == at[c].req
           bound == IF settings[q].issue = 0
                      THEN [settings[q] EXCEPT !.issue = at[c].issue]
                      ELSE settings[q]
           step == IF bound.status = "active" THEN "guard" ELSE "update"
<1>1. /\ UNCHANGED <<outbox, issues, labelled, wire, edits, faults, told>>
      /\ at[c].step = "bind" /\ writer = NoCaller /\ q \in Request
      /\ settings \in [Request -> Settings] /\ settings[q] \in Settings
      /\ at[c].issue \in Number
  BY CallerType DEF Bind, GitHub, Budget, IInv, TypeOK, At, CallerRec
<1>2. /\ at[c].issue \in DOMAIN issues /\ issues[at[c].issue].req = q
      /\ settings[q].status # "none" /\ at[c].issue # 0
  BY <1>1, CallerType DEF IInv, CallerInv
<1>3. CASE Return(c) /\ UNCHANGED settings
  BY <1>1, <1>3, ReturnFacts, QuietStep DEF IInv, TypeOK
<1>4. CASE /\ settings[q].issue \in {0, at[c].issue}
           /\ settings' = [settings EXCEPT ![q] = bound]
           /\ at' = [at EXCEPT ![c].own = bound, ![c].step = step]
           /\ UNCHANGED Locks
  <2> DEFINE r == [at[c] EXCEPT !.own = bound, !.step = step]
  <2>1. /\ bound \in Settings /\ bound.issue = at[c].issue
        /\ bound.status = settings[q].status
    BY <1>1, <1>4 DEF Settings
  <2>2. step \in {"guard", "update"}
        /\ (step = "guard" => bound.status = "active")
    OBVIOUS
  <2>3. settings'[q] = bound /\ at' = [at EXCEPT ![c] = r]
    BY <1>1, <1>4
  <2>4. settings' = [settings EXCEPT ![q] = bound]
    BY <1>4
  <2> HIDE DEF bound, step
  <2>5. r \in CallerRec /\ r.step = step /\ r.own = bound /\ r.req = q
        /\ r.issue = at[c].issue
    BY <2>1, <2>2, CallerType DEF CallerRec, Steps, IInv
  <2> HIDE DEF r
  <2>6. CallerInv(c)'
    <3>1. at'[c] = r
      BY <2>3, <2>5, GoFacts DEF IInv
    <3> QED
      BY <1>1, <1>2, <2>1, <2>2, <2>3, <2>5, <3>1 DEF CallerInv
  <2>7. CallersMove
    BY <1>4, <2>3, <2>5, <2>6, GoFacts DEF IInv
  <2>8. SettingsMove
    BY <1>1, <1>4, <2>1, <2>4 DEF SettingsMove, Terminal
  <2>9. Bindings'
    BY <1>1, <1>2, <2>1, <2>4 DEF IInv, Bindings
  <2> QED
    BY <1>1, <2>7, <2>8, <2>9, SettingsStep
<1> QED
  BY <1>3, <1>4 DEF Bind

LEMMA UpdateStep ==
    ASSUME IInv, NEW c \in Caller, Update(c)
    PROVE  IInv'
<1> DEFINE r == [at[c] EXCEPT !.step = "activate", !.body = "bound"]
<1>1. /\ UNCHANGED <<outbox, settings, wire, edits, faults, told>>
      /\ UNCHANGED Locks /\ at[c].step = "update"
      /\ PutBody(at[c].issue) /\ at' = [at EXCEPT ![c] = r]
  BY DEF Update, Databases, Budget, At
<1>2. IssuesMove /\ Labels' /\ labelled' = labelled
  BY <1>1, PutBodyFacts, TargetFacts
<1>3. r \in CallerRec /\ r.step = "activate" /\ r.req = at[c].req
  BY CallerType DEF CallerRec, Steps, IInv, Body
<1> HIDE DEF r
<1>4. CallerInv(c)'
  <2>1. at'[c] = r
    BY <1>1, <1>3, GoFacts DEF IInv
  <2>2. settings[at[c].req].status # "none" /\ settings[at[c].req].issue # 0
    BY <1>1 DEF IInv, CallerInv
  <2> QED
    BY <1>1, <1>3, <2>1, <2>2 DEF CallerInv
<1>5. CallersMove
  BY <1>1, <1>3, <1>4, GoFacts DEF IInv
<1> QED
  BY <1>1, <1>2, <1>5, IssuesStep DEF IInv, TypeOK, Message

LEMMA ActivateStep ==
    ASSUME IInv, NEW c \in Caller, Activate(c)
    PROVE  IInv'
<1> DEFINE q == at[c].req
           s == [settings[q] EXCEPT !.status = "active"]
<1>1. /\ UNCHANGED <<outbox, issues, labelled, wire, edits, faults, told>>
      /\ at[c].step = "activate" /\ writer = NoCaller /\ q \in Request
      /\ settings \in [Request -> Settings] /\ settings[q] \in Settings
  BY CallerType DEF Activate, GitHub, Budget, IInv, TypeOK, At
<1>2. settings[q].issue # 0
  BY <1>1 DEF IInv, CallerInv
<1>3. CASE Return(c) /\ UNCHANGED settings
  BY <1>1, <1>3, ReturnFacts, QuietStep DEF IInv, TypeOK
<1>4. CASE /\ settings[q].status \notin Terminal
           /\ settings' = [settings EXCEPT ![q].status = "active"]
           /\ at' = [at EXCEPT ![c].step = "guard", ![c].own = settings'[q]]
           /\ UNCHANGED Locks
  <2> DEFINE r == [at[c] EXCEPT !.step = "guard", !.own = s]
  <2>1. s \in Settings /\ s.issue = settings[q].issue /\ s.status = "active"
    BY <1>1 DEF Settings
  <2>2. settings' = [settings EXCEPT ![q] = s] /\ settings'[q] = s
    BY <1>1, <1>4
  <2>3. at' = [at EXCEPT ![c] = r]
    BY <1>4, <2>2
  <2> HIDE DEF s
  <2>4. r \in CallerRec /\ r.step = "guard" /\ r.own = s
    BY <2>1, CallerType DEF CallerRec, Steps, IInv
  <2> HIDE DEF r
  <2>5. CallerInv(c)'
    <3>1. at'[c] = r
      BY <2>3, <2>4, GoFacts DEF IInv
    <3> QED
      BY <2>1, <2>4, <3>1 DEF CallerInv
  <2>6. CallersMove
    BY <1>4, <2>3, <2>4, <2>5, GoFacts DEF IInv
  <2>7. SettingsMove
    BY <1>1, <1>4, <2>1, <2>2 DEF SettingsMove
  <2>8. Bindings'
    BY <1>1, <1>2, <2>1, <2>2 DEF IInv, Bindings
  <2> QED
    BY <1>1, <2>6, <2>7, <2>8, SettingsStep
<1> QED
  BY <1>3, <1>4 DEF Activate

LEMMA GuardReadyStep ==
    ASSUME IInv, NEW c \in Caller, GuardReady(c)
    PROVE  IInv'
<1>1. /\ UNCHANGED <<outbox, settings, issues, labelled, wire, edits, faults,
                     told>>
      /\ at[c].step = "guard" /\ writer = NoCaller /\ at[c].req \in Request
      /\ at[c].own.status = "active" /\ NoCaller \notin Caller
  BY CallerType DEF GuardReady, Databases, GitHub, Budget, IInv, At, CallerInv
<1>2. CASE settings[at[c].req].status \in Terminal /\ Ended(c)
  BY <1>1, <1>2, EndedFacts, QuietStep DEF IInv, TypeOK
<1>3. CASE Return(c)
  BY <1>1, <1>3, ReturnFacts, QuietStep DEF IInv, TypeOK
<1>4. CASE /\ settings[at[c].req] = at[c].own
           /\ writer' = c /\ Move(c, "check") /\ UNCHANGED claims
  <2>1. /\ at' \in [Caller -> CallerRec] /\ at'[c].step = "check"
        /\ at'[c].req = at[c].req /\ at'[c].own = at[c].own
        /\ \A v \in Caller \ {c} : at'[v] = at[v]
    BY <1>4, MoveFacts DEF IInv, Steps
  <2>2. CallerInv(c)'
    BY <1>1, <1>4, <2>1 DEF CallerInv
  <2>3. CallersMove
    BY <1>1, <1>4, <2>1, <2>2 DEF CallersMove, IInv, TypeOK
  <2> QED
    BY <1>1, <2>3, QuietStep DEF IInv, TypeOK
<1> QED
  BY <1>2, <1>3, <1>4 DEF GuardReady

LEMMA CheckIssueStep ==
    ASSUME IInv, NEW c \in Caller, CheckIssue(c)
    PROVE  IInv'
<1>1. /\ UNCHANGED <<outbox, settings, issues, labelled, wire, edits, faults,
                     told>>
      /\ at[c].step = "check"
  BY DEF CheckIssue, Databases, GitHub, Budget, At
<1>2. CASE Return(c)
  BY <1>1, <1>2, ReturnFacts, QuietStep DEF IInv, TypeOK
<1>3. CASE Move(c, "label") /\ UNCHANGED Locks
  <2>1. CallerInv(c)'
    BY <1>1, <1>3, MoveFacts, TargetFacts DEF IInv, CallerInv, Steps, Locks
  <2> QED
    BY <1>1, <1>3, <2>1, MoveFacts, QuietStep DEF IInv, Steps, TypeOK
<1> QED
  BY <1>2, <1>3 DEF CheckIssue

LEMMA LabelStep ==
    ASSUME IInv, NEW c \in Caller, Label(c)
    PROVE  IInv'
<1>1. /\ UNCHANGED <<outbox, settings, wire, edits, faults, told>>
      /\ UNCHANGED Locks /\ at[c].step = "label"
      /\ PutLabel(at[c].own.issue) /\ Move(c, "readback")
  BY DEF Label, Databases, Budget, At
<1>2. IssuesMove /\ Labels' /\ labelled \subseteq labelled'
      /\ labelled' \subseteq Number
  BY <1>1, PutLabelFacts, TargetFacts
<1>3. CallerInv(c)'
  BY <1>1, MoveFacts, TargetFacts DEF IInv, CallerInv, Steps, Locks
<1>4. CallersMove
  BY <1>1, <1>3, MoveFacts DEF IInv, Steps
<1> QED
  BY <1>1, <1>2, <1>4, IssuesStep DEF IInv, TypeOK, Message

LEMMA ReadbackStep ==
    ASSUME IInv, NEW c \in Caller, Readback(c)
    PROVE  IInv'
<1>1. /\ UNCHANGED <<outbox, settings, issues, labelled, wire, edits, faults>>
      /\ at[c].step = "readback" /\ at[c].req \in Request
      /\ told' \subseteq Request
  BY CallerType DEF Readback, Databases, GitHub, Budget, At, IInv, TypeOK
<1>2. CASE Return(c)
  BY <1>1, <1>2, ReturnFacts, QuietStep DEF IInv, TypeOK
<1>3. CASE /\ issues[at[c].own.issue].ready /\ writer' = NoCaller
           /\ Move(c, "complete") /\ UNCHANGED claims
  <2>1. /\ at' \in [Caller -> CallerRec] /\ at'[c].step = "complete"
        /\ at'[c].req = at[c].req /\ at'[c].own = at[c].own
        /\ \A v \in Caller \ {c} : at'[v] = at[v]
    BY <1>3, MoveFacts DEF IInv, Steps
  <2>2. at[c].own.issue \in labelled /\ settings[at[c].req] = at[c].own
        /\ writer = c /\ at[c].own.status = "active"
    BY <1>1, <1>3, TargetFacts DEF IInv, Labels
  <2>3. CallerInv(c)'
    BY <1>1, <2>1, <2>2 DEF CallerInv
  <2>4. CallersMove
    BY <1>1, <1>3, <2>1, <2>2, <2>3 DEF CallersMove, IInv, TypeOK
  <2> QED
    BY <1>1, <2>4, QuietStep DEF IInv, TypeOK
<1> QED
  BY <1>2, <1>3 DEF Readback

LEMMA CompleteStep ==
    ASSUME IInv, NEW c \in Caller, Complete(c)
    PROVE  IInv'
<1> DEFINE q == at[c].req
           r == [outbox[q] EXCEPT !.state = "completed",
                                  !.issue = at[c].own.issue]
<1>1. /\ UNCHANGED <<settings, issues, labelled, wire, edits, faults>>
      /\ at[c].step = "complete" /\ q \in Request /\ Return(c)
      /\ told' \subseteq Request /\ outbox[q] \in Row
      /\ at[c].own.issue \in Number /\ outbox \in [Request -> Row]
  BY CallerType DEF Complete, GitHub, Budget, At, IInv, TypeOK, Settings
<1>2. r \in Row /\ r.state = "completed" /\ r.issue = at[c].own.issue
  BY <1>1 DEF Row
<1>3. outbox' = [outbox EXCEPT ![q] = r]
  BY DEF Complete
<1>4. at[c].own.issue = settings[q].issue /\ at[c].own.issue \in labelled
  BY <1>1 DEF IInv, CallerInv
<1> HIDE DEF r
<1>5. /\ outbox' \in [Request -> Row]
      /\ \A p \in Request : outbox'[p] = IF p = q THEN r ELSE outbox[p]
  BY <1>1, <1>2, <1>3
<1>6. /\ settings[q].status \in {"active"} \cup Terminal
      /\ issues[settings[q].issue].req = q
  <2>1. settings[q].issue \in DOMAIN issues /\ settings[q].issue # 0
    BY <1>4, CallerType DEF IInv, Labels
  <2>2. issues[settings[q].issue].req = q
    BY <1>1, <2>1 DEF IInv, Bindings
  <2>3. settings[q].status \in {"active"} \cup Terminal
    BY <1>1 DEF IInv, CallerInv
  <2> QED
    BY <2>2, <2>3
<1>7. DatabasesAgree' /\ Retired'
  BY <1>1, <1>2, <1>4, <1>5, <1>6 DEF IInv, DatabasesAgree, Retired
<1> QED
  BY <1>1, <1>5, <1>7, ReturnFacts, OutboxStep DEF IInv

LEMMA RetireStep ==
    ASSUME IInv, NEW c \in Caller, Retire(c)
    PROVE  IInv'
<1> DEFINE q == at[c].req
           r == [state |-> "ended", issue |-> settings[q].issue,
                 status |-> settings[q].status]
<1>1. /\ UNCHANGED <<settings, issues, labelled, wire, edits, faults, told>>
      /\ at[c].step = "retire" /\ q \in Request /\ Return(c)
      /\ outbox \in [Request -> Row] /\ settings[q] \in Settings
      /\ outbox' = [outbox EXCEPT ![q] = r] /\ told \subseteq Request
  BY CallerType DEF Retire, GitHub, Budget, At, IInv, TypeOK
<1>2. settings[q].status \in Terminal
  BY <1>1 DEF IInv, CallerInv
<1>3. /\ r \in Row /\ r.state = "ended"
      /\ r.issue = settings[q].issue /\ r.status = settings[q].status
      /\ settings[q] = [status |-> r.status, issue |-> r.issue]
  BY <1>1, <1>2 DEF Row, Settings
<1> HIDE DEF r
<1>4. /\ outbox' \in [Request -> Row]
      /\ \A p \in Request : outbox'[p] = IF p = q THEN r ELSE outbox[p]
  BY <1>1, <1>3
<1>5. DatabasesAgree' /\ Retired'
  BY <1>1, <1>2, <1>3, <1>4 DEF IInv, DatabasesAgree, Retired
<1> QED
  BY <1>1, <1>4, <1>5, ReturnFacts, OutboxStep DEF IInv

LEMMA ReplayStep ==
    ASSUME IInv, NEW c \in Caller, Replay(c)
    PROVE  IInv'
<1>1. /\ UNCHANGED <<outbox, settings, issues, labelled, wire, edits, faults>>
      /\ Return(c) /\ told' \subseteq Request
  BY CallerType DEF Replay, Databases, GitHub, Budget, IInv, TypeOK
<1> QED
  BY <1>1, ReturnFacts, QuietStep DEF IInv, TypeOK

-----------------------------------------------------------------------------
(* Faults, and everyone else                                                 *)

LEMMA FaultFacts ==
    ASSUME IInv, faults < MaxFaults, faults' = faults + 1
    PROVE  faults' \in 0..MaxFaults
BY DeliveryAssumption DEF IInv, TypeOK

LEMMA DieStep ==
    ASSUME IInv, NEW c \in Caller, Die(c)
    PROVE  IInv'
<1>1. /\ UNCHANGED <<outbox, settings, issues, labelled, wire, edits, told>>
      /\ Return(c) /\ faults' \in 0..MaxFaults
  BY FaultFacts DEF Die, Databases, GitHub
<1> QED
  BY <1>1, ReturnFacts, QuietStep DEF IInv, TypeOK

LEMMA LoseStep ==
    ASSUME IInv, NEW c \in Caller, Lose(c)
    PROVE  IInv'
<1>1. /\ UNCHANGED <<outbox, settings, wire, edits, told>>
      /\ Return(c) /\ faults' \in 0..MaxFaults /\ at[c].req \in Request
      /\ labelled \subseteq Number /\ wire \subseteq Message
      /\ edits' \in 0..MaxEdits
  BY FaultFacts, CallerType DEF Lose, Databases, IInv, TypeOK, Message
<1>2. IssuesMove /\ Labels' /\ labelled \subseteq labelled'
      /\ labelled' \subseteq Number
  <2>1. CASE at[c].step = "create" /\ PutIssue(at[c].req)
    BY <1>1, <2>1, PutIssueFacts
  <2>2. CASE at[c].step = "update" /\ PutBody(at[c].issue)
    BY <1>1, <2>2, TargetFacts, PutBodyFacts
  <2>3. CASE at[c].step = "label" /\ PutLabel(at[c].own.issue)
    BY <1>1, <2>3, TargetFacts, PutLabelFacts
  <2> QED
    BY <2>1, <2>2, <2>3, DeliveryAssumption DEF Lose, At
<1> QED
  BY <1>1, <1>2, ReturnFacts, IssuesStep DEF IInv

LEMMA AbandonStep ==
    ASSUME IInv, NEW c \in Caller, Abandon(c)
    PROVE  IInv'
<1> DEFINE m == [kind |-> at[c].step, req |-> at[c].req,
                 issue |-> at[c].own.issue]
<1>1. /\ UNCHANGED <<outbox, settings, issues, labelled, edits, told>>
      /\ Return(c) /\ faults' \in 0..MaxFaults /\ wire' = wire \cup {m}
      /\ at[c].step \in {"create", "label"}
      /\ labelled' \subseteq Number /\ wire \subseteq Message
      /\ edits' \in 0..MaxEdits
  BY FaultFacts, DeliveryAssumption
     DEF Abandon, Databases, GitHub, IInv, TypeOK, Message
<1>2. m \in Message
  BY <1>1, CallerType DEF Message, Settings, IInv
<1>3. m.kind = "label" =>
         m.issue # 0 /\ settings[m.req].issue = m.issue
  BY TargetFacts
<1> HIDE DEF m
<1>4. Labels'
  BY <1>1, <1>3 DEF IInv, Labels
<1> QED
  BY <1>1, <1>2, <1>4, ReturnFacts, IssuesStep, NothingMoves DEF IInv

LEMMA ArriveFacts ==
    ASSUME IInv, NEW m \in wire, m.kind = "label"
    PROVE  /\ m.req \in Request /\ m.issue \in DOMAIN issues
           /\ issues[m.issue].req = m.req /\ settings[m.req].issue = m.issue
           /\ m.issue # 0
BY DEF IInv, Labels, Bindings, TypeOK

\* A caller that does not move keeps what it has.
LEMMA StillCallers ==
    ASSUME IInv, UNCHANGED <<at, claims, writer>>
    PROVE  CallersMove
BY CallerType DEF IInv, CallersMove, TypeOK

LEMMA ArriveStep ==
    ASSUME IInv, NEW m \in wire, Arrive(m)
    PROVE  IInv'
<1>1. /\ UNCHANGED <<outbox, settings, edits, faults, told, at, claims, writer>>
      /\ wire' \subseteq wire /\ wire' \subseteq Message /\ m.req \in Request
      /\ m.kind \in {"create", "label"} /\ labelled \subseteq Number
      /\ faults' \in 0..MaxFaults /\ edits' \in 0..MaxEdits
  BY DEF Arrive, Databases, Locks, IInv, TypeOK, Message
<1>2. IssuesMove /\ Labels' /\ labelled \subseteq labelled'
      /\ labelled' \subseteq Number
  <2>1. CASE m.kind = "create" /\ PutIssue(m.req)
    BY <1>1, <2>1, PutIssueFacts
  <2>2. CASE m.kind = "label" /\ PutLabel(m.issue)
    BY <1>1, <2>2, ArriveFacts, PutLabelFacts
  <2> QED
    BY <1>1, <2>1, <2>2 DEF Arrive
<1> QED
  BY <1>1, <1>2, StillCallers, IssuesStep

LEMMA EndStep ==
    ASSUME IInv, NEW q \in Request, NEW status \in Ends, End(q, status)
    PROVE  IInv'
<1> DEFINE s == [settings[q] EXCEPT !.status = status]
<1>1. /\ UNCHANGED <<outbox, issues, labelled, wire, edits, faults, told, at>>
      /\ UNCHANGED <<claims, writer>> /\ settings[q].status = "active"
      /\ writer = NoCaller /\ status \in Terminal
      /\ settings \in [Request -> Settings] /\ settings[q] \in Settings
  BY DeliveryAssumption
     DEF End, GitHub, Budget, Locks, IInv, TypeOK, Terminal
<1>2. /\ s \in Settings /\ s.status \in Terminal /\ s.issue = settings[q].issue
      /\ s.status \notin {"none", "active"}
  BY <1>1 DEF Settings, Terminal
<1>3. settings' = [settings EXCEPT ![q] = s]
  BY <1>1 DEF End
<1> HIDE DEF s
<1>4. SettingsMove
  BY <1>1, <1>2, <1>3 DEF SettingsMove, Terminal
<1>5. Bindings'
  BY <1>1, <1>2, <1>3 DEF IInv, Bindings
<1> QED
  BY <1>1, <1>4, <1>5, StillCallers, SettingsStep

LEMMA EditFacts ==
    ASSUME IInv, NEW n \in DOMAIN issues, Edit(n)
    PROVE  /\ issues' \in Seq(Issue) /\ Len(issues') = Len(issues)
           /\ DOMAIN issues' = DOMAIN issues /\ labelled' = labelled
           /\ \A k \in DOMAIN issues :
                 /\ issues'[k].req = issues[k].req
                 /\ issues'[k].ready => issues[k].ready
<1> DEFINE b == [issues[n] EXCEPT !.body = "edited"]
           l == [issues[n] EXCEPT !.ready = FALSE]
<1>1. /\ b \in Issue /\ b.req = issues[n].req /\ b.ready = issues[n].ready
      /\ l \in Issue /\ l.req = issues[n].req /\ ~l.ready
  BY CallerType DEF IInv, Issue, Body
<1>2. issues \in Seq(Issue) /\ labelled' = labelled
      /\ \E i \in {b, l} : issues' = [issues EXCEPT ![n] = i]
  BY DEF Edit, IInv, TypeOK
<1> HIDE DEF b, l
<1>3. PICK i \in Issue : /\ issues' = [issues EXCEPT ![n] = i]
                         /\ i.req = issues[n].req
                         /\ i.ready => issues[n].ready
  BY <1>1, <1>2
<1> QED
  BY <1>2, <1>3

LEMMA EditStep ==
    ASSUME IInv, NEW n \in DOMAIN issues, Edit(n)
    PROVE  IInv'
<1>1. /\ UNCHANGED <<outbox, settings, faults, told, at, claims, writer, wire>>
      /\ edits' \in 0..MaxEdits /\ wire' \subseteq Message
      /\ faults' \in 0..MaxFaults /\ labelled \subseteq Number
      /\ Len(issues) <= MaxIssues
  BY DeliveryAssumption DEF Edit, Databases, Locks, IInv, TypeOK, Message
<1>2. IssuesMove /\ Labels' /\ labelled' = labelled
  BY <1>1, EditFacts DEF IInv, IssuesMove, Labels
<1> QED
  BY <1>1, <1>2, StillCallers, IssuesStep

-----------------------------------------------------------------------------
(* The invariant holds                                                       *)

LEMMA InitInv == Init => IInv
<1> SUFFICES ASSUME Init PROVE IInv
  OBVIOUS
<1>1. PICK q \in Request : at = [c \in Caller |-> Idle(q)]
  BY DEF Init
<1>2. TypeOK
  <2>1. at \in [Caller -> CallerRec]
    BY <1>1, IdleType
  <2>2. 0 \in Number /\ 0 \in 0..MaxFaults /\ 0 \in 0..MaxEdits
        /\ MaxIssues \in Nat
    BY DeliveryAssumption DEF Number
  <2>3. outbox \in [Request -> Row] /\ settings \in [Request -> Settings]
    BY <2>2 DEF Init, Row, Settings
  <2>4. issues \in Seq(Issue) /\ Len(issues) <= MaxIssues
    BY <2>2 DEF Init
  <2> QED
    BY <2>1, <2>2, <2>3, <2>4 DEF Init, TypeOK, CallerRec
<1>3. \A c \in Caller : CallerInv(c)
  BY <1>1 DEF CallerInv, Idle
<1>4. Bindings /\ Labels /\ DatabasesAgree /\ Retired
  BY DEF Init, Bindings, Labels, DatabasesAgree, Retired
<1> QED
  BY <1>2, <1>3, <1>4 DEF IInv

LEMMA StutterInv == IInv /\ UNCHANGED vars => IInv'
<1> SUFFICES ASSUME IInv, UNCHANGED vars PROVE IInv'
  OBVIOUS
<1>1. UNCHANGED <<outbox, settings, issues, claims, writer, at, told, labelled,
                  wire, faults, edits>>
  BY DEF vars
<1> QED
  BY <1>1, StillCallers, QuietStep DEF IInv, TypeOK

LEMMA StepInv ==
    ASSUME IInv, NEW c \in Caller, Step(c)
    PROVE  IInv'
BY StartStep, SaveStep, ClaimStep, PrepareStep, FindStep, CreateStep, BindStep,
   UpdateStep, ActivateStep, GuardReadyStep, CheckIssueStep, LabelStep,
   ReadbackStep, CompleteStep, RetireStep, ReplayStep DEF Step

\* Whatever dies, is lost or arrives late, and whoever ends a Task meanwhile.
THEOREM Invariance == Spec => []IInv
<1>1. IInv /\ Next => IInv'
  BY StepInv, DieStep, LoseStep, AbandonStep, ArriveStep, EndStep, EditStep
     DEF Next
<1> QED
  BY <1>1, InitInv, StutterInv, PTL DEF Spec

\* The databases, the issues and the callers' copies stay well formed.
THEOREM TypeCorrect == Spec => []TypeOK
<1>1. IInv => TypeOK
  BY DEF IInv
<1> QED
  BY <1>1, Invariance, PTL

\* The outbox and the settings database are written one after the other, by
\* several processes that may die in between; what the first says of a
\* finished or retired delivery, the second and GitHub confirm.
THEOREM OutboxFollowsSettings == Spec => []DatabasesAgree
<1>1. IInv => DatabasesAgree
  BY DEF IInv
<1> QED
  BY <1>1, Invariance, PTL

-----------------------------------------------------------------------------
(* The delivery implements the promise                                       *)

StageMap == [q \in Request |-> Stage(q)]
Sent == {m.req : m \in {w \in wire : w.kind = "label"}}

\* How the status of one Task may change.
Advances(from, to) ==
    \/ from = to
    \/ from = "none" /\ to = "prepared"
    \/ from = "prepared" /\ to = "active"
    \/ from = "active" /\ to \in Terminal

Keeps == [Abstract!Next]_(Abstract!pvars)

LEMMA AbstractNext ==
    \A q \in Request :
        \/ Abstract!Confirm(q) \/ Abstract!Activate(q) \/ Abstract!End(q)
        \/ Abstract!Announce(q) \/ Abstract!Send(q) \/ Abstract!Land(q)
        \/ Abstract!Tell(q)
        => Keeps
BY DEF Keeps, Abstract!Next

\* An announcement depends on the binding, the label and the request.
LEMMA SameAnnounced ==
    ASSUME IInv, settings' = settings, labelled' = labelled, IssuesMove
    PROVE  Announced' = Announced
<1>1. \A q \in Request : \A n \in labelled : issues'[n].req = issues[n].req
  BY DEF IInv, Labels, IssuesMove
<1> QED
  BY <1>1 DEF Announced

\* Nothing that was promised changes.
LEMMA QuietSim ==
    ASSUME IInv, UNCHANGED <<settings, labelled, told>>, IssuesMove,
           Sent' = Sent
    PROVE  Keeps
<1>1. StageMap' = StageMap
  BY DEF StageMap, Stage
<1>2. Announced' = Announced
  BY SameAnnounced
<1> QED
  BY <1>1, <1>2 DEF Keeps, Abstract!pvars, StageMap, Sent

\* A Task advances; its binding, if it is new, is to an issue without a label.
LEMMA SettingsSim ==
    ASSUME IInv, NEW q \in Request, NEW s \in Settings,
           settings' = [settings EXCEPT ![q] = s],
           Advances(settings[q].status, s.status),
           \/ s.issue = settings[q].issue
           \/ settings[q].issue = 0 /\ issues[s.issue].req = q,
           UNCHANGED <<issues, labelled, told, wire>>
    PROVE  Keeps
<1>1. /\ settings \in [Request -> Settings] /\ settings'[q] = s
      /\ \A p \in Request \ {q} : settings'[p] = settings[p]
  BY DEF IInv, TypeOK
<1>2. Announced' = Announced
  <2>1. ASSUME NEW p \in Request, NEW n \in labelled, issues[n].req = p
        PROVE  settings'[p].issue = n <=> settings[p].issue = n
    BY <1>1, <2>1, CallerType DEF IInv, Labels
  <2> QED
    BY <2>1 DEF Announced
<1>3. Sent' = Sent
  BY DEF Sent
<1> DEFINE to == CASE s.status = "none"     -> "unknown"
                   [] s.status = "prepared" -> "confirmed"
                   [] s.status = "active"   -> "active"
                   [] OTHER                 -> "ended"
<1>4. StageMap' = [StageMap EXCEPT ![q] = to] /\ StageMap[q] = Stage(q)
  BY <1>1 DEF StageMap, Stage
<1>5. \/ to = Stage(q)
      \/ Stage(q) = "unknown" /\ to = "confirmed"
      \/ Stage(q) = "confirmed" /\ to = "active"
      \/ Stage(q) = "active" /\ to = "ended"
  BY DEF Advances, Stage, Terminal
<1> HIDE DEF to
<1>6. CASE to = Stage(q)
  <2>1. StageMap' = StageMap
    BY <1>4, <1>6 DEF StageMap
  <2> QED
    BY <1>2, <1>3, <2>1 DEF Keeps, Abstract!pvars, StageMap, Sent
<1>7. CASE Stage(q) = "unknown" /\ to = "confirmed"
  BY <1>2, <1>3, <1>4, <1>7, AbstractNext
     DEF Abstract!Confirm, Abstract!Becomes, StageMap, Sent
<1>8. CASE Stage(q) = "confirmed" /\ to = "active"
  BY <1>2, <1>3, <1>4, <1>8, AbstractNext
     DEF Abstract!Activate, Abstract!Becomes, StageMap, Sent
<1>9. CASE Stage(q) = "active" /\ to = "ended"
  BY <1>2, <1>3, <1>4, <1>9, AbstractNext
     DEF Abstract!End, Abstract!Becomes, StageMap, Sent
<1> QED
  BY <1>5, <1>6, <1>7, <1>8, <1>9

\* The label makes its request announced, and no other.
LEMMA LabelAnnounces ==
    ASSUME IInv, NEW q \in Request, NEW n \in DOMAIN issues,
           issues[n].req = q, settings[q].issue = n,
           settings' = settings, IssuesMove, labelled' = labelled \cup {n}
    PROVE  Announced' = Announced \cup {q}
<1>1. \A k \in labelled : issues'[k].req = issues[k].req
  BY DEF IInv, Labels, IssuesMove
<1>2. issues'[n].req = q
  BY DEF IssuesMove
<1> QED
  BY <1>1, <1>2 DEF Announced

LEMMA LabelSim ==
    ASSUME IInv, NEW c \in Caller, at[c].step = "label",
           PutLabel(at[c].own.issue), UNCHANGED <<settings, told, wire>>
    PROVE  Keeps
<1> DEFINE q == at[c].req
           n == at[c].own.issue
<1>1. /\ q \in Request /\ n \in DOMAIN issues /\ issues[n].req = q
      /\ settings[q].issue = n /\ settings[q].status = "active"
  BY CallerType, TargetFacts DEF IInv
<1>2. IssuesMove /\ labelled' = labelled \cup {n}
  BY <1>1, PutLabelFacts
<1>3. Announced' = Announced \cup {q}
  BY <1>1, <1>2, LabelAnnounces
<1>4. StageMap' = StageMap /\ Sent' = Sent /\ StageMap[q] = "active"
  BY <1>1 DEF StageMap, Sent, Stage
<1> QED
  BY <1>1, <1>3, <1>4, AbstractNext DEF Abstract!Announce, StageMap, Sent

\* The user hears of the Task once its own issue has carried the label.
LEMMA TellSim ==
    ASSUME IInv, NEW q \in Request, settings[q].issue \in labelled,
           told' = told \cup {q}, UNCHANGED <<settings, issues, labelled, wire>>
    PROVE  Keeps
<1>1. settings[q].issue \in DOMAIN issues /\ settings[q].issue # 0
  BY CallerType DEF IInv, Labels
<1>2. q \in Announced
  BY <1>1 DEF IInv, Bindings, Announced
<1>3. UNCHANGED <<StageMap, Sent, Announced>>
  BY DEF StageMap, Stage, Sent, Announced
<1> QED
  BY <1>2, <1>3, AbstractNext DEF Abstract!Tell, StageMap, Sent

LEMMA ReadsSim ==
    ASSUME IInv, UNCHANGED <<settings, issues, labelled, told, wire>>
    PROVE  Keeps
BY QuietSim, NothingMoves DEF Sent

LEMMA ReplaySim ==
    ASSUME IInv, NEW c \in Caller, Replay(c)
    PROVE  Keeps
<1> DEFINE q == at[c].req
           n == outbox[q].issue
<1>1. UNCHANGED <<settings, issues, labelled, wire>> /\ q \in Request
  BY CallerType DEF Replay, Databases, GitHub, Budget, IInv
<1>2. CASE told' = told
  BY <1>1, <1>2, ReadsSim
<1>3. CASE /\ settings[q] = [status |-> "active", issue |-> n]
           /\ issues[n].ready /\ told' = told \cup {q}
  <2>1. settings[q].status = "active" /\ settings[q].issue = n
    BY <1>3
  <2>2. n \in labelled
    BY <1>1, <1>3, <2>1 DEF IInv, Bindings, Labels
  <2> QED
    BY <1>1, <1>3, <2>1, <2>2, TellSim
<1> QED
  BY <1>2, <1>3 DEF Replay

LEMMA ReadbackSim ==
    ASSUME IInv, NEW c \in Caller, Readback(c)
    PROVE  Keeps
<1> DEFINE q == at[c].req
           n == at[c].own.issue
<1>1. UNCHANGED <<settings, issues, labelled, wire>> /\ q \in Request
      /\ at[c].step = "readback"
  BY CallerType DEF Readback, Databases, GitHub, Budget, IInv, At
<1>2. CASE told' = told
  BY <1>1, <1>2, ReadsSim
<1>3. CASE issues[n].ready /\ told' = told \cup {q}
  <2>1. settings[q].issue \in labelled
    BY <1>1, <1>3, TargetFacts DEF IInv, Labels
  <2> QED
    BY <1>1, <1>3, <2>1, TellSim
<1> QED
  BY <1>2, <1>3 DEF Readback

LEMMA CompleteSim ==
    ASSUME IInv, NEW c \in Caller, Complete(c)
    PROVE  Keeps
<1>1. UNCHANGED <<settings, issues, labelled, wire>> /\ at[c].req \in Request
      /\ at[c].step = "complete" /\ told' = told \cup {at[c].req}
  BY CallerType DEF Complete, GitHub, Budget, IInv, At
<1>2. settings[at[c].req].issue \in labelled
  BY <1>1 DEF IInv, CallerInv
<1> QED
  BY <1>1, <1>2, TellSim

LEMMA PrepareSim ==
    ASSUME IInv, NEW c \in Caller, Prepare(c)
    PROVE  Keeps
<1> DEFINE q == at[c].req
           status == IF settings[q].status = "none" THEN "prepared"
                                                    ELSE settings[q].status
           s == [settings[q] EXCEPT !.status = status]
<1>1. /\ UNCHANGED <<issues, labelled, wire, told>> /\ q \in Request
      /\ settings[q] \in Settings /\ settings' = [settings EXCEPT ![q] = s]
  BY CallerType DEF Prepare, GitHub, Budget, IInv, TypeOK
<1>2. Advances(settings[q].status, status) /\ s \in Settings
      /\ s.status = status /\ s.issue = settings[q].issue
  BY <1>1 DEF Advances, Settings
<1> HIDE DEF s, status
<1> QED
  BY <1>1, <1>2, SettingsSim

LEMMA BindSim ==
    ASSUME IInv, NEW c \in Caller, Bind(c)
    PROVE  Keeps
<1> DEFINE q == at[c].req
           bound == IF settings[q].issue = 0
                      THEN [settings[q] EXCEPT !.issue = at[c].issue]
                      ELSE settings[q]
<1>1. /\ UNCHANGED <<issues, labelled, wire, told>> /\ q \in Request
      /\ at[c].step = "bind" /\ settings[q] \in Settings
      /\ at[c].issue \in Number
  BY CallerType DEF Bind, GitHub, Budget, IInv, TypeOK, At, CallerRec
<1>2. CASE UNCHANGED settings
  BY <1>1, <1>2, ReadsSim
<1>3. CASE settings' = [settings EXCEPT ![q] = bound]
  <2>1. issues[at[c].issue].req = q
    BY <1>1 DEF IInv, CallerInv
  <2>2. /\ bound \in Settings /\ bound.status = settings[q].status
        /\ \/ bound.issue = settings[q].issue
           \/ settings[q].issue = 0 /\ bound.issue = at[c].issue
    BY <1>1 DEF Settings
  <2> HIDE DEF bound
  <2> QED
    BY <1>1, <1>3, <2>1, <2>2, SettingsSim DEF Advances
<1> QED
  BY <1>2, <1>3 DEF Bind

LEMMA ActivateSim ==
    ASSUME IInv, NEW c \in Caller, Activate(c)
    PROVE  Keeps
<1> DEFINE q == at[c].req
           s == [settings[q] EXCEPT !.status = "active"]
<1>1. /\ UNCHANGED <<issues, labelled, wire, told>> /\ q \in Request
      /\ at[c].step = "activate" /\ settings[q] \in Settings
  BY CallerType DEF Activate, GitHub, Budget, IInv, TypeOK, At
<1>2. CASE UNCHANGED settings
  BY <1>1, <1>2, ReadsSim
<1>3. CASE /\ settings[q].status \notin Terminal
           /\ settings' = [settings EXCEPT ![q] = s]
  <2>1. settings[q].status # "none"
    BY <1>1 DEF IInv, CallerInv
  <2>2. Advances(settings[q].status, "active")
    BY <1>1, <1>3, <2>1 DEF Advances, Settings
  <2>3. s \in Settings /\ s.status = "active" /\ s.issue = settings[q].issue
    BY <1>1 DEF Settings
  <2> HIDE DEF s
  <2> QED
    BY <1>1, <1>3, <2>2, <2>3, SettingsSim
<1>4. settings \in [Request -> Settings]
  BY DEF IInv, TypeOK
<1> QED
  BY <1>1, <1>2, <1>3, <1>4 DEF Activate

LEMMA EndSim ==
    ASSUME IInv, NEW q \in Request, NEW status \in Ends, End(q, status)
    PROVE  Keeps
<1> DEFINE s == [settings[q] EXCEPT !.status = status]
<1>1. /\ UNCHANGED <<issues, labelled, wire, told>>
      /\ settings[q].status = "active" /\ status \in Terminal
      /\ settings[q] \in Settings /\ settings' = [settings EXCEPT ![q] = s]
  BY DeliveryAssumption DEF End, GitHub, Budget, IInv, TypeOK, Terminal
<1>2. /\ s \in Settings /\ s.status = status /\ s.issue = settings[q].issue
      /\ Advances("active", status)
  BY <1>1 DEF Settings, Advances
<1> HIDE DEF s
<1> QED
  BY <1>1, <1>2, SettingsSim

LEMMA LoseSim ==
    ASSUME IInv, NEW c \in Caller, Lose(c)
    PROVE  Keeps
<1>1. UNCHANGED <<settings, wire, told>> /\ at[c].req \in Request
      /\ at[c].step \in {"create", "update", "label"} /\ Sent' = Sent
  BY DeliveryAssumption, CallerType DEF Lose, Databases, IInv, Sent
<1>2. CASE at[c].step = "create" /\ PutIssue(at[c].req)
  BY <1>1, <1>2, PutIssueFacts, QuietSim
<1>3. CASE at[c].step = "update" /\ PutBody(at[c].issue)
  BY <1>1, <1>3, TargetFacts, PutBodyFacts, QuietSim
<1>4. CASE at[c].step = "label" /\ PutLabel(at[c].own.issue)
  BY <1>1, <1>4, LabelSim
<1> QED
  BY <1>1, <1>2, <1>3, <1>4 DEF Lose, At

LEMMA AbandonSim ==
    ASSUME IInv, NEW c \in Caller, Abandon(c)
    PROVE  Keeps
<1> DEFINE m == [kind |-> at[c].step, req |-> at[c].req,
                 issue |-> at[c].own.issue]
<1>1. /\ UNCHANGED <<settings, issues, labelled, told>>
      /\ wire' = wire \cup {m} /\ at[c].req \in Request
      /\ m.kind = at[c].step /\ m.req = at[c].req
  BY CallerType DEF Abandon, Databases, GitHub, IInv
<1> HIDE DEF m
<1>2. CASE at[c].step = "label"
  <2>1. settings[at[c].req].status = "active"
    BY <1>2, TargetFacts
  <2>2. Sent' = Sent \cup {at[c].req}
    BY <1>1, <1>2 DEF Sent
  <2>3. UNCHANGED <<StageMap, Announced>> /\ StageMap[at[c].req] = "active"
    BY <1>1, <2>1 DEF StageMap, Stage, Announced
  <2> QED
    BY <1>1, <2>2, <2>3, AbstractNext DEF Abstract!Send, StageMap, Sent
<1>3. CASE at[c].step # "label"
  <2>1. Sent' = Sent
    BY <1>1, <1>3 DEF Sent
  <2> QED
    BY <1>1, <2>1, QuietSim, NothingMoves
<1> QED
  BY <1>2, <1>3

\* A label that was sent while the Task was active may land later.
LEMMA ArriveSim ==
    ASSUME IInv, NEW m \in wire, Arrive(m)
    PROVE  Keeps
<1>1. UNCHANGED <<settings, told>> /\ m.req \in Request
      /\ m.kind \in {"create", "label"} /\ wire' = wire \ {m}
  BY DEF Arrive, Databases, IInv, TypeOK
<1>2. CASE m.kind = "create" /\ PutIssue(m.req)
  <2>1. Sent' = Sent
    BY <1>1, <1>2 DEF Sent
  <2> QED
    BY <1>1, <1>2, <2>1, PutIssueFacts, QuietSim
<1>3. CASE m.kind = "label" /\ PutLabel(m.issue)
  <2>1. /\ m.issue \in DOMAIN issues /\ issues[m.issue].req = m.req
        /\ settings[m.req].issue = m.issue
    BY <1>3, ArriveFacts
  <2>2. IssuesMove /\ labelled' = labelled \cup {m.issue}
    BY <1>1, <1>3, <2>1, PutLabelFacts
  <2>3. Announced' = Announced \cup {m.req}
    BY <1>1, <2>1, <2>2, LabelAnnounces
  <2>4. m.req \in Sent /\ Sent' \in {Sent, Sent \ {m.req}}
    BY <1>1, <1>3 DEF Sent
  <2>5. StageMap' = StageMap
    BY <1>1 DEF StageMap, Stage
  <2> QED
    BY <1>1, <2>3, <2>4, <2>5, AbstractNext DEF Abstract!Land, StageMap, Sent
<1> QED
  BY <1>1, <1>2, <1>3 DEF Arrive

LEMMA StepSim ==
    ASSUME IInv, NEW c \in Caller, Step(c)
    PROVE  Keeps
<1>1. ASSUME NEW q \in Request, Start(c, q) PROVE Keeps
  BY <1>1, ReadsSim DEF Start, Databases, GitHub, Budget
<1>2. CASE Save(c)
  BY <1>2, ReadsSim DEF Save, GitHub, Budget
<1>3. CASE Claim(c)
  BY <1>3, ReadsSim DEF Claim, Databases, GitHub, Budget
<1>4. CASE Find(c)
  BY <1>4, ReadsSim DEF Find, Databases, GitHub, Budget
<1>5. CASE Create(c)
  <2>1. UNCHANGED <<settings, wire, told>> /\ PutIssue(at[c].req)
        /\ at[c].req \in Request
    BY <1>5, CallerType DEF Create, Databases, Budget, IInv
  <2> QED
    BY <2>1, PutIssueFacts, QuietSim DEF Sent
<1>6. CASE Update(c)
  <2>1. UNCHANGED <<settings, wire, told>> /\ PutBody(at[c].issue)
        /\ at[c].step = "update"
    BY <1>6 DEF Update, Databases, Budget, At
  <2> QED
    BY <2>1, TargetFacts, PutBodyFacts, QuietSim DEF Sent
<1>7. CASE GuardReady(c)
  BY <1>7, ReadsSim DEF GuardReady, Databases, GitHub, Budget
<1>8. CASE CheckIssue(c)
  BY <1>8, ReadsSim DEF CheckIssue, Databases, GitHub, Budget
<1>9. CASE Label(c)
  BY <1>9, LabelSim DEF Label, Databases, Budget, At
<1>10. CASE Retire(c)
  BY <1>10, ReadsSim DEF Retire, GitHub, Budget
<1> QED
  BY <1>1, <1>2, <1>3, <1>4, <1>5, <1>6, <1>7, <1>8, <1>9, <1>10, PrepareSim,
     BindSim, ActivateSim, ReadbackSim, CompleteSim, ReplaySim DEF Step

\* Every step of the delivery is a step of the promise, or none.
THEOREM Refinement == Spec => KeepsPromise
<1>1. Init => Abstract!Init
  <2> SUFFICES ASSUME Init PROVE Abstract!Init
    OBVIOUS
  <2>1. StageMap = [q \in Request |-> "unknown"]
    BY DEF Init, StageMap, Stage
  <2>2. Sent = {} /\ Announced = {} /\ told = {}
    BY DEF Init, Sent, Announced
  <2> QED
    BY <2>1, <2>2 DEF Abstract!Init, StageMap, Sent
<1>2. IInv /\ Next => Keeps
  <2> SUFFICES ASSUME IInv, Next PROVE Keeps
    OBVIOUS
  <2>1. ASSUME NEW c \in Caller, Die(c) PROVE Keeps
    BY <2>1, ReadsSim DEF Die, Databases, GitHub
  <2>2. ASSUME NEW n \in DOMAIN issues, Edit(n) PROVE Keeps
    <3>1. UNCHANGED <<settings, wire, told>>
      BY <2>2 DEF Edit, Databases
    <3>2. IssuesMove /\ labelled' = labelled
      BY <2>2, EditFacts DEF IInv, TypeOK, IssuesMove
    <3> QED
      BY <3>1, <3>2, QuietSim DEF Sent
  <2> QED
    BY <2>1, <2>2, StepSim, LoseSim, AbandonSim, ArriveSim, EndSim DEF Next
<1>3. IInv /\ UNCHANGED vars => Keeps
  BY ReadsSim DEF vars
<1> QED
  BY <1>1, <1>2, <1>3, Invariance, PTL
     DEF Spec, KeepsPromise, Abstract!Promise, Keeps

-----------------------------------------------------------------------------
(* One issue for each request                                                *)

\* Caller c takes or frees only claims of its own.
ClaimsMove(c) ==
    /\ \A v \in Caller \ {c} : at'[v] = at[v]
    /\ \A q \in Request : claims[q] \notin {c, NoCaller} => claims'[q] = claims[q]
    /\ at'[c].step \notin {"idle", "save", "claim"} => claims'[at'[c].req] = c

SameRequests ==
    /\ DOMAIN issues' = DOMAIN issues
    /\ \A n \in DOMAIN issues : issues'[n].req = issues[n].req

LEMMA ClaimKept ==
    ASSUME IInv, CInv, NEW c \in Caller, ClaimsMove(c), SameRequests,
           \A m \in wire' : m.kind # "create",
           at'[c].step = "create" =>
              \A n \in DOMAIN issues : issues[n].req # at'[c].req
    PROVE  CInv'
<1>1. ASSUME NEW v \in Caller PROVE Claimed(v)'
  <2>1. CASE v = c
    BY <2>1 DEF Claimed, ClaimsMove, SameRequests
  <2>2. CASE v # c
    <3>1. at'[v] = at[v] /\ Claimed(v) /\ at[v].req \in Request
          /\ v # NoCaller
      BY <2>2, CallerType DEF ClaimsMove, CInv, IInv
    <3>2. claims[at[v].req] = v => claims'[at[v].req] = v
      BY <2>2, <3>1 DEF ClaimsMove
    <3> QED
      BY <3>1, <3>2 DEF Claimed, SameRequests
  <2> QED
    BY <2>1, <2>2
<1>2. \A m, n \in DOMAIN issues' : issues'[m].req = issues'[n].req => m = n
  BY DEF CInv, SameRequests
<1> QED
  BY <1>1, <1>2 DEF CInv

LEMMA ClaimCreates ==
    ASSUME IInv, CInv, NEW c \in Caller, ClaimsMove(c), at[c].step = "create",
           PutIssue(at[c].req), at'[c].step # "create", wire' \subseteq wire
    PROVE  CInv'
<1> DEFINE q == at[c].req
           k == Len(issues) + 1
<1>1. /\ issues \in Seq(Issue) /\ issues' = Append(issues, NewIssue(q))
      /\ NewIssue(q) \in Issue /\ NewIssue(q).req = q /\ q \in Request
  BY CallerType DEF PutIssue, IInv, TypeOK, NewIssue, Issue, Body
<1>2. /\ DOMAIN issues' = DOMAIN issues \cup {k} /\ k \notin DOMAIN issues
      /\ issues'[k].req = q
      /\ \A n \in DOMAIN issues : issues'[n] = issues[n]
  BY <1>1
<1> HIDE DEF k
<1>3. \A n \in DOMAIN issues : issues[n].req # q
  BY DEF CInv, Claimed
<1>4. claims[q] = c
  BY DEF CInv, Claimed
<1>5. ASSUME NEW v \in Caller PROVE Claimed(v)'
  <2>1. CASE v = c
    BY <2>1 DEF Claimed, ClaimsMove
  <2>2. CASE v # c
    <3>1. at'[v] = at[v] /\ Claimed(v) /\ at[v].req \in Request
          /\ v # NoCaller
      BY <2>2, CallerType DEF ClaimsMove, CInv, IInv
    <3>2. claims[at[v].req] = v => claims'[at[v].req] = v
      BY <2>2, <3>1 DEF ClaimsMove
    <3>3. at[v].step = "create" => at[v].req # q
      BY <1>4, <2>2, <3>1 DEF Claimed
    <3> QED
      BY <1>2, <3>1, <3>2, <3>3 DEF Claimed
  <2> QED
    BY <2>1, <2>2
<1>6. \A m, n \in DOMAIN issues' : issues'[m].req = issues'[n].req => m = n
  BY <1>2, <1>3 DEF CInv
<1> QED
  BY <1>5, <1>6 DEF CInv

LEMMA ReturnClaims ==
    ASSUME IInv, NEW c \in Caller, Return(c)
    PROVE  ClaimsMove(c) /\ at'[c].step = "idle"
<1> TypeOK
  BY DEF IInv
<1>0. at'[c] = Idle(at[c].req) /\ \A v \in Caller \ {c} : at'[v] = at[v]
  BY ReturnFacts
<1>1. at'[c].step = "idle" /\ \A v \in Caller \ {c} : at'[v] = at[v]
  BY <1>0 DEF Idle
<1>2. \A q \in Request : claims[q] # c => claims'[q] = claims[q]
  BY DEF Return, IInv, TypeOK
<1> QED
  BY <1>1, <1>2 DEF ClaimsMove

\* A claimant goes on with the request it has claimed.
LEMMA CarryClaims ==
    ASSUME IInv, CInv, NEW c \in Caller, UNCHANGED claims,
           NEW r \in CallerRec, at' = [at EXCEPT ![c] = r],
           r.req = at[c].req, at[c].step \notin {"idle", "save", "claim"}
    PROVE  ClaimsMove(c) /\ at'[c] = r
BY GoFacts DEF IInv, ClaimsMove, CInv, Claimed

LEMMA MoveClaims ==
    ASSUME IInv, CInv, NEW c \in Caller, UNCHANGED claims, NEW step \in Steps,
           Move(c, step), at[c].step \notin {"idle", "save", "claim"}
    PROVE  ClaimsMove(c) /\ at'[c].step = step /\ at'[c].req = at[c].req
BY MoveFacts DEF IInv, ClaimsMove, CInv, Claimed

LEMMA SameIssues ==
    ASSUME IInv
    PROVE  /\ issues' = issues => SameRequests
           /\ \A n \in DOMAIN issues :
                 PutBody(n) \/ PutLabel(n) \/ Edit(n) => SameRequests
<1>1. issues' = issues => SameRequests
  BY DEF SameRequests
<1>2. ASSUME NEW n \in DOMAIN issues, Edit(n) PROVE SameRequests
  BY <1>2, EditFacts DEF SameRequests
<1>3. ASSUME NEW n \in DOMAIN issues, PutBody(n) \/ PutLabel(n)
      PROVE  SameRequests
  <2> DEFINE b == [issues[n] EXCEPT !.body = "bound"]
             l == [issues[n] EXCEPT !.ready = TRUE]
  <2>1. issues[n] \in Issue /\ b.req = issues[n].req /\ l.req = issues[n].req
    BY CallerType DEF IInv, Issue
  <2>2. issues \in Seq(Issue)
        /\ \E i \in {b, l} : issues' = [issues EXCEPT ![n] = i]
    BY <1>3 DEF PutBody, PutLabel, IInv, TypeOK
  <2> HIDE DEF b, l
  <2> QED
    BY <2>1, <2>2 DEF SameRequests
<1> QED
  BY <1>1, <1>2, <1>3

\* What only reads, and ends or goes on under the claim, keeps it.
LEMMA ReadsKeepClaims ==
    ASSUME IInv, CInv, NEW c \in Caller, SameRequests, UNCHANGED wire,
           \/ Return(c)
           \/ /\ UNCHANGED claims /\ at[c].step \notin {"idle", "save", "claim"}
              /\ \E step \in Steps \ {"create"} : Move(c, step)
    PROVE  CInv'
<1>1. \A m \in wire' : m.kind # "create"
  BY DEF CInv
<1>2. CASE Return(c)
  BY <1>1, <1>2, ReturnClaims, ClaimKept
<1>3. ASSUME NEW step \in Steps \ {"create"}, Move(c, step), UNCHANGED claims,
             at[c].step \notin {"idle", "save", "claim"}
      PROVE  CInv'
  BY <1>1, <1>3, MoveClaims, ClaimKept
<1> QED
  BY <1>2, <1>3

LEMMA FirstClaims ==
    ASSUME IInv, CInv, Plugin = Caller, NEW c \in Caller,
           \/ \E q \in Request : Start(c, q)
           \/ Save(c)
           \/ Claim(c)
    PROVE  CInv'
<1>1. UNCHANGED <<issues, wire>> /\ SameRequests
      /\ \A m \in wire' : m.kind # "create"
  BY SameIssues DEF Start, Save, Claim, GitHub, Budget, CInv
<1>2. ASSUME NEW q \in Request, Start(c, q) PROVE CInv'
  <2>1. PICK r \in Request :
           at' = [at EXCEPT ![c] = [Idle(r) EXCEPT !.step = "save"]]
    BY <1>2 DEF Start, PendingRequests
  <2> DEFINE k == [Idle(r) EXCEPT !.step = "save"]
  <2>2. k \in CallerRec /\ k.step = "save"
    BY IdleType DEF CallerRec, Steps
  <2> HIDE DEF k
  <2>3. at'[c] = k /\ \A v \in Caller \ {c} : at'[v] = at[v]
    BY <2>1, <2>2, GoFacts DEF IInv, k
  <2>4. UNCHANGED claims
    BY <1>2 DEF Start, Locks
  <2>5. ClaimsMove(c)
    BY <2>2, <2>3, <2>4 DEF ClaimsMove
  <2> QED
    BY <1>1, <2>2, <2>3, <2>5, ClaimKept
<1>3. CASE Save(c)
  <2>1. ClaimsMove(c) /\ at'[c].step = "claim"
    BY <1>3, MoveFacts DEF Save, Locks, ClaimsMove, IInv, Steps
  <2> QED
    BY <1>1, <2>1, ClaimKept
<1>4. CASE Claim(c)
  <2>1. CASE Return(c)
    BY <1>1, <2>1, ReadsKeepClaims
  <2>2. ASSUME NEW step \in {"replay", "prepare"}, Move(c, step),
               claims[at[c].req] = NoCaller,
               claims' = [claims EXCEPT ![at[c].req] = c]
        PROVE  CInv'
    <3>1. at'[c].step = step /\ at'[c].req = at[c].req /\ at[c].req \in Request
          /\ \A v \in Caller \ {c} : at'[v] = at[v]
      BY <2>2, MoveFacts, CallerType DEF IInv, Steps
    <3>2. ClaimsMove(c)
      BY <2>2, <3>1 DEF ClaimsMove, IInv, TypeOK
    <3> QED
      BY <1>1, <3>1, <3>2, ClaimKept
  <2> QED
    BY <1>4, <2>1, <2>2 DEF Claim
<1> QED
  BY <1>2, <1>3, <1>4

LEMMA FindClaims ==
    ASSUME IInv, CInv, NEW c \in Caller, Find(c)
    PROVE  CInv'
<1>1. UNCHANGED <<issues, wire>> /\ SameRequests /\ at[c].step = "find"
      /\ \A m \in wire' : m.kind # "create"
  BY SameIssues DEF Find, GitHub, Budget, CInv, At
<1>2. CASE Return(c)
  BY <1>1, <1>2, ReadsKeepClaims
<1>3. CASE Matching(at[c].req) = {} /\ Move(c, "create") /\ UNCHANGED claims
  <2>1. ClaimsMove(c) /\ at'[c].req = at[c].req
    BY <1>1, <1>3, MoveClaims DEF Steps
  <2>2. \A n \in DOMAIN issues : issues[n].req # at'[c].req
    BY <1>3, <2>1 DEF Matching
  <2> QED
    BY <1>1, <2>1, <2>2, ClaimKept
<1>4. ASSUME NEW n \in Matching(at[c].req), UNCHANGED claims,
             at' = [at EXCEPT ![c] =
                 [@ EXCEPT !.issue = n, !.body = issues[n].body,
                           !.step = AfterFind(at[c].own)]]
      PROVE  CInv'
  <2> DEFINE step == AfterFind(at[c].own)
             r == [at[c] EXCEPT !.issue = n, !.body = issues[n].body,
                                !.step = step]
  <2>1. n \in Number /\ issues[n].body \in Body
    BY CallerType DEF Matching, IInv, Issue
  <2>2. step \in {"guard", "bind", "update"}
    BY DEF AfterFind
  <2>3. at' = [at EXCEPT ![c] = r]
    BY <1>4
  <2> HIDE DEF step
  <2>4. /\ r \in CallerRec /\ r.step = step /\ r.req = at[c].req
    BY <2>1, <2>2, CallerType DEF CallerRec, Steps, IInv
  <2> HIDE DEF r
  <2>5. ClaimsMove(c) /\ at'[c] = r
    BY <1>1, <1>4, <2>3, <2>4, CarryClaims
  <2> QED
    BY <1>1, <2>2, <2>4, <2>5, ClaimKept
<1>5. CASE UNCHANGED Locks /\ \E n \in Matching(at[c].req) :
             at' = [at EXCEPT ![c] =
                 [@ EXCEPT !.issue = n, !.body = issues[n].body,
                           !.step = AfterFind(at[c].own)]]
  BY <1>4, <1>5 DEF Locks
<1>6. CASE UNCHANGED Locks /\ Matching(at[c].req) = {} /\ Move(c, "create")
  BY <1>3, <1>6 DEF Locks
<1> QED
  BY <1>2, <1>5, <1>6 DEF Find

LEMMA CreateClaims ==
    ASSUME IInv, CInv, NEW c \in Caller, Create(c)
    PROVE  CInv'
<1> DEFINE r == [at[c] EXCEPT !.step = "bind", !.issue = Len(issues) + 1,
                              !.body = "unbound"]
<1>1. /\ UNCHANGED <<settings, wire, claims>> /\ at[c].step = "create"
      /\ PutIssue(at[c].req) /\ at' = [at EXCEPT ![c] = r]
      /\ at[c].req \in Request
  BY CallerType DEF Create, Databases, Locks, Budget, At, IInv
<1>2. Len(issues) + 1 \in Number
  BY <1>1, PutIssueFacts
<1>3. r \in CallerRec /\ r.step = "bind" /\ r.req = at[c].req
  BY <1>2, CallerType DEF CallerRec, Steps, IInv, Body
<1> HIDE DEF r
<1>4. ClaimsMove(c) /\ at'[c] = r
  BY <1>1, <1>3, CarryClaims
<1> QED
  BY <1>1, <1>3, <1>4, ClaimCreates

\* Steps that store what they have read: Prepare, Bind, Update and Activate.
LEMMA StoresKeepClaims ==
    ASSUME IInv, CInv, NEW c \in Caller, SameRequests, UNCHANGED <<wire, claims>>,
           at[c].step \notin {"idle", "save", "claim"},
           NEW step \in Steps \ {"create"}, NEW own \in Settings, NEW body \in Body,
           \/ at' = [at EXCEPT ![c].step = step, ![c].own = own]
           \/ at' = [at EXCEPT ![c].own = own, ![c].step = step]
           \/ at' = [at EXCEPT ![c].step = step, ![c].body = body]
    PROVE  CInv'
<1>1. PICK r \in CallerRec : /\ r.step = step /\ r.req = at[c].req
                             /\ at' = [at EXCEPT ![c] = r]
  <2> DEFINE o == [at[c] EXCEPT !.step = step, !.own = own]
             p == [at[c] EXCEPT !.own = own, !.step = step]
             b == [at[c] EXCEPT !.step = step, !.body = body]
  <2>1. \A r \in {o, p, b} : r \in CallerRec /\ r.step = step
                             /\ r.req = at[c].req
    BY CallerType DEF CallerRec, IInv
  <2>2. \E r \in {o, p, b} : at' = [at EXCEPT ![c] = r]
    OBVIOUS
  <2> HIDE DEF o, p, b
  <2> QED
    BY <2>1, <2>2
<1>2. ClaimsMove(c) /\ at'[c] = r
  BY <1>1, CarryClaims
<1>3. \A m \in wire' : m.kind # "create"
  BY DEF CInv
<1> QED
  BY <1>1, <1>2, <1>3, ClaimKept

LEMMA PrepareClaims ==
    ASSUME IInv, CInv, NEW c \in Caller, Prepare(c)
    PROVE  CInv'
<1>1. /\ SameRequests /\ UNCHANGED wire /\ at[c].step = "prepare"
      /\ at[c].req \in Request /\ settings'[at[c].req] \in Settings
  <2>1. IInv'
    BY PrepareStep
  <2> QED
    BY <2>1, SameIssues, CallerType DEF Prepare, GitHub, Budget, At, IInv, TypeOK
<1>2. CASE Ended(c)
  BY <1>1, <1>2, ReadsKeepClaims DEF Ended, Locks, Steps
<1>3. CASE /\ at' = [at EXCEPT ![c].step = "find",
                               ![c].own = settings'[at[c].req]]
           /\ UNCHANGED Locks
  <2>1. "find" \in Steps \ {"create"} /\ "bound" \in Body /\ UNCHANGED claims
    BY <1>3 DEF Steps, Body, Locks
  <2> QED
    BY <1>1, <1>3, <2>1, StoresKeepClaims
<1> QED
  BY <1>2, <1>3 DEF Prepare

LEMMA BindClaims ==
    ASSUME IInv, CInv, NEW c \in Caller, Bind(c)
    PROVE  CInv'
<1> DEFINE q == at[c].req
           bound == IF settings[q].issue = 0
                      THEN [settings[q] EXCEPT !.issue = at[c].issue]
                      ELSE settings[q]
           step == IF bound.status = "active" THEN "guard" ELSE "update"
<1>1. /\ SameRequests /\ UNCHANGED wire /\ at[c].step = "bind"
      /\ settings[q] \in Settings /\ at[c].issue \in Number
  BY SameIssues, CallerType DEF Bind, GitHub, Budget, At, IInv, TypeOK, CallerRec
<1>2. CASE Return(c)
  BY <1>1, <1>2, ReadsKeepClaims
<1>3. CASE /\ at' = [at EXCEPT ![c].own = bound, ![c].step = step]
           /\ UNCHANGED Locks
  <2>1. bound \in Settings
    BY <1>1 DEF Settings
  <2>2. step \in Steps \ {"create"} /\ "bound" \in Body
    BY DEF Steps, Body
  <2>3. at' = [at EXCEPT ![c].own = bound, ![c].step = step]
        /\ UNCHANGED claims
    BY <1>3 DEF Locks
  <2> HIDE DEF bound, step
  <2> QED
    BY <1>1, <2>1, <2>2, <2>3, StoresKeepClaims
<1> QED
  BY <1>2, <1>3 DEF Bind

LEMMA UpdateClaims ==
    ASSUME IInv, CInv, NEW c \in Caller, Update(c)
    PROVE  CInv'
<1>1. /\ UNCHANGED <<wire, claims>> /\ at[c].step = "update"
      /\ PutBody(at[c].issue)
      /\ at' = [at EXCEPT ![c].step = "activate", ![c].body = "bound"]
  BY DEF Update, Databases, Locks, Budget, At
<1>2. SameRequests
  BY <1>1, SameIssues, TargetFacts
<1>3. "activate" \in Steps \ {"create"} /\ "bound" \in Body
      /\ at[c].own \in Settings
  BY CallerType DEF Steps, Body, IInv
<1> QED
  BY <1>1, <1>2, <1>3, StoresKeepClaims

LEMMA ActivateClaims ==
    ASSUME IInv, CInv, NEW c \in Caller, Activate(c)
    PROVE  CInv'
<1>1. /\ SameRequests /\ UNCHANGED wire /\ at[c].step = "activate"
      /\ settings'[at[c].req] \in Settings
  <2>1. IInv'
    BY ActivateStep
  <2> QED
    BY <2>1, SameIssues, CallerType DEF Activate, GitHub, Budget, At, IInv, TypeOK
<1>2. CASE Return(c)
  BY <1>1, <1>2, ReadsKeepClaims
<1>3. CASE /\ at' = [at EXCEPT ![c].step = "guard",
                               ![c].own = settings'[at[c].req]]
           /\ UNCHANGED Locks
  <2>1. "guard" \in Steps \ {"create"} /\ "bound" \in Body /\ UNCHANGED claims
    BY <1>3 DEF Steps, Body, Locks
  <2> QED
    BY <1>1, <1>3, <2>1, StoresKeepClaims
<1> QED
  BY <1>2, <1>3 DEF Activate

LEMMA LaterClaims ==
    ASSUME IInv, CInv, NEW c \in Caller,
           \/ GuardReady(c) \/ CheckIssue(c) \/ Label(c) \/ Readback(c)
           \/ Complete(c) \/ Retire(c) \/ Replay(c)
    PROVE  CInv'
<1>1. UNCHANGED wire /\ at[c].step \notin {"idle", "save", "claim"}
  BY DEF GuardReady, CheckIssue, Label, Readback, Complete, Retire, Replay, At,
         Budget
<1>2. SameRequests
  <2>1. CASE Label(c)
    BY <2>1, SameIssues, TargetFacts DEF Label, At
  <2>2. CASE ~Label(c)
    BY <2>2, SameIssues DEF GuardReady, CheckIssue, Readback, Complete, Retire,
                            Replay, GitHub
  <2> QED
    BY <2>1, <2>2
<1>3. \/ Return(c)
      \/ UNCHANGED claims /\ \E step \in Steps \ {"create"} : Move(c, step)
  <2>1. {"check", "label", "readback", "complete", "retire"}
           \subseteq Steps \ {"create"}
    BY DEF Steps
  <2> QED
    BY <2>1 DEF GuardReady, CheckIssue, Label, Readback, Complete, Retire, Replay,
                Ended, Locks
<1> QED
  BY <1>1, <1>2, <1>3, ReadsKeepClaims

LEMMA FaultClaims ==
    ASSUME IInv, CInv, "create" \notin LateAt, NEW c \in Caller,
           Die(c) \/ Lose(c) \/ Abandon(c)
    PROVE  CInv'
<1>1. Return(c)
  BY DEF Die, Lose, Abandon
<1>2. ClaimsMove(c) /\ at'[c].step = "idle"
  BY <1>1, ReturnClaims
<1>3. CASE Die(c)
  BY <1>1, <1>3, SameIssues, ReadsKeepClaims DEF Die, GitHub
<1>4. CASE Lose(c) /\ at[c].step = "create"
  BY <1>2, <1>4, ClaimCreates DEF Lose, At
<1>5. CASE Lose(c) /\ at[c].step # "create"
  <2>1. SameRequests
    BY <1>5, DeliveryAssumption, SameIssues, TargetFacts DEF Lose, At
  <2> QED
    BY <1>1, <1>5, <2>1, ReadsKeepClaims DEF Lose
<1>6. CASE Abandon(c)
  <2>1. SameRequests /\ \A m \in wire' : m.kind # "create"
    BY <1>6, SameIssues DEF Abandon, GitHub, CInv
  <2> QED
    BY <1>2, <2>1, ClaimKept
<1> QED
  BY <1>3, <1>4, <1>5, <1>6

\* Nobody else has a claim, and no creation is on its way.
LEMMA OthersKeepClaims ==
    ASSUME IInv, CInv, UNCHANGED <<at, claims>>, SameRequests, wire' \subseteq wire
    PROVE  CInv'
BY DEF CInv, Claimed, SameRequests

LEMMA NextClaims ==
    ASSUME IInv, CInv, Plugin = Caller, "create" \notin LateAt, Next
    PROVE  CInv'
<1>1. ASSUME NEW c \in Caller, Step(c) PROVE CInv'
  BY <1>1, FirstClaims, PrepareClaims, FindClaims, CreateClaims, BindClaims,
     UpdateClaims, ActivateClaims, LaterClaims DEF Step
<1>2. ASSUME NEW m \in wire, Arrive(m) PROVE CInv'
  <2>1. PutLabel(m.issue) /\ m.kind = "label" /\ UNCHANGED <<at, claims>>
        /\ wire' \subseteq wire
    BY <1>2 DEF Arrive, CInv, IInv, TypeOK, Locks
  <2>2. SameRequests
    BY <2>1, ArriveFacts, SameIssues
  <2> QED
    BY <2>1, <2>2, OthersKeepClaims
<1>3. ASSUME NEW q \in Request, NEW status \in Ends, End(q, status) PROVE CInv'
  BY <1>3, SameIssues, OthersKeepClaims DEF End, GitHub, Locks, Budget
<1>4. ASSUME NEW n \in DOMAIN issues, Edit(n) PROVE CInv'
  BY <1>4, SameIssues, OthersKeepClaims DEF Edit, Locks
<1> QED
  BY <1>1, <1>2, <1>3, <1>4, FaultClaims DEF Next

LEMMA InitClaims == Init => CInv
BY DEF Init, CInv, Claimed, Idle

\* If every caller goes through the outbox and a killed create never lands
\* later, a request never has two issues, whatever is retried.
THEOREM OneIssuePerRequest ==
    ASSUME Plugin = Caller, "create" \notin LateAt
    PROVE  Spec => []OneIssue
<1>1. CInv => OneIssue
  <2> SUFFICES ASSUME CInv, NEW q \in Request
               PROVE  Cardinality(Matching(q)) <= 1
    BY DEF OneIssue
  <2>1. CASE Matching(q) = {}
    BY <2>1, FS_EmptySet
  <2>2. ASSUME NEW n \in Matching(q) PROVE Cardinality(Matching(q)) = 1
    <3>1. Matching(q) = {n}
      BY <2>2 DEF CInv, Matching
    <3> QED
      BY <3>1, FS_Singleton
  <2> QED
    BY <2>1, <2>2
<1>2. IInv /\ CInv /\ Next => CInv'
  BY NextClaims
<1>3. IInv /\ CInv /\ UNCHANGED vars => CInv'
  BY SameIssues, OthersKeepClaims DEF vars
<1> QED
  BY <1>1, <1>2, <1>3, InitClaims, Invariance, PTL DEF Spec
=============================================================================
