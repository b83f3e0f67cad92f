------------------------- MODULE TaskCreation_proofs -------------------------
(***************************************************************************)
(* Proofs about TaskCreation: one of each object, no work before a Task is *)
(* wholly bound, and nothing written behind a barrier, for any number of   *)
(* projects, overlapping calls and worker runs, faults and cards.          *)
(***************************************************************************)
EXTENDS TaskCreation, FiniteSetTheorems, TLAPS

-----------------------------------------------------------------------------
(* The inductive invariant                                                 *)

Issue == [open : BOOLEAN, body : {"blocked", "ready", "edited"},
          late : BOOLEAN]
ItemRec == [project : Project, parent : Nat, state : {"blocked", "ready"},
            late : BOOLEAN]
RowRec == [state : {"none", "prepared", "bound", "ready", "running"},
           root : Nat]
CallRec == [step : Step, i : 1..N, parent : Nat, item : Nat]
WriteRec == [kind : Writes, p : Project, n : Nat]
Cards == [Project -> Seq({"open", "done"})]
ScanRec == [step : {"idle", "cards", "replay", "recheck", "tree", "create"},
            i : 1..N, rows : [Project -> RowRec] \cup {<<>>},
            chain : Cards \cup {<<>>}, due : [Project -> Nat]]

\* Where a call stands: in a transaction, which holds the lock; past the
\* binding of the parent; past the activation.
Holding == Writes \cup {"bind", "root", "opened", "shown"}
Releasing == {"release", "open", "opened", "progress", "show", "shown"}
PastParent == Releasing \cup {"item", "make", "root", "activate"}

Records ==
    /\ task \in [prepared : BOOLEAN, parent : Nat, active : BOOLEAN,
                 barrier : {"none", "raised", "resumed"}]
    /\ row \in [Project -> RowRec]
    /\ call \in [Call -> CallRec] /\ scan \in [Worker -> ScanRec]
    /\ issues \in Seq(Issue) /\ items \in Seq(ItemRec)
    /\ cards \in Cards /\ moved \subseteq Project /\ wire \subseteq WriteRec
    /\ told \in BOOLEAN /\ faults \in 0..MaxFaults

\* One transaction at a time.
OneHolder ==
    /\ lock \subseteq {<<"call", c>> : c \in Call}
    /\ \A c, d \in Call :
          <<"call", c>> \in lock /\ <<"call", d>> \in lock => c = d

\* What the Task database says of a project and of the Task.
Rooted(p) ==
    IF row[p].root = 0 THEN row[p].state \in {"none", "prepared"}
    ELSE /\ row[p].state \in {"bound", "ready", "running"}
         /\ row[p].root \in 1..Len(items) /\ task.parent # 0
         /\ items[row[p].root].project = p
         /\ items[row[p].root].parent = task.parent

Registry ==
    /\ task.parent \in 0..Len(issues)
    /\ \A p \in Project : Rooted(p)
    /\ \A p \in Project :
          task.active <=> row[p].state \in {"ready", "running"}
    /\ ~ task.prepared =>
          task.parent = 0 /\ \A p \in Project : row[p].root = 0

\* Nothing is open or has cards before the Task is active; only a person may
\* open an item.
Meddled == "release" \in Faults /\ faults > 0

NothingEarly ==
    ~ task.active =>
        /\ \A p \in Project : cards[p] = <<>>
        /\ Meddled \/ \A n \in 1..Len(items) : items[n].state = "blocked"

\* No two objects but by a write that came late.
Unique ==
    /\ \A m, n \in 1..Len(issues) : issues[m].late \/ issues[n].late \/ m = n
    /\ \A m, n \in 1..Len(items) :
          \/ items[m].late \/ items[n].late \/ m = n
          \/ items[m].project # items[n].project

\* A write goes to an object that is there, and opens what may be opened.
Sendable(w) ==
    /\ w.kind \in {"make", "show"} => w.n \in 1..Len(issues)
    /\ w.kind = "open" => w.n \in 1..Len(items) /\ task.active

Remote ==
    /\ \A n \in 1..Len(items) : items[n].parent \in 1..Len(issues)
    /\ \A w \in wire : Sendable(w)

\* What a call knows at each step.
CallInv(c) ==
    /\ call[c].parent \in 0..Len(issues) /\ call[c].item \in 0..Len(items)
    /\ <<"call", c>> \in lock <=> call[c].step \in Holding
    /\ ~ At(c, "idle") => task.prepared
    /\ call[c].step \in {"create", "bind"} => task.parent = 0
    /\ At(c, "create") => \A n \in 1..Len(issues) : issues[n].late
    /\ At(c, "bind") => call[c].parent # 0
    /\ call[c].step \in PastParent =>
          call[c].parent = task.parent /\ task.parent # 0
    /\ call[c].step \in {"make", "root"} => row[Order[call[c].i]].root = 0
    /\ At(c, "make") => \A n \in ItemOf(Order[call[c].i]) : items[n].late
    /\ At(c, "root") => call[c].item # 0
    /\ call[c].step \in Releasing => task.active
    /\ call[c].step \in Writes => task.barrier = "none"

\* All cards of a chain but the last have a result.
DoneTo(p, k) == \A j \in 1..k : cards[p][j] = "done"

Chains ==
    \A p \in Project :
        Len(cards[p]) <= FlowSteps[p] /\ DoneTo(p, Len(cards[p]) - 1)

\* What a worker run has read, and the cards it found due.
Earlier(old) ==
    \A p \in Project :
        /\ Len(old[p]) <= Len(cards[p])
        /\ \A k \in 1..Len(old[p]) : old[p][k] = "done" => cards[p][k] = "done"

Due(p, n) ==
    /\ n <= FlowSteps[p] /\ n <= Len(cards[p]) + 1
    /\ n = Len(cards[p]) + 1 => DoneTo(p, Len(cards[p]))

ScanInv(w) ==
    /\ ~ ScanAt(w, "idle") =>
          task.active /\ scan[w].rows \in [Project -> RowRec]
    /\ ScanAt(w, "replay") => scan[w].chain \in Cards /\ Earlier(scan[w].chain)
    /\ \A p \in Project : scan[w].due[p] # 0 => Due(p, scan[w].due[p])

IInv ==
    /\ Records /\ OneHolder /\ Registry /\ NothingEarly /\ Unique /\ Remote
    /\ Chains
    /\ \A c \in Call : CallInv(c)
    /\ \A w \in Worker : ScanInv(w)

-----------------------------------------------------------------------------
(* Facts about the data                                                    *)

\* The user's order and the worker's list the projects, and there is one.
LEMMA Orders ==
    ASSUME CreationAssumption
    PROVE  /\ N \in Nat \ {0}
           /\ \A i \in 1..N : Order[i] \in Project /\ Rows[i] \in Project
<1> DEFINE n == Cardinality(Project)
<1>1. n \in Nat \ {0}
  BY FS_CardinalityType, FS_EmptySet DEF CreationAssumption
<1>2. Order \in [1..n -> Project] /\ Rows \in [1..n -> Project]
  BY DEF CreationAssumption
<1>3. Order \in Seq(Project)
  BY <1>1, <1>2
<1>4. N = n
  <2>1. DOMAIN Order = 1..n /\ DOMAIN Order = 1..N /\ N \in Nat
    BY <1>2, <1>3 DEF N
  <2> HIDE DEF n
  <2> QED
    BY <2>1, <1>1
<1> HIDE DEF n
<1> QED
  BY <1>1, <1>2, <1>4

\* A call and a run start from records.
LEMMA EmptyRecs ==
    ASSUME CreationAssumption
    PROVE  NoCall \in CallRec /\ NoScan \in ScanRec
<1>1. 1 \in 1..N
  BY Orders
<1> QED
  BY <1>1 DEF NoCall, NoScan, CallRec, ScanRec, Step

\* A lock that somebody holds has one holder.
LEMMA Locks ==
    ASSUME OneHolder, NEW c \in Call,
           \/ lock' = lock
           \/ lock' = lock \ {<<"call", c>>}
           \/ lock = {} /\ lock' = {<<"call", c>>}
    PROVE  /\ OneHolder'
           /\ \A d \in Call \ {c} : <<"call", d>> \in lock' <=> <<"call", d>> \in lock
<1>1. \A d \in Call : <<"call", d>> = <<"call", c>> => d = c
  OBVIOUS
<1>2. CASE lock' \subseteq lock
  BY <1>1, <1>2 DEF OneHolder
<1>3. CASE lock = {} /\ lock' = {<<"call", c>>}
  BY <1>1, <1>3 DEF OneHolder
<1> QED
  BY <1>2, <1>3

-----------------------------------------------------------------------------
(* What a step leaves alone                                                *)

\* The step of a call or, for 0, of somebody else is none of another call.
Aside(c) ==
    \A d \in Call \ {c} :
       /\ call'[d] = call[d]
       /\ <<"call", d>> \in lock' <=> <<"call", d>> \in lock

\* What it may do to what the others know: only who holds the lock binds or
\* creates.
Mild(c) ==
    /\ Len(issues) <= Len(issues') /\ Len(items) <= Len(items')
    /\ task.prepared => task'.prepared
    /\ task.active => task'.active
    /\ task'.barrier = task.barrier
    /\ task'.parent = task.parent \/ task.parent = 0
    /\ \/ <<"call", c>> \in lock
       \/ /\ task'.parent = task.parent
          /\ \A n \in 1..Len(issues') :
                \/ issues'[n].late
                \/ n \in 1..Len(issues) /\ ~ issues[n].late
          /\ \A n \in 1..Len(items') :
                \/ items'[n].late
                \/ /\ n \in 1..Len(items) /\ ~ items[n].late
                   /\ items'[n].project = items[n].project
          /\ \A p \in Project : row'[p].root = row[p].root

\* A mild step takes nothing from what another call knows.
LEMMA CallsKept ==
    ASSUME CreationAssumption, Records, OneHolder, issues' \in Seq(Issue),
           items' \in Seq(ItemRec), NEW c \in Call \cup {0}, Aside(c), Mild(c),
           NEW d \in Call \ {c}, CallInv(d)
    PROVE  CallInv(d)'
<1>1. call'[d] = call[d] /\ call[d] \in CallRec
  BY DEF Aside, Records
<1>2. Order[call[d].i] \in Project
  BY <1>1, Orders DEF CallRec
<1>3. CASE <<"call", c>> \in lock
  <2>1. c \in Call
    BY <1>3 DEF OneHolder, Call, CreationAssumption
  <2>2. <<"call", d>> \notin lock
    BY <1>3, <2>1 DEF OneHolder
  <2>3. call[d].step \notin Holding
    BY <2>2 DEF CallInv
  <2> QED
    BY <1>1, <2>2, <2>3
    DEF CallInv, Aside, Mild, At, Holding, Writes, PastParent, Releasing, Records,
        Issue, ItemRec, CallRec
<1>4. CASE <<"call", c>> \notin lock
  <2>1. /\ task'.parent = task.parent /\ task'.barrier = task.barrier
        /\ task.prepared => task'.prepared
        /\ task.active => task'.active
        /\ <<"call", d>> \in lock' <=> <<"call", d>> \in lock
        /\ row'[Order[call[d].i]].root = row[Order[call[d].i]].root
    BY <1>2, <1>4 DEF Aside, Mild
  <2>2. (\A n \in 1..Len(issues) : issues[n].late)
          => \A n \in 1..Len(issues') : issues'[n].late
    BY <1>4 DEF Aside, Mild
  <2>3. (\A n \in ItemOf(Order[call[d].i]) : items[n].late)
          => \A n \in ItemOf(Order[call[d].i])' : items'[n].late
    <3> SUFFICES ASSUME NEW n \in 1..Len(items'), ~ items'[n].late,
                        items'[n].project = Order[call[d].i]
                 PROVE  n \in ItemOf(Order[call[d].i]) /\ ~ items[n].late
      BY <1>1 DEF ItemOf
    <3>1. n \in 1..Len(items) /\ ~ items[n].late
          /\ items'[n].project = items[n].project
      BY <1>4 DEF Aside, Mild
    <3> QED
      BY <3>1 DEF ItemOf, Records
  <2>4. /\ call[d].parent \in 0..Len(issues')
        /\ call[d].item \in 0..Len(items')
    BY DEF CallInv, Aside, Mild, Records
  <2> QED
    BY <1>1, <2>1, <2>2, <2>3, <2>4 DEF CallInv, At
<1> QED
  BY <1>3, <1>4

\* A call that ends holds nothing.
LEMMA CallEnds ==
    ASSUME Records, NEW c \in Call, call'[c] = NoCall, <<"call", c>> \notin lock',
           issues' \in Seq(Issue), items' \in Seq(ItemRec)
    PROVE  CallInv(c)'
BY DEF CallInv, NoCall, At, Holding, Writes, PastParent, Releasing

\* Neither the database nor anything outside changes.
LEMMA StoresKept ==
    ASSUME Registry, NothingEarly, Unique, Remote, Chains,
           UNCHANGED <<task, row, issues, items, cards, wire>>,
           Meddled => Meddled'
    PROVE  Registry' /\ NothingEarly' /\ Unique' /\ Remote' /\ Chains'
BY DEF Registry, Rooted, NothingEarly, Unique, Remote, Sendable, Chains, DoneTo

\* Nor from what the runs have read, if no card changes.
LEMMA ScansKept ==
    ASSUME Records, UNCHANGED <<scan, cards>>, task.active => task'.active,
           \A w \in Worker : ScanInv(w)
    PROVE  \A w \in Worker : ScanInv(w)'
BY DEF ScanInv, ScanAt, Earlier, Due, DoneTo

\* Faults are never forgotten.
LEMMA FaultsGrow ==
    ASSUME CreationAssumption, Records,
           faults' = faults \/ (faults < MaxFaults /\ faults' = faults + 1)
    PROVE  faults' \in 0..MaxFaults /\ (Meddled => Meddled')
<1>1. faults \in 0..MaxFaults /\ MaxFaults \in Nat
  BY DEF CreationAssumption, Records
<1>2. faults' \in 0..MaxFaults /\ (faults > 0 => faults' > 0)
  BY <1>1
<1> QED
  BY <1>2 DEF Meddled

-----------------------------------------------------------------------------
(* Writes to the outside                                                   *)

\* Objects are added and opened, closed or edited, and never go away.
Grown(late) ==
    /\ issues' \in Seq(Issue) /\ items' \in Seq(ItemRec)
    /\ Len(issues') \in Len(issues)..(Len(issues) + 1)
    /\ Len(items') \in Len(items)..(Len(items) + 1)
    /\ \A n \in 1..Len(issues') :
          IF n \in 1..Len(issues) THEN issues'[n].late = issues[n].late
                                  ELSE issues'[n].late = late
    /\ \A n \in 1..Len(items') :
          /\ items'[n].parent \in 1..Len(issues)
          /\ IF n \in 1..Len(items)
               THEN /\ items'[n].late = items[n].late
                    /\ items'[n].project = items[n].project
                    /\ items'[n].parent = items[n].parent
                    /\ \/ items'[n].state = items[n].state
                       \/ task.active \/ Meddled'
               ELSE items'[n].late = late /\ items'[n].state = "blocked"

\* What the writes of a call do to the objects.
LEMMA PutGrows ==
    ASSUME Records, Remote, NEW w \in WriteRec, Sendable(w), NEW late \in BOOLEAN,
           Put(w.kind, w.p, w.n, late)
    PROVE  /\ Grown(late)
           /\ w.kind # "create" => Len(issues') = Len(issues)
           /\ w.kind # "make" => Len(items') = Len(items)
           /\ w.kind = "create" => Len(issues') = Len(issues) + 1
           /\ w.kind = "make" => /\ Len(items') = Len(items) + 1
                                 /\ items'[Len(items')].project = w.p
                                 /\ items'[Len(items')].parent = w.n
<1>1. issues \in Seq(Issue) /\ items \in Seq(ItemRec)
  BY DEF Records
<1>2. \A n \in 1..Len(issues) : issues[n] \in Issue
  BY <1>1
<1>3. \A n \in 1..Len(items) :
         items[n] \in ItemRec /\ items[n].parent \in 1..Len(issues)
  BY <1>1 DEF Remote
<1>4. Len(issues) \in Nat /\ Len(items) \in Nat
  BY <1>1
<1>5. CASE w.kind = "create"
  <2> DEFINE new == [open |-> TRUE, body |-> "blocked", late |-> late]
  <2>1. issues' = Append(issues, new) /\ items' = items
    BY <1>5 DEF Put, PutIssue
  <2>2. new \in Issue /\ new.late = late
    BY DEF Issue
  <2> HIDE DEF new
  <2>3. /\ issues' \in Seq(Issue) /\ Len(issues') = Len(issues) + 1
        /\ \A n \in 1..Len(issues) : issues'[n] = issues[n]
        /\ issues'[Len(issues) + 1] = new
    BY <1>1, <2>1, <2>2
  <2>4. \A n \in 1..Len(issues') :
           n \in 1..Len(issues) \/ n = Len(issues) + 1
    BY <1>4, <2>3
  <2> QED
    BY <1>1, <1>3, <1>4, <1>5, <2>1, <2>2, <2>3, <2>4 DEF Grown
<1>6. CASE w.kind = "make"
  <2> DEFINE new == [project |-> w.p, parent |-> w.n, state |-> "blocked",
                     late |-> late]
  <2>1. items' = Append(items, new) /\ issues' = issues
    BY <1>6 DEF Put, PutItem
  <2>2. /\ new \in ItemRec /\ new.late = late /\ new.state = "blocked"
        /\ new.parent = w.n /\ new.project = w.p
    BY DEF ItemRec, WriteRec
  <2>3. w.n \in 1..Len(issues)
    BY <1>6 DEF Sendable
  <2> HIDE DEF new
  <2>4. /\ items' \in Seq(ItemRec) /\ Len(items') = Len(items) + 1
        /\ \A n \in 1..Len(items) : items'[n] = items[n]
        /\ items'[Len(items) + 1] = new
    BY <1>1, <2>1, <2>2
  <2>5. \A n \in 1..Len(items') :
           n \in 1..Len(items) \/ n = Len(items) + 1
    BY <1>4, <2>4
  <2>6. ~ Len(items) + 1 \in 1..Len(items)
    BY <1>4
  <2> QED
    BY <1>1, <1>3, <1>4, <1>6, <2>1, <2>2, <2>3, <2>4, <2>5, <2>6 DEF Grown
<1>7. CASE w.kind = "open"
  <2>1. items' = [items EXCEPT ![w.n].state = "ready"] /\ issues' = issues
    BY <1>7 DEF Put, PutRelease
  <2>2. w.n \in 1..Len(items) /\ task.active
    BY <1>7 DEF Sendable
  <2>3. [items[w.n] EXCEPT !.state = "ready"] \in ItemRec
    BY <1>3, <2>2 DEF ItemRec
  <2>4. items' \in Seq(ItemRec) /\ Len(items') = Len(items)
    BY <1>1, <2>1, <2>2, <2>3
  <2>5. \A n \in 1..Len(items) : /\ items'[n].late = items[n].late
                                 /\ items'[n].project = items[n].project
                                 /\ items'[n].parent = items[n].parent
    BY <1>1, <1>3, <2>1, <2>2 DEF ItemRec
  <2> QED
    BY <1>1, <1>3, <1>4, <1>7, <2>1, <2>2, <2>4, <2>5 DEF Grown
<1>8. CASE w.kind = "show"
  <2>1. issues' = [issues EXCEPT ![w.n].body = "ready"] /\ items' = items
    BY <1>8 DEF Put, PutProgress
  <2>2. w.n \in 1..Len(issues)
    BY <1>8 DEF Sendable
  <2>3. [issues[w.n] EXCEPT !.body = "ready"] \in Issue
    BY <1>2, <2>2 DEF Issue
  <2>4. issues' \in Seq(Issue) /\ Len(issues') = Len(issues)
    BY <1>1, <2>1, <2>2, <2>3
  <2>5. \A n \in 1..Len(issues) : issues'[n].late = issues[n].late
    BY <1>1, <1>2, <2>1, <2>2 DEF Issue
  <2> QED
    BY <1>1, <1>3, <1>4, <1>8, <2>1, <2>4, <2>5 DEF Grown
<1> QED
  BY <1>5, <1>6, <1>7, <1>8 DEF WriteRec, Writes

\* What the database knows of the objects outside stays true.
LEMMA GrownStores ==
    ASSUME CreationAssumption, Records, Registry, NothingEarly, Remote, Chains,
           NEW late \in BOOLEAN, Grown(late), UNCHANGED <<task, row, cards>>,
           Meddled => Meddled', \A w \in wire' : w \in wire \/ Sendable(w)
    PROVE  Registry' /\ NothingEarly' /\ Remote' /\ Chains'
<1>1. Registry'
  <2>1. ASSUME NEW p \in Project PROVE Rooted(p)'
    <3>1. row[p].root \in Nat /\ Len(items) \in Nat /\ Rooted(p)
      BY DEF Registry, Records, RowRec
    <3>2. \A n \in 1..Len(items) :
             /\ n \in 1..Len(items')
             /\ items'[n].project = items[n].project
             /\ items'[n].parent = items[n].parent
      BY DEF Grown, Records
    <3> QED
      BY <3>1, <3>2 DEF Rooted
  <2> QED
    BY <2>1 DEF Registry, Grown, Records
<1>2. NothingEarly'
  BY DEF NothingEarly, Grown, Records
<1>3. Remote'
  <2>1. \A n \in 1..Len(items') : items'[n].parent \in 1..Len(issues')
    BY DEF Grown, Records
  <2>2. \A w \in wire' : Sendable(w)
    BY DEF Remote
  <2>3. 1..Len(issues) \subseteq 1..Len(issues')
        /\ 1..Len(items) \subseteq 1..Len(items')
    BY DEF Grown, Records
  <2> QED
    BY <2>1, <2>2, <2>3 DEF Remote, Sendable
<1>4. Chains'
  BY DEF Chains, DoneTo
<1> QED
  BY <1>1, <1>2, <1>3, <1>4

\* A new object is late or the first of its kind.
LEMMA GrownUnique ==
    ASSUME Records, Unique, NEW late \in BOOLEAN, Grown(late),
           \/ late
           \/ Len(issues') = Len(issues) \/ \A n \in 1..Len(issues) : issues[n].late,
           \/ late
           \/ Len(items') = Len(items)
           \/ \A n \in ItemOf(items'[Len(items')].project) : items[n].late
    PROVE  Unique'
<1>1. Len(issues) \in Nat /\ Len(items) \in Nat /\ DOMAIN items = 1..Len(items)
  BY DEF Records
<1>2. \A m, n \in 1..Len(issues') :
         issues'[m].late \/ issues'[n].late \/ m = n
  <2> SUFFICES ASSUME NEW m \in 1..Len(issues'), NEW n \in 1..Len(issues'),
                      ~ issues'[m].late, ~ issues'[n].late
               PROVE  m = n
    OBVIOUS
  <2>1. CASE late
    BY <1>1, <2>1 DEF Grown, Unique
  <2>2. CASE Len(issues') = Len(issues)
    BY <1>1, <2>2 DEF Grown, Unique
  <2>3. CASE \A k \in 1..Len(issues) : issues[k].late
    <3>1. m \notin 1..Len(issues) /\ n \notin 1..Len(issues)
      BY <2>3 DEF Grown
    <3> QED
      BY <1>1, <3>1 DEF Grown
  <2> QED
    BY <2>1, <2>2, <2>3
<1>3. ASSUME NEW m \in 1..Len(items'), NEW n \in 1..Len(items'),
             ~ items'[m].late, ~ items'[n].late,
             items'[m].project = items'[n].project
      PROVE  m = n
  <2>1. CASE late
    <3>1. m \in 1..Len(items) /\ n \in 1..Len(items)
      BY <1>3, <2>1 DEF Grown
    <3>2. \A k \in {m, n} : /\ ~ items[k].late
                            /\ items[k].project = items'[k].project
      BY <1>3, <3>1 DEF Grown
    <3> QED
      BY <1>3, <3>1, <3>2 DEF Unique
  <2>2. CASE Len(items') = Len(items)
    BY <1>1, <1>3, <2>2 DEF Grown, Unique
  <2>3. CASE \A k \in ItemOf(items'[Len(items')].project) : items[k].late
    <3>1. \A k \in {m, n} : k \in 1..Len(items) \/ k = Len(items')
      BY <1>1, <1>3 DEF Grown
    <3>2. \A k \in {m, n} : k \in 1..Len(items) =>
             ~ items[k].late /\ items[k].project = items'[k].project
      BY <1>3 DEF Grown
    <3> QED
      BY <1>1, <1>3, <2>3, <3>1, <3>2 DEF ItemOf, Unique
  <2> QED
    BY <2>1, <2>2, <2>3
<1> QED
  BY <1>2, <1>3 DEF Unique

-----------------------------------------------------------------------------
(* Steps of calls                                                          *)

\* A step of call c alone; it takes the free lock or lets go of its own.
Moves(c) ==
    /\ \E r \in CallRec : call' = [call EXCEPT ![c] = r]
    /\ \/ lock' = lock
       \/ lock' = lock \ {<<"call", c>>}
       \/ lock = {} /\ lock' = {<<"call", c>>}

FaultStep == faults' = faults \/ (faults < MaxFaults /\ faults' = faults + 1)

\* A step of a call keeps the invariant if it keeps the stores and its own part.
LEMMA CallMoves ==
    ASSUME CreationAssumption, IInv, NEW c \in Call, Moves(c), Mild(c), FaultStep,
           UNCHANGED <<scan, cards, moved>>, told' \in BOOLEAN,
           wire' \subseteq WriteRec,
           task' \in [prepared : BOOLEAN, parent : Nat, active : BOOLEAN,
                      barrier : {"none", "raised", "resumed"}],
           row' \in [Project -> RowRec],
           issues' \in Seq(Issue), items' \in Seq(ItemRec),
           Registry', NothingEarly', Unique', Remote', CallInv(c)'
    PROVE  IInv'
<1>1. Records /\ OneHolder
  BY DEF IInv
<1>2. faults' \in 0..MaxFaults
  BY <1>1, FaultsGrow DEF FaultStep
<1>3. call' \in [Call -> CallRec] /\ \A d \in Call \ {c} : call'[d] = call[d]
  BY <1>1 DEF Moves, Records
<1>4. Records'
  BY <1>1, <1>2, <1>3 DEF Records
<1>5. OneHolder' /\ Aside(c)
  BY <1>1, <1>3, Locks DEF Moves, Aside
<1>6. \A d \in Call \ {c} : CallInv(d)'
  BY <1>1, <1>5, CallsKept DEF IInv
<1>7. \A w \in Worker : ScanInv(w)'
  BY <1>1, ScansKept DEF IInv, Mild
<1>8. Chains'
  BY DEF IInv, Chains, DoneTo
<1> QED
  BY <1>4, <1>5, <1>6, <1>7, <1>8 DEF IInv

\* A call that changes neither database nor anything outside.
LEMMA QuietCall ==
    ASSUME CreationAssumption, IInv, NEW c \in Call, Moves(c), FaultStep,
           UNCHANGED <<dbVars, remoteVars, scan>>, told' \in BOOLEAN,
           CallInv(c)'
    PROVE  IInv'
<1>1. UNCHANGED <<task, row, issues, items, cards, moved, wire, scan>>
  BY DEF dbVars, remoteVars
<1>2. Records
  BY DEF IInv
<1>3. Mild(c)
  BY <1>1, <1>2 DEF Mild, Records
<1>4. Registry' /\ NothingEarly' /\ Unique' /\ Remote'
  BY <1>1, <1>2, StoresKept, FaultsGrow DEF IInv, FaultStep
<1> QED
  BY <1>1, <1>2, <1>3, <1>4, CallMoves DEF Records

\* A call that ends, whatever the reason.
LEMMA EndedCall ==
    ASSUME CreationAssumption, IInv, NEW c \in Call, FaultStep,
           UNCHANGED <<dbVars, remoteVars, scan>>, told' \in BOOLEAN,
           call' = [call EXCEPT ![c] = NoCall],
           \/ lock' = lock \ {<<"call", c>>}
           \/ lock' = lock /\ call[c].step \notin Holding
    PROVE  IInv'
<1>1. Moves(c)
  BY EmptyRecs DEF Moves
<1>2. call'[c] = NoCall /\ <<"call", c>> \notin lock'
  BY DEF IInv, Records, CallInv
<1>3. CallInv(c)'
  BY <1>2, CallEnds DEF IInv, Records, remoteVars
<1> QED
  BY <1>1, <1>3, QuietCall

\* A call that is about to write names an object that is there.
LEMMA PendingSendable ==
    ASSUME CreationAssumption, Records, Registry, NEW c \in Call, CallInv(c),
           call[c].step \in Writes
    PROVE  Pending(c) \in WriteRec /\ Sendable(Pending(c))
<1>1. call[c] \in CallRec /\ Len(issues) \in Nat
  BY DEF Records
<1>2. Order[call[c].i] \in Project
  BY <1>1, Orders DEF CallRec
<1>3. Rooted(Order[call[c].i]) /\ row[Order[call[c].i]] \in RowRec
  BY <1>2 DEF Registry, Records
<1>4. task.active => row[Order[call[c].i]].root \in 1..Len(items)
  BY <1>2, <1>3 DEF Rooted, Registry
<1>5. call[c].step \in {"make", "show"} => call[c].parent \in 1..Len(issues)
  BY <1>1 DEF CallInv, PastParent, Releasing
<1>6. call[c].step = "open" => task.active
  BY DEF CallInv, Releasing
<1> QED
  BY <1>1, <1>2, <1>3, <1>4, <1>5, <1>6
  DEF Pending, WriteRec, Sendable, CallRec, RowRec

\* A call that sends its write.
LEMMA WritingCall ==
    ASSUME CreationAssumption, IInv, NEW c \in Call, Moves(c), FaultStep,
           call[c].step \in Writes,
           Put(Pending(c).kind, Pending(c).p, Pending(c).n, FALSE),
           UNCHANGED <<dbVars, cards, moved, wire, scan, told>>,
           Grown(FALSE) => CallInv(c)'
    PROVE  IInv'
<1> DEFINE w == Pending(c)
<1>1. Records /\ Registry /\ Remote /\ CallInv(c) /\ call[c] \in CallRec
  BY DEF IInv, Records
<1>2. w \in WriteRec /\ Sendable(w)
  BY <1>1, PendingSendable
<1>3. /\ w.kind = call[c].step /\ w.p = Order[call[c].i]
      /\ w \in WriteRec /\ Sendable(w) /\ Put(w.kind, w.p, w.n, FALSE)
  BY <1>2 DEF Pending
<1> HIDE DEF w
<1>4. Grown(FALSE)
  BY <1>1, <1>3, PutGrows
<1>5. UNCHANGED <<task, row>> /\ (Meddled => Meddled')
  BY <1>1, FaultsGrow DEF dbVars, FaultStep
<1>6. Mild(c)
  BY <1>1, <1>4, <1>5 DEF Mild, Grown, Records, CallInv, Holding
<1>7. Registry' /\ NothingEarly' /\ Remote'
  BY <1>1, <1>4, <1>5, GrownStores DEF IInv
<1>8. Unique'
  <2>1. Len(issues') = Len(issues) \/ \A n \in 1..Len(issues) : issues[n].late
    BY <1>1, <1>3, PutGrows DEF CallInv, At
  <2>2. \/ Len(items') = Len(items)
        \/ \A n \in ItemOf(items'[Len(items')].project) : items[n].late
    BY <1>1, <1>3, PutGrows DEF CallInv, At
  <2> QED
    BY <1>1, <1>4, <2>1, <2>2, GrownUnique DEF IInv
<1> QED
  BY <1>1, <1>4, <1>5, <1>6, <1>7, <1>8, CallMoves DEF Records, Grown

\* Only the step of a call changes.
LEMMA GotoRec ==
    ASSUME Records, NEW c \in Call, NEW s \in Step, Goto(c, s)
    PROVE  /\ \E r \in CallRec : call' = [call EXCEPT ![c] = r]
           /\ call'[c].step = s /\ call'[c].i = call[c].i
           /\ call'[c].parent = call[c].parent /\ call'[c].item = call[c].item
<1> DEFINE r == [call[c] EXCEPT !.step = s]
<1>1. call[c] \in CallRec /\ call \in [Call -> CallRec]
  BY DEF Records
<1>2. r \in CallRec /\ r.step = s /\ r.i = call[c].i
      /\ r.parent = call[c].parent /\ r.item = call[c].item
  BY <1>1 DEF CallRec
<1>3. call' = [call EXCEPT ![c] = r]
  BY <1>1 DEF Goto
<1> HIDE DEF r
<1> QED
  BY <1>1, <1>2, <1>3

LEMMA BeginInv ==
    ASSUME CreationAssumption, IInv, NEW c \in Call, Begin(c)
    PROVE  IInv'
<1>1. Records /\ Registry /\ CallInv(c)
  BY DEF IInv
<1>2. Goto(c, "parent") /\ "parent" \in Step
  BY DEF Begin, Step
<1>3. /\ \E r \in CallRec : call' = [call EXCEPT ![c] = r]
      /\ call'[c].step = "parent"
      /\ call'[c].parent = call[c].parent /\ call'[c].item = call[c].item
  BY <1>1, <1>2, GotoRec
<1>4. /\ UNCHANGED <<lock, issues, items, cards, moved, wire, scan, told>>
      /\ FaultStep /\ lock = {}
      /\ task' = [task EXCEPT !.prepared = TRUE]
  BY DEF Begin, remoteVars, FaultStep, Fault, Free
<1>5. /\ task' \in [prepared : BOOLEAN, parent : Nat, active : BOOLEAN,
                    barrier : {"none", "raised", "resumed"}]
      /\ task'.prepared /\ task'.parent = task.parent
      /\ task'.active = task.active /\ task'.barrier = task.barrier
  BY <1>1, <1>4 DEF Records
<1>6. \A p \in Project :
         row'[p] = IF task.prepared THEN row[p]
                                    ELSE [state |-> "prepared", root |-> 0]
  BY DEF Begin
<1>7. row' \in [Project -> RowRec]
  BY <1>1, <1>6 DEF Begin, Records, RowRec
<1>8. \A p \in Project : row'[p].root = row[p].root
  BY <1>1, <1>6 DEF Registry
<1>9. Registry'
  <2>1. ASSUME NEW p \in Project
        PROVE  Rooted(p)' /\ (task'.active <=> row'[p].state \in {"ready", "running"})
    <3>1. Rooted(p) /\ (task.active <=> row[p].state \in {"ready", "running"})
      BY <1>1 DEF Registry
    <3>2. CASE task.prepared
      BY <1>4, <1>5, <1>6, <3>1, <3>2 DEF Rooted
    <3>3. CASE ~ task.prepared
      BY <1>1, <1>4, <1>5, <1>6, <3>1, <3>3 DEF Rooted, Registry
    <3> QED
      BY <3>2, <3>3
  <2> QED
    BY <1>1, <1>4, <1>5, <2>1 DEF Registry
<1>10. NothingEarly' /\ Unique' /\ Remote'
  BY <1>1, <1>4, <1>5, FaultsGrow
  DEF IInv, NothingEarly, Unique, Remote, Sendable, FaultStep
<1>11. Mild(c)
  BY <1>1, <1>4, <1>5, <1>8 DEF Mild, Records
<1>12. CallInv(c)'
  BY <1>1, <1>3, <1>4, <1>5
  DEF CallInv, At, Holding, Writes, PastParent, Releasing
<1> QED
  BY <1>1, <1>3, <1>4, <1>5, <1>7, <1>9, <1>10, <1>11, <1>12, CallMoves
  DEF Moves, Records

LEMMA ParentInv ==
    ASSUME CreationAssumption, IInv, NEW c \in Call, Parent(c)
    PROVE  IInv'
<1>1. Records /\ Registry /\ CallInv(c) /\ call[c] \in CallRec
  BY DEF IInv, Records
<1>2. /\ UNCHANGED <<dbVars, remoteVars, scan, faults, told>> /\ FaultStep
      /\ UNCHANGED <<task, row, issues, items>> /\ told' \in BOOLEAN
      /\ lock = {} /\ At(c, "parent") /\ call \in [Call -> CallRec]
      /\ call[c].step \notin Holding
  BY <1>1
  DEF Parent, dbVars, remoteVars, FaultStep, Free, Records, At, Holding, Writes
<1>3. CASE Raise(c) \/ (call' = [call EXCEPT ![c] = NoCall] /\ UNCHANGED lock)
  BY <1>2, <1>3, EndedCall DEF Raise
<1>4. ASSUME NEW n \in 1..Len(issues), NEW s \in {"item", "bind"},
             call' = [call EXCEPT ![c].step = s, ![c].parent = n],
             s = "item" => n = task.parent /\ UNCHANGED lock,
             s = "bind" => task.parent = 0 /\ Hold(c)
      PROVE  IInv'
  <2> DEFINE r == [call[c] EXCEPT !.step = s, !.parent = n]
  <2>1. call' = [call EXCEPT ![c] = r]
    BY <1>2, <1>4
  <2> s \in Step /\ n \in Nat
    BY <1>1 DEF Step, Records
  <2>2. r \in CallRec /\ r.step = s /\ r.parent = n /\ r.item = call[c].item
    BY <1>1 DEF CallRec
  <2> HIDE DEF r
  <2>3. call'[c] = r
    BY <1>2, <2>1
  <2>4. Moves(c)
    BY <1>2, <1>4, <2>1, <2>2 DEF Moves, Hold
  <2>5. CallInv(c)'
    BY <1>1, <1>2, <1>4, <2>2, <2>3
    DEF CallInv, At, Holding, Writes, PastParent, Releasing, Hold
  <2> QED
    BY <1>2, <2>4, <2>5, QuietCall
<1>5. CASE Found = {} /\ NoBarrier /\ task.parent = 0 /\ Goto(c, "create") /\ Hold(c)
  <2>1. "create" \in Step
    BY DEF Step, Writes
  <2>2. /\ \E r \in CallRec : call' = [call EXCEPT ![c] = r]
        /\ call'[c].step = "create"
        /\ call'[c].parent = call[c].parent /\ call'[c].item = call[c].item
    BY <1>1, <1>5, <2>1, GotoRec
  <2>3. 1..Len(issues) = {}
    BY <1>1, <1>5 DEF Found, Records
  <2>4. CallInv(c)'
    BY <1>1, <1>2, <1>5, <2>2, <2>3
    DEF CallInv, At, Holding, Writes, PastParent, Releasing, Hold, NoBarrier
  <2> QED
    BY <1>2, <1>5, <2>2, <2>4, QuietCall DEF Moves, Hold
<1>6. CASE task.parent # 0
  <2>1. task.parent \in 1..Len(issues)
    BY <1>1, <1>6 DEF Registry, Records
  <2>2. CASE Genuine(task.parent)
    BY <1>4, <1>6, <2>1, <2>2 DEF Parent
  <2>3. CASE ~ Genuine(task.parent)
    BY <1>3, <1>6, <2>3 DEF Parent
  <2> QED
    BY <2>2, <2>3
<1>7. CASE task.parent = 0
  <2>1. CASE Found = {} /\ NoBarrier
    BY <1>5, <1>7, <2>1 DEF Parent
  <2>2. CASE Found = {1} /\ Genuine(1) /\ issues[1].body = "blocked"
    <3>1. 1 \in 1..Len(issues)
      <4>1. DOMAIN issues = 1..Len(issues)
        BY <1>1 DEF Records
      <4> QED
        BY <2>2, <4>1 DEF Found
    <3>2. Found # {}
      BY <2>2
    <3>3. call' = [call EXCEPT ![c].step = "bind", ![c].parent = 1] /\ Hold(c)
      BY <1>7, <2>2, <3>2 DEF Parent
    <3> QED
      BY <1>4, <1>7, <3>1, <3>3
  <2>3. CASE ~ (Found = {} /\ NoBarrier)
             /\ ~ (Found = {1} /\ Genuine(1) /\ issues[1].body = "blocked")
    BY <1>3, <1>7, <2>3 DEF Parent
  <2> QED
    BY <2>1, <2>2, <2>3
<1> QED
  BY <1>1, <1>6, <1>7 DEF Records

LEMMA CreateParentInv ==
    ASSUME CreationAssumption, IInv, NEW c \in Call, CreateParent(c)
    PROVE  IInv'
<1>1. Records /\ CallInv(c) /\ call[c] \in CallRec /\ call \in [Call -> CallRec]
  BY DEF IInv, Records
<1>2. /\ UNCHANGED <<dbVars, cards, moved, wire, scan, told>>
      /\ UNCHANGED <<task, row, lock>> /\ FaultStep
      /\ call[c].step = "create" /\ "create" \in Writes
  BY DEF CreateParent, dbVars, FaultStep, At, Writes
<1> DEFINE r == [call[c] EXCEPT !.step = "bind", !.parent = Len(issues) + 1]
<1>3. call' = [call EXCEPT ![c] = r]
  BY <1>1 DEF CreateParent
<1> "bind" \in Step /\ Len(issues) + 1 \in Nat
  BY <1>1 DEF Step, Records
<1>4. /\ r \in CallRec /\ r.step = "bind" /\ r.parent = Len(issues) + 1
      /\ r.item = call[c].item
  BY <1>1 DEF CallRec
<1> HIDE DEF r
<1>5. Put(Pending(c).kind, Pending(c).p, Pending(c).n, FALSE)
  BY <1>2 DEF Pending, Put, CreateParent
<1>6. Len(issues') = Len(issues) + 1 /\ Len(issues) \in Nat
  BY <1>1 DEF CreateParent, PutIssue, Records
<1>7. Grown(FALSE) => CallInv(c)'
  BY <1>1, <1>2, <1>3, <1>4, <1>6
  DEF CallInv, Grown, At, Holding, Writes, PastParent, Releasing, Records
<1> QED
  BY <1>2, <1>3, <1>4, <1>5, <1>7, WritingCall DEF Moves

LEMMA BindParentInv ==
    ASSUME CreationAssumption, IInv, NEW c \in Call, BindParent(c)
    PROVE  IInv'
<1>1. Records /\ Registry /\ CallInv(c) /\ call[c] \in CallRec
  BY DEF IInv, Records
<1> DEFINE n == call[c].parent
<1>2. /\ UNCHANGED <<row, issues, items, cards, moved, wire, scan, told>>
      /\ FaultStep /\ At(c, "bind")
  BY DEF BindParent, remoteVars, FaultStep
<1>3. CASE Raise(c) /\ UNCHANGED task
  BY <1>1, <1>2, <1>3, EndedCall DEF Raise, dbVars, remoteVars, Records
<1>4. CASE task' = [task EXCEPT !.parent = n] /\ Goto(c, "item") /\ Release(c)
  <2>1. n \in 1..Len(issues) /\ task.parent = 0 /\ <<"call", c>> \in lock
        /\ task.prepared
    BY <1>1, <1>2 DEF CallInv, At, Holding, Records
  <2>2. /\ task' \in [prepared : BOOLEAN, parent : Nat, active : BOOLEAN,
                      barrier : {"none", "raised", "resumed"}]
        /\ task'.prepared = task.prepared /\ task'.parent = n
        /\ task'.active = task.active /\ task'.barrier = task.barrier
    BY <1>1, <1>4, <2>1 DEF Records, CallRec
  <2>3. "item" \in Step
    BY DEF Step
  <2>4. /\ \E r \in CallRec : call' = [call EXCEPT ![c] = r]
        /\ call'[c].step = "item"
        /\ call'[c].parent = n /\ call'[c].item = call[c].item
    BY <1>1, <1>4, <2>3, GotoRec
  <2>5. Registry'
    BY <1>1, <1>2, <2>1, <2>2 DEF Registry, Rooted
  <2>6. NothingEarly' /\ Unique' /\ Remote'
    BY <1>1, <1>2, <2>2, FaultsGrow
    DEF IInv, NothingEarly, Unique, Remote, Sendable, FaultStep
  <2>7. Mild(c)
    BY <1>1, <1>2, <2>1, <2>2 DEF Mild, Records
  <2>8. CallInv(c)'
    BY <1>1, <1>2, <1>4, <2>1, <2>2, <2>4
    DEF CallInv, At, Holding, Writes, PastParent, Releasing, Release
  <2> QED
    BY <1>1, <1>2, <1>4, <2>2, <2>4, <2>5, <2>6, <2>7, <2>8, CallMoves
    DEF Moves, Records, Release
<1> QED
  BY <1>3, <1>4 DEF BindParent

\* The loops over the projects.
LEMMA NextItemRec ==
    ASSUME CreationAssumption, Records, NEW c \in Call, NextItem(c)
    PROVE  /\ \E r \in CallRec : call' = [call EXCEPT ![c] = r]
           /\ call'[c].step \in {"item", "activate"}
           /\ call'[c].parent = call[c].parent /\ call'[c].item = 0
<1>1. call[c] \in CallRec /\ call \in [Call -> CallRec]
  BY DEF Records
<1>2. call[c].i \in 1..N /\ N \in Nat \ {0}
  BY <1>1, Orders DEF CallRec
<1> DEFINE i == IF call[c].i = N THEN 1 ELSE call[c].i + 1
           s == IF call[c].i = N THEN "activate" ELSE "item"
           r == [call[c] EXCEPT !.item = 0, !.i = i, !.step = s]
<1>3. i \in 1..N /\ s \in Step /\ s \in {"item", "activate"}
  BY <1>2 DEF Step
<1>4. call' = [call EXCEPT ![c] = r]
  BY <1>1 DEF NextItem, CallRec
<1> HIDE DEF i, s
<1>5. r \in CallRec /\ r.step = s /\ r.parent = call[c].parent /\ r.item = 0
  BY <1>1, <1>3 DEF CallRec
<1> HIDE DEF r
<1> QED
  BY <1>1, <1>3, <1>4, <1>5

LEMMA NextReleaseRec ==
    ASSUME CreationAssumption, Records, NEW c \in Call, NextRelease(c)
    PROVE  /\ \E r \in CallRec : call' = [call EXCEPT ![c] = r]
           /\ call'[c].step \in {"release", "progress"}
           /\ call'[c].parent = call[c].parent /\ call'[c].item = call[c].item
<1>1. call[c] \in CallRec /\ call \in [Call -> CallRec]
  BY DEF Records
<1>2. call[c].i \in 1..N /\ N \in Nat \ {0}
  BY <1>1, Orders DEF CallRec
<1> DEFINE i == IF call[c].i = N THEN 1 ELSE call[c].i + 1
           s == IF call[c].i = N THEN "progress" ELSE "release"
           r == [call[c] EXCEPT !.i = i, !.step = s]
<1>3. i \in 1..N /\ s \in Step /\ s \in {"release", "progress"}
  BY <1>2 DEF Step
<1>4. call' = [call EXCEPT ![c] = r]
  BY <1>1 DEF NextRelease, CallRec
<1> HIDE DEF i, s
<1>5. /\ r \in CallRec /\ r.step = s /\ r.parent = call[c].parent
      /\ r.item = call[c].item
  BY <1>1, <1>3 DEF CallRec
<1> HIDE DEF r
<1> QED
  BY <1>1, <1>3, <1>4, <1>5

\* A call goes on with the next project, or from one loop to the next step.
LEMMA LoopInv ==
    ASSUME CreationAssumption, IInv, NEW c \in Call,
           NextItem(c) \/ NextRelease(c),
           NextItem(c) => call[c].step \in PastParent,
           NextRelease(c) => call[c].step \in Releasing,
           UNCHANGED <<dbVars, remoteVars, scan, faults, told>>,
           \/ lock' = lock \ {<<"call", c>>}
           \/ lock' = lock /\ call[c].step \notin Holding
    PROVE  IInv'
<1>1. Records /\ Registry /\ CallInv(c) /\ call[c] \in CallRec
  BY DEF IInv, Records
<1>2. UNCHANGED <<task, row, issues, items>> /\ FaultStep /\ told' \in BOOLEAN
  BY <1>1 DEF dbVars, remoteVars, FaultStep, Records
<1>3. <<"call", c>> \notin lock'
  BY <1>1 DEF CallInv
<1>4. CASE NextItem(c)
  <2>1. /\ \E r \in CallRec : call' = [call EXCEPT ![c] = r]
        /\ call'[c].step \in {"item", "activate"}
        /\ call'[c].parent = call[c].parent /\ call'[c].item = 0
    BY <1>1, <1>4, NextItemRec
  <2>2. CallInv(c)'
    BY <1>1, <1>2, <1>3, <1>4, <2>1
    DEF CallInv, At, Holding, Writes, PastParent, Releasing, Records
  <2> QED
    BY <1>2, <2>1, <2>2, QuietCall DEF Moves
<1>5. CASE NextRelease(c)
  <2>1. /\ \E r \in CallRec : call' = [call EXCEPT ![c] = r]
        /\ call'[c].step \in {"release", "progress"}
        /\ call'[c].parent = call[c].parent /\ call'[c].item = call[c].item
    BY <1>1, <1>5, NextReleaseRec
  <2>2. CallInv(c)'
    BY <1>1, <1>2, <1>3, <1>5, <2>1
    DEF CallInv, At, Holding, Writes, PastParent, Releasing, Records
  <2> QED
    BY <1>2, <2>1, <2>2, QuietCall DEF Moves
<1> QED
  BY <1>4, <1>5

LEMMA ItemInv ==
    ASSUME CreationAssumption, IInv, NEW c \in Call, Item(c)
    PROVE  IInv'
<1>1. Records /\ Registry /\ CallInv(c) /\ call[c] \in CallRec
      /\ call \in [Call -> CallRec]
  BY DEF IInv, Records
<1> DEFINE p == Order[call[c].i]
<1>2. p \in Project
  BY <1>1, Orders DEF CallRec
<1>3. /\ UNCHANGED <<dbVars, remoteVars, scan, faults, told>> /\ FaultStep
      /\ UNCHANGED <<task, row, issues, items>> /\ told' \in BOOLEAN
      /\ lock = {} /\ At(c, "item")
      /\ call[c].step \notin Holding /\ call[c].step \in PastParent
  BY <1>1
  DEF Item, dbVars, remoteVars, FaultStep, Free, Records, At, Holding, Writes,
      PastParent
<1>4. CASE Raise(c) \/ (call' = [call EXCEPT ![c] = NoCall] /\ UNCHANGED lock)
  BY <1>3, <1>4, EndedCall DEF Raise
<1>5. CASE NextItem(c) /\ UNCHANGED lock
  <2>1. ~ NextRelease(c) \/ call[c].step \in Releasing
    <3>1. call'[c].step \in {"item", "activate"}
      BY <1>1, <1>5, NextItemRec
    <3>2. ~ NextRelease(c)
      BY <1>1, <3>1, NextReleaseRec
    <3> QED
      BY <3>2
  <2> QED
    BY <1>3, <1>5, <2>1, LoopInv
<1>6. CASE ItemOf(p) = {} /\ NoBarrier /\ row[p].root = 0
           /\ Goto(c, "make") /\ Hold(c)
  <2>1. "make" \in Step
    BY DEF Step, Writes
  <2>2. /\ \E r \in CallRec : call' = [call EXCEPT ![c] = r]
        /\ call'[c].step = "make" /\ call'[c].i = call[c].i
        /\ call'[c].parent = call[c].parent /\ call'[c].item = call[c].item
    BY <1>1, <1>6, <2>1, GotoRec
  <2>3. ItemOf(p)' = {}
    BY <1>3, <1>6, <2>2 DEF ItemOf
  <2>4. CallInv(c)'
    BY <1>1, <1>3, <1>6, <2>2, <2>3
    DEF CallInv, At, Holding, Writes, PastParent, Releasing, Hold, NoBarrier
  <2> QED
    BY <1>3, <1>6, <2>2, <2>4, QuietCall DEF Moves, Hold
<1>7. ASSUME NEW n \in ItemOf(p), row[p].root = 0, Hold(c),
             call' = [call EXCEPT ![c].step = "root", ![c].item = n]
      PROVE  IInv'
  <2> DEFINE r == [call[c] EXCEPT !.step = "root", !.item = n]
  <2>1. call' = [call EXCEPT ![c] = r]
    BY <1>1, <1>7
  <2>2. n \in 1..Len(items) /\ n \in Nat /\ "root" \in Step
    BY <1>1 DEF ItemOf, Step, Records
  <2>3. /\ r \in CallRec /\ r.step = "root" /\ r.parent = call[c].parent
        /\ r.item = n /\ r.i = call[c].i
    BY <1>1, <2>2 DEF CallRec
  <2> HIDE DEF r
  <2>4. call'[c] = r
    BY <1>1, <2>1
  <2>5. CallInv(c)'
    BY <1>1, <1>3, <1>7, <2>2, <2>3, <2>4
    DEF CallInv, At, Holding, Writes, PastParent, Releasing, Hold
  <2> QED
    BY <1>3, <1>7, <2>1, <2>3, <2>5, QuietCall DEF Moves, Hold
<1>8. CASE row[p].root # 0
  BY <1>4, <1>5, <1>8 DEF Item
<1>9. CASE row[p].root = 0
  <2> DEFINE Taken == \E n \in ItemOf(p) : /\ ItemOf(p) = {n}
                                           /\ Fits(n, p, task.parent, {"blocked"})
  <2>1. CASE ItemOf(p) = {} /\ NoBarrier
    BY <1>6, <1>9, <2>1 DEF Item
  <2>2. CASE Taken
    <3>1. ItemOf(p) # {}
      BY <2>2
    <3>2. /\ call' = [call EXCEPT ![c].step = "root",
                                  ![c].item = CHOOSE n \in ItemOf(p) : TRUE]
          /\ Hold(c)
      BY <1>9, <2>2, <3>1 DEF Item
    <3>3. (CHOOSE n \in ItemOf(p) : TRUE) \in ItemOf(p)
      BY <3>1
    <3> QED
      BY <1>7, <1>9, <3>2, <3>3
  <2>3. CASE ~ (ItemOf(p) = {} /\ NoBarrier) /\ ~ Taken
    BY <1>4, <1>9, <2>3 DEF Item
  <2> QED
    BY <2>1, <2>2, <2>3
<1> QED
  BY <1>8, <1>9

LEMMA CreateItemInv ==
    ASSUME CreationAssumption, IInv, NEW c \in Call, CreateItem(c)
    PROVE  IInv'
<1>1. Records /\ CallInv(c) /\ call[c] \in CallRec /\ call \in [Call -> CallRec]
  BY DEF IInv, Records
<1>2. /\ UNCHANGED <<dbVars, cards, moved, wire, scan, told>>
      /\ UNCHANGED <<task, row, lock>> /\ FaultStep
      /\ call[c].step = "make" /\ "make" \in Writes
  BY DEF CreateItem, dbVars, FaultStep, At, Writes
<1> DEFINE r == [call[c] EXCEPT !.step = "root", !.item = Len(items) + 1]
<1>3. call' = [call EXCEPT ![c] = r]
  BY <1>1 DEF CreateItem
<1> "root" \in Step /\ Len(items) + 1 \in Nat
  BY <1>1 DEF Step, Records
<1>4. /\ r \in CallRec /\ r.step = "root" /\ r.parent = call[c].parent
      /\ r.i = call[c].i /\ r.item = Len(items) + 1
  BY <1>1 DEF CallRec
<1> HIDE DEF r
<1>5. Put(Pending(c).kind, Pending(c).p, Pending(c).n, FALSE)
  BY <1>2 DEF Pending, Put, CreateItem
<1>6. Len(items') = Len(items) + 1 /\ Len(items) \in Nat
  BY <1>1 DEF CreateItem, PutItem, Records
<1>7. Grown(FALSE) => CallInv(c)'
  BY <1>1, <1>2, <1>3, <1>4, <1>6
  DEF CallInv, Grown, At, Holding, Writes, PastParent, Releasing, Records
<1> QED
  BY <1>2, <1>3, <1>4, <1>5, <1>7, WritingCall DEF Moves

LEMMA BindItemInv ==
    ASSUME CreationAssumption, IInv, NEW c \in Call, BindItem(c)
    PROVE  IInv'
<1>1. Records /\ Registry /\ CallInv(c) /\ call[c] \in CallRec
  BY DEF IInv, Records
<1> DEFINE p == Order[call[c].i]
           n == call[c].item
<1>2. p \in Project
  BY <1>1, Orders DEF CallRec
<1>3. /\ UNCHANGED <<task, issues, items, cards, moved, wire, scan, told>>
      /\ FaultStep /\ At(c, "root")
  BY DEF BindItem, remoteVars, FaultStep
<1>4. CASE Raise(c) /\ UNCHANGED row
  BY <1>1, <1>3, <1>4, EndedCall DEF Raise, dbVars, remoteVars, Records
<1>5. CASE /\ Fits(n, p, call[c].parent, {"blocked"})
           /\ row' = [row EXCEPT ![p] = [state |-> "bound", root |-> n]]
           /\ NextItem(c) /\ Release(c)
  <2>1. /\ n \in 1..Len(items) /\ row[p].root = 0 /\ <<"call", c>> \in lock
        /\ task.prepared /\ task.parent # 0 /\ call[c].parent = task.parent
    BY <1>1, <1>3 DEF CallInv, At, Holding, PastParent, Records
  <2>2. items[n].project = p /\ items[n].parent = task.parent
    BY <1>5, <2>1 DEF Fits
  <2>3. ~ task.active
    BY <1>1, <1>2, <2>1 DEF Registry, Rooted
  <2>4. row' \in [Project -> RowRec] /\ row'[p] = [state |-> "bound", root |-> n]
        /\ \A q \in Project \ {p} : row'[q] = row[q]
    BY <1>1, <1>2, <1>5, <2>1 DEF Records, RowRec
  <2>5. /\ \E r \in CallRec : call' = [call EXCEPT ![c] = r]
        /\ call'[c].step \in {"item", "activate"}
        /\ call'[c].parent = call[c].parent /\ call'[c].item = 0
    BY <1>1, <1>5, NextItemRec
  <2>6. Registry'
    <3>1. ASSUME NEW q \in Project
          PROVE  /\ Rooted(q)'
                 /\ task'.active <=> row'[q].state \in {"ready", "running"}
      <4>1. CASE q = p
        BY <1>3, <2>1, <2>2, <2>3, <2>4, <4>1 DEF Rooted
      <4>2. CASE q # p
        BY <1>1, <1>3, <2>4, <4>2 DEF Rooted, Registry
      <4> QED
        BY <4>1, <4>2
    <3> QED
      BY <1>1, <1>3, <2>1, <3>1 DEF Registry
  <2>7. NothingEarly' /\ Unique' /\ Remote'
    BY <1>1, <1>3, FaultsGrow
    DEF IInv, NothingEarly, Unique, Remote, Sendable, FaultStep
  <2>8. Mild(c)
    BY <1>1, <1>3, <2>1 DEF Mild, Records
  <2>9. CallInv(c)'
    BY <1>1, <1>3, <1>5, <2>1, <2>5
    DEF CallInv, At, Holding, Writes, PastParent, Releasing, Release, Records
  <2> QED
    BY <1>1, <1>3, <1>5, <2>4, <2>5, <2>6, <2>7, <2>8, <2>9, CallMoves
    DEF Moves, Records, Release
<1> QED
  BY <1>4, <1>5 DEF BindItem

LEMMA ActivateInv ==
    ASSUME CreationAssumption, IInv, NEW c \in Call, Activate(c)
    PROVE  IInv'
<1>1. Records /\ Registry /\ CallInv(c) /\ call[c] \in CallRec
  BY DEF IInv, Records
<1>2. /\ UNCHANGED <<issues, items, cards, moved, wire, scan, told, lock>>
      /\ FaultStep /\ At(c, "activate") /\ call[c].step \notin Holding
  BY DEF Activate, remoteVars, FaultStep, At, Holding, Writes
<1>3. CASE call' = [call EXCEPT ![c] = NoCall] /\ UNCHANGED dbVars
  BY <1>1, <1>2, <1>3, EndedCall DEF remoteVars, Records
<1>4. CASE /\ {row[p].state : p \in Project}
                = {IF task.active THEN "ready" ELSE "bound"}
           /\ task' = [task EXCEPT !.active = TRUE]
           /\ row' = [p \in Project |-> [row[p] EXCEPT !.state = "ready"]]
           /\ Goto(c, "release")
  <2>1. \A p \in Project : row[p].state \in {"ready", "bound"}
    BY <1>4
  <2>2. /\ task' \in [prepared : BOOLEAN, parent : Nat, active : BOOLEAN,
                      barrier : {"none", "raised", "resumed"}]
        /\ task'.prepared = task.prepared /\ task'.parent = task.parent
        /\ task'.active /\ task'.barrier = task.barrier
    BY <1>1, <1>4 DEF Records
  <2>3. /\ row' \in [Project -> RowRec]
        /\ \A p \in Project : row'[p].state = "ready" /\ row'[p].root = row[p].root
    BY <1>1, <1>4 DEF Records, RowRec
  <2>4. "release" \in Step
    BY DEF Step
  <2>5. /\ \E r \in CallRec : call' = [call EXCEPT ![c] = r]
        /\ call'[c].step = "release"
        /\ call'[c].parent = call[c].parent /\ call'[c].item = call[c].item
    BY <1>1, <1>4, <2>4, GotoRec
  <2>6. Registry'
    <3>1. ASSUME NEW p \in Project PROVE Rooted(p)' /\ row'[p].root # 0
      BY <1>1, <1>2, <2>1, <2>2, <2>3 DEF Rooted, Registry
    <3>2. task.prepared
      BY <1>1, <1>2 DEF CallInv, At
    <3> QED
      BY <1>1, <1>2, <2>2, <2>3, <3>1, <3>2 DEF Registry
  <2>7. NothingEarly' /\ Unique' /\ Remote'
    BY <1>1, <1>2, <2>2 DEF IInv, NothingEarly, Unique, Remote, Sendable
  <2>8. Mild(c)
    BY <1>1, <1>2, <2>2, <2>3 DEF Mild, Records
  <2>9. CallInv(c)'
    BY <1>1, <1>2, <2>2, <2>5
    DEF CallInv, At, Holding, Writes, PastParent, Releasing
  <2> QED
    BY <1>1, <1>2, <2>2, <2>3, <2>5, <2>6, <2>7, <2>8, <2>9, CallMoves
    DEF Moves, Records
<1> QED
  BY <1>3, <1>4 DEF Activate

\* Before a call opens an item or shows the progress.
LEMMA HoldsInv ==
    ASSUME CreationAssumption, IInv, NEW c \in Call, NEW s \in {"open", "show"},
           Goto(c, s), Hold(c), lock = {}, MayWrite,
           call[c].step \in {"release", "progress"},
           UNCHANGED <<dbVars, remoteVars, scan, faults, told>>
    PROVE  IInv'
<1>1. Records /\ CallInv(c) /\ call[c] \in CallRec
  BY DEF IInv, Records
<1>2. UNCHANGED <<task, row, issues, items>> /\ FaultStep /\ told' \in BOOLEAN
      /\ s \in Step
  BY <1>1 DEF dbVars, remoteVars, FaultStep, Records, Step, Writes
<1>3. /\ \E r \in CallRec : call' = [call EXCEPT ![c] = r]
      /\ call'[c].step = s
      /\ call'[c].parent = call[c].parent /\ call'[c].item = call[c].item
  BY <1>1, <1>2, GotoRec
<1>4. CallInv(c)'
  BY <1>1, <1>2, <1>3
  DEF CallInv, At, Holding, Writes, PastParent, Releasing, Hold, MayWrite,
      NoBarrier
<1> QED
  BY <1>2, <1>3, <1>4, QuietCall DEF Moves, Hold

LEMMA ReleaseItemInv ==
    ASSUME CreationAssumption, IInv, NEW c \in Call, ReleaseItem(c)
    PROVE  IInv'
<1>1. Records
  BY DEF IInv
<1>2. /\ UNCHANGED <<dbVars, remoteVars, scan, faults, told>> /\ FaultStep
      /\ told' \in BOOLEAN /\ lock = {} /\ call[c].step = "release"
      /\ call[c].step \notin Holding /\ call[c].step \in Releasing
      /\ call[c].step \in PastParent
  BY <1>1
  DEF ReleaseItem, FaultStep, Free, Records, At, Holding, Writes, Releasing,
      PastParent
<1>3. CASE call' = [call EXCEPT ![c] = NoCall] /\ UNCHANGED lock
  BY <1>2, <1>3, EndedCall
<1>4. CASE NextRelease(c) /\ UNCHANGED lock
  BY <1>2, <1>4, LoopInv
<1>5. CASE MayWrite /\ Goto(c, "open") /\ Hold(c)
  BY <1>2, <1>5, HoldsInv
<1> QED
  BY <1>3, <1>4, <1>5 DEF ReleaseItem

LEMMA ProgressInv ==
    ASSUME CreationAssumption, IInv, NEW c \in Call, Progress(c)
    PROVE  IInv'
<1>1. Records
  BY DEF IInv
<1>2. /\ UNCHANGED <<dbVars, remoteVars, scan, faults>> /\ FaultStep
      /\ lock = {} /\ call[c].step = "progress"
      /\ call[c].step \notin Holding
  BY DEF Progress, FaultStep, Free, At, Holding, Writes
<1>3. CASE /\ call' = [call EXCEPT ![c] = NoCall] /\ UNCHANGED lock
           /\ told' = (told \/ (MayWrite /\ Genuine(call[c].parent)))
  <2>1. told' \in BOOLEAN
    BY <1>3
  <2> QED
    BY <1>2, <1>3, <2>1, EndedCall
<1>4. CASE MayWrite /\ Goto(c, "show") /\ Hold(c) /\ UNCHANGED told
  BY <1>2, <1>4, HoldsInv
<1> DEFINE shows == /\ MayWrite /\ Genuine(call[c].parent)
                    /\ issues[call[c].parent].body = "blocked"
<1>5. CASE shows
  BY <1>4, <1>5 DEF Progress
<1>6. CASE ~ shows
  BY <1>3, <1>6 DEF Progress
<1> QED
  BY <1>5, <1>6

\* A write, and on to the readback.
LEMMA SentInv ==
    ASSUME CreationAssumption, IInv, NEW c \in Call, OpenItem(c) \/ Show(c)
    PROVE  IInv'
<1>1. Records /\ CallInv(c) /\ call[c] \in CallRec
  BY DEF IInv, Records
<1>2. /\ UNCHANGED <<dbVars, cards, moved, wire, scan, told>>
      /\ UNCHANGED <<task, row, lock>> /\ FaultStep
      /\ call[c].step \in {"open", "show"} /\ call[c].step \in Writes
  BY DEF OpenItem, Show, dbVars, FaultStep, At, Writes
<1>3. PICK s \in {"opened", "shown"} : Goto(c, s)
  BY DEF OpenItem, Show
<1>4. s \in Step
  BY DEF Step
<1>5. /\ \E r \in CallRec : call' = [call EXCEPT ![c] = r]
      /\ call'[c].step = s
      /\ call'[c].parent = call[c].parent /\ call'[c].item = call[c].item
  BY <1>1, <1>3, <1>4, GotoRec
<1>6. Put(Pending(c).kind, Pending(c).p, Pending(c).n, FALSE)
  BY DEF Pending, Put, OpenItem, Show, At
<1>7. Grown(FALSE) => CallInv(c)'
  BY <1>1, <1>2, <1>5
  DEF CallInv, Grown, At, Holding, Writes, PastParent, Releasing, Records
<1> QED
  BY <1>2, <1>5, <1>6, <1>7, WritingCall DEF Moves

LEMMA OpenedInv ==
    ASSUME CreationAssumption, IInv, NEW c \in Call, Opened(c)
    PROVE  IInv'
<1>1. Records
  BY DEF IInv
<1>2. /\ UNCHANGED <<dbVars, remoteVars, scan, faults, told>> /\ FaultStep
      /\ told' \in BOOLEAN /\ call[c].step \in Releasing
      /\ call[c].step \in PastParent
  BY <1>1 DEF Opened, FaultStep, Records, At, Releasing, PastParent
<1>3. CASE Raise(c)
  BY <1>2, <1>3, EndedCall DEF Raise
<1>4. CASE NextRelease(c) /\ Release(c)
  BY <1>2, <1>4, LoopInv DEF Release
<1> QED
  BY <1>3, <1>4 DEF Opened

LEMMA ShownInv ==
    ASSUME CreationAssumption, IInv, NEW c \in Call, Shown(c)
    PROVE  IInv'
<1>1. /\ UNCHANGED <<dbVars, remoteVars, scan, faults>> /\ FaultStep
      /\ told' \in BOOLEAN /\ Raise(c)
  BY DEF Shown, FaultStep
<1> QED
  BY <1>1, EndedCall DEF Raise

\* A call that is killed, or whose write fails, is lost or comes late.
LEMMA FaultyCallInv ==
    ASSUME CreationAssumption, IInv, NEW c \in Call,
           DieCall(c) \/ Fail(c) \/ Lose(c) \/ Abandon(c)
    PROVE  IInv'
<1>1. Records /\ Registry /\ CallInv(c) /\ call[c] \in CallRec
  BY DEF IInv, Records
<1>2. FaultStep /\ Raise(c)
  BY DEF DieCall, Fail, Lose, Abandon, FaultStep, Fault
<1>3. CASE DieCall(c) \/ Fail(c)
  BY <1>1, <1>2, <1>3, EndedCall DEF DieCall, Fail, Raise, Records
<1>4. Moves(c) /\ call'[c] = NoCall /\ <<"call", c>> \notin lock'
  BY <1>1, <1>2, EmptyRecs DEF Moves, Raise, Records
<1>5. CASE Lose(c)
  <2>1. Grown(FALSE) => CallInv(c)'
    BY <1>1, <1>4, CallEnds DEF Grown
  <2> QED
    BY <1>2, <1>4, <1>5, <2>1, WritingCall DEF Lose
<1>6. CASE Abandon(c)
  <2>1. /\ UNCHANGED <<task, row, issues, items, cards, moved, scan, told>>
        /\ wire' = wire \cup {Pending(c)} /\ call[c].step \in Writes
    BY <1>6 DEF Abandon, dbVars
  <2>4. Pending(c) \in WriteRec /\ Sendable(Pending(c))
    BY <1>1, <2>1, PendingSendable
  <2>5. wire' \subseteq WriteRec
    BY <1>1, <2>1, <2>4 DEF Records
  <2>6. Registry' /\ NothingEarly' /\ Unique'
    BY <1>1, <1>2, <2>1, FaultsGrow
    DEF IInv, Registry, Rooted, NothingEarly, Unique, FaultStep
  <2>7. Remote'
    <3>1. \A w \in wire' : Sendable(w)
      BY <2>1, <2>4 DEF IInv, Remote
    <3> QED
      BY <2>1, <3>1 DEF IInv, Remote, Sendable
  <2>8. Mild(c)
    BY <1>1, <2>1 DEF Mild, Records
  <2>9. CallInv(c)'
    BY <1>1, <1>4, <2>1, CallEnds DEF Records
  <2> QED
    BY <1>1, <1>2, <1>4, <2>1, <2>5, <2>6, <2>7, <2>8, <2>9, CallMoves
    DEF Records
<1> QED
  BY <1>3, <1>5, <1>6

LEMMA CallInvs ==
    ASSUME CreationAssumption, IInv, NEW c \in Call, CallStep(c)
    PROVE  IInv'
BY ParentInv, CreateParentInv, BindParentInv, ItemInv, CreateItemInv,
   BindItemInv, ActivateInv, ReleaseItemInv, SentInv, OpenedInv, ProgressInv,
   ShownInv DEF CallStep

-----------------------------------------------------------------------------
(* Steps of worker runs                                                    *)

\* Steps that are none of a call's.
LEMMA AllCallsKept ==
    ASSUME CreationAssumption, IInv, UNCHANGED <<call, lock>>, Mild(0),
           issues' \in Seq(Issue), items' \in Seq(ItemRec)
    PROVE  OneHolder' /\ \A c \in Call : CallInv(c)'
<1>1. 0 \notin Call
  BY DEF Call, CreationAssumption
<1>2. Aside(0)
  BY DEF Aside
<1> QED
  BY <1>1, <1>2, CallsKept DEF IInv, OneHolder

\* Chains only grow, and a result stays.
CardsMove ==
    \A p \in Project :
        /\ Len(cards[p]) <= Len(cards'[p])
        /\ \A k \in 1..Len(cards[p]) :
              cards[p][k] = "done" => cards'[p][k] = "done"

LEMMA ScanKept ==
    ASSUME CreationAssumption, Records, cards' \in Cards, CardsMove,
           task.active => task'.active, NEW w \in Worker, ScanInv(w),
           scan'[w] = scan[w]
    PROVE  ScanInv(w)'
<1>1. \A p \in Project : Len(cards[p]) \in Nat /\ Len(cards'[p]) \in Nat
  BY DEF Records, Cards
<1>2. scan[w] \in ScanRec
  BY DEF Records
<1>3. ASSUME NEW old \in Cards, Earlier(old)
      PROVE  \A p \in Project :
                /\ Len(old[p]) <= Len(cards'[p])
                /\ \A k \in 1..Len(old[p]) :
                      old[p][k] = "done" => cards'[p][k] = "done"
  <2> SUFFICES ASSUME NEW p \in Project
               PROVE  /\ Len(old[p]) <= Len(cards'[p])
                      /\ \A k \in 1..Len(old[p]) :
                            old[p][k] = "done" => cards'[p][k] = "done"
    OBVIOUS
  <2>1. Len(old[p]) \in Nat /\ Len(old[p]) <= Len(cards[p])
    BY <1>3 DEF Earlier, Cards
  <2>2. 1..Len(old[p]) \subseteq 1..Len(cards[p])
    BY <1>1, <2>1
  <2> QED
    BY <1>1, <1>3, <2>1, <2>2 DEF Earlier, CardsMove
<1>4. ScanAt(w, "replay") =>
         scan[w].chain \in Cards /\ Earlier(scan[w].chain)'
  BY <1>3 DEF ScanInv, Earlier
<1>5. ASSUME NEW p \in Project, scan[w].due[p] # 0
      PROVE  Due(p, scan[w].due[p])'
  <2> DEFINE n == scan[w].due[p]
  <2>1. n \in Nat /\ Due(p, n) /\ n = scan'[w].due[p]
    BY <1>2, <1>5 DEF ScanInv, ScanRec
  <2>2. n <= FlowSteps[p] /\ n <= Len(cards'[p]) + 1
    BY <1>1, <2>1 DEF Due, CardsMove
  <2>3. n = Len(cards'[p]) + 1 => DoneTo(p, Len(cards[p]))'
    BY <1>1, <2>1 DEF Due, CardsMove, DoneTo
  <2>4. n = Len(cards'[p]) + 1 => Len(cards'[p]) = Len(cards[p])
    BY <1>1, <2>1 DEF Due, CardsMove
  <2> QED
    BY <2>1, <2>2, <2>3, <2>4 DEF Due
<1> QED
  BY <1>4, <1>5 DEF ScanInv, ScanAt

LEMMA EndedScan ==
    ASSUME NEW w \in Worker, scan'[w] = NoScan
    PROVE  ScanInv(w)'
BY DEF ScanInv, ScanAt, NoScan

\* A step that moves only the locals of one run.
LEMMA ScanMoves ==
    ASSUME CreationAssumption, IInv, NEW w \in Worker, NEW r \in ScanRec,
           scan' = [scan EXCEPT ![w] = r], FaultStep, told' = told,
           UNCHANGED <<dbVars, lock, call, remoteVars>>, ScanInv(w)'
    PROVE  IInv'
<1>1. UNCHANGED <<task, row, issues, items, cards, moved, wire>>
  BY DEF dbVars, remoteVars
<1>2. Records
  BY DEF IInv
<1>3. scan' \in [Worker -> ScanRec] /\ \A v \in Worker \ {w} : scan'[v] = scan[v]
  BY <1>2 DEF Records
<1>4. Records' /\ (Meddled => Meddled')
  BY <1>1, <1>2, <1>3, FaultsGrow DEF Records, FaultStep
<1>5. Mild(0)
  BY <1>1, <1>2 DEF Mild, Records
<1>6. OneHolder' /\ \A c \in Call : CallInv(c)'
  BY <1>1, <1>2, <1>5, AllCallsKept DEF Records
<1>7. Registry' /\ NothingEarly' /\ Unique' /\ Remote' /\ Chains'
  BY <1>1, <1>4, StoresKept DEF IInv
<1>8. \A v \in Worker \ {w} : ScanInv(v)'
  BY <1>1, <1>2, <1>3, ScanKept DEF IInv, CardsMove, Records
<1> QED
  BY <1>4, <1>6, <1>7, <1>8 DEF IInv

LEMMA AbortInv ==
    ASSUME CreationAssumption, IInv, NEW w \in Worker, Abort(w), FaultStep,
           UNCHANGED <<dbVars, lock, call, remoteVars, told>>
    PROVE  IInv'
<1>1. scan' = [scan EXCEPT ![w] = NoScan] /\ NoScan \in ScanRec
  BY EmptyRecs DEF Abort
<1>2. scan'[w] = NoScan
  BY <1>1 DEF IInv, Records
<1>3. ScanInv(w)'
  BY <1>2, EndedScan
<1> QED
  BY <1>1, <1>3, ScanMoves

LEMMA ScanStartInv ==
    ASSUME CreationAssumption, IInv, NEW w \in Worker, Scan(w)
    PROVE  IInv'
<1>1. Records /\ ScanInv(w) /\ scan[w] \in ScanRec
  BY DEF IInv, Records
<1> DEFINE r == [scan[w] EXCEPT !.step = "cards", !.rows = row]
<1>2. scan' = [scan EXCEPT ![w] = r]
  BY <1>1 DEF Scan, Records
<1>3. /\ r \in ScanRec /\ r.step = "cards" /\ r.rows = row
      /\ r.due = scan[w].due
  BY <1>1 DEF ScanRec, Records
<1> HIDE DEF r
<1>4. scan'[w] = r
  BY <1>1, <1>2 DEF Records
<1>5. /\ UNCHANGED <<dbVars, lock, call, remoteVars, told>> /\ FaultStep
      /\ UNCHANGED <<task, cards>> /\ task.active
  BY DEF Scan, FaultStep, Fault, dbVars, remoteVars, Working
<1>6. ScanInv(w)'
  BY <1>1, <1>3, <1>4, <1>5 DEF ScanInv, ScanAt, Due, DoneTo, Records
<1> QED
  BY <1>2, <1>3, <1>5, <1>6, ScanMoves

LEMMA ReadCardsInv ==
    ASSUME CreationAssumption, IInv, NEW w \in Worker, ReadCards(w)
    PROVE  IInv'
<1>1. Records /\ ScanInv(w) /\ scan[w] \in ScanRec
  BY DEF IInv, Records
<1> DEFINE r == [scan[w] EXCEPT !.step = "replay", !.chain = cards]
<1>2. scan' = [scan EXCEPT ![w] = r]
  BY <1>1 DEF ReadCards, Records
<1>3. /\ r \in ScanRec /\ r.step = "replay" /\ r.rows = scan[w].rows
      /\ r.chain = cards /\ r.due = scan[w].due
  BY <1>1 DEF ScanRec, Records
<1> HIDE DEF r
<1>4. scan'[w] = r
  BY <1>1, <1>2 DEF Records
<1>5. /\ UNCHANGED <<dbVars, lock, call, remoteVars, told>> /\ FaultStep
      /\ UNCHANGED <<task, cards>> /\ ScanAt(w, "cards")
  BY DEF ReadCards, FaultStep, dbVars, remoteVars
<1>6. Earlier(cards)'
  BY <1>1, <1>5 DEF Earlier, Records, Cards
<1>7. ScanInv(w)'
  BY <1>1, <1>3, <1>4, <1>5, <1>6 DEF ScanInv, ScanAt, Due, DoneTo, Records
<1> QED
  BY <1>2, <1>3, <1>5, <1>7, ScanMoves

\* The replay of a chain, however old, asks for no card but the next.
LEMMA ReplayDue ==
    ASSUME CreationAssumption, IInv, NEW w \in Worker, ScanAt(w, "replay"),
           NEW p \in Project, NEW n \in Replay(w, p)
    PROVE  n \in Nat /\ (n # 0 => Due(p, n))
<1> DEFINE chain == scan[w].chain[p]
           k == Len(chain)
<1>1. /\ chain \in Seq({"open", "done"}) /\ k \in Nat
      /\ cards[p] \in Seq({"open", "done"}) /\ Len(cards[p]) \in Nat
      /\ FlowSteps[p] \in Nat /\ Len(cards[p]) <= FlowSteps[p]
  <2>1. cards \in Cards /\ scan[w].chain \in Cards
    BY DEF IInv, ScanInv, Records
  <2>2. FlowSteps \in [Project -> Nat \ {0}]
    BY DEF CreationAssumption
  <2>3. Len(cards[p]) <= FlowSteps[p]
    BY DEF IInv, Chains
  <2> QED
    BY <2>1, <2>2, <2>3 DEF Cards
<1>2. k <= Len(cards[p])
      /\ \A j \in 1..k : chain[j] = "done" => cards[p][j] = "done"
  BY DEF IInv, ScanInv, Earlier
<1>3. /\ n = 0 \/ n = k + 1
      /\ n # 0 => k # FlowSteps[p] /\ (k > 0 => chain[k] # "open")
  BY <1>1 DEF Replay
<1>4. ASSUME n # 0, n = Len(cards[p]) + 1
      PROVE  DoneTo(p, Len(cards[p]))
  <2>1. k = Len(cards[p]) /\ DoneTo(p, k - 1)
    <3>1. k = Len(cards[p])
      BY <1>1, <1>3, <1>4
    <3>2. DoneTo(p, Len(cards[p]) - 1)
      BY DEF IInv, Chains
    <3> QED
      BY <3>1, <3>2
  <2>2. k > 0 => cards[p][k] = "done"
    <3> SUFFICES ASSUME k > 0 PROVE cards[p][k] = "done"
      OBVIOUS
    <3>1. k \in 1..k /\ chain[k] \in {"open", "done"} /\ chain[k] # "open"
      BY <1>1, <1>3, <1>4
    <3> QED
      BY <1>2, <3>1
  <2>3. \A j \in 1..k : j \in 1..(k - 1) \/ (j = k /\ k > 0)
    BY <1>1
  <2> HIDE DEF k, chain
  <2> QED
    BY <2>1, <2>2, <2>3 DEF DoneTo
<1> HIDE DEF k, chain
<1> QED
  BY <1>1, <1>2, <1>3, <1>4 DEF Due

LEMMA PreflightInv ==
    ASSUME CreationAssumption, IInv, NEW w \in Worker, Preflight(w)
    PROVE  IInv'
<1> DEFINE p == Rows[scan[w].i]
<1>1. Records /\ ScanInv(w) /\ scan[w] \in ScanRec
  BY DEF IInv, Records
<1>2. scan[w].i \in 1..N /\ N \in Nat \ {0} /\ p \in Project
  BY <1>1, Orders DEF ScanRec
<1>3. /\ UNCHANGED <<dbVars, lock, call, remoteVars, told>> /\ FaultStep
      /\ UNCHANGED <<task, cards>> /\ ScanAt(w, "replay")
  BY DEF Preflight, FaultStep, dbVars, remoteVars
<1>4. CASE Abort(w)
  BY <1>3, <1>4, AbortInv
<1> DEFINE i == IF scan[w].i = N THEN 1 ELSE scan[w].i + 1
           s == IF scan[w].i = N THEN "recheck" ELSE scan[w].step
<1>5. ASSUME NEW n \in Replay(w, p),
             scan' = [scan EXCEPT ![w].due[p] = n,
                        ![w].i = IF @ = N THEN 1 ELSE @ + 1,
                        ![w].step = IF scan[w].i = N THEN "recheck" ELSE @]
      PROVE  IInv'
  <2>1. n \in Nat /\ (n # 0 => Due(p, n))
    BY <1>2, <1>3, ReplayDue
  <2> DEFINE due == [scan[w].due EXCEPT ![p] = n]
             r == [scan[w] EXCEPT !.due = due, !.i = i, !.step = s]
  <2>2. scan' = [scan EXCEPT ![w] = r]
    BY <1>1, <1>5 DEF Records, ScanRec
  <2>3. due \in [Project -> Nat]
    BY <1>1, <2>1 DEF ScanRec
  <2>4. \A q \in Project : due[q] # 0 => Due(q, due[q])
    BY <1>1, <2>1 DEF ScanInv, ScanRec
  <2>5. i \in 1..N /\ s \in {"replay", "recheck"}
    BY <1>2, <1>3 DEF ScanAt
  <2> HIDE DEF due, i, s
  <2>6. /\ r \in ScanRec /\ r.step = s /\ r.rows = scan[w].rows
        /\ r.chain = scan[w].chain /\ r.due = due
    BY <1>1, <2>3, <2>5 DEF ScanRec
  <2> HIDE DEF r
  <2>7. scan'[w] = r
    BY <1>1, <2>2 DEF Records
  <2>8. ScanInv(w)'
    BY <1>1, <1>3, <2>4, <2>5, <2>6, <2>7
    DEF ScanInv, ScanAt, Earlier, Due, DoneTo
  <2> QED
    BY <1>3, <2>2, <2>6, <2>8, ScanMoves
<1>6. CASE Guarded(w, p) /\ Replay(w, p) # {}
  BY <1>5, <1>6 DEF Preflight
<1>7. CASE ~ (Guarded(w, p) /\ Replay(w, p) # {})
  BY <1>4, <1>7 DEF Preflight
<1> QED
  BY <1>6, <1>7

LEMMA RecheckInv ==
    ASSUME CreationAssumption, IInv, NEW w \in Worker, Recheck(w)
    PROVE  IInv'
<1>1. Records /\ ScanInv(w) /\ scan[w] \in ScanRec
  BY DEF IInv, Records
<1>2. /\ UNCHANGED <<dbVars, lock, call, remoteVars, told>> /\ FaultStep
      /\ UNCHANGED <<task, cards>> /\ ScanAt(w, "recheck")
  BY DEF Recheck, FaultStep, dbVars, remoteVars
<1>3. CASE Abort(w)
  BY <1>2, <1>3, AbortInv
<1>4. CASE scan' = [scan EXCEPT ![w].step = "tree", ![w].chain = <<>>]
  <2> DEFINE r == [scan[w] EXCEPT !.step = "tree", !.chain = <<>>]
  <2>1. scan' = [scan EXCEPT ![w] = r]
    BY <1>1, <1>4 DEF Records
  <2>2. /\ r \in ScanRec /\ r.step = "tree" /\ r.rows = scan[w].rows
        /\ r.due = scan[w].due
    BY <1>1 DEF ScanRec
  <2> HIDE DEF r
  <2>3. scan'[w] = r
    BY <1>1, <2>1 DEF Records
  <2>4. ScanInv(w)'
    BY <1>1, <1>2, <2>2, <2>3 DEF ScanInv, ScanAt, Due, DoneTo
  <2> QED
    BY <1>2, <2>1, <2>2, <2>4, ScanMoves
<1> QED
  BY <1>3, <1>4 DEF Recheck

LEMMA TreeInv ==
    ASSUME CreationAssumption, IInv, NEW w \in Worker, Tree(w)
    PROVE  IInv'
<1> DEFINE p == Rows[scan[w].i]
<1>1. Records /\ Registry /\ ScanInv(w) /\ scan[w] \in ScanRec
  BY DEF IInv, Records
<1>2. scan[w].i \in 1..N /\ N \in Nat \ {0} /\ p \in Project
  BY <1>1, Orders DEF ScanRec
<1>3. /\ UNCHANGED <<task, lock, call, remoteVars, faults, told>>
      /\ UNCHANGED <<task, issues, items, cards, moved, wire>> /\ FaultStep
      /\ ScanAt(w, "tree")
  BY DEF Tree, FaultStep, remoteVars
<1>4. CASE Abort(w) /\ UNCHANGED row
  BY <1>3, <1>4, AbortInv DEF dbVars
<1> DEFINE i == IF scan[w].i = N THEN 1 ELSE scan[w].i + 1
           s == IF scan[w].i = N THEN "create" ELSE scan[w].step
<1>5. CASE /\ Guarded(w, p)
           /\ row' = [row EXCEPT ![p].state = "running"]
           /\ scan' = [scan EXCEPT ![w].rows[p].state = "running",
                         ![w].i = IF @ = N THEN 1 ELSE @ + 1,
                         ![w].step = IF scan[w].i = N THEN "create" ELSE @]
  <2>1. task.active /\ scan[w].rows \in [Project -> RowRec]
    BY <1>1, <1>3 DEF ScanInv, ScanAt
  <2>2. /\ row' \in [Project -> RowRec]
        /\ row'[p].state = "running"
        /\ \A q \in Project : /\ row'[q].root = row[q].root
                              /\ q # p => row'[q] = row[q]
    <3> DEFINE running == [row[p] EXCEPT !.state = "running"]
    <3>1. row \in [Project -> RowRec]
      BY <1>1 DEF Records
    <3>2. /\ running \in RowRec /\ running.state = "running"
          /\ running.root = row[p].root
      BY <1>2, <3>1 DEF RowRec
    <3>3. row' = [row EXCEPT ![p] = running]
      BY <1>5
    <3> HIDE DEF running
    <3> QED
      BY <1>2, <3>1, <3>2, <3>3
  <2> DEFINE one == [scan[w].rows[p] EXCEPT !.state = "running"]
             rows == [scan[w].rows EXCEPT ![p] = one]
             r == [scan[w] EXCEPT !.rows = rows, !.i = i, !.step = s]
  <2>3. scan' = [scan EXCEPT ![w] = r]
    <3>1. scan[w] = [step |-> scan[w].step, i |-> scan[w].i,
                     rows |-> scan[w].rows, chain |-> scan[w].chain,
                     due |-> scan[w].due]
      BY <1>1 DEF ScanRec
    <3>2. scan \in [Worker -> ScanRec]
      BY <1>1 DEF Records
    <3> QED
      BY <1>5, <3>1, <3>2
  <2>4. one \in RowRec
    BY <1>2, <2>1 DEF RowRec
  <2> HIDE DEF one
  <2>5. rows \in [Project -> RowRec]
    BY <1>2, <2>1, <2>4
  <2>6. i \in 1..N /\ s \in {"tree", "create"}
    BY <1>2, <1>3 DEF ScanAt
  <2> HIDE DEF rows, i, s
  <2>7. /\ r \in ScanRec /\ r.step = s /\ r.rows = rows
        /\ r.due = scan[w].due
    BY <1>1, <2>5, <2>6 DEF ScanRec
  <2> HIDE DEF r
  <2>8. scan' \in [Worker -> ScanRec] /\ scan'[w] = r
        /\ \A v \in Worker \ {w} : scan'[v] = scan[v]
    BY <1>1, <2>3, <2>7 DEF Records
  <2>9. Records'
    BY <1>1, <1>3, <2>2, <2>8 DEF Records
  <2>10. Registry'
    <3>1. ASSUME NEW q \in Project
          PROVE  /\ Rooted(q)'
                 /\ task'.active <=> row'[q].state \in {"ready", "running"}
      <4>1. Rooted(q) /\ row[q].state \in {"ready", "running"}
        BY <1>1, <2>1 DEF Registry
      <4>2. row'[q].state \in {"ready", "running"}
        BY <2>2, <4>1
      <4> QED
        BY <1>3, <2>1, <2>2, <4>1, <4>2 DEF Rooted
    <3> QED
      BY <1>1, <1>3, <2>2, <3>1 DEF Registry
  <2>11. NothingEarly' /\ Unique' /\ Remote' /\ Chains'
    BY <1>3, <2>1
    DEF IInv, NothingEarly, Unique, Remote, Sendable, Chains, DoneTo
  <2>12. Mild(0)
    BY <1>1, <1>3, <2>2 DEF Mild, Records
  <2>13. OneHolder' /\ \A c \in Call : CallInv(c)'
    BY <1>1, <1>3, <2>12, AllCallsKept DEF Records
  <2>14. \A v \in Worker \ {w} : ScanInv(v)'
    BY <1>1, <1>3, <2>8, ScanKept DEF IInv, CardsMove, Records
  <2>15. ScanInv(w)'
    BY <1>1, <1>3, <2>1, <2>5, <2>6, <2>7, <2>8
    DEF ScanInv, ScanAt, Due, DoneTo
  <2> QED
    BY <2>9, <2>10, <2>11, <2>13, <2>14, <2>15 DEF IInv
<1> QED
  BY <1>4, <1>5 DEF Tree

\* Cards are added or answered, one chain at a time.
LEMMA CardsInv ==
    ASSUME CreationAssumption, IInv, cards' \in Cards, CardsMove, Chains',
           UNCHANGED <<dbVars, lock, call, issues, items, moved, wire, faults, told>>,
           scan' \in [Worker -> ScanRec],
           \A w \in Worker : scan'[w] = scan[w] \/ ScanInv(w)',
           task.active \/ cards' = cards
    PROVE  IInv'
<1>1. UNCHANGED <<task, row, lock, call, issues, items, moved, wire, faults, told>>
      /\ Records
  BY DEF dbVars, IInv
<1>2. Records'
  BY <1>1 DEF Records
<1>3. Registry' /\ NothingEarly' /\ Unique' /\ Remote'
  BY <1>1
  DEF IInv, Registry, Rooted, NothingEarly, Meddled, Unique, Remote, Sendable
<1>4. Mild(0)
  BY <1>1 DEF Mild, Records
<1>5. OneHolder' /\ \A c \in Call : CallInv(c)'
  BY <1>1, <1>4, AllCallsKept DEF Records
<1>6. \A w \in Worker : ScanInv(w)'
  BY <1>1, ScanKept DEF IInv
<1> QED
  BY <1>2, <1>3, <1>5, <1>6 DEF IInv

LEMMA CardInv ==
    ASSUME CreationAssumption, IInv, NEW w \in Worker, Card(w)
    PROVE  IInv'
<1> DEFINE p == Rows[scan[w].i]
           n == scan[w].due[p]
<1>1. Records /\ ScanInv(w) /\ scan[w] \in ScanRec /\ cards \in Cards /\ Chains
  BY DEF IInv, Records
<1>2. scan[w].i \in 1..N /\ N \in Nat \ {0} /\ p \in Project /\ n \in Nat
  BY <1>1, Orders DEF ScanRec
<1>3. /\ UNCHANGED <<dbVars, lock, call, issues, items, moved, wire, faults, told>>
      /\ UNCHANGED task /\ FaultStep /\ ScanAt(w, "create") /\ task.active
  BY <1>1 DEF Card, FaultStep, dbVars, ScanInv, ScanAt
<1>4. CASE Abort(w) /\ UNCHANGED cards
  BY <1>3, <1>4, AbortInv DEF remoteVars
<1>5. CASE /\ cards' = IF n > Len(cards[p])
                         THEN [cards EXCEPT ![p] = Append(@, "open")]
                         ELSE cards
           /\ NextCard(w)
  <2> DEFINE next == [scan[w] EXCEPT !.i = scan[w].i + 1]
             r == IF scan[w].i = N THEN NoScan ELSE next
  <2>1. scan' = [scan EXCEPT ![w] = r]
    <3>1. CASE scan[w].i = N
      BY <1>5, <3>1 DEF NextCard, Abort
    <3>2. CASE scan[w].i # N
      BY <1>1, <1>5, <3>2 DEF NextCard, Records
    <3> QED
      BY <3>1, <3>2
  <2>2. scan[w].i # N => /\ next \in ScanRec /\ next.step = "create"
                         /\ next.rows = scan[w].rows /\ next.due = scan[w].due
    BY <1>1, <1>2, <1>3 DEF ScanRec, ScanAt
  <2>3. r \in ScanRec
    BY <2>2, EmptyRecs
  <2> HIDE DEF next, r
  <2>4. scan' \in [Worker -> ScanRec] /\ scan'[w] = r
        /\ \A v \in Worker \ {w} : scan'[v] = scan[v]
    BY <1>1, <2>1, <2>3 DEF Records
  <2>5. \A q \in Project : cards[q] \in Seq({"open", "done"})
    BY <1>1 DEF Cards
  <2>6. cards' \in Cards /\ CardsMove /\ Chains'
    <3>1. CASE n > Len(cards[p])
      <4>1. cards' = [cards EXCEPT ![p] = Append(cards[p], "open")]
        BY <1>5, <3>1
      <4>2. /\ Append(cards[p], "open") \in Seq({"open", "done"})
            /\ cards' \in Cards
            /\ Len(cards'[p]) = Len(cards[p]) + 1
            /\ \A k \in 1..Len(cards[p]) : cards'[p][k] = cards[p][k]
            /\ \A q \in Project \ {p} : cards'[q] = cards[q]
        BY <1>1, <1>2, <2>5, <4>1 DEF Cards
      <4>3. n = Len(cards[p]) + 1 /\ n <= FlowSteps[p] /\ DoneTo(p, Len(cards[p]))
        BY <1>1, <1>2, <2>5, <3>1 DEF ScanInv, Due
      <4>4. CardsMove
        BY <2>5, <4>2 DEF CardsMove
      <4>5. ASSUME NEW q \in Project
            PROVE  /\ Len(cards'[q]) <= FlowSteps[q]
                   /\ \A j \in 1..(Len(cards'[q]) - 1) : cards'[q][j] = "done"
        <5>1. CASE q = p
          BY <2>5, <4>2, <4>3, <5>1 DEF DoneTo
        <5>2. CASE q # p
          BY <1>1, <4>2, <5>2 DEF Chains, DoneTo
        <5> QED
          BY <5>1, <5>2
      <4> QED
        BY <4>2, <4>4, <4>5 DEF Chains, DoneTo
    <3>2. CASE ~ n > Len(cards[p])
      BY <1>1, <1>5, <2>5, <3>2 DEF CardsMove, Chains, DoneTo
    <3> QED
      BY <3>1, <3>2
  <2>7. ScanInv(w)'
    <3>1. CASE scan[w].i = N
      BY <2>4, <3>1, EndedScan DEF r
    <3>2. CASE scan[w].i # N
      <4>1. scan'[w].step = "create" /\ scan'[w].rows = scan[w].rows
            /\ scan'[w].due = scan[w].due
        BY <2>2, <2>4, <3>2 DEF r
      <4>2. ASSUME NEW q \in Project, scan[w].due[q] # 0
            PROVE  Due(q, scan[w].due[q])'
        <5> DEFINE m == scan[w].due[q]
        <5>1. m \in Nat /\ Due(q, m) /\ Len(cards[q]) \in Nat
              /\ Len(cards'[q]) \in Nat
          BY <1>1, <2>5, <2>6, <4>2 DEF ScanInv, ScanRec, Cards
        <5>2. m = Len(cards'[q]) + 1 => DoneTo(q, Len(cards[q]))'
                                        /\ Len(cards'[q]) = Len(cards[q])
          BY <2>6, <5>1 DEF Due, CardsMove, DoneTo
        <5>3. m <= Len(cards'[q]) + 1 /\ m <= FlowSteps[q]
          BY <2>6, <5>1 DEF Due, CardsMove
        <5>4. scan'[w].due[q] = m
          BY <4>1
        <5> HIDE DEF m
        <5> QED
          BY <5>2, <5>3, <5>4 DEF Due, m
      <4> QED
        BY <1>1, <1>3, <4>1, <4>2 DEF ScanInv, ScanAt
    <3> QED
      BY <3>1, <3>2
  <2> QED
    BY <1>3, <2>4, <2>6, <2>7, CardsInv
<1> QED
  BY <1>4, <1>5 DEF Card

LEMMA AgentInv ==
    ASSUME CreationAssumption, IInv, NEW p \in Project, Agent(p)
    PROVE  IInv'
<1>1. Records /\ cards \in Cards /\ Chains /\ NothingEarly
  BY DEF IInv, Records
<1>2. cards[p] \in Seq({"open", "done"}) /\ Len(cards[p]) \in Nat
  BY <1>1 DEF Cards
<1>3. PICK k \in 1..Len(cards[p]) : cards' = [cards EXCEPT ![p][k] = "done"]
  <2>1. DOMAIN cards[p] = 1..Len(cards[p])
    BY <1>2
  <2> QED
    BY <2>1 DEF Agent
<1> DEFINE chain == [cards[p] EXCEPT ![k] = "done"]
<1>4. chain \in Seq({"open", "done"}) /\ Len(chain) = Len(cards[p])
      /\ \A j \in 1..Len(cards[p]) : chain[j] = IF j = k THEN "done" ELSE cards[p][j]
  BY <1>2, <1>3
<1>5. cards' = [cards EXCEPT ![p] = chain]
  BY <1>1, <1>3 DEF Cards
<1> HIDE DEF chain
<1>6. cards' \in Cards /\ cards'[p] = chain
      /\ \A q \in Project \ {p} : cards'[q] = cards[q]
  BY <1>1, <1>4, <1>5 DEF Cards
<1>7. CardsMove
  <2>1. ASSUME NEW q \in Project
        PROVE  /\ Len(cards[q]) <= Len(cards'[q])
               /\ \A j \in 1..Len(cards[q]) :
                     cards[q][j] = "done" => cards'[q][j] = "done"
    <3>1. Len(cards[q]) \in Nat
      BY <1>1 DEF Cards
    <3> QED
      BY <1>2, <1>4, <1>6, <3>1
  <2> QED
    BY <2>1 DEF CardsMove
<1>8. Chains'
  <2>1. ASSUME NEW q \in Project
        PROVE  /\ Len(cards'[q]) <= FlowSteps[q]
               /\ \A j \in 1..(Len(cards'[q]) - 1) : cards'[q][j] = "done"
    <3>1. CASE q = p
      BY <1>1, <1>2, <1>4, <1>6, <3>1 DEF Chains, DoneTo
    <3>2. CASE q # p
      BY <1>1, <1>6, <3>2 DEF Chains, DoneTo
    <3> QED
      BY <3>1, <3>2
  <2> QED
    BY <2>1 DEF Chains, DoneTo
<1>9. task.active
  BY <1>1, <1>2, <1>3 DEF NothingEarly
<1>10. scan' = scan
       /\ UNCHANGED <<dbVars, lock, call, issues, items, moved, wire, faults, told>>
  BY DEF Agent
<1>11. scan' \in [Worker -> ScanRec]
  BY <1>1, <1>10 DEF Records
<1> QED
  BY <1>6, <1>7, <1>8, <1>9, <1>10, <1>11, CardsInv

LEMMA DieWorkerInv ==
    ASSUME CreationAssumption, IInv, NEW w \in Worker, DieWorker(w)
    PROVE  IInv'
<1>1. FaultStep
  BY DEF DieWorker, FaultStep, Fault
<1> QED
  BY <1>1, AbortInv DEF DieWorker

LEMMA WorkerInvs ==
    ASSUME CreationAssumption, IInv, NEW w \in Worker, WorkerStep(w)
    PROVE  IInv'
BY ReadCardsInv, PreflightInv, RecheckInv, TreeInv, CardInv DEF WorkerStep

-----------------------------------------------------------------------------
(* Steps of everybody else                                                 *)

\* Objects that come late or are closed, edited or opened by a person.
LEMMA ObjectsInv ==
    ASSUME CreationAssumption, IInv, Grown(TRUE), FaultStep, wire' \subseteq wire,
           UNCHANGED <<dbVars, lock, call, cards, moved, scan, told>>
    PROVE  IInv'
<1>1. /\ UNCHANGED <<task, row, lock, call, cards, moved, scan, told>>
      /\ Records
  BY DEF dbVars, IInv
<1>2. Records' /\ (Meddled => Meddled')
  BY <1>1, FaultsGrow DEF Records, Grown, FaultStep
<1>3. Registry' /\ NothingEarly' /\ Remote' /\ Chains'
  BY <1>1, <1>2, GrownStores DEF IInv
<1>4. Unique'
  BY <1>1, GrownUnique DEF IInv
<1>5. Mild(0)
  <2>1. ASSUME NEW n \in 1..Len(issues')
        PROVE  issues'[n].late \/ (n \in 1..Len(issues) /\ ~ issues[n].late)
    BY <1>1 DEF Grown, Records
  <2>2. ASSUME NEW n \in 1..Len(items')
        PROVE  \/ items'[n].late
               \/ /\ n \in 1..Len(items) /\ ~ items[n].late
                  /\ items'[n].project = items[n].project
    BY <1>1 DEF Grown, Records
  <2>3. Len(issues) <= Len(issues') /\ Len(items) <= Len(items')
    BY <1>1 DEF Grown, Records
  <2> QED
    BY <1>1, <2>1, <2>2, <2>3 DEF Mild
<1>6. OneHolder' /\ \A c \in Call : CallInv(c)'
  BY <1>1, <1>5, AllCallsKept DEF Grown
<1>7. \A w \in Worker : ScanInv(w)'
  BY <1>1, ScansKept DEF IInv
<1> QED
  BY <1>2, <1>3, <1>4, <1>6, <1>7 DEF IInv

LEMMA ArriveInv ==
    ASSUME CreationAssumption, IInv, Arrive
    PROVE  IInv'
<1>1. PICK w \in wire : /\ wire' = wire \ {w}
                        /\ Put(w.kind, w.p, w.n, TRUE)
                        /\ UNCHANGED <<dbVars, lock, call, cards, moved, scan,
                                       faults, told>>
  BY DEF Arrive
<1>2. Records /\ Remote /\ w \in WriteRec /\ Sendable(w)
  BY DEF IInv, Records, Remote
<1>3. Grown(TRUE)
  BY <1>1, <1>2, PutGrows
<1> QED
  BY <1>1, <1>3, ObjectsInv DEF FaultStep

LEMMA PeopleInv ==
    ASSUME CreationAssumption, IInv,
           \/ \E n \in DOMAIN issues : Close(n) \/ Edit(n)
           \/ \E n \in DOMAIN items : Meddle(n)
    PROVE  IInv'
<1>1. /\ UNCHANGED <<dbVars, lock, call, cards, moved, wire, scan, told>>
      /\ FaultStep
  BY DEF Close, Edit, Meddle, FaultStep, Fault
<1>2. /\ issues \in Seq(Issue) /\ items \in Seq(ItemRec)
      /\ DOMAIN issues = 1..Len(issues) /\ DOMAIN items = 1..Len(items)
      /\ Len(issues) \in Nat /\ Len(items) \in Nat
      /\ \A n \in 1..Len(issues) : issues[n] \in Issue
      /\ \A n \in 1..Len(items) :
            items[n] \in ItemRec /\ items[n].parent \in 1..Len(issues)
  BY DEF IInv, Records, Remote
<1>3. CASE \E n \in DOMAIN issues : Close(n) \/ Edit(n)
  <2>1. PICK n \in 1..Len(issues) : Close(n) \/ Edit(n)
    BY <1>2, <1>3
  <2>2. PICK new \in Issue : /\ issues' = [issues EXCEPT ![n] = new]
                             /\ new.late = issues[n].late
    <3>1. CASE Close(n)
      <4>1. [issues[n] EXCEPT !.open = FALSE] \in Issue
        BY <1>2 DEF Issue
      <4> QED
        BY <1>2, <3>1, <4>1 DEF Close, Issue
    <3>2. CASE Edit(n)
      <4>1. [issues[n] EXCEPT !.body = "edited"] \in Issue
        BY <1>2 DEF Issue
      <4> QED
        BY <1>2, <3>2, <4>1 DEF Edit, Issue
    <3> QED
      BY <2>1, <3>1, <3>2
  <2>3. items' = items
    BY <2>1 DEF Close, Edit
  <2>4. issues' \in Seq(Issue) /\ Len(issues') = Len(issues)
        /\ \A m \in 1..Len(issues) : issues'[m].late = issues[m].late
    BY <1>2, <2>2
  <2>5. Grown(TRUE)
    BY <1>2, <2>3, <2>4 DEF Grown
  <2> QED
    BY <1>1, <2>5, ObjectsInv
<1>4. CASE \E n \in DOMAIN items : Meddle(n)
  <2>1. PICK n \in 1..Len(items) : Meddle(n)
    BY <1>2, <1>4
  <2> DEFINE new == [items[n] EXCEPT !.state = "ready"]
  <2>2. items' = [items EXCEPT ![n] = new] /\ issues' = issues
    BY <1>2, <2>1 DEF Meddle
  <2>3. /\ new \in ItemRec /\ new.late = items[n].late
        /\ new.project = items[n].project /\ new.parent = items[n].parent
    BY <1>2 DEF ItemRec
  <2> HIDE DEF new
  <2>4. items' \in Seq(ItemRec) /\ Len(items') = Len(items)
        /\ \A m \in 1..Len(items) : items'[m] = IF m = n THEN new ELSE items[m]
    BY <1>2, <2>2, <2>3
  <2>5. Meddled'
    <3>1. faults \in Nat
      BY DEF IInv, Records
    <3> QED
      BY <2>1, <3>1 DEF Meddle, Fault, Meddled
  <2>6. \A m \in 1..Len(items) : /\ items'[m].late = items[m].late
                                 /\ items'[m].project = items[m].project
                                 /\ items'[m].parent = items[m].parent
    BY <2>3, <2>4
  <2>7. Grown(TRUE)
    BY <1>2, <2>2, <2>4, <2>5, <2>6 DEF Grown
  <2> QED
    BY <1>1, <2>7, ObjectsInv
<1> QED
  BY <1>3, <1>4

LEMMA PushInv ==
    ASSUME CreationAssumption, IInv, NEW p \in Project, Push(p)
    PROVE  IInv'
<1>1. /\ UNCHANGED <<task, row, lock, call, issues, items, cards, wire, scan, told>>
      /\ FaultStep /\ moved' = moved \cup {p} /\ Records
  BY DEF Push, dbVars, FaultStep, Fault, IInv
<1>2. Records' /\ (Meddled => Meddled')
  BY <1>1, FaultsGrow DEF Records, FaultStep
<1>3. Registry' /\ NothingEarly' /\ Unique' /\ Remote' /\ Chains'
  BY <1>1, <1>2, StoresKept DEF IInv
<1>4. Mild(0)
  BY <1>1 DEF Mild, Records
<1>5. OneHolder' /\ \A c \in Call : CallInv(c)'
  BY <1>1, <1>4, AllCallsKept DEF Records
<1>6. \A w \in Worker : ScanInv(w)'
  BY <1>1, ScansKept DEF IInv
<1> QED
  BY <1>2, <1>3, <1>5, <1>6 DEF IInv

\* A barrier comes between two transactions, and nobody writes while it stands.
LEMMA BarrierInv ==
    ASSUME CreationAssumption, IInv, Barrier \/ Resume
    PROVE  IInv'
<1>1. /\ UNCHANGED <<row, lock, call, issues, items, cards, moved, wire, scan,
                     faults, told>>
      /\ lock = {} /\ Records
  BY DEF Barrier, Resume, remoteVars, Free, IInv
<1>2. /\ task' \in [prepared : BOOLEAN, parent : Nat, active : BOOLEAN,
                    barrier : {"none", "raised", "resumed"}]
      /\ task'.prepared = task.prepared /\ task'.parent = task.parent
      /\ task'.active = task.active
  BY <1>1 DEF Barrier, Resume, Records
<1>3. Records' /\ OneHolder'
  BY <1>1, <1>2 DEF IInv, Records, OneHolder
<1>4. Registry' /\ NothingEarly' /\ Unique' /\ Remote' /\ Chains'
  BY <1>1, <1>2
  DEF IInv, Registry, Rooted, NothingEarly, Meddled, Unique, Remote, Sendable,
      Chains, DoneTo
<1>5. ASSUME NEW c \in Call PROVE CallInv(c)'
  <2>1. CallInv(c) /\ call[c].step \notin Writes
    BY <1>1 DEF IInv, CallInv, Holding
  <2> QED
    BY <1>1, <1>2, <2>1 DEF CallInv, At, ItemOf
<1>6. \A w \in Worker : ScanInv(w)'
  BY <1>1, <1>2, ScansKept DEF IInv
<1> QED
  BY <1>3, <1>4, <1>5, <1>6 DEF IInv

-----------------------------------------------------------------------------
(* The invariant                                                           *)

LEMMA InitInv ==
    ASSUME CreationAssumption, Init
    PROVE  IInv
<1>1. NoCall \in CallRec /\ NoScan \in ScanRec
  BY EmptyRecs
<1>2. MaxFaults \in Nat /\ FlowSteps \in [Project -> Nat \ {0}]
  BY DEF CreationAssumption
<1>3. issues = <<>> /\ items = <<>> /\ Len(issues) = 0 /\ Len(items) = 0
  BY DEF Init
<1>4. Records
  <2>1. task \in [prepared : BOOLEAN, parent : Nat, active : BOOLEAN,
                  barrier : {"none", "raised", "resumed"}]
    BY DEF Init
  <2>2. row \in [Project -> RowRec]
    BY DEF Init, RowRec
  <2>3. call \in [Call -> CallRec] /\ scan \in [Worker -> ScanRec]
    BY <1>1 DEF Init
  <2>4. issues \in Seq(Issue) /\ items \in Seq(ItemRec)
    BY <1>3
  <2>5. cards \in Cards
    <3>1. <<>> \in Seq({"open", "done"})
      OBVIOUS
    <3> QED
      BY <3>1 DEF Init, Cards
  <2>6. moved = {} /\ wire = {} /\ told = FALSE /\ faults = 0
    BY DEF Init
  <2> QED
    <3>1. faults \in 0..MaxFaults
      BY <1>2, <2>6
    <3>2. moved \subseteq Project /\ wire \subseteq WriteRec /\ told \in BOOLEAN
      BY <2>6
    <3> QED
      BY <2>1, <2>2, <2>3, <2>4, <2>5, <3>1, <3>2 DEF Records
<1>5. OneHolder /\ Registry /\ NothingEarly /\ Unique /\ Remote
  BY <1>3
  DEF Init, OneHolder, Registry, Rooted, NothingEarly, Unique, Remote
<1>6. Chains
  BY <1>2 DEF Init, Chains, DoneTo
<1>7. ASSUME NEW c \in Call PROVE CallInv(c)
  <2>1. call[c] = NoCall /\ lock = {}
    BY DEF Init
  <2>2. call[c].parent = 0 /\ call[c].item = 0 /\ call[c].step = "idle"
    BY <2>1 DEF NoCall
  <2>3. <<"call", c>> \notin lock
    BY <2>1
  <2> QED
    BY <1>3, <2>2, <2>3
    DEF CallInv, At, Holding, Writes, PastParent, Releasing
<1>8. \A w \in Worker : ScanInv(w)
  BY DEF Init, ScanInv, ScanAt, NoScan
<1> QED
  BY <1>4, <1>5, <1>6, <1>7, <1>8 DEF IInv

LEMMA StutterInv ==
    ASSUME IInv, UNCHANGED vars
    PROVE  IInv'
<1>1. UNCHANGED <<task, row, lock, call, issues, items, cards, moved, wire,
                  scan, told, faults>>
  BY DEF vars, dbVars, remoteVars
<1>2. Records' /\ OneHolder'
  BY <1>1 DEF IInv, Records, OneHolder
<1>3. Registry' /\ NothingEarly' /\ Unique' /\ Remote' /\ Chains'
  BY <1>1, StoresKept DEF IInv, Meddled
<1>4. \A c \in Call : CallInv(c)'
  BY <1>1 DEF IInv, CallInv, At, ItemOf
<1>5. \A w \in Worker : ScanInv(w)'
  BY <1>1, ScansKept DEF IInv
<1> QED
  BY <1>2, <1>3, <1>4, <1>5 DEF IInv

LEMMA NextInv ==
    ASSUME CreationAssumption, IInv, [Next]_vars
    PROVE  IInv'
<1>1. CASE \E c \in Call : Begin(c) \/ CallStep(c) \/ DieCall(c) \/ Fail(c)
                           \/ Lose(c) \/ Abandon(c)
  BY <1>1, BeginInv, CallInvs, FaultyCallInv
<1>2. CASE \E w \in Worker : Scan(w) \/ WorkerStep(w) \/ DieWorker(w)
  BY <1>2, ScanStartInv, WorkerInvs, DieWorkerInv
<1>3. CASE \E p \in Project : Agent(p) \/ Push(p)
  BY <1>3, AgentInv, PushInv
<1>4. CASE \/ \E n \in DOMAIN issues : Close(n) \/ Edit(n)
           \/ \E n \in DOMAIN items : Meddle(n)
  BY <1>4, PeopleInv
<1>5. CASE Arrive \/ Barrier \/ Resume
  BY <1>5, ArriveInv, BarrierInv
<1>6. CASE UNCHANGED vars
  BY <1>6, StutterInv
<1> QED
  BY <1>1, <1>2, <1>3, <1>4, <1>5, <1>6 DEF Next

\* The invariant holds in every state, whichever calls and runs overlap, die or
\* lose answers.
THEOREM Invariance ==
    ASSUME CreationAssumption
    PROVE  Spec => []IInv
<1>1. Init => IInv
  BY InitInv
<1>2. IInv /\ [Next]_vars => IInv'
  BY NextInv
<1> QED
  BY <1>1, <1>2, PTL DEF Spec

-----------------------------------------------------------------------------
(* Theorems                                                                *)

\* A set without two members.
LEMMA AtMostOne ==
    ASSUME NEW S, \A a, b \in S : a = b
    PROVE  IsFiniteSet(S) /\ Cardinality(S) <= 1
<1>1. CASE S = {}
  BY <1>1, FS_EmptySet
<1>2. CASE S # {}
  <2>1. PICK a \in S : S = {a}
    BY <1>2
  <2> QED
    <3>1. IsFiniteSet({a}) /\ Cardinality({a}) = 1
      BY FS_Singleton
    <3> QED
      BY <2>1, <3>1
<1> QED
  BY <1>1, <1>2

LEMMA TypesFromInv == ASSUME IInv PROVE TypeOK
<1>1. Records /\ Registry /\ OneHolder /\ Remote
  BY DEF IInv
<1>2. /\ issues \in Seq(Issue) /\ items \in Seq(ItemRec)
      /\ DOMAIN issues = 1..Len(issues) /\ DOMAIN items = 1..Len(items)
      /\ Len(issues) \in Nat /\ Len(items) \in Nat
  BY <1>1 DEF Records
<1>3. task \in [prepared : BOOLEAN, parent : DOMAIN issues \cup {0},
                active : BOOLEAN, barrier : {"none", "raised", "resumed"}]
  <2>1. task.parent \in DOMAIN issues \cup {0}
    BY <1>1, <1>2 DEF Registry
  <2> QED
    BY <1>1, <2>1 DEF Records
<1>4. row \in [Project ->
                [state : {"none", "prepared", "bound", "ready", "running"},
                 root : DOMAIN items \cup {0}]]
  <2>1. \A p \in Project :
           row[p] \in RowRec /\ row[p].root \in DOMAIN items \cup {0}
    BY <1>1, <1>2 DEF Records, Registry, Rooted
  <2> QED
    BY <1>1, <2>1 DEF Records, RowRec
<1>5. lock \subseteq {<<"call", c>> : c \in Call} /\ Cardinality(lock) <= 1
  <2>1. \A a, b \in lock : a = b
    BY <1>1 DEF OneHolder
  <2> QED
    BY <1>1, <2>1, AtMostOne DEF OneHolder
<1>6. call \in [Call -> [step : Step, i : 1..N,
                         parent : DOMAIN issues \cup {0},
                         item : DOMAIN items \cup {0}]]
  <2>1. \A c \in Call : call[c] \in CallRec
    BY <1>1 DEF Records
  <2>2. \A c \in Call : call[c].parent \in 0..Len(issues)
                        /\ call[c].item \in 0..Len(items)
    BY DEF IInv, CallInv
  <2>3. \A c \in Call : /\ call[c].parent \in DOMAIN issues \cup {0}
                        /\ call[c].item \in DOMAIN items \cup {0}
    BY <1>2, <2>2
  <2> QED
    BY <1>1, <2>1, <2>3 DEF Records, CallRec
<1>7. \A n \in DOMAIN issues :
         issues[n] \in [open : BOOLEAN, late : BOOLEAN,
                        body : {"blocked", "ready", "edited"}]
  <2>1. \A n \in DOMAIN issues : issues[n] \in Issue
    BY <1>2
  <2> QED
    BY <2>1 DEF Issue
<1>8. \A n \in DOMAIN items :
         items[n] \in [project : Project, parent : DOMAIN issues,
                       state : {"blocked", "ready"}, late : BOOLEAN]
  <2>1. \A n \in DOMAIN items :
           items[n] \in ItemRec /\ items[n].parent \in DOMAIN issues
    BY <1>1, <1>2 DEF Remote
  <2> QED
    BY <2>1 DEF ItemRec
<1>9. \A p \in Project : \A k \in DOMAIN cards[p] :
         cards[p][k] \in {"open", "done"}
  BY <1>1 DEF Records, Cards
<1>10. \A w \in Worker : scan[w].step \in
          {"idle", "cards", "replay", "recheck", "tree", "create"}
  BY <1>1 DEF Records, ScanRec
<1>11. moved \subseteq Project /\ told \in BOOLEAN /\ faults \in 0..MaxFaults
  BY <1>1 DEF Records
<1> QED
  BY <1>3, <1>4, <1>5, <1>6, <1>7, <1>8, <1>9, <1>10, <1>11 DEF TypeOK

\* The database, the calls, the worker runs and what GitHub and Hermes hold
\* keep their types; a call names objects that exist, and the write lock has
\* one holder.
THEOREM TypeCorrect ==
    ASSUME CreationAssumption
    PROVE  Spec => []TypeOK
BY TypesFromInv, Invariance, PTL

LEMMA ObjectsFromInv == ASSUME IInv PROVE OneOfEach
<1>1. Records /\ Unique /\ Chains
  BY DEF IInv
<1>2. DOMAIN issues = 1..Len(issues) /\ DOMAIN items = 1..Len(items)
  BY <1>1 DEF Records
<1>3. Cardinality({n \in DOMAIN issues : ~ issues[n].late}) <= 1
  <2> DEFINE S == {n \in DOMAIN issues : ~ issues[n].late}
  <2>1. \A a, b \in S : a = b
    BY <1>1, <1>2 DEF Unique
  <2> HIDE DEF S
  <2>2. Cardinality(S) <= 1
    BY <2>1, AtMostOne
  <2> QED
    BY <2>2 DEF S
<1>4. ASSUME NEW p \in Project
      PROVE  Cardinality({n \in ItemOf(p) : ~ items[n].late}) <= 1
  <2> DEFINE S == {n \in ItemOf(p) : ~ items[n].late}
  <2>1. \A a, b \in S : a = b
    BY <1>1, <1>2 DEF Unique, ItemOf
  <2> HIDE DEF S
  <2>2. Cardinality(S) <= 1
    BY <2>1, AtMostOne
  <2> QED
    BY <2>2 DEF S
<1>5. ASSUME NEW p \in Project
      PROVE  /\ Len(cards[p]) <= FlowSteps[p]
             /\ \A k \in DOMAIN cards[p] :
                   k < Len(cards[p]) => cards[p][k] = "done"
  <2>1. cards[p] \in Seq({"open", "done"})
    BY <1>1 DEF Records, Cards
  <2>2. DOMAIN cards[p] = 1..Len(cards[p]) /\ Len(cards[p]) \in Nat
    BY <2>1
  <2> QED
    BY <1>1, <2>2 DEF Chains, DoneTo
<1> QED
  BY <1>3, <1>4, <1>5 DEF OneOfEach

\* _ensure_parent and _ensure_project_item make one parent issue and one root
\* item per project, and the worker one chain of cards without a fork, however
\* many calls and runs overlap, die or are repeated; only a write that lands
\* after its call was killed may add to them.
THEOREM ObjectsAreSingle ==
    ASSUME CreationAssumption
    PROVE  Spec => []OneOfEach
BY ObjectsFromInv, Invariance, PTL

LEMMA WorkFromInv == ASSUME IInv PROVE NoEarlyWork
<1>1. Records /\ Registry /\ NothingEarly
  BY DEF IInv
<1>2. DOMAIN items = 1..Len(items)
  BY <1>1 DEF Records
<1>3. CASE task.active
  <2>1. \A p \in Project : row[p].state \in {"ready", "running"} /\ Rooted(p)
    BY <1>1, <1>3 DEF Registry
  <2>2. \A p \in Project : /\ row[p].root \in 1..Len(items)
                           /\ items[row[p].root].project = p
                           /\ items[row[p].root].parent = task.parent
    BY <2>1 DEF Rooted
  <2> QED
    BY <1>2, <1>3, <2>2 DEF NoEarlyWork, ItemOf
<1>4. CASE ~ task.active
  BY <1>1, <1>2, <1>4 DEF NoEarlyWork, NothingEarly, Registry, Meddled
<1> QED
  BY <1>3, <1>4

\* No call of create_task releases an item and no worker run makes a card
\* before each project is bound to its own root under the bound parent and the
\* Task is active; only a person may open an item earlier.
THEOREM WorkWaitsForTheTask ==
    ASSUME CreationAssumption
    PROVE  Spec => []NoEarlyWork
BY WorkFromInv, Invariance, PTL

\* What SafePoint asks of a step.
SafeStep ==
    task.barrier = "raised" /\ wire' = wire /\ faults' = faults =>
       /\ UNCHANGED <<issues, items>>
       /\ \A p \in Project : Len(cards'[p]) = Len(cards[p])

LEMMA SafeSteps == ASSUME CreationAssumption, IInv, Next PROVE SafeStep
<1> DEFINE Same == /\ UNCHANGED <<issues, items>>
                   /\ \A p \in Project : Len(cards'[p]) = Len(cards[p])
<1> SUFFICES ASSUME task.barrier = "raised", wire' = wire, faults' = faults
             PROVE  Same
  BY DEF SafeStep
<1>1. Records /\ \A c \in Call : CallInv(c)
  BY DEF IInv
<1>2. ~ NoBarrier /\ ~ Working /\ \A c \in Call : call[c].step \notin Writes
  BY <1>1 DEF NoBarrier, Working, CallInv
<1>3. faults' # faults + 1
  BY <1>1 DEF Records, CreationAssumption
<1>4. CASE UNCHANGED <<issues, items, cards>>
  BY <1>4
<1>5. ASSUME NEW c \in Call, Begin(c) \/ CallStep(c) PROVE Same
  BY <1>2, <1>4, <1>5
  DEF Begin, CallStep, Parent, CreateParent, BindParent, Item, CreateItem,
      BindItem, Activate, ReleaseItem, OpenItem, Opened, Progress, Show, Shown,
      At, Writes, remoteVars
<1>6. ASSUME NEW c \in Call, DieCall(c) \/ Fail(c) \/ Lose(c) \/ Abandon(c)
      PROVE  Same
  BY <1>3, <1>6 DEF DieCall, Fail, Lose, Abandon, Fault
<1>7. ASSUME NEW w \in Worker, Scan(w) \/ DieWorker(w) \/ ReadCards(w)
                               \/ Preflight(w) \/ Recheck(w) \/ Tree(w)
      PROVE  Same
  BY <1>4, <1>7
  DEF Scan, DieWorker, ReadCards, Preflight, Recheck, Tree, remoteVars
<1>8. ASSUME NEW w \in Worker, Card(w) PROVE Same
  <2> DEFINE p == Rows[scan[w].i]
             n == scan[w].due[p]
  <2>1. ~ Guarded(w, p)
    BY <1>2 DEF Guarded
  <2>2. n \in Nat /\ Len(cards[p]) \in Nat
    <3>1. scan[w] \in ScanRec /\ cards \in Cards
      BY <1>1 DEF Records
    <3>2. p \in Project
      BY <3>1, Orders DEF ScanRec
    <3> QED
      BY <3>1, <3>2 DEF ScanRec, Cards
  <2>3. cards' = cards
    BY <1>8, <2>1, <2>2 DEF Card
  <2> QED
    BY <1>4, <1>8, <2>3 DEF Card
<1>9. ASSUME NEW q \in Project, Agent(q) PROVE Same
  <2>1. cards \in [Project -> Seq({"open", "done"})]
    BY <1>1 DEF Records, Cards
  <2>2. PICK k \in DOMAIN cards[q] : cards' = [cards EXCEPT ![q][k] = "done"]
    BY <1>9 DEF Agent
  <2>3. cards[q] \in Seq({"open", "done"})
    BY <2>1
  <2>4. Len([cards[q] EXCEPT ![k] = "done"]) = Len(cards[q])
    BY <2>3
  <2>5. \A p \in Project : Len(cards'[p]) = Len(cards[p])
    BY <2>1, <2>2, <2>4
  <2> QED
    BY <1>9, <2>5 DEF Agent
<1>10. ASSUME NEW q \in Project, Push(q) PROVE Same
  BY <1>3, <1>10 DEF Push, Fault
<1>11. CASE \/ \E n \in DOMAIN issues : Close(n) \/ Edit(n)
            \/ \E n \in DOMAIN items : Meddle(n)
  BY <1>3, <1>11 DEF Close, Edit, Meddle, Fault
<1>12. ~ Arrive
  BY DEF Arrive
<1>13. CASE Barrier \/ Resume
  BY <1>4, <1>13 DEF Barrier, Resume, remoteVars
<1> QED
  BY <1>5, <1>6, <1>7, <1>8, <1>9, <1>10, <1>11, <1>12, <1>13
  DEF Next, WorkerStep

\* stop_requested and revision_requested come between two transactions, and
\* every later one looks for them first: once one is there no call and no run
\* that is half-way through makes, opens or announces anything.
THEOREM BarrierIsSafe ==
    ASSUME CreationAssumption
    PROVE  Spec => SafePoint
<1>1. IInv /\ [Next]_vars => [SafeStep]_vars
  BY SafeSteps
<1>2. Spec => [][SafeStep]_vars
  BY <1>1, Invariance, PTL DEF Spec
<1> QED
  BY <1>2 DEF SafePoint, SafeStep
=============================================================================
