----------------------------- MODULE TaskChooser -----------------------------
(***************************************************************************)
(* The conversation that ends in a confirmed Task: TaskSetup, which keeps  *)
(* one draft for each session in memory and runs its Git and GitHub        *)
(* callbacks outside its lock, and the plugin hook before_user_turn, which *)
(* keeps failed inputs, confirmed Tasks and Stop choosers beside it.       *)
(* Turns of the same and of different sessions overlap; every action is    *)
(* one section under a lock, or one call outside all of them.              *)
(***************************************************************************)
EXTENDS Integers, FiniteSets

CONSTANTS
    Session, Turn,
    Trusted,     \* what the context factory may be set to: "none", or
                 \* "context" for trusted Project callbacks
    MaxProjects, \* HARD_MAX_PROJECTS, as small as the instance
    MaxRequests, \* bound on the previews that are prepared
    MaxFaults    \* bound on failing calls, restarts and late answers

\* What a run assumes of its values for them.
ChooserAssumption ==
    /\ Trusted \subseteq {"none", "context"} /\ Trusted # {}
    /\ MaxProjects \in Nat \ {0} /\ MaxRequests \in Nat \ {0}
    /\ MaxFaults \in Nat
    /\ IsFiniteSet(Session) /\ IsFiniteSet(Turn)

Request == 1..MaxRequests
\* Prompts and operation tokens: enough for all that are held at a time.
Id == 1..(3 * Cardinality(Session) + 2 * Cardinality(Turn) + 1)
Stale == -1

VARIABLES
    config,    \* what the context factory is set to
    draft,     \* TaskSetup._drafts
    chats,     \* TaskSetup._chat_sessions
    failed,    \* _failed_inputs
    pending,   \* _pending_tasks
    turn,      \* the turns in progress
    requests,  \* how many previews there were
    confirmed, \* requests whose Confirm was accepted
    checked,   \* requests whose Projects were found unchanged after Confirm
    handed,    \* version 2 requests that left the chooser
    created,   \* requests the Task service has created
    faults

history == <<confirmed, checked, handed, created>>
plugin == <<failed, pending>>
vars == <<config, draft, chats, plugin, turn, requests, history, faults>>

ChoiceSteps == {"mode", "projects", "remote", "branch", "flow", "merge",
                "order", "confirm"}
ProjectSteps == {"projects", "path", "remote", "branch", "branch_name"}
Steps == ChoiceSteps \cup {"none", "path", "branch_name", "content"}
Words == {"/task", "/cancel", "stop", "text", "chat", "task", "one", "two",
          "add_project", "retry", "cancel", "remote", "default_branch",
          "other_branch", "flow", "manual", "full_auto", "confirm",
          "continue_chat"}

NoDraft == [step |-> "none", prompt |-> 0, work |-> 0, first |-> FALSE,
            found |-> 0, chosen |-> 0, left |-> 0, ask |-> 0, made |-> FALSE,
            late |-> FALSE]
NoPending == [ask |-> 0, flying |-> FALSE]
NoInput == [word |-> "none", prompt |-> 0, new |-> FALSE]
Free == [at |-> "free", s |-> "none", input |-> NoInput, context |-> FALSE,
         token |-> 0, step |-> "none", ask |-> 0]

Init ==
    /\ config \in Trusted
    /\ draft = [s \in Session |-> NoDraft] /\ chats = {}
    /\ failed = [s \in Session |-> NoInput]
    /\ pending = [s \in Session |-> NoPending]
    /\ turn = [t \in Turn |-> Free]
    /\ requests = 0 /\ confirmed = {} /\ checked = {} /\ handed = {}
    /\ created = {} /\ faults = 0

Fault == faults < MaxFaults /\ faults' = faults + 1
End(t) == turn' = [turn EXCEPT ![t] = Free]
Structured(input) == input.prompt # 0

\* The smallest identifier nobody holds: uuid4 never repeats one.
Held == (UNION {{draft[s].prompt, draft[s].work, failed[s].prompt} :
                   s \in Session})
        \cup (UNION {{turn[t].input.prompt, turn[t].token} : t \in Turn})
FreshId == CHOOSE i \in Id \ Held : \A j \in Id \ Held : i <= j

\* The choices of a prompt: _choice_prompt.
Choices(d) ==
    IF d.prompt = 0 THEN {} ELSE
    CASE d.step = "mode" -> {"chat", "task"}
      [] d.step = "projects" ->
           IF d.found = 0 THEN {"retry", "add_project", "cancel"}
           ELSE {"one"} \cup {w \in {"two"} : d.found > 1}
                        \cup {w \in {"add_project"} : d.found < MaxProjects}
      [] d.step = "remote" -> {"remote"}
      [] d.step = "branch" -> {"default_branch", "other_branch"}
      [] d.step = "flow" -> {"flow"}
      [] d.step = "merge" -> {"manual", "full_auto"}
      [] d.step = "order" -> {"one"}
      [] OTHER -> {"confirm", "cancel"}

-----------------------------------------------------------------------------
(* TaskSetup: what one answer does to the draft, under its lock *)

\* _refresh: a new prompt, if the step has one, and a new deadline.
Refresh(d) ==
    [d EXCEPT !.prompt = IF d.step \in ChoiceSteps THEN FreshId ELSE 0,
              !.late = FALSE]

Move(d, step) == Refresh([d EXCEPT !.step = step])

\* The choices that follow the Projects are made again.
Reset(d, found) ==
    [d EXCEPT !.step = "projects", !.found = found, !.chosen = 0, !.left = 0,
              !.ask = 0, !.made = FALSE, !.work = 0]

NewDraft(first) ==
    Refresh([NoDraft EXCEPT !.step = IF first THEN "mode" ELSE "flow",
                            !.first = first])

\* A work result is applied only to the draft it was started from, as it was
\* then.  Its token outlives no refresh, so that it stands for the prompt and
\* the generation, which the code compares as well.

\* Faulty variant: it is applied to whatever draft the session has now.
Matching_AnyDraft(d, w) == d.step = w.step

Matching(d, w) == d.step = w.step /\ ~ d.late /\ d.work = w.token

\* Outcomes of a section under the TaskSetup lock, for session s and turn t.
Store(s, d) ==
    draft' = [draft EXCEPT ![s] = d] /\ chats' = chats \ {s}
EnterChat(s) ==
    draft' = [draft EXCEPT ![s] = NoDraft] /\ chats' = chats \cup {s}
Keep == UNCHANGED <<draft, chats>>

\* With Project callbacks the answer is delivered in a section of its own.
Answered(t) ==
    turn' = [turn EXCEPT ![t] =
       IF @.context THEN [Free EXCEPT !.at = "deliver", !.s = turn[t].s]
                    ELSE Free]
NoRequest == UNCHANGED <<pending, requests, history>>

\* Work outside the lock, bound to the draft it leaves behind.
Working(t, p) ==
    turn' = [turn EXCEPT ![t].at = "work", ![t].token = p.work,
                         ![t].step = p.step, ![t].ask = p.ask,
                         ![t].input = NoInput]
StartWork(t, s, d) ==
    LET p == [d EXCEPT !.work = FreshId] IN
    /\ Store(s, p)
    /\ Working(t, p)
    /\ NoRequest

Discover(t, s, d) == StartWork(t, s, [Reset(d, 0) EXCEPT !.prompt = 0,
                                                         !.late = FALSE])

Shown(t, s, d) == Store(s, d) /\ Answered(t) /\ NoRequest
Left(t, s) == EnterChat(s) /\ Answered(t) /\ NoRequest
Ignored(t) == Keep /\ Answered(t) /\ NoRequest

\* _prepare_preview: a request id of its own for every preview.  Version 1
\* needs the configured repository and fails without it.
Preview(t, s, d) ==
    /\ requests < MaxRequests
    /\ requests' = requests + 1 /\ UNCHANGED <<pending, history>>
    /\ Store(s, Move([d EXCEPT !.ask = requests + 1, !.made = FALSE],
                     "confirm"))
    /\ Answered(t)

Content(t, s, d) ==
    IF d.first THEN Preview(t, s, d) ELSE Shown(t, s, Move(d, "content"))

Mode(t, s, d, word) ==
    CASE word = "chat" -> Left(t, s)
      [] word = "task" ->
           IF turn[t].context THEN Discover(t, s, d)
           ELSE Shown(t, s, Move(Reset(d, 0), "flow"))
      [] OTHER -> Shown(t, s, Refresh(d))

\* What was found is not looked at any more once the user has chosen.
Projects(t, s, d, word) ==
    CASE d.work # 0 -> Ignored(t)
      [] d.work = 0 /\ word = "add_project" ->
           IF d.found < MaxProjects /\ turn[t].context
             THEN Shown(t, s, Move(Reset(d, d.found), "path"))
             ELSE Ignored(t)
      [] d.work = 0 /\ d.found = 0 /\ word = "cancel" -> Left(t, s)
      [] d.work = 0 /\ d.found = 0 /\ word = "retry" ->
           IF turn[t].context THEN Discover(t, s, d) ELSE Ignored(t)
      [] d.work = 0 /\ word = "one" /\ d.found > 0 ->
           Shown(t, s, Move([Reset(d, 0) EXCEPT !.chosen = 1], "flow"))
      [] d.work = 0 /\ word = "two" /\ d.found > 1 ->
           Shown(t, s, Move([Reset(d, 0) EXCEPT !.chosen = 2], "flow"))
      [] OTHER -> Ignored(t)

\* The path, the remote and the branch of a Project that is added by hand.
Path(t, s, d) ==
    IF d.work # 0 \/ ~ turn[t].context THEN Ignored(t)
    ELSE StartWork(t, s, Refresh(d))

Bind(t, s, d) ==
    IF turn[t].context
      THEN StartWork(t, s, [d EXCEPT !.prompt = 0, !.late = FALSE])
      ELSE Ignored(t)

Branch(t, s, d, word) ==
    CASE d.work # 0 -> Ignored(t)
      [] d.work = 0 /\ word = "other_branch" ->
           Shown(t, s, Move(d, "branch_name"))
      [] d.work = 0 /\ word = "default_branch" -> Bind(t, s, d)
      [] OTHER -> Shown(t, s, Refresh(d))

Merge(t, s, d, word) ==
    CASE word = "full_auto" /\ d.chosen > 1 ->
           Shown(t, s, Move([d EXCEPT !.left = d.chosen], "order"))
      [] word \in {"manual", "full_auto"} /\ (word = "manual" \/ d.chosen < 2) ->
           Content(t, s, d)
      [] OTHER -> Shown(t, s, Refresh(d))

Order(t, s, d, word) ==
    CASE word = "one" /\ d.left > 1 ->
           Shown(t, s, Refresh([d EXCEPT !.left = @ - 1]))
      [] word = "one" /\ d.left = 1 ->
           Content(t, s, [d EXCEPT !.left = 0])
      [] OTHER -> Ignored(t)

\* _finish_task: a version 1 request leaves the chooser.  Without callbacks
\* it gets its place among the pending Tasks in the same section.
Accept(t, s, ask) ==
    IF turn[t].context
      THEN /\ turn' = [turn EXCEPT ![t].at = "deliver", ![t].ask = ask]
           /\ UNCHANGED pending
      ELSE /\ turn' = [turn EXCEPT ![t].at = "serve", ![t].ask = ask]
           /\ pending' = [pending EXCEPT ![s] = [ask |-> ask, flying |-> TRUE]]

Finish(t, s, d) ==
    /\ EnterChat(s) /\ Accept(t, s, d.ask)
    /\ confirmed' = confirmed \cup {d.ask}
    /\ UNCHANGED <<requests, checked, handed, created>>

\* Version 2 has its Projects validated first.
Validate(t, s, d) ==
    LET p == [d EXCEPT !.made = TRUE, !.work = FreshId] IN
    /\ Store(s, p) /\ confirmed' = confirmed \cup {d.ask}
    /\ Working(t, p)
    /\ UNCHANGED <<pending, requests, checked, handed, created>>

Confirm(t, s, d, word) ==
    CASE word = "cancel" -> Left(t, s)
      [] word # "cancel" /\ d.work # 0 -> Ignored(t)
      [] d.work = 0 /\ word \notin {"cancel", "confirm"} ->
           Shown(t, s, Refresh(d))
      [] d.work = 0 /\ word = "confirm" /\ d.chosen = 0 -> Finish(t, s, d)
      [] OTHER -> IF turn[t].context THEN Validate(t, s, d)
                  ELSE Shown(t, s, Refresh(Reset(d, 0)))

Step(t, s, d, word) ==
    CASE d.step = "mode" -> Mode(t, s, d, word)
      [] d.step = "projects" -> Projects(t, s, d, word)
      [] d.step = "path" -> Path(t, s, d)
      [] d.step = "remote" ->
           Shown(t, s, IF word = "remote" THEN Move(d, "branch")
                                          ELSE Refresh(d))
      [] d.step = "branch" -> Branch(t, s, d, word)
      [] d.step = "branch_name" ->
           IF d.work # 0 THEN Ignored(t) ELSE Bind(t, s, d)
      [] d.step = "flow" ->
           Shown(t, s, IF word = "flow"
                         THEN Move([d EXCEPT !.ask = 0, !.made = FALSE],
                                   "merge")
                         ELSE Refresh(d))
      [] d.step = "merge" -> Merge(t, s, d, word)
      [] d.step = "order" -> Order(t, s, d, word)
      [] d.step = "content" -> Preview(t, s, d)
      [] OTHER -> Confirm(t, s, d, word)

\* handle: a text, on a draft that is not too old.
HandleText(t, s, input) ==
    LET old == draft[s] IN
    LET d == IF input.new \/ old.late THEN NoDraft ELSE old IN
    CASE input.word = "/task" ->
           IF turn[t].context THEN Discover(t, s, NewDraft(FALSE))
           ELSE Shown(t, s, NewDraft(FALSE))
      [] input.word = "/cancel" -> Left(t, s)
      [] input.word \notin {"/task", "/cancel"} /\ d = NoDraft ->
           IF s \in chats /\ ~ input.new /\ ~ old.late
             THEN Ignored(t)
             ELSE Shown(t, s, NewDraft(TRUE))
      [] OTHER -> Step(t, s, d, input.word)

\* handle_submission: a choice counts only for the prompt it was shown with.
HandleSubmission(t, s, input) ==
    LET d == draft[s] IN
    CASE input.new ->
           /\ draft' = [draft EXCEPT ![s] = NoDraft]
           /\ chats' = chats \ {s} /\ Answered(t) /\ NoRequest
      [] ~ input.new /\ d.prompt = input.prompt /\ ~ d.late ->
           Step(t, s, d, input.word)
      [] OTHER -> Ignored(t)

Handle(t, s, input) == IF Structured(input) THEN HandleSubmission(t, s, input)
                                            ELSE HandleText(t, s, input)

-----------------------------------------------------------------------------
(* before_user_turn: the sections of one turn *)

\* A text, one of the choices in sight with its prompt (or by its text, where
\* that makes a difference), or an answer to a prompt of long ago.  Every word
\* that is none of these does what "text" does.
Input(s) ==
    [word : {"/task", "text"}, prompt : {0}, new : BOOLEAN]
    \cup [word : {"/cancel", "confirm"}, prompt : {0}, new : {FALSE}]
    \cup [word : Choices(draft[s]), prompt : {draft[s].prompt}, new : {FALSE}]
    \cup [word : {w \in {"task", "retry", "cancel", "continue_chat"} :
                     \/ w \in Choices(draft[s])
                     \/ failed[s] # NoInput \/ pending[s] # NoPending},
          prompt : {0}, new : {FALSE}]
    \cup [word : {"confirm"}, prompt : {Stale}, new : {FALSE}]

Onward(t, s, input) ==
    turn' = [turn EXCEPT ![t].at = "peek", ![t].s = s, ![t].input = input]

\* Retry and Cancel of a Task the service failed to create.
Resume(t, s) ==
    /\ ~ pending[s].flying
    /\ turn' = [turn EXCEPT ![t].at = "serve", ![t].s = s,
                            ![t].ask = pending[s].ask]
    /\ pending' = [pending EXCEPT ![s].flying = TRUE]

PendingTurn(t, s, word) ==
    \/ word = "retry" /\ Resume(t, s)
    \/ /\ word \in {"cancel", "/cancel"} /\ ~ pending[s].flying
       /\ pending' = [pending EXCEPT ![s] = NoPending]
       /\ UNCHANGED turn
    \/ /\ word \notin {"retry", "cancel", "/cancel"} \/ pending[s].flying
       /\ UNCHANGED <<turn, pending>>

\* Structured answers and new sessions pass by what is pending or failed.
Admit(t, s, input) ==
    \/ /\ Structured(input) \/ input.new
       /\ failed' = IF input.new THEN [failed EXCEPT ![s] = NoInput] ELSE failed
       /\ Onward(t, s, input) /\ Keep /\ UNCHANGED pending
    \/ /\ ~ Structured(input) /\ ~ input.new /\ pending[s] # NoPending
       /\ PendingTurn(t, s, input.word) /\ Keep /\ UNCHANGED failed
    \/ /\ ~ Structured(input) /\ ~ input.new /\ pending[s] = NoPending
       /\ UNCHANGED pending
       /\ CASE failed[s] = NoInput ->
                 Onward(t, s, input) /\ Keep /\ UNCHANGED failed
            [] failed[s] # NoInput /\ input.word = "continue_chat" ->
                 /\ failed' = [failed EXCEPT ![s] = NoInput]
                 /\ EnterChat(s) /\ UNCHANGED turn
            [] failed[s] # NoInput /\ input.word = "retry" ->
                 /\ failed' = [failed EXCEPT ![s] = NoInput]
                 /\ Onward(t, s, failed[s]) /\ Keep
            [] OTHER -> Keep /\ UNCHANGED <<turn, failed>>

\* Turns overlap the validation of confirmed Projects freely; overlapping
\* anything else is what the bound on faults is spent on.
Quiet(u) ==
    turn[u].at = "free" \/ (turn[u].at = "work" /\ turn[u].step = "confirm")

Start(t, s) ==
    /\ turn[t] = Free
    /\ IF \A u \in Turn : Quiet(u) THEN UNCHANGED faults ELSE Fault
    /\ \E input \in Input(s) : Admit(t, s, input)
    /\ UNCHANGED <<config, requests, confirmed, checked, handed, created>>

\* The draft is looked at, outside the plugin's lock: does the answer need the
\* trusted context?
Cancels(input, d) ==
    \/ ~ Structured(input) /\ input.word = "/cancel"
    \/ /\ input.word = "cancel" /\ "cancel" \in Choices(d)
       /\ Structured(input) => input.prompt = d.prompt

NeedsContext(input, d) ==
    /\ ~ Cancels(input, d)
    /\ \/ ~ input.new /\ ~ d.late /\ d.step \in ProjectSteps
       \/ ~ Structured(input) /\ input.word = "/task"
       \/ /\ input.word \in {"task", "retry", "confirm"}
          /\ Structured(input) \/ input.word \in Choices(d)

Peek(t) ==
    LET s == turn[t].s IN
    LET input == turn[t].input IN
    LET d == draft[s] IN
    LET needs == NeedsContext(input, d) IN
    /\ turn[t].at = "peek"
    /\ IF /\ Structured(input) /\ ~ input.new
          /\ d.prompt # input.prompt \/ d.late
         THEN /\ failed' = [failed EXCEPT ![s] = NoInput]
              /\ End(t) /\ UNCHANGED faults
         ELSE \/ /\ needs /\ Fault
                 /\ failed' = [failed EXCEPT ![s] = input] /\ End(t)
              \/ /\ turn' = [turn EXCEPT ![t].at = "apply",
                        ![t].context = needs /\ config = "context"]
                 /\ UNCHANGED <<failed, faults>>
    /\ UNCHANGED <<config, draft, chats, pending, requests, history>>

\* Without callbacks the plugin's lock is held over the chooser's section.
Apply(t) ==
    LET s == turn[t].s IN
    LET input == turn[t].input IN
    /\ turn[t].at = "apply"
    /\ \/ /\ Handle(t, s, input) /\ UNCHANGED faults
          /\ failed' = IF turn[t].context THEN failed
                       ELSE [failed EXCEPT ![s] = NoInput]
       \/ /\ ~ turn[t].context
          /\ draft[s].step \in {"merge", "order", "content"}
          /\ Fault /\ failed' = [failed EXCEPT ![s] = input]
          /\ End(t) /\ Keep /\ NoRequest
    /\ UNCHANGED config

\* _resolve_work: the callback has answered, or failed.
Found(s, d) ==
    \E n \in 0..MaxProjects : Store(s, Refresh(Reset(d, n)))
Probed(s, d) ==
    \/ Store(s, Move([d EXCEPT !.work = 0], "remote")) /\ UNCHANGED faults
    \/ Store(s, Refresh([d EXCEPT !.work = 0])) /\ Fault
Bound(s, d) ==
    \/ /\ d.found < MaxProjects
       /\ Store(s, Refresh(Reset(d, d.found + 1))) /\ UNCHANGED faults
    \/ Store(s, Move([d EXCEPT !.work = 0], "projects")) /\ UNCHANGED faults
    \/ Store(s, Refresh([d EXCEPT !.work = 0])) /\ Fault
Validated(w, s, d) ==
    \/ /\ Store(s, [d EXCEPT !.work = 0]) /\ UNCHANGED faults
       /\ checked' = checked \cup {w.ask}
       /\ handed' = IF d.made THEN handed \cup {d.ask} ELSE handed
    \/ /\ Store(s, Refresh(Reset(d, 0))) /\ Fault
       /\ UNCHANGED <<checked, handed>>

Work(t) ==
    LET s == turn[t].s IN
    LET w == turn[t] IN
    LET d == draft[s] IN
    /\ w.at = "work" /\ Answered(t)
    /\ IF ~ Matching(d, w) THEN Keep /\ UNCHANGED <<checked, handed, faults>>
       ELSE \/ /\ w.step = "projects" /\ Found(s, d)
               /\ UNCHANGED <<checked, handed, faults>>
            \/ /\ w.step = "path" /\ Probed(s, d)
               /\ UNCHANGED <<checked, handed>>
            \/ /\ w.step \in {"branch", "branch_name"} /\ Bound(s, d)
               /\ UNCHANGED <<checked, handed>>
            \/ w.step = "confirm" /\ Validated(w, s, d)
    /\ UNCHANGED <<config, plugin, requests, confirmed, created>>

Deliver(t) ==
    LET s == turn[t].s IN
    /\ turn[t].at = "deliver"
    /\ failed' = [failed EXCEPT ![s] = NoInput]
    /\ IF turn[t].ask # 0
         THEN /\ turn' = [turn EXCEPT ![t].at = "serve"]
              /\ pending' = [pending EXCEPT ![s] = [ask |-> turn[t].ask,
                                                   flying |-> TRUE]]
         ELSE End(t) /\ UNCHANGED pending
    /\ UNCHANGED <<config, draft, chats, requests, history, faults>>

\* _finish_task_service_call: the service is called outside every lock.
Serve(t) ==
    LET s == turn[t].s IN
    LET ask == turn[t].ask IN
    /\ turn[t].at = "serve" /\ End(t)
    /\ \/ /\ created' = created \cup {ask}
          /\ pending' = IF pending[s].ask = ask
                          THEN [pending EXCEPT ![s] = NoPending] ELSE pending
          /\ UNCHANGED faults
       \/ /\ Fault /\ UNCHANGED created
          /\ pending' = IF pending[s].ask = ask
                          THEN [pending EXCEPT ![s].flying = FALSE]
                          ELSE pending
    /\ UNCHANGED <<config, draft, chats, failed, requests, confirmed,
                   checked, handed>>

TimePasses(s) ==
    /\ draft[s] # NoDraft /\ ~ draft[s].late /\ Fault
    /\ draft' = [draft EXCEPT ![s].late = TRUE]
    /\ UNCHANGED <<config, chats, plugin, turn, requests, history>>

\* Everything the chooser and the plugin know is in memory.
Restart ==
    /\ Fault
    /\ draft' = [s \in Session |-> NoDraft] /\ chats' = {}
    /\ failed' = [s \in Session |-> NoInput]
    /\ pending' = [s \in Session |-> NoPending]
    /\ turn' = [t \in Turn |-> Free]
    /\ UNCHANGED <<config, requests, confirmed, checked, handed, created>>

Next ==
    \/ \E t \in Turn :
         \/ \E s \in Session : Start(t, s)
         \/ Peek(t) \/ Apply(t) \/ Work(t) \/ Deliver(t)
         \/ Serve(t)
    \/ \E s \in Session : TimePasses(s)
    \/ Restart

Spec == Init /\ [][Next]_vars

-----------------------------------------------------------------------------
(* Properties *)

TypeOK ==
    /\ config \in Trusted /\ chats \subseteq Session
    /\ draft \in [Session ->
         [step : Steps, prompt : {0} \cup Id, work : {0} \cup Id,
          first : BOOLEAN, found : 0..MaxProjects, chosen : 0..2, left : 0..2,
          ask : {0} \cup Request, made : BOOLEAN, late : BOOLEAN]]
    /\ failed \in [Session -> [word : Words \cup {"none"},
                               prompt : {0, Stale} \cup Id, new : BOOLEAN]]
    /\ pending \in [Session -> [ask : {0} \cup Request, flying : BOOLEAN]]
    /\ \A t \in Turn :
         /\ turn[t].at \in {"free", "peek", "apply", "work",
                            "deliver", "serve"}
         /\ turn[t].ask \in {0} \cup Request
    /\ requests \in 0..MaxRequests /\ faults \in 0..MaxFaults

\* Whatever turns overlap, a request leaves the chooser only if the user has
\* confirmed the very preview that shows it and, with Projects, after these
\* Projects were found unchanged; and the Task service is never called twice at
\* a time for one request, nor again once it has created it.
OnlyConfirmedTasks ==
    /\ handed \subseteq confirmed \cap checked
    /\ \A t \in Turn : turn[t].at = "serve" =>
          /\ turn[t].ask \in confirmed \ created
          /\ \A u \in Turn \ {t} :
               turn[u].at = "serve" => turn[u].ask # turn[t].ask

=============================================================================
