------------------------- MODULE SubscriptionRunner -------------------------
(* One run of forge/ops/subscription_runner.py: a Codex attempt and at most  *)
(* one continuation by Claude when the subscription of Codex is used up, for *)
(* a worker of a Hermes card or for a skill.  Hermes, the two runtimes and   *)
(* their accounts are external; a run that was killed leaves no child.       *)
EXTENDS Integers, Sequences, SequencesExt

CONSTANTS MaxRuns,    \* runs, one after the other
          MaxEvents,  \* length of the event stream of a Claude attempt
          MaxOrdinary, \* _MAX_CLASSIFIED_EVENTS - _MAX_DECISIVE_EVENTS
          MaxFaults   \* answers of Hermes lost, receipts not written, kills

VARIABLES card,  \* the status of the card in Hermes
          spent, \* whether the Codex subscription is used up just now
          run,   \* the locals of the run, and what happened in it
          count, \* runs so far
          faults

runnerVars == <<card, spent, run, count, faults>>

Modes == {"worker", "codex-skill", "claude-skill"}

EXIT_CONFIGURATION == 78
EXIT_CONTRACT == 70
EXIT_TRANSIENT == 75
EXIT_OTHER == 1  \* any other code: a failing runtime, a traceback, a kill

\* Statuses of a card that ask for no more work; it may also be "running".
Terminal == {"done", "blocked", "triage", "archived"}

\* What a run assumes of its values for them.
RunnerAssumption ==
    MaxRuns \in Nat /\ MaxEvents \in Nat /\ MaxOrdinary \in Nat
    /\ MaxFaults \in Nat

-----------------------------------------------------------------------------
(* The stream of a Claude attempt *)

\* A retry after a rate limit, after a billing error or for another reason; a
\* result that is an error; everything else.
Events == {"rate_limit", "billing_error", "other_retry", "error", "ordinary"}

Streams == UNION {[1 .. n -> Events] : n \in 0 .. MaxEvents}

\* Events of which the first of its kind is kept whatever came before.
Decisive == {"rate_limit", "billing_error", "error"}

\* The reader keeps the first of each decisive kind and so many of the others.
Kept(stream) ==
    LET others == {i \in DOMAIN stream : stream[i] \notin Decisive}
        first(i) == \A j \in 1 .. i - 1 : stream[j] # stream[i]
        kept(i) == IF i \notin others THEN first(i)
                   ELSE Cardinality({j \in others : j < i}) < MaxOrdinary
        indices == SetToSortSeq({i \in DOMAIN stream : kept(i)}, <)
    IN  [n \in DOMAIN indices |-> stream[indices[n]]]

\* The first event that decides, decides.
Classified(events) ==
    LET deciding == SelectInSeq(events, LAMBDA e : e # "ordinary")
    IN  IF deciding = 0 THEN "success"
        ELSE CASE events[deciding] = "rate_limit" -> "subscription_quota"
               [] events[deciding] = "billing_error" -> "billing"
               [] OTHER -> "unknown"

\* The end of a child process: its own code, or a code for a timeout, an
\* interruption, a start that failed or a broken pipe, with the child killed.
Ends ==
    {[code |-> c, failure |-> "none"] :
        c \in {0, EXIT_OTHER, EXIT_CONTRACT, EXIT_TRANSIENT}}
    \cup {[code |-> EXIT_CONTRACT, failure |-> f] :
            f \in {"timeout", "cancelled", "unknown"}}

ClassOfClaude(end, stream) ==
    LET class == Classified(Kept(stream))
    IN  IF end.failure # "none" THEN end.failure
        ELSE IF class = "success" /\ end.code # 0 THEN "unknown"
        ELSE class

ClassOfCodex(end) ==
    IF end.failure # "none" THEN end.failure
    ELSE IF end.code = 0 THEN "success" ELSE "unknown"

-----------------------------------------------------------------------------
(* The run *)

NoRun == [step |-> "over", mode |-> "worker", code |-> 0, attempts |-> <<>>,
          quota |-> FALSE, receipt |-> FALSE, confirmed |-> FALSE,
          deaf |-> FALSE]

Init ==
    /\ card = "running" /\ spent \in BOOLEAN
    /\ run = [NoRun EXCEPT !.code = EXIT_OTHER]
    /\ count = 0 /\ faults = 0

\* A run in progress goes to another step, or to its end with a code.
GoTo(step) == run' = [run EXCEPT !.step = step]
FinishWith(code) == run' = [run EXCEPT !.step = "finish", !.code = code]

\* Hermes starts the worker of its card again until the card is done or
\* archived (external); a skill may be started at any time.  A worker with an
\* incomplete environment or a wrong executable ends with a receipt, a call
\* with wrong arguments without.
FirstStep(mode) ==
    CASE mode = "worker" -> "preflight"
      [] mode = "codex-skill" -> "codex"
      [] mode = "claude-skill" -> "auth"

Begin(mode) ==
    /\ run.step = "over" /\ count < MaxRuns
    /\ mode = "worker" => card \notin {"done", "archived"}
    /\ card' = IF mode = "worker" THEN "running" ELSE card
    /\ run' \in
        {[NoRun EXCEPT !.mode = mode, !.step = FirstStep(mode)],
         [NoRun EXCEPT !.mode = mode, !.code = EXIT_CONFIGURATION]}
        \cup (IF mode = "worker"
              THEN {[NoRun EXCEPT !.mode = mode, !.step = "finish",
                                  !.code = EXIT_CONFIGURATION]}
              ELSE {})
    /\ count' = count + 1
    /\ UNCHANGED <<spent, faults>>

\* What the probe makes of the account: a probe that fails, or an account of
\* another kind, is no quota.
Answers == {spent, FALSE}

\* Before a worker starts Codex, its quota is asked for.
Preflight ==
    /\ run.step = "preflight"
    /\ \E seen \in Answers :
        run' = [run EXCEPT !.step = IF seen THEN "auth" ELSE "codex",
                           !.confirmed = @ \/ spent]
    /\ UNCHANGED <<card, spent, count, faults>>

CodexEnds ==
    /\ run.step = "codex"
    /\ \E end \in Ends :
        LET attempt == [runtime |-> "codex", code |-> end.code,
                        class |-> ClassOfCodex(end)]
            asks == IF run.mode = "worker" THEN end.code = EXIT_TRANSIENT
                    ELSE end.failure = "none"
            step == CASE end.code = 0 /\ run.mode = "worker" -> "status"
                      [] end.code # 0 /\ asks -> "probe"
                      [] OTHER -> "finish"
        IN  run' = [run EXCEPT !.attempts = Append(@, attempt),
                               !.step = step, !.code = end.code]
    /\ UNCHANGED <<card, spent, count, faults>>

\* After a failed attempt the quota decides whether Claude goes on.
Probe ==
    /\ run.step = "probe"
    /\ \E seen \in Answers :
        run' = IF seen
               THEN [run EXCEPT !.step = "auth", !.confirmed = @ \/ spent,
                       !.attempts[1].class = "subscription_quota"]
               ELSE [run EXCEPT !.step = "finish", !.confirmed = @ \/ spent]
    /\ UNCHANGED <<card, spent, count, faults>>

\* Claude needs its configuration and a login of a subscription.
Auth ==
    /\ run.step = "auth"
    /\ GoTo("claude") \/ FinishWith(EXIT_CONFIGURATION)
    /\ UNCHANGED <<card, spent, count, faults>>

ClaudeEnds ==
    /\ run.step = "claude"
    /\ \E end \in Ends, stream \in Streams :
        LET class == ClassOfClaude(end, stream)
            exhausted == class = "subscription_quota"
            worker == run.mode = "worker"
            step == CASE worker /\ exhausted -> "block"
                      [] worker /\ ~exhausted /\ end.code = 0 -> "status"
                      [] OTHER -> "finish"
        IN  run' = [run EXCEPT
                !.attempts = Append(@, [runtime |-> "claude",
                                        code |-> end.code, class |-> class]),
                !.step = step, !.quota = exhausted,
                !.code = IF exhausted THEN EXIT_TRANSIENT ELSE end.code]
    /\ UNCHANGED <<card, spent, count, faults>>

\* Faulty variant: takes the word of the runtime.
Settled_Trusting == TRUE

\* What Hermes says of the card of a runtime that succeeded.
Settled == card \in Terminal

Status ==
    /\ run.step = "status"
    /\ \/ Settled /\ FinishWith(0) /\ faults' = faults
       \/ ~Settled /\ GoTo("block") /\ faults' = faults
       \/ /\ faults < MaxFaults /\ faults' = faults + 1
          /\ run' = [run EXCEPT !.step = "block", !.deaf = TRUE]
    /\ UNCHANGED <<card, spent, count>>

\* Hermes blocks a card that is being worked on and refuses to block another
\* (external); the call fails, or the executable is gone.
Block ==
    /\ run.step = "block"
    /\ \/ /\ card = "running" /\ card' = "blocked"
          /\ FinishWith(IF run.quota THEN 0 ELSE EXIT_CONTRACT)
          /\ faults' = faults
       \/ /\ card # "running" /\ card' = card
          /\ FinishWith(EXIT_CONTRACT) /\ faults' = faults
       \/ /\ faults < MaxFaults /\ faults' = faults + 1 /\ card' = card
          /\ \E code \in {EXIT_CONTRACT, EXIT_CONFIGURATION} :
                run' = [run EXCEPT !.step = "finish", !.deaf = TRUE,
                            !.code = IF run.quota THEN code ELSE EXIT_CONTRACT]
    /\ UNCHANGED <<spent, count>>

\* The receipt comes last; a receipt that cannot be written ends the process.
Finish ==
    /\ run.step = "finish"
    /\ \/ run' = [run EXCEPT !.step = "over", !.receipt = TRUE]
          /\ faults' = faults
       \/ /\ faults < MaxFaults /\ faults' = faults + 1
          /\ run' = [run EXCEPT !.step = "over", !.code = EXIT_OTHER]
    /\ UNCHANGED <<card, spent, count>>

Kill ==
    /\ run.step # "over" /\ faults < MaxFaults /\ faults' = faults + 1
    /\ run' = [run EXCEPT !.step = "over", !.code = EXIT_OTHER]
    /\ UNCHANGED <<card, spent, count>>

-----------------------------------------------------------------------------
(* What happens around a run *)

\* The runtime at work settles the card through the tools of Hermes.
AgentSettles ==
    /\ run.mode = "worker" /\ run.step \in {"codex", "claude"}
    /\ card = "running" /\ card' \in {"done", "blocked", "triage"}
    /\ UNCHANGED <<spent, run, count, faults>>

\* A stop archives the card at any moment.
Archive ==
    /\ card \notin {"done", "archived"} /\ card' = "archived"
    /\ UNCHANGED <<spent, run, count, faults>>

\* Other work uses the subscription up, or its window ends.
QuotaChanges ==
    /\ spent' = ~spent
    /\ UNCHANGED <<card, run, count, faults>>

Next ==
    \/ \E mode \in Modes : Begin(mode)
    \/ Preflight \/ CodexEnds \/ Probe \/ Auth \/ ClaudeEnds
    \/ Status \/ Block \/ Finish \/ Kill
    \/ AgentSettles \/ Archive \/ QuotaChanges

Spec == Init /\ [][Next]_runnerVars

-----------------------------------------------------------------------------
(* Properties *)

Attempt == [runtime : {"codex", "claude"},
            code : {0, EXIT_OTHER, EXIT_CONTRACT, EXIT_TRANSIENT},
            class : {"success", "subscription_quota", "billing", "timeout",
                     "cancelled", "unknown"}]

\* The types, and the order of attempts: Codex, then at most once Claude.
TypeOK ==
    /\ card \in Terminal \cup {"running"} /\ spent \in BOOLEAN
    /\ run.mode \in Modes
    /\ run.step \in {"over", "preflight", "codex", "probe", "auth", "claude",
                     "status", "block", "finish"}
    /\ \A i \in DOMAIN run.attempts : run.attempts[i] \in Attempt
    /\ [i \in DOMAIN run.attempts |-> run.attempts[i].runtime] \in
        {<<>>, <<"codex">>, <<"claude">>, <<"codex", "claude">>}
    /\ count \in 0 .. MaxRuns /\ faults \in 0 .. MaxFaults

\* What a run reports is true however the card, the quota and Hermes change
\* under it.  Claude continues only work for which the Codex subscription was
\* really used up at a probe; a worker that reports success leaves a card that
\* asks for no more work; and if its runtime claimed success, the card is not
\* left running, as long as Hermes answers.
RunReportsTruth ==
    LET worker == run.step = "over" /\ run.mode = "worker"
    IN  /\ run.mode # "claude-skill" /\ run.step = "claude" => run.confirmed
        /\ worker /\ run.receipt /\ run.code = 0 => card \in Terminal
        /\ worker /\ run.receipt /\ ~run.deaf /\ run.attempts # <<>> =>
            (Last(run.attempts).code = 0 => card # "running")
=============================================================================
